----------------------------- MODULE StreamSinks -----------------------------
(***************************************************************************)
(* The four wires the bridge speaks: chunks of one stream to the lines of  *)
(* a response.  StreamWires has the adapters that read such lines back.    *)
(***************************************************************************)
EXTENDS StreamWires

(***************************************************************************)
(* index: tool id to block or tool index; next: the next free index;       *)
(* text: the open text block or item, 0 for none; output, tool, toolArgs,  *)
(* messages: the items of a Responses answer, the one whose arguments      *)
(* arrive, those arguments, and the assistant messages to remember.        *)
(***************************************************************************)
Wire == [index |-> <<>>, next |-> 1, text |-> 0, output |-> <<>>, tool |-> 0, toolArgs |-> <<>>,
         messages |-> <<>>, reason |-> "stop", usage |-> NoUsage]

Emits(s, lines) == [to |-> s, out |-> lines]
PerPiece(c, Line(_)) == [i \in DOMAIN c.text |-> Line(c.text[i])]

mapFinishReasonOpenAI(r) == IF r = "tool-calls" THEN "tool_calls" ELSE r
toAnthropicStopReason(r) == CASE r = "length" -> "max_tokens" [] r = "tool-calls" -> "tool_use" [] OTHER -> "end_turn"

OpenAIWire(s, c) ==
    CASE c.type = "text" -> Emits(s, PerPiece(c, LAMBDA p : [t |-> "content", text |-> p]))
      [] c.type = "start" ->
            Emits([s EXCEPT !.index = Put(@, c.id, s.next), !.next = @ + 1],
                  <<[t |-> "tool", index |-> s.next, id |-> c.id, name |-> c.name, args |-> <<>>]>>)
      [] c.type = "args" ->
            Emits(s, <<[t |-> "tool", index |-> IF Has(s.index, c.id) THEN At(s.index, c.id) ELSE 1,
                        id |-> NoId, name |-> NoName, args |-> c.args]>>)
      [] c.type = "finish" -> Emits(s, <<[t |-> "finish", reason |-> mapFinishReasonOpenAI(c.reason), usage |-> c.usage]>>)
      [] OTHER -> Emits(s, <<>>)

\* The bridge adds a finish of its own whether or not one was sent.
OpenAITail(s) == Emits(s, <<[t |-> "finish", reason |-> "stop", usage |-> NoUsage], [t |-> "DONE"]>>)

AnthropicWire(s, c) ==
    CASE c.type = "text" ->
            LET fresh == s.text = 0
                at    == IF fresh THEN s.next ELSE s.text
            IN  Emits([s EXCEPT !.text = at, !.next = IF fresh THEN @ + 1 ELSE @],
                      (IF fresh THEN <<[t |-> "block_start", kind |-> "text", index |-> at]>> ELSE <<>>)
                      \o PerPiece(c, LAMBDA p : [t |-> "text_delta", index |-> at, text |-> p]))
      [] c.type = "start" ->
            Emits([s EXCEPT !.index = Put(@, c.id, s.next), !.next = @ + 1],
                  <<[t |-> "block_start", kind |-> "tool_use", index |-> s.next, id |-> c.id, name |-> c.name]>>)
      [] c.type = "args" /\ Has(s.index, c.id) ->
            Emits(s, <<[t |-> "json_delta", index |-> At(s.index, c.id), args |-> c.args]>>)
      [] c.type = "end" /\ Has(s.index, c.id) -> Emits(s, <<[t |-> "block_stop", index |-> At(s.index, c.id)]>>)
      [] c.type = "finish" -> Emits([s EXCEPT !.reason = toAnthropicStopReason(c.reason), !.usage = c.usage], <<>>)
      [] OTHER -> Emits(s, <<>>)

AnthropicTail(s) ==
    Emits(s, (IF s.text # 0 THEN <<[t |-> "block_stop", index |-> s.text]>> ELSE <<>>)
             \o <<[t |-> "message_delta", reason |-> IF s.reason = "stop" THEN "end_turn" ELSE s.reason, usage |-> s.usage],
                  [t |-> "message_stop"]>>)

GeminiWire(s, c) ==
    CASE c.type = "text" -> Emits(s, PerPiece(c, LAMBDA p : [t |-> "text", text |-> p]))
      [] c.type = "start" -> Emits(s, <<[t |-> "functionCall", id |-> c.id, name |-> c.name]>>)
      [] c.type = "args" -> Emits(s, <<[t |-> "functionArgs", args |-> c.args]>>)
      [] c.type = "finish" -> Emits([s EXCEPT !.reason = c.reason, !.usage = c.usage], <<>>)
      [] OTHER -> Emits(s, <<>>)

GeminiTail(s) == Emits(s, <<[t |-> "last", reason |-> s.reason, usage |-> s.usage]>>)

-----------------------------------------------------------------------------
(* The Responses wire: items, and the turn the bridge will remember. *)

Item(i) == <<"item", i>>
AssistantText(s) == [text |-> s, calls |-> <<>>]
AssistantCall(id, name, args) == [text |-> <<>>, calls |-> <<[id |-> id, name |-> name, args |-> args]>>]

completeTextItem(s) ==
    IF s.text = 0 THEN Emits(s, <<>>)
    ELSE Emits([s EXCEPT !.text = 0, !.output[s.text].status = "completed",
                         !.messages = Append(@, AssistantText(s.output[s.text].text))],
               <<[t |-> "item_done", kind |-> "message", item |-> Item(s.text)]>>)

completeToolItem(s) ==
    IF s.tool = 0 THEN Emits(s, <<>>)
    ELSE LET item == s.output[s.tool]
         IN  Emits([s EXCEPT !.tool = 0, !.output[s.tool].status = "completed", !.output[s.tool].args = s.toolArgs,
                             !.messages = Append(@, AssistantCall(item.call, item.name, s.toolArgs))],
                   <<[t |-> "item_done", kind |-> "call", item |-> Item(s.tool), call |-> item.call, args |-> s.toolArgs]>>)

Completed(s) == LET text == completeTextItem(s)
                    tool == completeToolItem(text.to)
                IN  Emits(tool.to, text.out \o tool.out)

ResponsesText(s, c) ==
    LET fresh == s.text = 0
        at    == IF fresh THEN Len(s.output) + 1 ELSE s.text
        out   == IF fresh THEN Append(s.output, [kind |-> "message", text |-> <<>>, status |-> "in_progress"]) ELSE s.output
    IN  Emits([s EXCEPT !.text = at, !.output = [out EXCEPT ![at].text = @ \o c.text]],
              (IF fresh THEN <<[t |-> "item_added", kind |-> "message", item |-> Item(at)]>> ELSE <<>>)
              \o PerPiece(c, LAMBDA p : [t |-> "text_delta", text |-> p]))

\* A second call takes the place of the first, which stays in progress.
ResponsesStart(s, c) ==
    LET at == Len(s.output) + 1
    IN  Emits([s EXCEPT !.tool = at, !.toolArgs = <<>>,
                        !.output = Append(@, [kind |-> "call", call |-> c.id, name |-> c.name, args |-> <<>>, status |-> "in_progress"])],
              <<[t |-> "item_added", kind |-> "call", item |-> Item(at), call |-> c.id, name |-> c.name]>>)

ResponsesWire(s, c) ==
    CASE c.type = "text" -> ResponsesText(s, c)
      [] c.type = "start" -> ResponsesStart(s, c)
      [] c.type = "args" ->
            Emits([s EXCEPT !.toolArgs = @ \o c.args],
                  IF s.tool = 0 THEN <<>> ELSE <<[t |-> "args_delta", item |-> Item(s.tool), args |-> c.args]>>)
      [] c.type = "finish" -> Completed([s EXCEPT !.usage = IF c.usage # NoUsage THEN c.usage ELSE @])
      [] OTHER -> Emits(s, <<>>)

ResponsesTail(s) == LET last == Completed(s)
                    IN  Emits(last.to, Append(last.out, [t |-> "completed", usage |-> last.to.usage]))

-----------------------------------------------------------------------------
Emit(wire, s, c) == CASE wire = "chat-completions" -> OpenAIWire(s, c)
                      [] wire = "messages" -> AnthropicWire(s, c)
                      [] wire = "gemini" -> GeminiWire(s, c)
                      [] wire = "responses" -> ResponsesWire(s, c)

EmitAll(wire, s, chunks) ==
    FoldLeft(LAMBDA r, c : LET e == Emit(wire, r.to, c) IN Emits(e.to, r.out \o e.out), Emits(s, <<>>), chunks)

LastLines(wire, s) == CASE wire = "chat-completions" -> OpenAITail(s)
                        [] wire = "messages" -> AnthropicTail(s)
                        [] wire = "gemini" -> GeminiTail(s)
                        [] wire = "responses" -> ResponsesTail(s)

\* What the bridge writes when the stream throws after the 200.
ErrorLines(wire) == CASE wire = "chat-completions" -> <<[t |-> "error"], [t |-> "DONE"]>>
                      [] wire = "responses" -> <<[t |-> "failed"]>>
                      [] OTHER -> <<[t |-> "error"]>>

-----------------------------------------------------------------------------
(* The client: the repository's own adapter for the wire; for Gemini, an   *)
(* SDK that adds argument fragments to the call opened last.               *)

GeminiClient(a, e) ==
    CASE e.t = "text" -> Yields(a, <<Text(<<e.text>>)>>)
      [] e.t = "functionCall" -> Yields([a EXCEPT !.acc = <<[key |-> 1, val |-> e.id]>>], <<Start(e.id, e.name)>>)
      [] e.t = "functionArgs" /\ a.acc # <<>> -> Yields(a, <<Args(At(a.acc, 1), e.args)>>)
      [] e.t = "last" -> Yields(a, <<Finish(e.reason, e.usage)>>)
      [] OTHER -> Yields(a, <<>>)

ClientAdapt(wire, a, line) == CASE wire = "chat-completions" -> OpenAIAdapt(a, line)
                                [] wire = "messages" -> AnthropicAdapt(a, line)
                                [] wire = "responses" -> PlanAdapt(a, line)
                                [] wire = "gemini" -> GeminiClient(a, line)

\* A client's state and view after it has read some lines.
Read(wire, client, lines) ==
    FoldLeft(LAMBDA r, line : LET d == ClientAdapt(wire, r.adapter, line)
                              IN  [adapter |-> d.to, view |-> AggregateAll(r.view, d.out)], client, lines)
=============================================================================
