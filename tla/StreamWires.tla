----------------------------- MODULE StreamWires -----------------------------
(***************************************************************************)
(* The streams of the bridge.  A provider adapter turns the events of one  *)
(* upstream wire into chunks (text-delta, tool-call-start, ... finish), and*)
(* a wire of the server turns chunks into the lines a client reads.        *)
(*                                                                         *)
(* A chunk, an event and a line are records; text and arguments are        *)
(* sequences of opaque pieces.  An adapter is an operator from its state   *)
(* and one event to its next state and the chunks it yields; a wire is an  *)
(* operator from its state and one chunk to its next state and its lines.  *)
(* The lines of a wire are events of the same wire, so that the            *)
(* repository's own adapter serves as the client of the bridge.            *)
(*                                                                         *)
(* Reasoning deltas, images, thought signatures and item ids without       *)
(* meaning are left out; the whitespace that markup recovery trims is too. *)
(***************************************************************************)
EXTENDS Integers, Sequences, SequencesExt

NoId == <<"none", 0>>
NoName == ""
NoUsage == 0

Prose(n) == [k |-> "prose", n |-> n]
Markup(name, args) == [k |-> "markup", name |-> name, args |-> args]

Text(s) == [type |-> "text", text |-> s]
Start(id, name) == [type |-> "start", id |-> id, name |-> name]
Args(id, s) == [type |-> "args", id |-> id, args |-> s]
End(id) == [type |-> "end", id |-> id]
Finish(reason, usage) == [type |-> "finish", reason |-> reason, usage |-> usage]

(***************************************************************************)
(* A JavaScript Map: entries in the order of their first insertion, and a  *)
(* later set of the same key keeps the entry's place.                      *)
(***************************************************************************)
Has(m, k) == \E i \in DOMAIN m : m[i].key = k
At(m, k) == m[CHOOSE i \in DOMAIN m : m[i].key = k].val
Put(m, k, v) ==
    IF Has(m, k) THEN [i \in DOMAIN m |-> IF m[i].key = k THEN [key |-> k, val |-> v] ELSE m[i]]
                 ELSE Append(m, [key |-> k, val |-> v])

(***************************************************************************)
(* What a consumer of chunks ends up with: aggregateStream, and the same   *)
(* fold in the tool loop and in the React reducer.                         *)
(***************************************************************************)
Nothing == [text |-> <<>>, calls |-> <<>>, reason |-> "none", usage |-> NoUsage]

Aggregate(r, c) ==
    CASE c.type = "text" -> [r EXCEPT !.text = @ \o c.text]
      [] c.type = "start" -> [r EXCEPT !.calls = Put(@, c.id, [name |-> c.name, args |-> <<>>])]
      [] c.type = "args" /\ Has(r.calls, c.id) ->
            [r EXCEPT !.calls = Put(@, c.id, [At(@, c.id) EXCEPT !.args = @ \o c.args])]
      [] c.type = "finish" -> [r EXCEPT !.reason = c.reason, !.usage = c.usage]
      [] OTHER -> r

AggregateAll(r, chunks) == FoldLeft(Aggregate, r, chunks)

-----------------------------------------------------------------------------
(* Adapters: upstream events to chunks. *)

(***************************************************************************)
(* acc: the calls seen, by the key the wire joins fragments with.  held:   *)
(* the text the markup guard keeps back.  args: how many pieces of a       *)
(* call's arguments went on.  done: a terminal event was read.             *)
(***************************************************************************)
Adapter == [acc |-> <<>>, held |-> <<>>, args |-> <<>>, done |-> FALSE, reason |-> "stop", usage |-> NoUsage]

Yields(a, chunks) == [to |-> a, out |-> chunks, dies |-> FALSE]
Throws(a) == [to |-> a, out |-> <<>>, dies |-> TRUE]

IsProse(piece) == piece.k = "prose"
Recovered(held) ==
    LET found == SelectSeq(held, LAMBDA p : ~IsProse(p))
        Call(i) == << Start(<<"dsml", i - 1>>, found[i].name), Args(<<"dsml", i - 1>>, found[i].args), End(<<"dsml", i - 1>>) >>
    IN  FlattenSeq([i \in DOMAIN found |-> Call(i)])
HeldText(held) == IF \E i \in DOMAIN held : IsProse(held[i]) THEN <<Text(SelectSeq(held, IsProse))>> ELSE <<>>

\* From the first markup on, text waits for the end of the stream.
GuardText(a, piece) ==
    IF a.held = <<>> /\ IsProse(piece) THEN Yields(a, <<Text(<<piece>>)>>)
                                       ELSE Yields([a EXCEPT !.held = Append(@, piece)], <<>>)

mapFinishReason(r) == CASE r \in {"tool_calls", "tool_use"} -> "tool-calls"
                        [] r \in {"end_turn"} -> "stop"
                        [] r = "max_tokens" -> "length"
                        [] OTHER -> r

OpenAITool(a, e) ==
    LET id  == IF e.id # NoId THEN e.id ELSE <<"call", e.index>>
        acc == IF e.name # NoName THEN Put(a.acc, e.index, id) ELSE a.acc
    IN  Yields([a EXCEPT !.acc = acc],
               (IF e.name # NoName THEN <<Start(id, e.name)>> ELSE <<>>)
               \o (IF e.args # <<>> /\ Has(acc, e.index) THEN <<Args(At(acc, e.index), e.args)>> ELSE <<>>))

OpenAIFinish(a, e) ==
    LET calls == IF a.acc = <<>> THEN Recovered(a.held) ELSE <<>>
        ends  == IF e.reason = "tool_calls" THEN [i \in DOMAIN a.acc |-> End(a.acc[i].val)] ELSE <<>>
        why   == IF calls # <<>> THEN "tool_calls" ELSE mapFinishReason(e.reason)
    IN  Yields([a EXCEPT !.held = <<>>, !.done = TRUE], ends \o HeldText(a.held) \o calls \o <<Finish(why, e.usage)>>)

OpenAIAdapt(a, e) ==
    CASE e.t = "content" -> GuardText(a, e.text)
      [] e.t = "tool" -> OpenAITool(a, e)
      [] e.t = "finish" -> OpenAIFinish(a, e)
      [] OTHER -> Yields(a, <<>>)              \* a usage frame without choices, an error payload, [DONE]

OpenAIFlush(a) ==
    LET calls == Recovered(a.held)
    IN  IF a.done THEN Yields(a, <<>>)
        ELSE Yields(a, HeldText(a.held) \o calls \o <<Finish(IF calls # <<>> THEN "tool_calls" ELSE "stop", NoUsage)>>)

AnthropicAdapt(a, e) ==
    CASE e.t = "block_start" /\ e.kind = "tool_use" ->
            Yields([a EXCEPT !.acc = Put(@, e.index, e.id)], <<Start(e.id, e.name)>>)
      [] e.t = "text_delta" -> Yields(a, <<Text(<<e.text>>)>>)
      [] e.t = "json_delta" /\ Has(a.acc, e.index) -> Yields(a, <<Args(At(a.acc, e.index), e.args)>>)
      [] e.t = "block_stop" /\ Has(a.acc, e.index) -> Yields(a, <<End(At(a.acc, e.index))>>)
      [] e.t = "message_delta" -> Yields(a, <<Finish(mapFinishReason(e.reason), e.usage)>>)
      [] e.t = "error" -> Throws(a)
      [] OTHER -> Yields(a, <<>>)

\* The id counts the names seen so far, not the calls.
OllamaAdapt(a, e) ==
    LET id == <<"ollama", Len(a.acc)>>
    IN  CASE e.t = "content" -> Yields(a, <<Text(<<e.text>>)>>)
          [] e.t = "tool" -> Yields([a EXCEPT !.acc = Put(@, e.name, id)], <<Start(id, e.name), Args(id, e.args), End(id)>>)
          [] e.t = "done" -> Yields(a, <<Finish(mapFinishReason(e.reason), e.usage)>>)
          [] e.t = "error" -> Throws(a)

\* The Responses wire of opencode: deltas name the item, the start names the call.
JoinByItem(a, item, else) == item
JoinItem(a, item, else) == IF Has(a.acc, item) THEN At(a.acc, item) ELSE else

ZenAdapt(a, e) ==
    CASE e.t = "text_delta" -> Yields(a, <<Text(<<e.text>>)>>)
      [] e.t = "item_added" /\ e.kind = "call" ->
            Yields([a EXCEPT !.acc = Put(@, e.item, e.call)], <<Start(e.call, e.name)>>)
      [] e.t = "args_delta" -> Yields(a, <<Args(JoinItem(a, e.item, e.item), e.args)>>)
      [] e.t = "item_done" /\ e.kind = "call" ->
            Yields(a, <<End(JoinItem(a, e.item, e.call))>>)
      [] e.t = "completed" -> Yields([a EXCEPT !.done = TRUE], <<Finish("stop", e.usage)>>)
      [] OTHER -> Yields(a, <<>>)              \* response.failed among them

\* The ChatGPT plan: a done item fills what the deltas left out, and only a
\* terminal event ends a response.
PlanDoneWhole(a, e) ==
    Yields([a EXCEPT !.args = Put(@, e.call, Len(e.args))], <<Args(e.call, e.args), End(e.call)>>)

PlanDone(a, e) ==
    LET seen == IF Has(a.args, e.call) THEN At(a.args, e.call) ELSE 0
        rest == SubSeq(e.args, seen + 1, Len(e.args))
    IN  Yields([a EXCEPT !.args = Put(@, e.call, IF Len(e.args) > seen THEN Len(e.args) ELSE seen)],
               (IF rest # <<>> THEN <<Args(e.call, rest)>> ELSE <<>>) \o <<End(e.call)>>)

PlanAdapt(a, e) ==
    CASE e.t = "text_delta" -> Yields(a, <<Text(<<e.text>>)>>)
      [] e.t = "item_added" /\ e.kind = "call" ->
            Yields([a EXCEPT !.acc = Put(@, e.item, e.call), !.args = Put(@, e.call, 0)], <<Start(e.call, e.name)>>)
      [] e.t = "args_delta" /\ Has(a.acc, e.item) ->
            LET id == At(a.acc, e.item)
            IN  Yields([a EXCEPT !.args = Put(@, id, At(@, id) + Len(e.args))], <<Args(id, e.args)>>)
      [] e.t = "item_done" /\ e.kind = "call" -> PlanDone(a, e)
      [] e.t = "completed" ->
            Yields([a EXCEPT !.done = TRUE, !.usage = e.usage, !.reason = IF a.acc # <<>> THEN "tool-calls" ELSE "stop"], <<>>)
      [] e.t = "failed" -> Throws(a)
      [] OTHER -> Yields(a, <<>>)

PlanFlush(a) == IF a.done THEN Yields(a, <<Finish(a.reason, a.usage)>>) ELSE Throws(a)

GeminiAdapt(a, e) ==
    CASE e.t = "text" -> Yields(a, <<Text(<<e.text>>)>>)
      [] e.t = "functionCall" ->
            LET id == IF e.id # NoId THEN e.id ELSE <<"call", 0>>
            IN  Yields(a, <<Start(id, e.name), Args(id, e.args), End(id)>>)
      [] e.t = "last" -> Yields([a EXCEPT !.done = TRUE, !.usage = e.usage], <<Finish("stop", e.usage)>>)
      [] OTHER -> Yields(a, <<>>)

ZenFlush(a) == Yields(a, IF a.done THEN <<>> ELSE <<Finish("stop", a.usage)>>)

Adapt(src, a, e) == CASE src = "openai" -> OpenAIAdapt(a, e)
                      [] src = "anthropic" -> AnthropicAdapt(a, e)
                      [] src = "ollama" -> OllamaAdapt(a, e)
                      [] src = "zen" -> ZenAdapt(a, e)
                      [] src = "plan" -> PlanAdapt(a, e)
                      [] src = "gemini" -> GeminiAdapt(a, e)

\* What an adapter yields when the body ends.
Flush(src, a) == CASE src = "openai" -> OpenAIFlush(a)
                   [] src = "plan" -> PlanFlush(a)
                   [] src \in {"zen", "gemini"} -> ZenFlush(a)
                   [] OTHER -> Yields(a, <<>>)
=============================================================================
