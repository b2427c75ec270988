--------------------------- MODULE RequestMappings ---------------------------
(***************************************************************************)
(* A request on its way through the bridge: the body of one of the four    *)
(* wires to normalized messages, and those to the body of an upstream.     *)
(*                                                                         *)
(* A body, native or normalized, is a sequence of turns, each a role and   *)
(* parts: pieces of text, images, calls and results.  Joining texts is     *)
(* putting their pieces one after the other, and a string is a content     *)
(* without images.  A system prompt of its own field is "system".          *)
(* choice, format and limits are the request's tool choice, its response   *)
(* format, and which of the sampling limits it sets.                       *)
(*                                                                         *)
(* Tool declarations, names of speakers, reasoning echoes and thought      *)
(* signatures are left out.                                                *)
(***************************************************************************)
EXTENDS StreamSinks

Absent == "absent"

(***************************************************************************)
(* An image is inline data, a URL, a link to a local file that passes the  *)
(* gates of resolveLocalImageUrl ("local") or does not ("stray"), or has   *)
(* no usable source.                                                       *)
(***************************************************************************)
Image(n, form) == [k |-> "image", n |-> n, form |-> form]
Note(p) == [k |-> "note", n |-> p.n]                 \* "[image: ...]"
Quoted(content) == [k |-> "json", of |-> content]    \* JSON.stringify
Blank == [k |-> "blank"]                             \* a text block without text
Instruct == [k |-> "instruct"]                       \* JSON_INSTRUCTION
Aside == [k |-> "aside"]                             \* thinking, reasoning, vendor items
Call(id, name, args) == [k |-> "call", id |-> id, name |-> name, args |-> args]
Result(id, name, content) == [k |-> "result", id |-> id, name |-> name, content |-> content]

\* listed: the content is a list of parts even where a string would do.
Turn(role, parts) == [role |-> role, parts |-> parts, listed |-> FALSE]

Words(parts) == SelectSeq(parts, LAMBDA p : p.k \in {"prose", "note", "json", "instruct"})
Images(parts) == SelectSeq(parts, LAMBDA p : p.k = "image" /\ p.form # "none")
Calls(parts) == SelectSeq(parts, LAMBDA p : p.k = "call")
Results(parts) == SelectSeq(parts, LAMBDA p : p.k = "result")
Content(parts) == SelectSeq(parts, LAMBDA p : p.k = "prose" \/ (p.k = "image" /\ p.form # "none"))

serializeText(content) == [i \in DOMAIN content |-> IF content[i].k = "image" THEN Note(content[i]) ELSE content[i]]

-----------------------------------------------------------------------------
(* Local images become inline data before any wire looks at the body. *)

resolveLocalImageUrl(p) == IF p.form = "local" THEN Image(p.n, "data") ELSE p

walk(parts) ==
    LET Here(p) == IF p.k = "image" THEN resolveLocalImageUrl(p) ELSE p
    IN  [i \in DOMAIN parts |->
            IF parts[i].k = "result" THEN [parts[i] EXCEPT !.content = [j \in DOMAIN @ |-> Here(@[j])]]
                                     ELSE Here(parts[i])]

normalizeBodyImages(turns) == [i \in DOMAIN turns |-> [turns[i] EXCEPT !.parts = walk(@)]]

-----------------------------------------------------------------------------
(* The four wires: a native body to normalized messages. *)

mapIncomingContent(parts) == Content(parts)

Numbered(calls, prefix) ==
    [i \in DOMAIN calls |-> IF calls[i].id # NoId THEN calls[i] ELSE [calls[i] EXCEPT !.id = <<prefix, i - 1>>]]
toModelHitchToolCalls(parts) == Numbered(Calls(parts), "call")

toModelHitchMessages(turns) ==
    [i \in DOMAIN turns |->
        LET t == turns[i]
        IN  CASE t.role = "assistant" -> [t EXCEPT !.parts = mapIncomingContent(@) \o toModelHitchToolCalls(@)]
              [] t.role = "tool" -> [t EXCEPT !.parts = <<Result(@[1].id, NoName, serializeText(mapIncomingContent(@[1].content)))>>]
              [] t.role = "system" -> [t EXCEPT !.parts = mapIncomingContent(@)]
              [] OTHER -> [t EXCEPT !.role = "user", !.parts = mapIncomingContent(@)]]

\* A result that is one text is a string; any other is quoted as JSON.
ResultText(content) == IF Len(content) = 1 /\ content[1].k = "prose" THEN content ELSE <<Quoted(content)>>
ToolTurn(id, content) == Turn("tool", <<Result(id, NoName, content)>>)
UnlessEmpty(role, parts) == IF parts = <<>> THEN <<>> ELSE <<Turn(role, parts)>>

\* Images come before the joined text, and results after both.
anthropicMessagesToMessages(turns) ==
    LET Add(out, t) ==
            LET content == Images(t.parts) \o Words(t.parts)
                calls   == [i \in DOMAIN Calls(t.parts) |->
                               LET c == Calls(t.parts)[i] IN IF c.id # NoId THEN c ELSE [c EXCEPT !.id = <<"toolu", Len(out)>>]]
                results == [i \in DOMAIN Results(t.parts) |->
                               LET r == Results(t.parts)[i] IN ToolTurn(r.id, ResultText(r.content))]
            IN  CASE t.role = "system" -> Append(out, Turn("system", Words(t.parts)))
                  [] t.role = "assistant" -> out \o UnlessEmpty("assistant", content \o calls)
                  [] OTHER -> out \o UnlessEmpty("user", content) \o results
    IN  FoldLeft(Add, <<>>, turns)

\* A result names a function; it goes to the call that function had last.
geminiContentsToMessages(turns) ==
    LET Part(r, p, at) ==
            LET id == IF p.id # NoId THEN p.id ELSE <<"call", at>>
            IN  CASE p.k = "call" -> [r EXCEPT !.ids = Put(@, p.name, id), !.calls = Append(@, [p EXCEPT !.id = id])]
                  [] p.k = "result" ->
                        LET of == IF Has(r.ids, p.name) THEN At(r.ids, p.name) ELSE <<p.name, 0>>
                        IN  [r EXCEPT !.results = Append(@, ToolTurn(of, ResultText(p.content)))]
                  [] OTHER -> r
        Add(s, t) ==
            LET content == Images(t.parts) \o Words(t.parts)
                read    == FoldLeft(LAMBDA r, p : Part(r, p, Len(s.out)),
                                    [ids |-> s.ids, calls |-> <<>>, results |-> <<>>], t.parts)
            IN  [ids |-> read.ids,
                 out |-> s.out \o (IF t.role = "model" THEN UnlessEmpty("assistant", content \o read.calls)
                                                       ELSE UnlessEmpty("user", content) \o read.results)]
    IN  FoldLeft(Add, [ids |-> <<>>, out |-> <<>>], turns).out

itemContent(parts) == Content(parts)
serializeOutputParts(content) == serializeText(content)

CallIds(turns) == {turns[i].parts[1].id : i \in {j \in DOMAIN turns : turns[j].role = "item" /\ turns[j].parts[1].k = "call"}}
\* mutant: an output whose call was in an earlier request goes on
OutputKeptAlways(id, turns, keepOrphans) == id # NoId

OutputKept(id, turns, keepOrphans) == id # NoId /\ (keepOrphans \/ id \in CallIds(turns))

(***************************************************************************)
(* Items of the Responses wire: consecutive calls are one assistant turn;  *)
(* anything else closes it.  Items that are not messages have role "item". *)
(***************************************************************************)
responsesInputToMessages(turns, keepOrphans) ==
    LET Add(s, t) ==
            LET p      == t.parts[1]
                closed == s.out \o UnlessEmpty("assistant", s.pending)
                Close(more) == [out |-> closed \o more, pending |-> <<>>]
            IN  CASE t.role = "item" /\ p.k = "call" ->
                        [s EXCEPT !.pending = Append(@, IF p.id # NoId THEN p ELSE [p EXCEPT !.id = <<"call", Len(s.out)>>])]
                  [] t.role = "item" /\ p.k = "result" ->
                        Close(IF OutputKept(p.id, turns, keepOrphans) THEN <<ToolTurn(p.id, serializeOutputParts(p.content))>> ELSE <<>>)
                  [] t.role = "developer" \/ (t.role = "item" /\ p.k \notin {"call", "result"}) -> Close(<<>>)
                  [] t.role = "system" -> Close(<<Turn("system", itemContent(t.parts))>>)
                  [] OTHER -> Close(UnlessEmpty(t.role, itemContent(t.parts)))
        last == FoldLeft(Add, [out |-> <<>>, pending |-> <<>>], turns)
    IN  last.out \o UnlessEmpty("assistant", last.pending)

mapAnthropicToolChoice(c) == CASE c = "any" -> "required" [] c \in {"none", "function"} -> c [] OTHER -> Absent
mapGeminiToolChoice(c) == CASE c = "AUTO" -> "auto" [] c = "NONE" -> "none" [] c = "ANY" -> "required"
                            [] c = "ANY of one" -> "function" [] OTHER -> Absent
toModelHitchToolChoice(c) == c
mapResponsesToolChoice(c) == c
toModelHitchResponseFormat(f) == IF f = "json_object" THEN "json" ELSE f
mapResponsesTextFormat(f) == IF f = "text" THEN Absent ELSE f

Params(system, messages, choice, format, limits) ==
    [turns |-> (IF system = <<>> THEN <<>> ELSE <<Turn("system", system)>>) \o messages,
     choice |-> choice, format |-> format, limits |-> limits]

mapRequest(b) == Params(<<>>, toModelHitchMessages(b.turns), toModelHitchToolChoice(b.choice),
                        toModelHitchResponseFormat(b.format), b.limits)
mapAnthropicRequest(b) == Params(b.system, anthropicMessagesToMessages(b.turns), mapAnthropicToolChoice(b.choice), Absent, b.limits)
\* The format a Gemini body asks for (responseMimeType, responseSchema) is read nowhere.
mapGeminiRequest(b) == Params(b.system, geminiContentsToMessages(b.turns), mapGeminiToolChoice(b.choice), Absent, b.limits)
mapResponsesRequest(b) == Params(b.system, responsesInputToMessages(b.turns, b.continues), mapResponsesToolChoice(b.choice),
                                 mapResponsesTextFormat(b.format), b.limits)

Mapped(wire, b) == LET inlined == [b EXCEPT !.turns = normalizeBodyImages(@)]
                   IN  CASE wire = "chat-completions" -> mapRequest(inlined)
                         [] wire = "messages" -> mapAnthropicRequest(inlined)
                         [] wire = "gemini" -> mapGeminiRequest(inlined)
                         [] wire = "responses" -> mapResponsesRequest(inlined)

-----------------------------------------------------------------------------
(* The upstreams: normalized messages to the body a provider sends. *)

Sent(system, turns, choice, format, limits) ==
    [system |-> system, turns |-> turns, choice |-> choice, format |-> format, limits |-> limits]

SystemText(ms) == FlattenSeq([i \in DOMAIN ms |-> IF ms[i].role = "system" THEN ms[i].parts ELSE <<>>])
Others(ms) == SelectSeq(ms, LAMBDA m : m.role # "system")

toOpenAIContent(parts) == [i \in DOMAIN parts |-> IF parts[i].k = "image" /\ parts[i].form # "data" THEN Image(parts[i].n, "url") ELSE parts[i]]
toOpenAIMessages(ms) == [i \in DOMAIN ms |-> [ms[i] EXCEPT !.parts = toOpenAIContent(@)]]
toOpenAIResponseFormat(f) == IF f = "json" THEN "json_object" ELSE f

OpenAIBody(p) == Sent(<<>>, toOpenAIMessages(p.turns), p.choice,
                      IF p.format \in {Absent, "text"} THEN Absent ELSE toOpenAIResponseFormat(p.format), p.limits)

\* mutant: the first system message makes way for the request
degradeFirstSystem(b) ==
    [b EXCEPT !.format = Absent, !.turns = <<Turn("system", <<Instruct>>)>> \o Others(b.turns)]

(***************************************************************************)
(* The second try after a rejected response_format: the parameter goes and *)
(* the last system message, if its content is a string, gets the request   *)
(* for JSON after its text; a list of parts is replaced by it.             *)
(***************************************************************************)
degradeResponseFormatBody(b) ==
    LET systems == {i \in DOMAIN b.turns : b.turns[i].role = "system"}
        last    == CHOOSE i \in systems : \A j \in systems : j <= i
        turns   == IF systems = {} THEN <<Turn("system", <<Instruct>>)>> \o b.turns
                   ELSE [b.turns EXCEPT ![last] = Turn("system", (IF @.listed THEN <<>> ELSE @.parts) \o <<Instruct>>)]
    IN  [b EXCEPT !.format = Absent, !.turns = turns]

\* Images by URL are fetched and sent as data.
toAnthropicContent(parts) ==
    IF parts = <<>> THEN <<Blank>> ELSE [i \in DOMAIN parts |-> IF parts[i].k = "image" THEN Image(parts[i].n, "data") ELSE parts[i]]

toAnthropicMessages(ms) ==
    LET rest == Others(ms)
        One(m) == CASE m.role = "tool" -> Turn("user", m.parts)
                    [] m.role = "assistant" -> Turn("assistant", (IF Content(m.parts) = <<>> THEN <<>> ELSE toAnthropicContent(Content(m.parts)))
                                                                 \o Calls(m.parts))
                    [] OTHER -> Turn("user", toAnthropicContent(m.parts))
    IN  [i \in DOMAIN rest |-> One(rest[i])]

toAnthropicToolChoice(c) == CASE c = "required" -> "any" [] c = Absent -> Absent [] OTHER -> c

AnthropicBody(p) ==
    Sent(Words(SystemText(p.turns)) \o (IF p.format \in {Absent, "text"} THEN <<>> ELSE <<Instruct>>),
         toAnthropicMessages(p.turns), toAnthropicToolChoice(p.choice), Absent, p.limits \cup {"max"})

\* Texts and images go apart, an assistant's images nowhere, and ids too.
toOllamaContent(parts) == Words(parts) \o Images(parts)
toOllamaMessages(ms) ==
    LET One(m) == CASE m.role \in {"system", "user"} -> Turn(m.role, toOllamaContent([i \in DOMAIN m.parts |->
                                IF m.parts[i].k = "image" THEN Image(m.parts[i].n, "data") ELSE m.parts[i]]))
                    [] m.role = "assistant" ->
                          Turn("assistant", Words(m.parts)
                               \o [i \in DOMAIN Calls(m.parts) |-> [Calls(m.parts)[i] EXCEPT !.id = NoId]])
                    [] OTHER -> Turn("tool", <<Result(NoId, NoName, m.parts[1].content)>>)
    IN  [i \in DOMAIN ms |-> One(ms[i])]

OllamaBody(p) == Sent(<<>>, toOllamaMessages(p.turns), IF p.choice = "function" THEN "required" ELSE p.choice,
                      IF p.format \in {Absent, "text"} THEN Absent ELSE IF p.format = "json_schema" THEN "schema" ELSE "json", p.limits)

\* The input items of the Responses API, on the ChatGPT plan and on opencode.
appendMessage(m) ==
    CASE m.role = "assistant" ->
            UnlessEmpty("assistant", serializeText(Content(m.parts))) \o [i \in DOMAIN Calls(m.parts) |-> Turn("item", <<Calls(m.parts)[i]>>)]
      [] m.role = "tool" -> <<Turn("item", <<Result(m.parts[1].id, NoName, serializeText(m.parts[1].content))>>)>>
      [] OTHER -> <<Turn("user", m.parts)>>
Items(ms) == FlattenSeq([i \in DOMAIN Others(ms) |-> appendMessage(Others(ms)[i])])

textFormatFor(f) == CASE f \in {Absent, "text"} -> Absent [] f = "json" -> "json_object" [] OTHER -> f

chatGptPlanRequestBody(p) == Sent(serializeText(SystemText(p.turns)), Items(p.turns), p.choice, textFormatFor(p.format), {})

chatParamsToResponsesBody(p) == Sent(serializeText(SystemText(p.turns)), Items(p.turns), p.choice, Absent, p.limits)

\* The last system message only, results under one name, and no tool choice.
chatParamsToGeminiBody(p) ==
    LET systems == SelectSeq(p.turns, LAMBDA m : m.role = "system" /\ m.parts # <<>>)
        rest    == Others(p.turns)
        One(m)  == CASE m.role = "assistant" -> Turn("model", serializeText(Content(m.parts)) \o Calls(m.parts))
                     [] m.role = "tool" -> Turn("user", <<Result(NoId, "tool_response", serializeText(m.parts[1].content))>>)
                     [] OTHER -> Turn("user", m.parts)
    IN  Sent(IF systems = <<>> THEN <<>> ELSE serializeText(systems[Len(systems)].parts),
             [i \in DOMAIN rest |-> One(rest[i])], Absent, Absent, p.limits)

Body(upstream, p) == CASE upstream = "openai" -> OpenAIBody(p)
                       [] upstream = "anthropic" -> AnthropicBody(p)
                       [] upstream = "ollama" -> OllamaBody(p)
                       [] upstream = "plan" -> chatGptPlanRequestBody(p)
                       [] upstream = "zen" -> chatParamsToResponsesBody(p)
                       [] upstream = "gemini" -> chatParamsToGeminiBody(p)

\* An upstream that takes no image URLs fetches them before it asks.
Fetches(upstream, p) ==
    upstream \in {"anthropic", "ollama"}
      /\ \E i \in DOMAIN p.turns : \E j \in DOMAIN p.turns[i].parts :
            LET part == p.turns[i].parts[j] IN part.k = "image" /\ part.form # "data"

\* The wire each upstream's body is written in.
BodyWire(upstream) == CASE upstream = "openai" -> "chat-completions" [] upstream = "anthropic" -> "messages"
                        [] upstream \in {"plan", "zen"} -> "responses" [] OTHER -> upstream
=============================================================================
