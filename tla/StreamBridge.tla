---------------------------- MODULE StreamBridge ----------------------------
(***************************************************************************)
(* One streamed request: an upstream provider (environment), its adapter,  *)
(* the tracker of usage, one of the server's four wires, and the client.   *)
(*                                                                         *)
(* A step is one upstream event with all it sets off: the chunks the       *)
(* adapter yields, the lines the wire writes, and what the client makes of *)
(* them.  Besides its events the provider may end the body at any time,    *)
(* report an error in the body, or lose the connection; the client may     *)
(* leave, and the call upstream is then aborted.                           *)
(***************************************************************************)
EXTENDS StreamSinks, FiniteSets

CONSTANTS
    Sources,        \* the upstream wires
    Wires,          \* the wires of the server
    Names,          \* names of tools
    MaxCalls, MaxParts, MaxText   \* calls of a turn, pieces of their arguments, pieces of text

ASSUME BridgeAssumption ==
    /\ Sources \subseteq {"openai", "anthropic", "ollama", "zen", "plan", "gemini"}
    /\ Wires \subseteq {"chat-completions", "responses", "messages", "gemini"}
    /\ MaxCalls \in Nat /\ MaxParts \in Nat \ {0} /\ MaxText \in Nat

VARIABLES
    src, wire,      \* chosen with the request
    up,             \* what the provider said: calls, text, whether it finished and with which usage, the usage
                    \* of a frame behind the finish, whether arguments came only for the call opened last, and
                    \* how the body is
    adapter, sink,  \* the states of the adapter and of the wire
    started,        \* the ids of the calls the adapter opened, in order
    http,           \* "waiting": no head written; "200"; "status": an error status
    told,           \* the end the client was told of: "nothing", "completed", "failed"
    client,         \* the client's adapter and its view of the answer
    blocks,         \* the Anthropic blocks open at the client, and whether one was misused
    gone,           \* the client has left
    aborting,       \* the upstream call is aborted
    usage,          \* the usage of the last finish chunk
    keyed,          \* a service key came with the request; looked at, and so chosen, when the stream has ended
    rows,           \* the usage rows reported
    memory          \* the messages remembered for the next request

vars == <<src, wire, up, adapter, sink, started, http, told, client, blocks, gone, aborting, usage, keyed, rows, memory>>

-----------------------------------------------------------------------------
(* What passes through for one event of the body. *)

\* The head goes out with the first event of the wire's generator; the
\* generators of Responses and Messages have one before they read upstream.
Committed(w) == w \in {"responses", "messages"}

Init ==
    /\ src \in Sources /\ wire \in Wires
    /\ up = [calls |-> <<>>, text |-> <<>>, finished |-> FALSE, usage |-> NoUsage, late |-> NoUsage, serial |-> TRUE, body |-> "open"]
    /\ adapter = Adapter /\ sink = Wire /\ started = <<>>
    /\ http = IF Committed(wire) THEN "200" ELSE "waiting"
    /\ told = "nothing"
    /\ client = [adapter |-> Adapter, view |-> Nothing]
    /\ blocks = [open |-> {}, misused |-> FALSE]
    /\ gone = FALSE /\ aborting = FALSE
    /\ usage = NoUsage /\ keyed = FALSE /\ rows = <<>>
    /\ memory = <<>>

\* A client that pairs the starts, deltas and stops of Anthropic blocks.
Pair(b, line) ==
    CASE line.t = "block_start" -> [open |-> b.open \cup {line.index}, misused |-> b.misused \/ line.index \in b.open]
      [] line.t \in {"text_delta", "json_delta"} -> [b EXCEPT !.misused = @ \/ line.index \notin b.open]
      [] line.t = "block_stop" -> [open |-> b.open \ {line.index}, misused |-> b.misused \/ line.index \notin b.open]
      [] OTHER -> b

Completes(line) == line.t \in {"finish", "message_stop", "completed", "last"}

Send(lines) ==
    IF gone THEN UNCHANGED <<client, told, blocks>>
    ELSE /\ client' = Read(wire, client, lines)
         /\ told' = IF \E i \in DOMAIN lines : lines[i].t \in {"error", "failed"} THEN "failed"
                    ELSE IF \E i \in DOMAIN lines : Completes(lines[i]) THEN "completed" ELSE told
         /\ blocks' = IF wire = "messages" THEN FoldLeft(Pair, blocks, lines) ELSE blocks

Starts(chunks) == LET s == SelectSeq(chunks, LAMBDA c : c.type = "start") IN [i \in DOMAIN s |-> s[i].id]

\* trackStream: the usage of the last finish, reported when the stream has ended.
Track(chunks) ==
    LET f == SelectSeq(chunks, LAMBDA c : c.type = "finish")
    IN  usage' = IF f = <<>> THEN usage ELSE f[Len(f)].usage

\* A row for a stream without usage only where a service key is to be charged for it.
reportUsage(u) ==
    /\ keyed' \in BOOLEAN
    /\ rows' = IF u = NoUsage /\ ~keyed' THEN rows ELSE Append(rows, u)

Pass(chunks) ==
    LET e == EmitAll(wire, sink, chunks)
    IN  /\ sink' = e.to
        /\ Send(e.out)
        /\ http' = IF http = "waiting" /\ (IF wire = "gemini" THEN e.out ELSE chunks) # <<>> THEN "200" ELSE http
        /\ UNCHANGED <<keyed, rows, memory>>

FailMetered ==
    /\ http' = IF http = "waiting" THEN "status" ELSE http
    /\ Send(IF http = "waiting" THEN <<>> ELSE ErrorLines(wire))
    /\ reportUsage(usage)
    /\ UNCHANGED <<sink, memory>>

\* The stream threw: an error status if no head was written, else error lines.
Fail ==
    /\ http' = IF http = "waiting" THEN "status" ELSE http
    /\ Send(IF http = "waiting" THEN <<>> ELSE ErrorLines(wire))
    /\ UNCHANGED <<sink, keyed, rows, memory>>

\* The stream ended: its usage may make a row, the last lines follow, and a Responses
\* turn is remembered under the id the client was given.
Close(chunks) ==
    LET e == EmitAll(wire, sink, chunks)
        l == LastLines(wire, e.to)
        f == SelectSeq(chunks, LAMBDA c : c.type = "finish")
    IN  /\ sink' = l.to
        /\ Send(e.out \o l.out)
        /\ http' = "200"
        /\ reportUsage(IF f = <<>> THEN usage ELSE f[Len(f)].usage)
        /\ memory' = IF wire = "responses" THEN l.to.messages ELSE <<>>

Feed(e) ==
    LET d == Adapt(src, adapter, e)
    IN  /\ up.body = "open"
        /\ adapter' = d.to
        /\ started' = started \o Starts(d.out)
        /\ Track(d.out)
        /\ IF d.dies THEN Fail ELSE Pass(d.out)
        /\ UNCHANGED <<src, wire, gone, aborting>>

-----------------------------------------------------------------------------
(* The provider. *)

Piecewise == {"openai", "anthropic", "zen", "plan"}     \* arguments arrive in pieces
Closing == {"anthropic", "zen", "plan"}                 \* a call has an end of its own
LateArgs == {"plan"}                                    \* ... that may bring the rest of its arguments
OwnIds == {"anthropic", "zen", "plan"}                  \* calls always carry an id

Piece(n, k) == <<n, k>>
Whole(n) == [k \in 1..MaxParts |-> Piece(n, k)]
CallId(n) == <<"given", n>>

ContentEvent(p) == CASE src \in {"openai", "ollama"} -> [t |-> "content", text |-> p]
                     [] src \in {"anthropic", "zen", "plan"} -> [t |-> "text_delta", text |-> p]
                     [] src = "gemini" -> [t |-> "text", text |-> p]

OpenEvent(n, id, name) ==
    CASE src = "openai" -> [t |-> "tool", index |-> n, id |-> id, name |-> name, args |-> <<>>]
      [] src = "anthropic" -> [t |-> "block_start", kind |-> "tool_use", index |-> n, id |-> id, name |-> name]
      [] src \in {"zen", "plan"} -> [t |-> "item_added", kind |-> "call", item |-> Item(n), call |-> id, name |-> name]
      [] src = "ollama" -> [t |-> "tool", name |-> name, args |-> Whole(n)]
      [] src = "gemini" -> [t |-> "functionCall", id |-> id, name |-> name, args |-> Whole(n)]

ArgsEvent(n, s) ==
    CASE src = "openai" -> [t |-> "tool", index |-> n, id |-> NoId, name |-> NoName, args |-> s]
      [] src = "anthropic" -> [t |-> "json_delta", index |-> n, args |-> s]
      [] src \in {"zen", "plan"} -> [t |-> "args_delta", item |-> Item(n), args |-> s]

CloseEvent(n, whole) ==
    IF src = "anthropic" THEN [t |-> "block_stop", index |-> n]
    ELSE [t |-> "item_done", kind |-> "call", item |-> Item(n), call |-> CallId(n), args |-> whole]

FinishEvent(reason, u) ==
    CASE src = "openai" -> [t |-> "finish", reason |-> reason, usage |-> u]
      [] src = "anthropic" -> [t |-> "message_delta", reason |-> IF reason = "tool_calls" THEN "tool_use" ELSE "end_turn", usage |-> u]
      [] src = "ollama" -> [t |-> "done", reason |-> reason, usage |-> u]
      [] src \in {"zen", "plan"} -> [t |-> "completed", usage |-> u]
      [] src = "gemini" -> [t |-> "last", usage |-> u]

Real(calls) == SelectSeq(calls, LAMBDA c : ~c.markup)
Ready == up.body = "open" /\ ~up.finished

SaysText ==
    /\ Ready /\ Len(up.text) < MaxText
    /\ LET p == Prose(Len(up.text) + 1)
       IN  up' = [up EXCEPT !.text = Append(@, p)] /\ Feed(ContentEvent(p))

\* A model that writes a call into the text channel.
WritesMarkup ==
    /\ Ready /\ src = "openai" /\ Len(up.calls) < MaxCalls
    /\ \E name \in Names :
        LET n == Len(up.calls) + 1
        IN  /\ up' = [up EXCEPT !.calls = Append(@, [id |-> CallId(n), name |-> name, args |-> Whole(n), open |-> FALSE, markup |-> TRUE])]
            /\ Feed(ContentEvent(Markup(name, Whole(n))))

OpensCall ==
    /\ Ready /\ Len(up.calls) < MaxCalls
    /\ \E name \in Names, named \in {src \in OwnIds, TRUE} :
        LET n  == Len(up.calls) + 1
            id == IF named THEN CallId(n) ELSE NoId
            c  == [id |-> id, name |-> name, args |-> IF src \in Piecewise THEN <<>> ELSE Whole(n),
                   open |-> src \in Closing, markup |-> FALSE]
        IN  up' = [up EXCEPT !.calls = Append(@, c)] /\ Feed(OpenEvent(n, id, name))

SendsArguments ==
    /\ Ready /\ src \in Piecewise
    /\ \E n \in DOMAIN up.calls :
        LET c == up.calls[n]
        IN  /\ ~c.markup /\ Len(c.args) < MaxParts /\ (src \in Closing => c.open)
            /\ up' = [up EXCEPT !.calls[n].args = Append(@, Piece(n, Len(c.args) + 1)),
                                !.serial = @ /\ n = Len(up.calls)]
            /\ Feed(ArgsEvent(n, <<Piece(n, Len(c.args) + 1)>>))

EndsCall ==
    /\ Ready /\ src \in Closing
    /\ \E n \in DOMAIN up.calls :
       \E whole \in {up.calls[n].args} \cup (IF src \in LateArgs THEN {Whole(n)} ELSE {}) :
        /\ up.calls[n].open
        /\ up' = [up EXCEPT !.calls[n].open = FALSE, !.calls[n].args = whole,
                            !.serial = @ /\ (n = Len(up.calls) \/ whole = up.calls[n].args)]
        /\ Feed(CloseEvent(n, whole))

\* Some providers finish a turn of calls with "stop".  The usage rides on the
\* finish, or there is none, or it comes in a frame of its own (SendsUsage).
Finishes ==
    /\ Ready /\ \A n \in DOMAIN up.calls : ~up.calls[n].open
    /\ \E reason \in {"stop"} \cup (IF Real(up.calls) # <<>> THEN {"tool_calls"} ELSE {}), u \in {NoUsage, 1} :
        up' = [up EXCEPT !.finished = TRUE, !.usage = u] /\ Feed(FinishEvent(reason, u))

\* What an OpenAI-style provider was asked for with include_usage: a last frame
\* with the usage and no choices.  The adapter passes over frames without choices.
SendsUsage ==
    /\ src = "openai" /\ up.body = "open" /\ up.finished /\ up.late = NoUsage
    /\ up' = [up EXCEPT !.late = 1] /\ Feed([t |-> "usage", usage |-> 1])

\* An error in the body: the adapters of openai, zen and gemini pass over it.
Errs ==
    /\ Ready
    /\ up' = [up EXCEPT !.body = "erred"]
    /\ LET d == Adapt(src, adapter, [t |-> IF src \in {"zen", "plan"} THEN "failed" ELSE "error"])
           f == Flush(src, d.to)
       IN  IF d.dies THEN /\ Fail
                          /\ UNCHANGED <<started, usage>>
                     ELSE /\ Close(f.out)
                          /\ started' = started \o Starts(f.out)
                          /\ Track(f.out)
    /\ UNCHANGED <<src, wire, adapter, gone, aborting>>

EndsBody ==
    /\ up.body = "open" /\ up' = [up EXCEPT !.body = "ended"]
    /\ LET f == Flush(src, adapter)
       IN  /\ started' = started \o Starts(f.out)
           /\ Track(f.out)
           /\ IF f.dies THEN Fail ELSE Close(f.out)
    /\ UNCHANGED <<src, wire, adapter, gone, aborting>>

Broken ==
    /\ up.body = "open" /\ up' = [up EXCEPT !.body = "broken"]
    /\ Fail
    /\ UNCHANGED <<src, wire, adapter, started, gone, aborting, usage>>

Breaks == ~aborting /\ Broken

-----------------------------------------------------------------------------
\* What the client held is lost with it.
Forgotten == told' = "nothing" /\ client' = [adapter |-> Adapter, view |-> Nothing] /\ blocks' = [open |-> {}, misused |-> FALSE]

ClientLeavesUnheard ==
    /\ up.body = "open" /\ ~gone
    /\ gone' = TRUE
    /\ Forgotten
    /\ UNCHANGED <<src, wire, up, adapter, sink, started, http, aborting, usage, keyed, rows, memory>>

ClientLeaves ==
    /\ up.body = "open" /\ ~gone
    /\ gone' = TRUE /\ aborting' = TRUE
    /\ Forgotten
    /\ UNCHANGED <<src, wire, up, adapter, sink, started, http, usage, keyed, rows, memory>>

\* The aborted read throws.
Aborted == aborting /\ Broken

Next ==
    \/ SaysText \/ WritesMarkup \/ OpensCall \/ SendsArguments \/ EndsCall \/ Finishes \/ SendsUsage
    \/ Errs \/ EndsBody \/ Breaks
    \/ ClientLeaves \/ Aborted

\* An aborted fetch rejects its pending read; a provider may stay silent.
Spec == Init /\ [][Next]_vars /\ WF_vars(Aborted)

-----------------------------------------------------------------------------
(* Properties *)

Ids == {NoId} \cup {CallId(n) : n \in 1..MaxCalls} \cup ({"call", "ollama", "dsml"} \X (0..MaxCalls))

\* The request, the response and the accounts have their types.
TypeOK ==
    /\ src \in Sources /\ wire \in Wires
    /\ up.body \in {"open", "ended", "erred", "broken"} /\ up.finished \in BOOLEAN
    /\ Len(up.calls) <= MaxCalls /\ Len(up.text) <= MaxText
    /\ \A i \in DOMAIN started : started[i] \in Ids
    /\ http \in {"waiting", "200", "status"} /\ told \in {"nothing", "completed", "failed"}
    /\ gone \in BOOLEAN /\ aborting \in BOOLEAN /\ keyed \in BOOLEAN
    /\ \A i \in DOMAIN rows : rows[i] \in {NoUsage, 1}
    /\ sink.tool \in 0..Len(sink.output)

Distinct == \A i, j \in DOMAIN started : started[i] = started[j] => i = j
Ended == up.body = "ended" /\ up.finished
\* Wires whose argument fragments name their call.
KeyedArguments == wire \in {"chat-completions", "messages"}

Asked == LET calls == IF Real(up.calls) # <<>> THEN Real(up.calls) ELSE up.calls
         IN  [i \in DOMAIN calls |-> [name |-> calls[i].name, args |-> calls[i].args]]
Got == [i \in DOMAIN client.view.calls |-> client.view.calls[i].val]

\* When a turn the provider finished has ended, a client that stayed holds the
\* text and exactly the calls the model made, in their order, each with its own
\* arguments: through any adapter and any wire.  The calls must have got
\* different ids (opencode's Gemini adapter and Ollama's may repeat one), and on
\* a wire whose fragments do not name their call they must not be interleaved.
DeliveredIntact ==
    Ended /\ ~gone /\ Distinct /\ (KeyedArguments \/ up.serial) =>
        Got = Asked /\ client.view.text = up.text

\* On the Messages wire no delta or stop is for a block that is not open, and a
\* finished turn leaves none open.  (An OpenAI-compatible provider that ends a
\* turn of calls with another reason than tool_calls does leave them open.)
BlocksPaired ==
    /\ ~blocks.misused
    /\ Ended /\ told = "completed" /\ ~gone /\ src # "openai" => blocks.open = {}

(* What a client reads is what the model said, block by block. *)
StreamsAreWhole ==
  TypeOK /\ DeliveredIntact /\ BlocksPaired

\* A client is told that a turn is complete only if the provider finished it, or
\* ended the body cleanly where that is all an adapter asks for; a lost
\* connection and a plan stream without its terminal event never pass for an
\* answer.  (Three adapters do not read an error in the body.)
NoFinishOutOfNothing ==
    told = "completed" =>
        \/ up.finished
        \/ up.body = "ended" /\ src # "plan"
        \/ up.body = "erred" /\ src \in {"openai", "zen", "gemini"}

\* A stream that ends makes one row if its finish carried usage, with that
\* usage, or if a service key is to be charged for it, and none otherwise; a
\* stream that throws makes none, whatever it had finished with.  The usage an
\* OpenAI-style provider sends behind its finish is on no row.
MeteredOnce ==
    /\ Len(rows) <= 1
    /\ \A i \in DOMAIN rows : rows[i] # NoUsage \/ keyed
    /\ Ended => rows = IF up.usage # NoUsage \/ keyed THEN <<up.usage>> ELSE <<>>
    /\ up.body \in {"open", "broken"} => rows = <<>>

\* Not true of the code, and checked by no run: the usage of a trailing frame
\* counts, as conformance/README.md asks of an SDK ("defer the normalized
\* finish event until any trailing usage frame has arrived").
TrailingUsageCounts ==
    Ended /\ up.late # NoUsage => rows = <<up.late>>

\* A provider that fails before it says anything gives the client an error
\* status, on the two wires whose generators read upstream before they write.
EarlyFailureHasStatus ==
    up.body = "broken" /\ up.calls = <<>> /\ up.text = <<>> /\ ~up.finished /\ ~Committed(wire) =>
        http = "status" /\ told = "nothing"

\* What the bridge remembers of a Responses turn is what the client got: its
\* text, its last call, and no call with other arguments than the client holds.
MemoryFitsAnswer ==
    Ended /\ wire = "responses" /\ ~gone /\ Distinct /\ up.serial =>
        LET calls == FlattenSeq([i \in DOMAIN memory |-> memory[i].calls])
            text  == FlattenSeq([i \in DOMAIN memory |-> memory[i].text])
        IN  /\ text = client.view.text
            /\ \A i \in DOMAIN calls : Has(client.view.calls, calls[i].id)
                    /\ At(client.view.calls, calls[i].id) = [name |-> calls[i].name, args |-> calls[i].args]
            /\ started # <<>> => calls # <<>> /\ Last(calls).id = Last(started)

(* However a stream ends, the head, the finish, the usage row and the
   memory say so. *)
EndsAreTold ==
  /\ NoFinishOutOfNothing
  /\ MeteredOnce
  /\ EarlyFailureHasStatus
  /\ MemoryFitsAnswer

(* What streams carry, and how they end. *)
StreamsAreSound == StreamsAreWhole /\ EndsAreTold

\* Nobody reads an upstream call whose client has left.
AbortEndsUpstream == gone ~> up.body # "open"
=============================================================================
