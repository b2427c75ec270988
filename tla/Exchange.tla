------------------------------- MODULE Exchange -------------------------------
(***************************************************************************)
(* One request without streaming, from the body a client posted to the     *)
(* body it got back: server.ts handleChat, handleAnthropic, handleGemini   *)
(* and handleResponses on one side, a provider's chat on the other.  The   *)
(* failover between them is FailoverWalk.                                  *)
(***************************************************************************)
EXTENDS AnswerMappings, FiniteSets

CONSTANTS
  Asked,          (* per wire, the bodies a client may post                  *)
  Given,          (* per upstream, the answers it may give                   *)
  HttpFailures    (* statuses an upstream may answer with                    *)

InferenceWires == DOMAIN Asked
Upstreams == DOMAIN Given

VARIABLES
  stage,          (* asked, mapped, sent or told                             *)
  wire, upstream, posted,
  params, body,   (* the normalized request, and what was sent last          *)
  tries,
  given, cause,   (* what the upstream answered, or why there is no answer   *)
  told

exchangeVars == <<stage, wire, upstream, posted, params, body, tries, given, cause, told>>

NoCause == [what |-> "none", status |-> 0, transient |-> FALSE]
NotYet == Refused(0, "")

ExchangeInit ==
    /\ stage = "asked" /\ tries = 0
    /\ wire \in InferenceWires /\ upstream \in Upstreams /\ posted \in Asked[wire]
    /\ params = Params(<<>>, <<>>, Absent, Absent, {}) /\ body = Sent(<<>>, <<>>, Absent, Absent, {})
    /\ given = Answer(<<>>, "") /\ cause = NoCause /\ told = NotYet

Tell(e, why) ==
    /\ stage' = "told" /\ told' = ToldError(wire, e) /\ cause' = why
    /\ UNCHANGED <<wire, upstream, posted, params, body, tries, given>>

(***************************************************************************)
(* A request nobody could answer is turned down before it is routed: no    *)
(* messages, or on the Responses wire nothing but results.                 *)
(***************************************************************************)
Unanswerable == \/ posted.turns = <<>> /\ (wire = "responses" => posted.system = <<>>)
                \/ wire = "responses" /\ \A i \in DOMAIN Mapped(wire, posted).turns : Mapped(wire, posted).turns[i].role = "tool"

Map ==
    /\ stage = "asked" /\ ~Unanswerable
    /\ stage' = "mapped" /\ params' = Mapped(wire, posted)
    /\ UNCHANGED <<wire, upstream, posted, body, tries, given, cause, told>>

TurnDown == stage = "asked" /\ Unanswerable /\ Tell(Err("bad-request", 400), [NoCause EXCEPT !.what = "unanswerable"])

\* Also the token a refresh after a 401 was to bring.
KeyMissing ==
    /\ \/ stage = "mapped" /\ upstream # "ollama"
       \/ stage = "sent" /\ upstream = "plan" /\ tries = 1
    /\ Tell(Err("missing-api-key", 0), [NoCause EXCEPT !.what = "key"])

\* A URL that answers with an error, or one that fetch itself refuses.
ImageFails ==
    /\ stage = "mapped" /\ Fetches(upstream, params)
    /\ \E e \in {Err("network-error", 0), Thrown} : Tell(e, [NoCause EXCEPT !.what = "image"])

Send ==
    /\ stage = "mapped"
    /\ stage' = "sent" /\ tries' = 1 /\ body' = Body(upstream, params)
    /\ UNCHANGED <<wire, upstream, posted, params, given, cause, told>>

\* A 400 that names response_format: the same request again, without it.
RejectFormat ==
    /\ stage = "sent" /\ upstream = "openai" /\ body.format # Absent
    /\ tries' = tries + 1 /\ body' = degradeResponseFormatBody(body)
    /\ UNCHANGED <<stage, wire, upstream, posted, params, given, cause, told>>

\* A 401 of the plan: once more with a refreshed token.
RejectToken ==
    /\ stage = "sent" /\ upstream = "plan" /\ tries = 1
    /\ tries' = 2 /\ body' = Body(upstream, params)
    /\ UNCHANGED <<stage, wire, upstream, posted, params, given, cause, told>>

\* A 401 of the plan at once: the caller brought a token of its own.
Reject(status, transient) ==
    /\ stage = "sent" /\ (transient => status = 400 /\ upstream \notin {"anthropic", "ollama"})
    /\ Tell(Rejected(upstream, status, transient), [what |-> "http", status |-> status, transient |-> transient])

Unreachable == stage = "sent" /\ Tell(Err("network-error", 0), [NoCause EXCEPT !.what = "network"])

\* A 200 without a message.
Silence == stage = "sent" /\ upstream = "openai" /\ Tell(Err("provider-error", 0), [NoCause EXCEPT !.what = "silence"])

Reply(a) ==
    /\ stage = "sent"
    /\ stage' = "told" /\ given' = a /\ told' = Told(wire, Normalized(upstream, a))
    /\ UNCHANGED <<wire, upstream, posted, params, body, tries, cause>>

ExchangeNext ==
    \/ Map \/ TurnDown \/ KeyMissing \/ ImageFails \/ Send \/ RejectFormat \/ RejectToken \/ Unreachable \/ Silence
    \/ \E s \in HttpFailures, transient \in BOOLEAN : Reject(s, transient)
    \/ \E a \in Given[upstream] : Reply(a)

ExchangeSpec == ExchangeInit /\ [][ExchangeNext]_exchangeVars

-----------------------------------------------------------------------------
(***************************************************************************)
(* What a body says, on any wire: a reading of its own, which the mappings *)
(* do not use.  Calls are named by their place; a result belongs to the    *)
(* call with its id, on the Gemini wire to the last call of its function.  *)
(***************************************************************************)
Who(role) == CASE role = "model" -> "assistant" [] role = "developer" -> "user" [] OTHER -> role

Parts(turns) == FlattenSeq([i \in DOMAIN turns |->
                    [j \in DOMAIN turns[i].parts |-> [who |-> Who(turns[i].role), part |-> turns[i].parts[j]]]])

Numbers(content) ==
    FlattenSeq([i \in DOMAIN content |->
        IF content[i].k = "json" THEN [j \in DOMAIN content[i].of |-> content[i].of[j].n]
        ELSE IF content[i].k \in {"prose", "note", "image"} THEN <<content[i].n>> ELSE <<>>])

Spoken(turns, who, kinds) ==
    Numbers(FlattenSeq([i \in DOMAIN turns |->
        IF Who(turns[i].role) = who THEN SelectSeq(turns[i].parts, LAMBDA p : p.k \in kinds /\ (p.k = "image" => p.form # "none")) ELSE <<>>]))

CallPlaces(ps) == {i \in DOMAIN ps : ps[i].part.k = "call"}
ResultPlaces(ps) == {i \in DOMAIN ps : ps[i].part.k = "result"}
UpTo(places, i) == Cardinality({j \in places : j <= i})

CallOf(w, ps, r) ==
    LET own == {c \in CallPlaces(ps) : c < r /\ IF w = "gemini" THEN ps[c].part.name = ps[r].part.name
                                                             ELSE ps[c].part.id = ps[r].part.id}
    IN  IF own = {} THEN 0 ELSE CHOOSE c \in own : \A d \in own : d <= c

\* Orphans are left out unless the upstream is to know their calls.
ResultsOf(w, turns, orphans) ==
    LET ps   == Parts(turns)
        pairs == {<<UpTo(CallPlaces(ps), CallOf(w, ps, r)), Numbers(ps[r].part.content)>> : r \in ResultPlaces(ps)}
    IN  {x \in pairs : x[1] # 0 \/ orphans}

CallsOf(turns) == LET ps == SelectSeq(Parts(turns), LAMBDA p : p.part.k = "call")
                  IN  [i \in DOMAIN ps |-> <<ps[i].part.name, ps[i].part.args>>]

Pairs(u) == u \notin {"gemini", "ollama"}

SystemOf(b) == Numbers(b.system) \o Spoken(b.turns, "system", {"prose"})
SystemTurns(b) == Cardinality({i \in DOMAIN b.turns : b.turns[i].role = "system"}) + (IF b.system = <<>> THEN 0 ELSE 1)

(***************************************************************************)
(* Whatever the client's wire and the upstream's, and on a second try too, *)
(* the upstream is asked what the client asked: what user and assistant    *)
(* said, in order, the pictures, the calls with their arguments, and each  *)
(* call's own result.  Known to be lost: the pairing toward Gemini, where  *)
(* results have one name, and Ollama, where they have none; all system     *)
(* prompts but the last toward Gemini; and a system prompt in a list of    *)
(* parts when a response format is rejected.                               *)
(***************************************************************************)
AskedAsMeant ==
    stage = "sent" =>
      /\ \A who \in {"user", "assistant"} :
            /\ Spoken(body.turns, who, {"prose"}) = Spoken(posted.turns, who, {"prose"})
            /\ Spoken(body.turns, who, {"image"}) = Spoken(posted.turns, who, {"image"})
      /\ CallsOf(body.turns) = CallsOf(posted.turns)
      /\ LET sent  == ResultsOf(BodyWire(upstream), body.turns, TRUE)
             meant == ResultsOf(wire, posted.turns, posted.continues)
         IN  IF Pairs(upstream) THEN sent = meant ELSE {x[2] : x \in sent} = {x[2] : x \in meant}
      /\ \/ SystemOf(body) = SystemOf(posted)
         \/ upstream = "gemini" /\ SystemTurns(posted) > 1
         \/ tries = 2 /\ \E i \in DOMAIN posted.turns : posted.turns[i].listed

(***************************************************************************)
(* Upstreams turn down what is out of place: a user's turn without         *)
(* content, words between a call and its result, a link to a file of the   *)
(* client's machine that could have been read.  The bridge sends none of   *)
(* them, unless the chat wire brought the empty turn, or a turn of the     *)
(* Messages or Gemini wire has words beside its results.                   *)
(***************************************************************************)
Mixed(t) == Results(t.parts) # <<>> /\ Content(t.parts) # <<>>

AskedInOrder ==
    stage = "sent" =>
      LET ps == Parts(body.turns)
      IN  /\ wire # "chat-completions" =>
                \A i \in DOMAIN body.turns : body.turns[i].role = "user" => body.turns[i].parts \notin {<<>>, <<Blank>>}
          /\ (\A i \in DOMAIN posted.turns : ~Mixed(posted.turns[i])) =>
                \A r \in ResultPlaces(ps) : Pairs(upstream) /\ CallOf(BodyWire(upstream), ps, r) # 0 =>
                    \A i \in CallOf(BodyWire(upstream), ps, r)..r : ps[i].who = "user" => ps[i].part.k = "result"
          /\ \A i \in DOMAIN ps : ps[i].part.k = "image" => ps[i].part.form # "local"

(***************************************************************************)
(* A client that asks for JSON, or for a call, gets an upstream asked for  *)
(* it, with response_format rejected too, and none that did not ask is     *)
(* told to answer in JSON.  Known to be lost: what a client of the Gemini  *)
(* wire says in generationConfig of the answer's MIME type and schema,     *)
(* which the bridge never reads; opencode's Responses and Gemini bodies    *)
(* carry no format, the latter no tool choice; Ollama knows no choice of   *)
(* one function, and the plan takes no limits.                             *)
(***************************************************************************)
WantsJson(b) == \/ b.format \notin {Absent, "text"}
                \/ \E i \in DOMAIN b.system : b.system[i] = Instruct
                \/ \E i \in DOMAIN b.turns : b.turns[i].role = "system" /\ \E j \in DOMAIN b.turns[i].parts : b.turns[i].parts[j] = Instruct

Choice(c) == CASE c \in {Absent, "auto", "AUTO"} -> "auto" [] c \in {"required", "any", "ANY"} -> "required"
               [] c \in {"none", "NONE"} -> "none" [] OTHER -> "function"

WishesKept ==
    stage = "sent" =>
      /\ upstream \notin {"zen", "gemini"} => WantsJson(body) = (WantsJson(posted) /\ wire # "gemini")
      /\ upstream # "gemini" => \/ Choice(body.choice) = Choice(posted.choice)
                                \/ upstream = "ollama" /\ Choice(posted.choice) = "function" /\ Choice(body.choice) = "required"
      /\ upstream # "plan" => posted.limits \subseteq body.limits

RequestsSurvive == AskedAsMeant /\ AskedInOrder /\ WishesKept

(***************************************************************************)
(* Not true of the code, and checked by no run: JSON asked for on the      *)
(* Gemini wire is asked of the upstream, as it is on the other wires that  *)
(* know of it.  responseMimeType and responseSchema are declared apart     *)
(* from the fields "the bridge deliberately drops", and dropped with them. *)
(***************************************************************************)
GeminiWishesKept ==
    stage = "sent" /\ wire = "gemini" /\ upstream \notin {"zen", "gemini"} => WantsJson(body) = WantsJson(posted)

-----------------------------------------------------------------------------
Recovers(u) == u \in {"openai", "zen", "gemini"}
MeantCalls(u, a) ==
    LET real == Calls(a.parts)
        all  == IF real = <<>> /\ Recovers(u) THEN Marked(a.parts) ELSE real
    IN  [i \in DOMAIN all |-> <<all[i].name, all[i].args>>]
ToldCalls == [i \in DOMAIN Calls(told.parts) |-> <<Calls(told.parts)[i].name, Calls(told.parts)[i].args>>]
ToldOf(w) == CASE w = "chat-completions" -> "openai" [] w = "messages" -> "anthropic" [] w = "responses" -> "zen" [] OTHER -> w

(***************************************************************************)
(* The client is told what the upstream answered: its words, and its calls *)
(* once each, with the ids they came with and no two alike.  An answer     *)
(* that was cut short is told to be (the Responses wire cannot say so),    *)
(* and one with calls is told to wait for their results.  A bridge that    *)
(* reads this answer from the same wire reads the same message.            *)
(***************************************************************************)
ToldAsGiven ==
    stage = "told" /\ told.status = 200 =>
      LET calls     == Calls(told.parts)
          recovered == Calls(given.parts) = <<>> /\ calls # <<>>
      IN  /\ Numbers(Unmarked(told.parts)) = Numbers(Unmarked(given.parts))
          /\ ToldCalls = MeantCalls(upstream, given)
          /\ \A i, j \in DOMAIN calls : calls[i].id = calls[j].id => i = j
          /\ ~recovered /\ upstream # "ollama" =>
                \A i \in DOMAIN calls : Calls(given.parts)[i].id # NoId => calls[i].id = Calls(given.parts)[i].id
          /\ calls # <<>> /\ upstream # "ollama" /\ ~(recovered /\ upstream = "openai") =>
                told.reason \in {"tool_calls", "tool_use", "TOOL_CALLS", "completed"}
          /\ calls = <<>> /\ wire # "responses" =>
                (told.reason \in {"length", "max_tokens", "MAX_TOKENS"}) = (given.reason \in {"length", "max_tokens", "MAX_TOKENS", "incomplete"})
          /\ Marked(told.parts) = <<>> => Normalized(ToldOf(wire), told).parts = told.parts

(***************************************************************************)
(* An error means on every wire what it meant upstream: its status, to     *)
(* slow down after a 429, to look at the key after a 401 or 403, and not   *)
(* that the request is at fault when a gateway hides an outage in a 400.   *)
(* Ollama's statuses are dropped; without a status the Messages and Gemini *)
(* wires say 500.                                                          *)
(***************************************************************************)
ToldWhatWentWrong ==
    stage = "told" =>
      /\ (told.status = 200) = (cause = NoCause)
      /\ cause.what = "http" /\ upstream # "ollama" =>
            /\ told.status = cause.status
            /\ (cause.status = 429) = (told.kind \in {"rate_limit_error", "RESOURCE_EXHAUSTED"})
            /\ (cause.status \in {401, 403}) = (told.kind \in {"authentication_error", "PERMISSION_DENIED"})
            /\ cause.status >= 500 \/ cause.transient => told.kind \in {"api_error", "INTERNAL"}
      /\ cause.what = "unanswerable" => told.status = 400
      /\ cause.what = "key" /\ wire \in {"chat-completions", "responses"} => told.status = 401
      /\ cause.what \in {"network", "silence", "image"} => told.status \in {500, 502}

AnswersSurvive == ToldAsGiven /\ ToldWhatWentWrong

\* Both ways.
ExchangesSurvive == RequestsSurvive /\ AnswersSurvive
=============================================================================
