----------------------------- MODULE ReactHooks -----------------------------
(***************************************************************************)
(* The React bindings: useStream runs one turn at a time, useChat a        *)
(* conversation. A new run aborts the one before it, which ends later: its *)
(* generator looks at the signal when its next event comes. useChat's send *)
(* is a closure of the last render: it sees the messages and the state of  *)
(* thinking of that render, not those set since.                           *)
(***************************************************************************)
EXTENDS Naturals, SequencesExt

CONSTANTS
    Asks,       \* calls of start or send
    MaxChunks,  \* chunks shown of one run
    NoRun

ASSUME HooksAssumption == NoRun \notin Asks /\ MaxChunks \in Nat

VARIABLES
    stream,     \* useStream: the run controllerRef points at, its state and what is shown
    chat,       \* useChat: the run controllerRef points at, its state and what is shown
    rendered,   \* useChat: messages and isThinking as the last render saw them
    loops,      \* per run: "new", "live" or "over", of which hook, the signal, and the messages it works on
    asked,      \* history: useChat's questions since the last reset, in order
    stale,      \* history: a question since the last reset was sent from a closure older than the messages
    latest      \* history: the run started last by useStream

hookVars == <<stream, chat, rendered, loops, asked, stale, latest>>

NewLoop == [state |-> "new", hook |-> "none", aborted |-> FALSE, working |-> <<>>]

HooksInit ==
    /\ stream = [current |-> NoRun, isStreaming |-> FALSE, of |-> NoRun, chunks |-> 0, error |-> NoRun]
    /\ chat = [current |-> NoRun, isThinking |-> FALSE, messages |-> <<>>]
    /\ rendered = [messages |-> <<>>, isThinking |-> FALSE]
    /\ loops = [r \in Asks |-> NewLoop]
    /\ asked = <<>> /\ stale = FALSE /\ latest = NoRun

Live(r) == r \in Asks /\ loops[r].state = "live"

Abort(c) == [r \in Asks |-> IF r = c THEN [loops[r] EXCEPT !.aborted = TRUE] ELSE loops[r]]

Begin(ls, r, hook, working) == [ls EXCEPT ![r] = [state |-> "live", hook |-> hook, aborted |-> FALSE, working |-> working]]

Over(r) == loops' = [loops EXCEPT ![r].state = "over"]

chatState == <<chat, rendered, asked, stale>>
streamState == <<stream, latest>>

-----------------------------------------------------------------------------
(* useStream *)

StartStream(r) ==
    /\ loops[r].state = "new"
    /\ loops' = Begin(Abort(stream.current), r, "stream", <<>>)
    /\ stream' = [current |-> r, isStreaming |-> TRUE, of |-> r, chunks |-> 0, error |-> NoRun]
    /\ latest' = r
    /\ UNCHANGED chatState

CancelStream ==
    /\ Live(stream.current) /\ ~loops[stream.current].aborted
    /\ loops' = Abort(stream.current)
    /\ UNCHANGED <<streamState, chatState>>

\* Shows what still comes of a run that was aborted.
ChunkShown(r) ==
    /\ Live(r) /\ loops[r].hook = "stream" /\ stream.chunks < MaxChunks
    /\ stream' = [stream EXCEPT !.of = r, !.chunks = @ + 1]
    /\ UNCHANGED <<loops, latest, chatState>>

Chunk(r) ==
    /\ Live(r) /\ loops[r].hook = "stream" /\ ~loops[r].aborted /\ stream.chunks < MaxChunks
    /\ stream' = [stream EXCEPT !.of = r, !.chunks = @ + 1]
    /\ UNCHANGED <<loops, latest, chatState>>

\* The finally block of start, after an end, an error or an abort.
StreamEnds(r, failed) ==
    /\ Live(r) /\ loops[r].hook = "stream" /\ Over(r)
    /\ stream' = [stream EXCEPT !.isStreaming = FALSE,
                                !.error = IF failed /\ ~loops[r].aborted THEN r ELSE @,
                                !.current = IF @ = r THEN NoRun ELSE @]
    /\ UNCHANGED <<latest, chatState>>

-----------------------------------------------------------------------------
(* useChat *)

\* A question is sent with the closure of the last render.
Send(r) ==
    /\ loops[r].state = "new" /\ ~rendered.isThinking
    /\ loops' = Begin(Abort(chat.current), r, "chat", Append(rendered.messages, <<"user", r>>))
    /\ chat' = [current |-> r, isThinking |-> TRUE, messages |-> Append(chat.messages, <<"user", r>>)]
    /\ asked' = Append(asked, r)
    /\ stale' = (stale \/ rendered.messages # chat.messages)
    /\ UNCHANGED <<rendered, streamState>>

\* The finally block of send.
Finally(r, c) == IF c.current = r THEN [c EXCEPT !.current = NoRun, !.isThinking = FALSE] ELSE c

\* The loop is done: its history becomes the conversation, if nobody aborted it.
ChatDone(r) ==
    /\ Live(r) /\ loops[r].hook = "chat" /\ ~loops[r].aborted /\ Over(r)
    /\ chat' = Finally(r, [chat EXCEPT !.messages = Append(loops[r].working, <<"assistant", r>>)])
    /\ UNCHANGED <<rendered, asked, stale, streamState>>

\* The loop throws, or notices at its next event that it was aborted.
ChatStops(r) ==
    /\ Live(r) /\ loops[r].hook = "chat" /\ Over(r)
    /\ chat' = Finally(r, chat)
    /\ UNCHANGED <<rendered, asked, stale, streamState>>

CancelChat ==
    /\ Live(chat.current) /\ ~loops[chat.current].aborted
    /\ loops' = Abort(chat.current)
    /\ UNCHANGED <<streamState, chatState>>

Reset ==
    /\ chat.messages # <<>>
    /\ loops' = Abort(chat.current)
    /\ chat' = [chat EXCEPT !.messages = <<>>, !.isThinking = FALSE]
    /\ asked' = <<>> /\ stale' = FALSE
    /\ UNCHANGED <<rendered, streamState>>

Render ==
    /\ rendered' = [messages |-> chat.messages, isThinking |-> chat.isThinking]
    /\ rendered' # rendered
    /\ UNCHANGED <<loops, chat, asked, stale, streamState>>

HooksNext ==
    \/ \E r \in Asks : StartStream(r) \/ Chunk(r) \/ Send(r) \/ ChatDone(r) \/ ChatStops(r)
    \/ \E r \in Asks, failed \in BOOLEAN : StreamEnds(r, failed)
    \/ CancelStream \/ CancelChat \/ Reset \/ Render

-----------------------------------------------------------------------------
(* Properties *)

\* What useStream shows, text and error, is of the run that was started last,
\* however late the runs before it end.
StreamShowsTheLatest == stream.of = latest /\ stream.error \in {NoRun, latest}

\* The spinner of useStream never turns over nothing.
StreamingHasARun == stream.isStreaming => Live(stream.current)

\* The places of some questions in a conversation, in order, and no question beside.
QuestionsAre(messages, questions) ==
    \E place \in [DOMAIN questions -> DOMAIN messages] :
        /\ \A i, j \in DOMAIN questions : i < j => place[i] < place[j]
        /\ \A i \in DOMAIN questions : messages[place[i]] = <<"user", questions[i]>>
        /\ \A k \in DOMAIN messages : messages[k][1] = "user" => \E i \in DOMAIN questions : place[i] = k

\* The conversation holds the questions asked since it was last emptied, in
\* order, through cancels, failures and runs that end late, unless one was sent
\* from a closure that had not seen the one before.
QuestionsStay == ~stale => QuestionsAre(chat.messages, asked)

\* useChat is thinking while a run that nobody aborted is under way, and never
\* without a run.
ThinkingFollowsTheRun ==
    /\ chat.isThinking => Live(chat.current)
    /\ \A r \in Asks : Live(r) /\ loops[r].hook = "chat" /\ ~loops[r].aborted => chat.isThinking /\ chat.current = r

(* What the hooks show belongs to the run they were asked for last. *)
HooksShowTheRun ==
  /\ StreamShowsTheLatest
  /\ StreamingHasARun
  /\ QuestionsStay
  /\ ThinkingFollowsTheRun

\* What the hook's name for it says: it is streaming while a run is under way.
StreamingWhileLive == Live(latest) /\ ~loops[latest].aborted => stream.isStreaming
=============================================================================
