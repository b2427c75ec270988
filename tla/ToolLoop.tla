------------------------------ MODULE ToolLoop ------------------------------
(***************************************************************************)
(* The tasks of one session: runToolLoop chains model turns and tool calls *)
(* into a run, compaction rewrites the history between turns, long outputs *)
(* are digested before they enter it, and the history a run ends with      *)
(* seeds the next task (or a later --resume).                              *)
(*                                                                         *)
(* A message is its role, the calls it makes or answers, its size, and     *)
(* what it stands for: the positions of the full transcript it is, or that *)
(* it digests. Which of a turn's calls may overlap is ToolBatch's subject; *)
(* here they finish in any order, and a batch executor may skip some.      *)
(***************************************************************************)
EXTENDS Naturals, SequencesExt, FiniteSetsExt

CONSTANTS
    LoopCalls,        \* ids providers give to calls; used again in later turns
    Shapes,         \* the calls a turn may ask for, in order; <<>> is an answer without
    Sizes,          \* sizes of a tool's output
    DigestSizes,    \* sizes of an answer to a digest request; 0 is an empty one
    Long,           \* the size above which an output is summarized
    Short,          \* the size of a summarized output
    Threshold,      \* the size above which a history is compacted
    KeepRecent,     \* completed units kept verbatim
    MinGain,        \* a compaction must remove 1 of so many parts
    MaxRounds,       \* model turns of a run
    MaxTasks        \* tasks of the session

ASSUME ToolLoopAssumption ==
    /\ Shapes \subseteq Seq(LoopCalls) /\ <<>> \in Shapes /\ \A made \in Shapes : IsInjective(made)
    /\ Sizes \subseteq Nat /\ DigestSizes \subseteq Nat /\ {Long, Short, Threshold, KeepRecent} \subseteq Nat
    /\ MinGain \in Nat \ {0} /\ MaxRounds \in Nat \ {0} /\ MaxTasks \in Nat

VARIABLES
    pc,             \* "idle", "turn", "compacting", "model", "tools"
    messages,       \* the history of the run
    carried,        \* the history the session goes on from
    turn,           \* the run's turn
    tasks,          \* tasks begun
    calls,          \* the calls of the turn, in the model's order
    state,          \* per call: "running", "digesting", "done" or "skipped"
    output,         \* per call: the size of what was served
    digestInFlight, \* the latch of the summarizer
    length,         \* history: the length of the run's full transcript
    carriedLength,  \* history: and of the carried one
    task,           \* history: where the transcript holds the task of the run
    grew            \* history: where each of the run's turns begins in the transcript

loopVars == <<pc, messages, carried, turn, tasks, calls, state, output, digestInFlight, length, carriedLength, task, grew>>

Msg(role, made, answers, size, of) ==
    [role |-> role, calls |-> made, answers |-> answers, size |-> size, of |-> of]

LoopInit ==
    /\ pc = "idle" /\ messages = <<>> /\ carried = <<>> /\ turn = 0 /\ tasks = 0
    /\ calls = <<>> /\ state = <<>> /\ output = <<>> /\ digestInFlight = FALSE
    /\ length = 0 /\ carriedLength = 0 /\ task = 0 /\ grew = <<>>

-----------------------------------------------------------------------------
(* Compaction, on any history. *)

historySize(ms) == FoldLeft(LAMBDA n, m : n + m.size, 0, ms)

MakesCalls(m) == m.role = "assistant" /\ m.calls # <<>>

\* Takes each message for a unit.
UnitAlone(ms, i) == i

\* The last message of the unit that begins at i: an assistant's calls absorb
\* the results that follow and answer one of them each.
UnitEnd(ms, i) ==
    LET Taken(k) == /\ ms[k].role = "tool" /\ ms[k].answers \subseteq ToSet(ms[i].calls)
                    /\ \A l \in i+1..k-1 : ms[l].answers # ms[k].answers
        runs == {j \in i+1..Len(ms) : \A k \in i+1..j : Taken(k)}
    IN  IF MakesCalls(ms[i]) /\ runs # {} THEN Max(runs) ELSE i

Units(ms) == {i \in DOMAIN ms : \A a \in 1..i-1 : UnitEnd(ms, a) < i}

FirstUser(ms) == SelectInSeq(ms, LAMBDA m : m.role = "user")

Droppable(ms) == {i \in Units(ms) : ms[i].role # "system" /\ i # FirstUser(ms)}

\* The units to drop: all but the most recent, of which at least one stays.
planCompaction(ms) ==
    LET droppable == Droppable(ms)
        kept == Min({KeepRecent, Cardinality(droppable) - 1})
    IN  IF historySize(ms) <= Threshold \/ Threshold = 0 \/ Cardinality(droppable) <= 1 THEN {}
        ELSE {i \in droppable : Cardinality({j \in droppable : j > i}) >= kept}

Covered(ms, drop) == UNION {i..UnitEnd(ms, i) : i \in drop}

\* The history with the digest where each dropped unit began: what is left of
\* the messages, in their order.
Compacted(ms, drop, size) ==
    LET digest == Msg("user", <<>>, {}, size, UNION {ms[i].of : i \in Covered(ms, drop)})
        left == drop \cup (DOMAIN ms \ Covered(ms, drop))
        Place(k) == CHOOSE i \in left : Cardinality({j \in left : j <= i}) = k
    IN  [k \in 1..Cardinality(left) |-> IF Place(k) \in drop THEN digest ELSE ms[Place(k)]]

Worthwhile(ms, next) == (historySize(ms) - historySize(next)) * MinGain >= historySize(ms)

-----------------------------------------------------------------------------
(* The loop. *)

\* A task: a fresh history, or the session's with the task at its end.
StartTask ==
    /\ pc = "idle" /\ tasks < MaxTasks
    /\ tasks' = tasks + 1 /\ turn' = 0 /\ pc' = "turn"
    /\ LET fresh == carried = <<>>
           at == IF fresh THEN 2 ELSE carriedLength + 1
           prompt == Msg("user", <<>>, {}, 1, {at})
       IN  /\ messages' = IF fresh THEN <<Msg("system", <<>>, {}, 1, {1}), prompt>> ELSE Append(carried, prompt)
           /\ length' = at /\ task' = at
    /\ grew' = <<>>
    /\ UNCHANGED <<carried, calls, state, output, digestInFlight, carriedLength>>

\* The next turn looks at the history first.
BeforeTurn ==
    /\ pc = "turn" /\ turn < MaxRounds
    /\ turn' = turn + 1
    /\ pc' = IF planCompaction(messages) = {} THEN "model" ELSE "compacting"
    /\ UNCHANGED <<messages, carried, tasks, calls, state, output, digestInFlight, length, carriedLength, task, grew>>

\* The digest arrives: an empty one, or one that saves too little, changes nothing.
Compact(size) ==
    LET next == Compacted(messages, planCompaction(messages), size)
    IN  /\ pc = "compacting" /\ pc' = "model"
        /\ messages' = IF size > 0 /\ Worthwhile(messages, next) THEN next ELSE messages
        /\ UNCHANGED <<carried, turn, tasks, calls, state, output, digestInFlight, length, carriedLength, task, grew>>

\* A failed digest request never ends a run.
CompactFails ==
    /\ pc = "compacting" /\ pc' = "model"
    /\ UNCHANGED <<messages, carried, turn, tasks, calls, state, output, digestInFlight, length, carriedLength, task, grew>>

\* The run is over, and the session goes on from this history.
EndRun(history, said) ==
    /\ pc' = "idle" /\ carried' = history /\ carriedLength' = said
    /\ messages' = <<>> /\ turn' = 0 /\ length' = 0 /\ task' = 0 /\ grew' = <<>>
    /\ UNCHANGED tasks

\* The model answers with these calls. Without any the run is done.
ModelAnswers(made) ==
    LET answer == Msg("assistant", made, {}, 1, {length + 1})
    IN  /\ pc = "model"
        /\ \/ made = <<>> /\ EndRun(Append(messages, answer), length + 1) /\ UNCHANGED <<calls, state, output>>
           \/ /\ made # <<>> /\ pc' = "tools" /\ calls' = made
              /\ messages' = Append(messages, answer) /\ length' = length + 1
              /\ grew' = Append(grew, length + 1)
              /\ state' = [i \in DOMAIN made |-> "running"] /\ output' = [i \in DOMAIN made |-> 0]
              /\ UNCHANGED <<carried, carriedLength, turn, tasks, task>>
        /\ UNCHANGED digestInFlight

\* Every lane of the provider call fails: the run throws, and the session goes
\* on from where it was.
ModelFails ==
    /\ pc = "model" /\ EndRun(carried, carriedLength)
    /\ UNCHANGED <<calls, state, output, digestInFlight>>

\* A call's tool returns. A long output is digested, or served as it was when
\* the same text was digested before; a failure, the output of an exempt tool and
\* what comes while a digest is under way in this process are served whole.
ToolReturns(i, size) ==
    /\ pc = "tools" /\ i \in DOMAIN calls /\ state[i] = "running"
    /\ \/ /\ size > Long /\ ~digestInFlight
          /\ digestInFlight' = TRUE
          /\ state' = [state EXCEPT ![i] = "digesting"]
          /\ UNCHANGED output
       \/ /\ \E served \in {size} \cup (IF size > Long /\ ~digestInFlight THEN {Short} ELSE {}) :
                output' = [output EXCEPT ![i] = served]
          /\ state' = [state EXCEPT ![i] = "done"]
          /\ UNCHANGED digestInFlight
    /\ UNCHANGED <<pc, messages, carried, turn, tasks, calls, length, carriedLength, task, grew>>

\* The digest of an output settles: with text, without, or with an error, the
\* output is served as its head and tail around it.
DigestSettles(i) ==
    /\ pc = "tools" /\ i \in DOMAIN calls /\ state[i] = "digesting"
    /\ state' = [state EXCEPT ![i] = "done"] /\ output' = [output EXCEPT ![i] = Short]
    /\ digestInFlight' = FALSE
    /\ UNCHANGED <<pc, messages, carried, turn, tasks, calls, length, carriedLength, task, grew>>

\* A batch executor yields nothing for a call.
SkipCall(i) ==
    /\ pc = "tools" /\ i \in DOMAIN calls /\ state[i] = "running"
    /\ state' = [state EXCEPT ![i] = "skipped"]
    /\ UNCHANGED <<pc, messages, carried, turn, tasks, calls, output, digestInFlight, length, carriedLength, task, grew>>

\* Only what the executor yielded.
ResultsYielded == SelectSeq([i \in DOMAIN calls |-> Msg("tool", <<>>, {calls[i]}, output[i], {length + i})], LAMBDA m : state[CHOOSE i \in DOMAIN calls : m.answers = {calls[i]}] # "skipped")

\* Results in the model's order, with an error for each call that was skipped.
Results == [i \in DOMAIN calls |-> Msg("tool", <<>>, {calls[i]}, IF state[i] = "skipped" THEN 1 ELSE output[i], {length + i})]

EndBatch ==
    /\ pc = "tools" /\ \A i \in DOMAIN calls : state[i] \in {"done", "skipped"}
    /\ messages' = messages \o Results /\ length' = length + Len(calls)
    /\ pc' = "turn"
    /\ calls' = <<>> /\ state' = <<>> /\ output' = <<>>
    /\ UNCHANGED <<carried, turn, tasks, digestInFlight, carriedLength, task, grew>>

\* The turn cap ends a run whose last turn asked for tools.
CapReached ==
    /\ pc = "turn" /\ turn = MaxRounds
    /\ EndRun(messages, length)
    /\ UNCHANGED <<calls, state, output, digestInFlight>>

LoopNext ==
    \/ StartTask \/ BeforeTurn \/ EndBatch \/ CapReached
    \/ CompactFails \/ ModelFails
    \/ \E size \in DigestSizes : Compact(size)
    \/ \E made \in Shapes : ModelAnswers(made)
    \/ \E i \in DOMAIN calls, size \in Sizes : ToolReturns(i, size)
    \/ \E i \in DOMAIN calls : DigestSettles(i) \/ SkipCall(i)

LoopSpec == LoopInit /\ [][LoopNext]_loopVars

-----------------------------------------------------------------------------
(* Properties *)

Message == [role : {"system", "user", "assistant", "tool"}, calls : Shapes, answers : SUBSET LoopCalls, size : Nat, of : SUBSET (1..length)]

\* Histories are made of messages, and a call of the turn has an output when it
\* is done.
LoopTypeOK ==
    /\ pc \in {"idle", "turn", "compacting", "model", "tools"} /\ turn \in 0..MaxRounds /\ tasks \in 0..MaxTasks
    /\ \A i \in DOMAIN messages : messages[i] \in Message
    /\ calls \in Shapes /\ DOMAIN state = DOMAIN calls /\ DOMAIN output = DOMAIN calls
    /\ \A i \in DOMAIN calls : state[i] \in {"running", "digesting", "done", "skipped"} /\ output[i] \in Sizes \cup {0, Short}
    /\ pc = "idle" \/ task \in carriedLength + 1..length

\* Every call is answered by the results right behind it, in the model's order,
\* and every result has its call.
Paired(ms) ==
    \A i \in DOMAIN ms :
        /\ MakesCalls(ms[i]) => \A k \in DOMAIN ms[i].calls :
               i + k \in DOMAIN ms /\ ms[i + k].role = "tool" /\ ms[i + k].answers = {ms[i].calls[k]}
        /\ ms[i].role = "tool" => \E a \in 1..i-1 : MakesCalls(ms[a]) /\ i <= a + Len(ms[a].calls)

\* What is sent to a provider, and what a session goes on from, has every call
\* and its results together, however the history was compacted, calls were
\* skipped and ids came back in later turns.
SentHistoriesPair == (pc = "model" => Paired(messages)) /\ Paired(carried)

\* The instructions and the first task of a session are at the head of every
\* request as they were written.
InstructionsStay ==
    pc = "model" => Len(messages) >= 2 /\ messages[1].role = "system" /\ messages[1].of = {1} /\ messages[2].of = {2}

Verbatim(ms, n) == \E i \in DOMAIN ms : ms[i].of = {n}

\* A request accounts for all that was said before it: every message is in it,
\* or in what a digest was made from, and no message follows a later one.
NothingIsForgotten ==
    pc = "model" =>
        /\ UNION {messages[i].of : i \in DOMAIN messages} = 1..length
        /\ \A i, j \in DOMAIN messages : i < j /\ Cardinality(messages[j].of) = 1 => Max(messages[i].of) < Max(messages[j].of)

\* The turn a run has just completed is in its next request word for word.
LastTurnIsVerbatim == pc = "model" /\ grew # <<>> => \A n \in Last(grew)..length : Verbatim(messages, n)

\* The summarizer's latch is held exactly while a digest is under way, so one
\* that fails does not switch summaries off.
LatchIsReleased == digestInFlight <=> (pc = "tools" /\ \E i \in DOMAIN calls : state[i] = "digesting")

(* What is sent to a model keeps its calls paired, its instructions, its
   last turn, and a trace of everything that happened. *)
HistoriesAreWhole ==
  /\ LoopTypeOK
  /\ SentHistoriesPair
  /\ InstructionsStay
  /\ NothingIsForgotten
  /\ LastTurnIsVerbatim
  /\ LatchIsReleased

\* What compact.ts says of the task: it is never paraphrased.
TaskIsNeverDigested == pc = "model" => Verbatim(messages, task)

\* What compactMessages says of itself: the oldest turns become one message.
OneDigestReplaces ==
    \A i, j \in DOMAIN messages : messages[i].of = messages[j].of => i = j

\* What the instances let a turn ask for: every turn numbers its calls anew.
NumberedShapes == {<<>>, <<"call_0">>, <<"call_0", "call_1">>}
=============================================================================
