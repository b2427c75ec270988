------------------------------ MODULE ToolBatch ------------------------------
(***************************************************************************)
(* The tool calls of a harness run: harness/batch.ts schedules the calls of *)
(* one turn, harness/cancel.ts gives each a budget and stops waiting for it *)
(* when that is spent, harness/tools.ts gates and performs it, and          *)
(* harness/read-cache.ts answers repeated reads. What a call awaits goes on *)
(* when nobody waits for it any more: a call answered "cancelled" may still *)
(* be reading, asking or writing, turns later. A step is the code of one    *)
(* call from one await to the next.                                         *)
(*                                                                         *)
(* Calls are reads, writes and edits. bash and the delegated tools, which   *)
(* are killed when their call is cancelled, and subagents are left out.     *)
(***************************************************************************)
EXTENDS Integers, Sequences, FiniteSets

CONSTANTS
  Files,
  Batches,      (* the batches of calls a model may ask for in one turn      *)
  MaxTurns,     (* maxTurns                                                 *)
  MaxCalls,     (* bound: calls of one batch                                *)
  Concurrency,  (* reads in flight at once                                  *)
  Outside,      (* changes to files made outside the harness                *)
  NoCall, NoEntry

Kinds == {"read", "write", "edit"}
Calls == (1..MaxTurns) \X (1..MaxCalls)
Request == [kind : Kinds, file : Files]

ASSUME BatchAssumption ==
  /\ MaxTurns \in Nat \ {0} /\ MaxCalls \in Nat /\ Concurrency \in Nat \ {0}
  /\ Batches \subseteq {b \in Seq(Request) : Len(b) <= MaxCalls}
  /\ Outside \cap (Calls \cup {NoCall}) = {}
  /\ NoCall \notin Calls

\* A content is named by who wrote it; so is its modification time.
Content == Calls \cup Outside \cup {NoCall}
Entry == [measured : Content, body : Content, from : Calls]

VARIABLES
  file,       (* what is on disk                                            *)
  outside,    (* changes of others still to come                            *)
  turn, batch,   (* the turn under way, and the calls of each turn           *)
  work,       (* where each call is, also when nobody waits for it           *)
  local,      (* what a call has in hand: an entry, a measurement, a content *)
  answer,     (* what the batch received for each call                      *)
  aborted,    (* the calls whose signal has fired                           *)
  entries, inFlight,   (* the read cache                                    *)
  barred, wrote        (* calls stopped at their gate; calls that changed a file *)

disk == <<file, outside>>
loop == <<turn, batch>>
cache == <<entries, inFlight>>
ghosts == <<barred, wrote>>
vars == <<disk, loop, work, local, answer, aborted, cache, ghosts>>

Reading == {"joining", "checking", "measuring", "loading"}
Changing == {"asking", "editing", "writing"}
Answers == {"body", "notice", "done", "failed", "declined", "cancelled"}

TypeOK ==
  /\ file \in [Files -> Content] /\ outside \subseteq Outside
  /\ turn \in 0..MaxTurns /\ batch \in [1..MaxTurns -> Batches \cup {<<>>}]
  /\ work \in [Calls -> {"idle", "over"} \cup Reading \cup Changing]
  /\ local \in [Calls -> Entry \cup {NoEntry}]
  /\ answer \in [Calls -> {"none"} \cup Answers]
  /\ aborted \subseteq Calls
  /\ entries \in [Files -> Entry \cup {NoEntry}]
  /\ inFlight \in [Files -> Calls \cup {NoCall}]
  /\ barred \subseteq Calls /\ wrote \subseteq Calls

Init ==
  /\ file = [f \in Files |-> NoCall] /\ outside = Outside
  /\ turn = 0 /\ batch = [t \in 1..MaxTurns |-> <<>>]
  /\ work = [c \in Calls |-> "idle"] /\ local = [c \in Calls |-> NoEntry]
  /\ answer = [c \in Calls |-> "none"] /\ aborted = {}
  /\ entries = [f \in Files |-> NoEntry] /\ inFlight = [f \in Files |-> NoCall]
  /\ barred = {} /\ wrote = {}

-----------------------------------------------------------------------------
OfTurn(t) == IF t = 0 THEN {} ELSE {<<t, i>> : i \in DOMAIN batch[t]}
Current == OfTurn(turn)
Asked(c) == batch[c[1]][c[2]]
FileOf(c) == Asked(c).file
IsRead(c) == Asked(c).kind = "read"

Waiting(c) == work[c] # "idle" /\ answer[c] = "none"
Answered(c) == answer[c] # "none"
Before(c) == {d \in Current : d[2] < c[2]}

\* Whatever the work of a call comes to, the first answer is the one given.
Answer(c, a) == answer' = [answer EXCEPT ![c] = IF @ = "none" THEN a ELSE @]

Finish(c, a) == work' = [work EXCEPT ![c] = "over"] /\ Answer(c, a)
-----------------------------------------------------------------------------
\* readCache.read: a read of the file that is under way is waited for;
\* otherwise this call reads, and asks first whether its entry still holds.
Look(c) ==
  LET f == FileOf(c) IN
  IF inFlight[f] # NoCall
  THEN work' = [work EXCEPT ![c] = "joining"] /\ UNCHANGED <<local, inFlight>>
  ELSE /\ inFlight' = [inFlight EXCEPT ![f] = c]
       /\ local' = [local EXCEPT ![c] = entries[f]]
       /\ work' = [work EXCEPT ![c] = IF entries[f] = NoEntry THEN "measuring" ELSE "checking"]

\* A worker of the pool takes the next read of the batch.
StartRead(c) ==
  /\ c \in Current /\ IsRead(c) /\ work[c] = "idle"
  /\ \A d \in Before(c) : IsRead(d) => work[d] # "idle"
  /\ Cardinality({d \in Current : IsRead(d) /\ Waiting(d)}) < Concurrency
  /\ Look(c)
  /\ UNCHANGED <<disk, loop, answer, aborted, entries, ghosts>>

\* The read that was joined is over: decide again.
Retry(c) ==
  /\ work[c] = "joining" /\ inFlight[FileOf(c)] = NoCall
  /\ Look(c)
  /\ UNCHANGED <<disk, loop, answer, aborted, entries, ghosts>>

Leave(f) == inFlight' = [inFlight EXCEPT ![f] = NoCall]

CheckTrusts(c) ==   \* mutant: an entry is taken to hold until a change drops it
  /\ work[c] = "checking"
  /\ Finish(c, "notice") /\ Leave(FileOf(c))
  /\ UNCHANGED <<disk, loop, local, aborted, entries, ghosts>>

\* stat answers for an entry: it matches and is named, or it is dropped.
Check(c) ==
  LET f == FileOf(c) IN
  /\ work[c] = "checking"
  /\ \/ /\ local[c].measured = file[f]
        /\ Finish(c, "notice") /\ Leave(f)
        /\ UNCHANGED <<local, entries>>
     \/ /\ local' = [local EXCEPT ![c] = NoEntry]
        /\ entries' = [entries EXCEPT ![f] = NoEntry]
        /\ work' = [work EXCEPT ![c] = "measuring"]
        /\ UNCHANGED <<answer, inFlight>>
  /\ UNCHANGED <<disk, loop, aborted, ghosts>>

\* stat answers before the load, or fails, and then nothing is remembered.
Measure(c) ==
  /\ work[c] = "measuring"
  /\ \E seen \in {NoEntry, [measured |-> file[FileOf(c)], body |-> NoCall, from |-> c]} :
       local' = [local EXCEPT ![c] = seen]
  /\ work' = [work EXCEPT ![c] = "loading"]
  /\ UNCHANGED <<disk, loop, answer, aborted, cache, ghosts>>

\* The body arrives, and is remembered under its measurement; or it cannot
\* be read.
Load(c) ==
  LET f == FileOf(c)
      got == [measured |-> file[f], body |-> file[f], from |-> c]
  IN
  /\ work[c] = "loading"
  /\ \/ /\ local' = [local EXCEPT ![c] = got]
        /\ entries' = IF local[c] = NoEntry THEN entries
                      ELSE [entries EXCEPT ![f] = [local[c] EXCEPT !.body = file[f]]]
        /\ Finish(c, "body")
     \/ Finish(c, "failed") /\ UNCHANGED <<local, entries>>
  /\ Leave(f)
  /\ UNCHANGED <<disk, loop, aborted, ghosts>>

-----------------------------------------------------------------------------
StartChangeEarly(c) ==   \* mutant: the reads of the batch are not waited for
  /\ c \in Current /\ ~IsRead(c) /\ work[c] = "idle"
  /\ \A d \in Before(c) : ~IsRead(d) => Answered(d)
  /\ entries' = [f \in Files |-> NoEntry]
  /\ work' = [work EXCEPT ![c] = "asking"]
  /\ UNCHANGED <<disk, loop, local, answer, aborted, inFlight, ghosts>>

StartChangeAtOnce(c) ==   \* mutant: the changes of a batch start together
  /\ c \in Current /\ ~IsRead(c) /\ work[c] = "idle"
  /\ \A d \in Current : IsRead(d) => Answered(d)
  /\ entries' = [f \in Files |-> NoEntry]
  /\ work' = [work EXCEPT ![c] = "asking"]
  /\ UNCHANGED <<disk, loop, local, answer, aborted, inFlight, ghosts>>

\* The reads of the batch are answered, and the changes before this one: it
\* empties the cache and asks.
StartChange(c) ==
  /\ c \in Current /\ ~IsRead(c) /\ work[c] = "idle"
  /\ \A d \in Current : IsRead(d) \/ d \in Before(c) => Answered(d)
  /\ entries' = [f \in Files |-> NoEntry]
  /\ work' = [work EXCEPT ![c] = "asking"]
  /\ UNCHANGED <<disk, loop, local, answer, aborted, inFlight, ghosts>>

\* The human, a rule or --yes approves; a call cancelled meanwhile stops here.
Approve(c) ==
  /\ work[c] = "asking"
  /\ IF c \in aborted THEN Finish(c, "cancelled")
     ELSE /\ work' = [work EXCEPT ![c] = IF Asked(c).kind = "edit" THEN "editing" ELSE "writing"]
          /\ UNCHANGED answer
  /\ UNCHANGED <<disk, loop, local, aborted, cache, ghosts>>

Decline(c) ==
  /\ work[c] = "asking"
  /\ Finish(c, "declined")
  /\ barred' = barred \cup {c}
  /\ UNCHANGED <<disk, loop, local, aborted, cache, wrote>>

\* An edit reads the file, and finds its oldString there or not.
ReadToEdit(c) ==
  /\ work[c] = "editing"
  /\ \/ /\ local' = [local EXCEPT ![c] = [measured |-> file[FileOf(c)], body |-> file[FileOf(c)], from |-> c]]
        /\ work' = [work EXCEPT ![c] = "writing"]
        /\ UNCHANGED answer
     \/ Finish(c, "failed") /\ UNCHANGED local
  /\ UNCHANGED <<disk, loop, aborted, cache, ghosts>>

\* writeFile ends: nothing looks at the signal any more.
Write(c) ==
  /\ work[c] = "writing"
  /\ \/ /\ file' = [file EXCEPT ![FileOf(c)] = c]
        /\ wrote' = wrote \cup {c}
        /\ Finish(c, "done")
     \/ Finish(c, "failed") /\ UNCHANGED <<file, wrote>>
  /\ UNCHANGED <<outside, loop, local, aborted, cache, barred>>

-----------------------------------------------------------------------------
AbortSilently(S) ==   \* mutant: the tool is told to stop and then waited for
  /\ aborted' = aborted \cup S
  /\ barred' = barred \cup {c \in S : work[c] = "asking"}
  /\ UNCHANGED answer

\* The signals of some calls fire; each is answered at once.
Abort(S) ==
  /\ aborted' = aborted \cup S
  /\ answer' = [c \in Calls |-> IF c \in S THEN "cancelled" ELSE answer[c]]
  /\ barred' = barred \cup {c \in S : work[c] = "asking"}

\* The budget of a call is spent.
Timeout(c) ==
  /\ Waiting(c) /\ c \notin aborted
  /\ Abort({c})
  /\ UNCHANGED <<disk, loop, work, local, cache, wrote>>

\* Ctrl-C: abortActive reaches every call the batch is waiting for.
Interrupt ==
  LET active == {c \in Calls : Waiting(c)} IN
  /\ active \ aborted # {}
  /\ Abort(active)
  /\ UNCHANGED <<disk, loop, work, local, cache, wrote>>

\* An editor or another process changes a file.
OutsideChange ==
  \E x \in outside, f \in Files :
    /\ file' = [file EXCEPT ![f] = x]
    /\ outside' = outside \ {x}
    /\ UNCHANGED <<loop, work, local, answer, aborted, cache, ghosts>>

\* Every call of the turn is answered, and the model asks for more.
NextTurn ==
  /\ turn < MaxTurns /\ \A c \in Current : Answered(c)
  /\ turn' = turn + 1
  /\ \E b \in Batches : batch' = [batch EXCEPT ![turn + 1] = b]
  /\ UNCHANGED <<disk, work, local, answer, aborted, cache, ghosts>>

Next ==
  \/ \E c \in Calls :
       \/ StartRead(c) \/ Retry(c) \/ Check(c) \/ Measure(c) \/ Load(c)
       \/ StartChange(c) \/ Approve(c) \/ Decline(c) \/ ReadToEdit(c) \/ Write(c)
       \/ Timeout(c)
  \/ Interrupt \/ OutsideChange \/ NextTurn

\* The batch goes on when it can, and a budget runs out; no tool, no human
\* and no disk has to answer.
Fairness ==
  \A c \in Calls : WF_vars(StartRead(c)) /\ WF_vars(StartChange(c)) /\ WF_vars(Timeout(c))

Spec == Init /\ [][Next]_vars /\ Fairness

-----------------------------------------------------------------------------
(* "A file changed by something outside the harness is never served stale": *)
(* when a read is answered by naming an earlier one, the body that one got  *)
(* is what is on disk, whatever wrote between the two and during either.    *)
NoticeIsFresh ==
  [][\A c \in Calls :
       answer[c] = "none" /\ answer'[c] = "notice" => local[c].body = file[FileOf(c)]]_vars

(* A call that was declined, or cancelled while its prompt was open, never  *)
(* changes a file, however late the prompt is answered.                     *)
BarredNeverWrites == barred \cap wrote = {}

(* One file is read by one call at a time, cancelled ones included.         *)
OneReaderPerFile ==
  \A f \in Files :
    Cardinality({c \in Calls : work[c] \in Reading \ {"joining"} /\ FileOf(c) = f}) <= 1

(* The read cache: one reader a file, and notices of what is on disk. *)
NoticesAreTrue ==
  []OneReaderPerFile /\ NoticeIsFresh

(* While a change is asked for or made, nothing else is at work but what a  *)
(* timeout or an interrupt left behind.                                     *)
OnlyCancelledOverlap ==
  \A c, d \in Calls :
    c # d /\ work[c] \in Changing /\ work[d] \in Reading \cup Changing =>
      c \in aborted \/ d \in aborted

(* A gate that was stopped stays shut, and one change is made at a time. *)
GatesHold ==
  TypeOK /\ BarredNeverWrites /\ OnlyCancelledOverlap

(* An edit replaces the content it has read; another one is lost only when  *)
(* it came from outside, or one of the two calls had been cancelled.        *)
EditsLoseOnlyToCancelled ==
  [][\A c \in wrote' \ wrote :
       LET lost == file[FileOf(c)] IN
       Asked(c).kind = "edit" /\ lost # local[c].body =>
         lost \in Outside \/ c \in aborted \/ lost \in aborted]_vars

(* The loop moves on even when no tool ever settles and nobody answers a    *)
(* prompt: every turn's calls are answered.                                 *)
EveryBatchEnds ==
  \A t \in 1..MaxTurns : turn = t ~> \A c \in OfTurn(t) : Answered(c)

-----------------------------------------------------------------------------
(* What the comments say, and the code does not do.                         *)

(* "the mutating calls run strictly one at a time", "an approval prompt can *)
(* never overlap another call".                                             *)
StrictlyOneAtATime ==
  \A c, d \in Calls : work[c] \in Changing /\ work[d] \in Changing => c = d

(* "the model simply already has these bytes": the read a notice names was  *)
(* answered with its body.                                                  *)
NoticeNamesABody ==
  \A c \in Calls : answer[c] = "notice" => answer[local[c].from] = "body"
=============================================================================
