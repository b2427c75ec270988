----------------------- MODULE AroundTheBridge_proofs -----------------------
(* What the agent lanes, the gate of a bridge, the workspace pages, the     *)
(* React hooks and the commands of the background bridge guarantee, for any *)
(* number of runs, turns, agents, keys, sessions, requests, orders,         *)
(* commands and process ids. They share no state: each has a specification  *)
(* and an invariant of its own.                                             *)
EXTENDS LocalLane, CursorLane, ServiceKeyGate, Workspaces, ReactHooks, Daemon, FiniteSetTheorems, SequenceTheorems, TLAPS

-----------------------------------------------------------------------------
(* The local agent lane *)

(* Every run that was started is one of its conversation's recorded session,*)
(* and no two conversations are recorded with one session.                  *)
Mapped ==
  /\ \A r \in Runs : runs[r].at # "new" =>
       HasRecord(runs[r].of) /\ record[runs[r].of].id = runs[r].id
  /\ \A c, d \in Conversations :
       HasRecord(c) /\ HasRecord(d) /\ record[c].id = record[d].id => c = d

(* A loop has its state in its backend, and two loops of one session know   *)
(* of each other.                                                           *)
LoopsAreHeld ==
  /\ \A r \in Runs : Looping(r) => live[Place(r)] # NoSession
  /\ \A q, r \in Runs :
       Looping(q) /\ Looping(r) /\ runs[q].id = runs[r].id /\ q # r => q \in overlapped

(* Histories hold runs that are over, and a loop that has its session for   *)
(* itself was given all of it.                                              *)
Untouched(i) == \A q \in overlapped : runs[q].id # i
HistoriesAreOver ==
  /\ \A i \in Ids : \A p \in saved[i] : runs[p].at \in Ends
  /\ \A r \in Runs : \A p \in runs[r].history : runs[p].at \in Ends
  /\ \A r \in overlapped \cup cancelled : runs[r].at # "new"
  /\ \A r \in Runs : Looping(r) /\ Untouched(runs[r].id) => runs[r].history = saved[runs[r].id]

(* A cancelled loop that was not revived still sees its abort, and no       *)
(* history a loop was given holds a run that was cancelled for good.        *)
CancelsAreSeen ==
  /\ \A r \in cancelled \ revived : Looping(r) => Aborted(r)
  /\ \A r \in Runs : \A p \in runs[r].history : p \notin cancelled \ revived

IInv ==
  /\ LocalTypeOK
  /\ Mapped
  /\ LoopsAreHeld
  /\ HistoriesAreOver
  /\ CancelsAreSeen
  /\ StatusFollowsTheLoop
  /\ CompletedSessionsAreDurable
  /\ FinishedRunsAreKept
  /\ CancelledRunsLeaveNoHistory

-----------------------------------------------------------------------------
(* What the states of a session and of a record are.                        *)
LEMMA Shapes ==
  /\ \A x \in SessionState : x # NoSession /\ x.status \in Status /\ x.aborted \in BOOLEAN
  /\ \A x \in Record : x # NoRecord /\ x.id \in Ids /\ x.status \in Status
  BY LocalAssumption DEF SessionState, Record

LEMMA InitInv == LocalInit => IInv
<1> SUFFICES ASSUME LocalInit PROVE IInv
  OBVIOUS
<1> USE LocalAssumption DEF LocalInit
<1>1. Idle.at = "new" /\ Idle.history = {} /\ Idle.of \in Conversations /\ Idle.id = 1 /\ Idle.backend = 1
  BY DEF Idle
<1>2. LocalTypeOK
  BY <1>1 DEF LocalTypeOK, Idle, Ids, Backends, Ends
<1>3. Mapped /\ LoopsAreHeld /\ HistoriesAreOver /\ CancelsAreSeen
  BY <1>1 DEF Mapped, LoopsAreHeld, HistoriesAreOver, CancelsAreSeen, HasRecord, Looping
<1>4. StatusFollowsTheLoop
  BY <1>1 DEF StatusFollowsTheLoop, Looping
<1>5. CompletedSessionsAreDurable /\ FinishedRunsAreKept /\ CancelledRunsLeaveNoHistory
  BY <1>1 DEF CompletedSessionsAreDurable, FinishedRunsAreKept, CancelledRunsLeaveNoHistory,
              HasRecord
<1> QED BY <1>2, <1>3, <1>4, <1>5 DEF IInv

-----------------------------------------------------------------------------
(* A request: the session it names or a fresh one is started.               *)
LEMMA StartRunInv ==
  ASSUME IInv, NEW r \in Runs, NEW c \in Conversations, StartRun(r, c)
  PROVE  IInv'
<1> USE LocalAssumption
<1> DEFINE b == CachedBackend
           i == IF Continues(c) THEN record[c].id ELSE minted + 1
<1>1. /\ LocalTypeOK /\ Mapped /\ LoopsAreHeld /\ HistoriesAreOver /\ CancelsAreSeen
      /\ StatusFollowsTheLoop /\ CompletedSessionsAreDurable
      /\ FinishedRunsAreKept /\ CancelledRunsLeaveNoHistory
  BY DEF IInv
<1>2. b \in Backends /\ i \in Ids /\ i <= minted' /\ minted <= minted' /\ minted' \in 0..MaxIds
  BY <1>1, Shapes DEF StartRun, CachedBackend, Continues, HasRecord, LocalTypeOK, Backends, Ids, MintedWith
<1>3. /\ runs[r].at = "new"
      /\ live' = [live EXCEPT ![<<b, i>>] = [status |-> "RUNNING", aborted |-> FALSE]]
      /\ record' = [record EXCEPT ![c] = [id |-> i, status |-> "RUNNING"]]
      /\ runs' = [runs EXCEPT ![r] = [at |-> "looping", of |-> c, id |-> i, backend |-> b,
                                      history |-> saved[i]]]
      /\ overlapped' = IF LoopsOf(i) = {} THEN overlapped ELSE overlapped \cup LoopsOf(i) \cup {r}
      /\ revived' = revived \cup (LoopsOf(i) \cap cancelled)
      /\ saved' = saved /\ cancelled' = cancelled
  BY DEF StartRun, HistoryOf
<1>4. /\ [status |-> "RUNNING", aborted |-> FALSE] \in SessionState
      /\ [id |-> i, status |-> "RUNNING"] \in Record
  BY <1>2 DEF SessionState, Record, Status
<1> HIDE DEF b, i
<1>5. LocalTypeOK'
  <2>1. backend' \in 0..MaxBackends /\ built' \in 0..MaxBackends
    BY <1>1, <1>2 DEF LocalTypeOK, StartRun, b, Backends, CachedBackend
  <2>2. live' \in [Backends \X Ids -> SessionState \cup {NoSession}]
    BY <1>1, <1>2, <1>3, <1>4 DEF LocalTypeOK
  <2>3. record' \in [Conversations -> Record \cup {NoRecord}]
    BY <1>1, <1>3, <1>4 DEF LocalTypeOK
  <2>4. \A d \in Conversations : record'[d] # NoRecord => record'[d].id <= minted'
    BY <1>1, <1>2, <1>3, Shapes DEF LocalTypeOK, Ids
  <2>5. runs' \in [Runs -> [at : {"new", "looping"} \cup Ends, of : Conversations, id : Ids,
                            backend : Backends, history : SUBSET Runs]]
    BY <1>1, <1>2, <1>3 DEF LocalTypeOK
  <2>6. overlapped' \subseteq Runs /\ revived' \subseteq cancelled' /\ cancelled' \subseteq Runs
    BY <1>1, <1>3 DEF LocalTypeOK, LoopsOf
  <2> QED BY <1>1, <1>2, <1>3, <2>1, <2>2, <2>3, <2>4, <2>5, <2>6 DEF LocalTypeOK
<1>6. /\ runs'[r].at = "looping" /\ runs'[r].of = c /\ runs'[r].id = i /\ runs'[r].backend = b
      /\ runs'[r].history = saved[i]
      /\ \A q \in Runs \ {r} : runs'[q] = runs[q]
  BY <1>1, <1>3 DEF LocalTypeOK
<1>7. /\ record'[c] = [id |-> i, status |-> "RUNNING"] /\ record'[c] # NoRecord
      /\ \A d \in Conversations \ {c} : record'[d] = record[d]
  BY <1>1, <1>3, <1>4, Shapes DEF LocalTypeOK
<1>8. /\ live'[<<b, i>>] = [status |-> "RUNNING", aborted |-> FALSE]
      /\ live'[<<b, i>>] # NoSession
      /\ \A x \in Backends \X Ids : x # <<b, i>> => live'[x] = live[x]
  BY <1>1, <1>2, <1>3, <1>4, Shapes DEF LocalTypeOK
<1>9. \A q \in Runs : Place(q) \in Backends \X Ids
  BY <1>1 DEF Place, LocalTypeOK
<1>10. Mapped'
  <2>1. HasRecord(c) => i = record[c].id
    BY DEF i, Continues
  <2>2. ~HasRecord(c) => \A d \in Conversations : HasRecord(d) => record[d].id # i
    BY <1>1 DEF i, Continues, LocalTypeOK, Record, HasRecord, Ids
  <2>3. \A d \in Conversations \ {c} : HasRecord(d) => record[d].id # i
    BY <1>1, <2>1, <2>2 DEF Mapped
  <2>4. \A d, e \in Conversations :
          HasRecord(d)' /\ HasRecord(e)' /\ record'[d].id = record'[e].id => d = e
    BY <1>1, <1>7, <2>3 DEF Mapped, HasRecord
  <2>5. ASSUME NEW q \in Runs, runs'[q].at # "new"
        PROVE  HasRecord(runs[q].of)' /\ record'[runs'[q].of].id = runs'[q].id
    <3>1. CASE q = r
      BY <1>6, <1>7, <3>1 DEF HasRecord
    <3>2. CASE q # r
      <4>1. /\ runs'[q] = runs[q] /\ runs[q].of \in Conversations
            /\ HasRecord(runs[q].of) /\ record[runs[q].of].id = runs[q].id
        BY <1>1, <1>6, <2>5, <3>2 DEF Mapped, LocalTypeOK
      <4> QED BY <1>7, <2>1, <4>1 DEF HasRecord
    <3> QED BY <3>1, <3>2
  <2> QED BY <2>4, <2>5 DEF Mapped
<1>11. LoopsAreHeld'
  BY <1>1, <1>3, <1>6, <1>8, <1>9 DEF LoopsAreHeld, Looping, Place, LoopsOf
<1>12. HistoriesAreOver'
  <2>1. r \notin overlapped \cup cancelled
    BY <1>1, <1>3 DEF HistoriesAreOver
  <2>2. \A q \in Runs : runs[q].at \in Ends => q # r
    BY <1>3 DEF Ends
  <2>3. \A j \in Ids : \A p \in saved'[j] : runs'[p].at \in Ends
    BY <1>1, <1>3, <1>6, <2>2 DEF HistoriesAreOver, LocalTypeOK
  <2>4. \A q \in Runs : \A p \in runs'[q].history : runs'[p].at \in Ends
    BY <1>1, <1>2, <1>3, <1>6, <2>2 DEF HistoriesAreOver, LocalTypeOK
  <2>5. \A q \in overlapped' \cup cancelled' : runs'[q].at # "new"
    BY <1>1, <1>3, <1>6 DEF HistoriesAreOver, LocalTypeOK, LoopsOf, Looping
  <2>6. ASSUME NEW q \in Runs, Looping(q)', Untouched(runs[q].id)'
        PROVE  runs'[q].history = saved'[runs'[q].id]
    <3>1. CASE q = r
      BY <1>3, <1>6, <3>1
    <3>2. CASE q # r
      <4>1. Looping(q) /\ runs'[q] = runs[q] /\ runs[q].id \in Ids
        BY <1>1, <1>6, <2>6, <3>2 DEF Looping, LocalTypeOK
      <4>2. Untouched(runs[q].id)
        BY <1>1, <1>3, <1>6, <2>1, <2>6, <4>1 DEF Untouched, LocalTypeOK
      <4> QED BY <1>1, <1>3, <4>1, <4>2 DEF HistoriesAreOver
    <3> QED BY <3>1, <3>2
  <2> QED BY <2>3, <2>4, <2>5, <2>6 DEF HistoriesAreOver
<1>13. CancelsAreSeen'
  <2>1. ASSUME NEW q \in cancelled' \ revived', Looping(q)' PROVE Aborted(q)'
    <3>1. q \in Runs /\ q # r /\ q \in cancelled \ revived
      BY <1>1, <1>3, <2>1 DEF HistoriesAreOver, LocalTypeOK
    <3>2. Looping(q) /\ Aborted(q) /\ Place(q) # <<b, i>>
      BY <1>1, <1>3, <1>6, <2>1, <3>1 DEF CancelsAreSeen, Looping, LoopsOf, Place
    <3> QED BY <1>6, <1>8, <1>9, <3>1, <3>2 DEF Aborted, Place
  <2>2. \A q \in Runs : \A p \in runs'[q].history : p \notin cancelled' \ revived'
    BY <1>1, <1>2, <1>3, <1>6 DEF CancelsAreSeen, CancelledRunsLeaveNoHistory, LocalTypeOK
  <2> QED BY <2>1, <2>2 DEF CancelsAreSeen
<1>14. StatusFollowsTheLoop'
  <2>1. ASSUME NEW d \in Backends, NEW j \in Ids,
               live'[<<d, j>>] # NoSession, live'[<<d, j>>].status = "RUNNING"
        PROVE  \E q \in LoopsOf(j)' : runs'[q].backend = d
    <3>1. CASE <<d, j>> = <<b, i>>
      BY <1>6, <3>1 DEF LoopsOf, Looping
    <3>2. CASE <<d, j>> # <<b, i>>
      <4>1. PICK q \in LoopsOf(j) : runs[q].backend = d
        BY <1>1, <1>8, <2>1, <3>2 DEF StatusFollowsTheLoop
      <4> QED BY <1>3, <1>6, <4>1 DEF LoopsOf, Looping
    <3> QED BY <3>1, <3>2
  <2>2. ASSUME NEW q \in Runs \ (overlapped' \cup cancelled'), Looping(q)'
        PROVE  live'[Place(q)'].status = "RUNNING"
    <3>1. CASE Place(q)' = <<b, i>>
      BY <1>8, <3>1
    <3>2. CASE Place(q)' # <<b, i>>
      <4>1. q # r /\ Looping(q) /\ Place(q)' = Place(q) /\ q \notin overlapped \cup cancelled
        BY <1>3, <1>6, <2>2, <3>2 DEF Place, Looping
      <4> QED BY <1>1, <1>8, <1>9, <3>2, <4>1 DEF StatusFollowsTheLoop
    <3> QED BY <3>1, <3>2
  <2> QED BY <2>1, <2>2 DEF StatusFollowsTheLoop
<1>15. CompletedSessionsAreDurable'
  BY <1>1, <1>3, <1>7 DEF CompletedSessionsAreDurable, HasRecord
<1>16. FinishedRunsAreKept'
  <2>1. \A q \in Runs : runs'[q].at = "finished" => q # r
    BY <1>6
  <2>2. \A q \in overlapped : q \in overlapped' /\ runs'[q].id = runs[q].id
    BY <1>1, <1>3, <1>6 DEF HistoriesAreOver, LocalTypeOK
  <2> QED BY <1>1, <1>3, <1>6, <2>1, <2>2 DEF FinishedRunsAreKept, LocalTypeOK
<1>17. CancelledRunsLeaveNoHistory'
  BY <1>1, <1>3 DEF CancelledRunsLeaveNoHistory
<1> QED BY <1>5, <1>10, <1>11, <1>12, <1>13, <1>14, <1>15, <1>16, <1>17 DEF IInv

-----------------------------------------------------------------------------
(* What the end of a loop does to the files: nothing, or it saves the       *)
(* history, which only a loop that was not aborted may.                     *)
SavesHistory(r) ==
  /\ ~Aborted(r)
  /\ saved' = [saved EXCEPT ![runs[r].id] = runs[r].history \cup {r}]

LEMMA SavedHistory ==
  ASSUME IInv, NEW r \in Runs, Looping(r), saved' = saved \/ SavesHistory(r)
  PROVE  /\ saved' \in [Ids -> SUBSET Runs]
         /\ \A i \in Ids : saved[i] # {} => saved'[i] # {}
         /\ \A i \in Ids : \A p \in saved'[i] : p = r \/ runs[p].at \in Ends
         /\ \A i \in Ids : \A p \in saved'[i] : p \notin cancelled \ revived
         /\ \A i \in Ids : i # runs[r].id => saved'[i] = saved[i]
         /\ Untouched(runs[r].id) => saved[runs[r].id] \subseteq saved'[runs[r].id]
<1>1. /\ saved \in [Ids -> SUBSET Runs] /\ runs[r].id \in Ids /\ runs[r].history \subseteq Runs
  BY DEF IInv, LocalTypeOK
<1>2. \A i \in Ids : \A p \in saved[i] : runs[p].at \in Ends /\ p \notin cancelled \ revived
  BY <1>1 DEF IInv, HistoriesAreOver, CancelledRunsLeaveNoHistory
<1>3. CASE saved' = saved
  BY <1>1, <1>2, <1>3
<1>4. CASE SavesHistory(r)
  <2>1. \A p \in runs[r].history \cup {r} : p = r \/ runs[p].at \in Ends
    BY DEF IInv, HistoriesAreOver
  <2>2. \A p \in runs[r].history \cup {r} : p \notin cancelled \ revived
    BY <1>4 DEF IInv, CancelsAreSeen, SavesHistory
  <2>3. Untouched(runs[r].id) => runs[r].history = saved[runs[r].id]
    BY DEF IInv, HistoriesAreOver
  <2> QED BY <1>1, <1>2, <1>4, <2>1, <2>2, <2>3 DEF SavesHistory
<1> QED BY <1>3, <1>4

(* A loop ends while the process stays: it notices the abort, it throws, or *)
(* its last event is taken.                                                 *)
LEMMA LoopEndsInv ==
  ASSUME IInv, NEW r \in Runs, Looping(r),
         NEW s \in {"FINISHED", "CANCELLED"}, NEW e \in Ends,
         live' = [live EXCEPT ![Place(r)].status = s],
         runs' = [runs EXCEPT ![r].at = e],
         \/ e # "finished" /\ saved' = saved /\ record' = record
         \/ /\ SavesHistory(r)
            /\ record' = [record EXCEPT ![runs[r].of] =
                             [id |-> runs[r].id, status |-> "FINISHED"]],
         UNCHANGED <<backend, built, minted, overlapped, cancelled, revived>>
  PROVE  IInv'
<1> USE LocalAssumption
<1>1. /\ LocalTypeOK /\ Mapped /\ LoopsAreHeld /\ HistoriesAreOver /\ CancelsAreSeen
      /\ StatusFollowsTheLoop /\ CompletedSessionsAreDurable
      /\ FinishedRunsAreKept /\ CancelledRunsLeaveNoHistory
  BY DEF IInv
<1>2. /\ saved' \in [Ids -> SUBSET Runs]
      /\ \A i \in Ids : saved[i] # {} => saved'[i] # {}
      /\ \A i \in Ids : \A p \in saved'[i] : p = r \/ runs[p].at \in Ends
      /\ \A i \in Ids : \A p \in saved'[i] : p \notin cancelled \ revived
      /\ \A i \in Ids : i # runs[r].id => saved'[i] = saved[i]
      /\ Untouched(runs[r].id) => saved[runs[r].id] \subseteq saved'[runs[r].id]
  BY SavedHistory
<1>3. /\ runs'[r].at = e /\ runs'[r].of = runs[r].of /\ runs'[r].id = runs[r].id
      /\ runs'[r].backend = runs[r].backend /\ runs'[r].history = runs[r].history
      /\ \A q \in Runs : q # r => runs'[q] = runs[q]
      /\ runs[r].id \in Ids /\ runs[r].of \in Conversations
  BY <1>1 DEF LocalTypeOK
<1>4. \A q \in Runs : Place(q) \in Backends \X Ids /\ Place(q)' = Place(q)
  BY <1>1, <1>3 DEF Place, LocalTypeOK
<1>5. live[Place(r)] \in SessionState
  BY <1>1, <1>4 DEF LoopsAreHeld, LocalTypeOK
<1>6. /\ live'[Place(r)].status = s /\ live'[Place(r)].aborted = live[Place(r)].aborted
      /\ live'[Place(r)] \in SessionState
      /\ \A x \in Backends \X Ids : x # Place(r) => live'[x] = live[x]
  BY <1>1, <1>4, <1>5 DEF LocalTypeOK, SessionState, Status
<1>7. [id |-> runs[r].id, status |-> "FINISHED"] \in Record
  BY <1>3 DEF Record, Status
<1>8. HasRecord(runs[r].of) /\ record[runs[r].of].id = runs[r].id
  BY <1>1 DEF Mapped, Looping
<1>9. \A c \in Conversations :
        /\ HasRecord(c)' <=> HasRecord(c)
        /\ HasRecord(c) => record'[c].id = record[c].id
        /\ record'[c] \in Record \cup {NoRecord}
        /\ record'[c] = record[c] \/ saved'[record[c].id] # {}
  <2>1. CASE record' = record
    BY <1>1, <2>1 DEF HasRecord, LocalTypeOK
  <2>2. CASE /\ SavesHistory(r)
             /\ record' = [record EXCEPT ![runs[r].of] =
                             [id |-> runs[r].id, status |-> "FINISHED"]]
    <3>1. saved'[runs[r].id] # {}
      BY <1>1, <1>3, <2>2 DEF SavesHistory, LocalTypeOK
    <3> QED BY <1>1, <1>3, <1>7, <1>8, <2>2, <3>1, Shapes DEF HasRecord, LocalTypeOK
  <2> QED BY <2>1, <2>2
<1>10. LocalTypeOK'
  <2>1. live' \in [Backends \X Ids -> SessionState \cup {NoSession}]
    BY <1>1, <1>4, <1>6 DEF LocalTypeOK
  <2>2. record' \in [Conversations -> Record \cup {NoRecord}]
    BY <1>1, <1>7 DEF LocalTypeOK
  <2>3. runs' \in [Runs -> [at : {"new", "looping"} \cup Ends, of : Conversations, id : Ids,
                            backend : Backends, history : SUBSET Runs]]
    BY <1>1 DEF LocalTypeOK
  <2> QED BY <1>1, <1>2, <1>9, <2>1, <2>2, <2>3 DEF LocalTypeOK, HasRecord
<1>11. Mapped'
  <2>1. \A q \in Runs : runs'[q].at # "new" => runs[q].at # "new"
    BY <1>3 DEF Looping
  <2>2. \A q \in Runs : runs'[q].of = runs[q].of /\ runs'[q].id = runs[q].id
                       /\ runs[q].of \in Conversations
    BY <1>1, <1>3 DEF LocalTypeOK
  <2> QED BY <1>1, <1>9, <2>1, <2>2 DEF Mapped, HasRecord
<1>12. \A q \in Runs : Looping(q)' => q # r /\ Looping(q) /\ runs'[q] = runs[q]
  BY <1>3 DEF Looping, Ends
<1>13. LoopsAreHeld'
  BY <1>1, <1>4, <1>6, <1>12, Shapes DEF LoopsAreHeld
<1>14. HistoriesAreOver'
  <2>1. \A q \in Runs : runs[q].at \in Ends => runs'[q].at \in Ends
    BY <1>3
  <2>2. \A i \in Ids : \A p \in saved'[i] : runs'[p].at \in Ends
    BY <1>2, <1>3, <2>1
  <2>3. \A q \in Runs : \A p \in runs'[q].history : runs'[p].at \in Ends
    BY <1>1, <1>3, <2>1 DEF HistoriesAreOver, LocalTypeOK
  <2>4. \A q \in overlapped' \cup cancelled' : runs'[q].at # "new"
    BY <1>1, <1>3 DEF HistoriesAreOver, Ends, LocalTypeOK
  <2>5. ASSUME NEW q \in Runs, Looping(q)', Untouched(runs[q].id)'
        PROVE  runs'[q].history = saved'[runs'[q].id]
    <3>1. q # r /\ Looping(q) /\ runs'[q] = runs[q] /\ runs[q].id \in Ids
      BY <1>1, <1>12, <2>5 DEF LocalTypeOK
    <3>2. Untouched(runs[q].id)
      BY <1>1, <1>3, <2>5, <3>1 DEF Untouched, LocalTypeOK
    <3>3. runs[q].id # runs[r].id
      BY <1>1, <3>1, <3>2 DEF LoopsAreHeld, Untouched
    <3> QED BY <1>1, <1>2, <3>1, <3>2, <3>3 DEF HistoriesAreOver
  <2> QED BY <2>2, <2>3, <2>4, <2>5 DEF HistoriesAreOver
<1>15. CancelsAreSeen'
  <2>1. \A q \in Runs : Looping(q)' => Aborted(q)' = Aborted(q)
    BY <1>4, <1>6 DEF Aborted
  <2> QED BY <1>1, <1>3, <1>12, <2>1 DEF CancelsAreSeen, LocalTypeOK
<1>16. StatusFollowsTheLoop'
  <2>1. ASSUME NEW d \in Backends, NEW j \in Ids,
               live'[<<d, j>>] # NoSession, live'[<<d, j>>].status = "RUNNING"
        PROVE  \E q \in LoopsOf(j)' : runs'[q].backend = d
    <3>1. <<d, j>> # Place(r) /\ live'[<<d, j>>] = live[<<d, j>>]
      BY <1>6, <2>1
    <3>2. PICK q \in LoopsOf(j) : runs[q].backend = d
      BY <1>1, <2>1, <3>1 DEF StatusFollowsTheLoop
    <3>3. q \in Runs /\ q # r
      BY <3>1, <3>2 DEF LoopsOf, Place
    <3> QED BY <1>3, <3>2, <3>3 DEF LoopsOf, Looping
  <2>2. ASSUME NEW q \in Runs \ (overlapped' \cup cancelled'), Looping(q)'
        PROVE  live'[Place(q)'].status = "RUNNING"
    <3>1. q # r /\ Looping(q) /\ q \notin overlapped \cup cancelled
      BY <1>12, <2>2
    <3>2. Place(q) # Place(r)
      BY <1>1, <3>1 DEF LoopsAreHeld, Place
    <3> QED BY <1>1, <1>4, <1>6, <3>1, <3>2 DEF StatusFollowsTheLoop
  <2> QED BY <2>1, <2>2 DEF StatusFollowsTheLoop
<1>17. CompletedSessionsAreDurable'
  <2> SUFFICES ASSUME NEW c \in Conversations, HasRecord(c)', record'[c].status = "FINISHED"
               PROVE  saved'[record'[c].id] # {}
    BY DEF CompletedSessionsAreDurable
  <2>1. HasRecord(c) /\ record[c].id \in Ids /\ record'[c].id = record[c].id
    BY <1>1, <1>9, Shapes DEF HasRecord, LocalTypeOK
  <2> QED BY <1>1, <1>2, <1>9, <2>1 DEF CompletedSessionsAreDurable
<1>18. FinishedRunsAreKept'
  <2> SUFFICES ASSUME NEW q \in Runs, runs'[q].at = "finished", Untouched(runs[q].id)'
               PROVE  q \in saved'[runs'[q].id]
    BY DEF FinishedRunsAreKept, Untouched
  <2>1. Untouched(runs[q].id)
    BY <1>1, <1>3 DEF Untouched, LocalTypeOK
  <2>2. CASE q = r
    BY <1>1, <1>3, <2>2 DEF SavesHistory, LocalTypeOK
  <2>3. CASE q # r
    <3>1. runs'[q] = runs[q] /\ runs[q].id \in Ids /\ q \in saved[runs[q].id]
      BY <1>1, <1>3, <2>1, <2>3 DEF FinishedRunsAreKept, Untouched, LocalTypeOK
    <3> QED BY <1>2, <2>1, <3>1
  <2> QED BY <2>2, <2>3
<1>19. CancelledRunsLeaveNoHistory'
  BY <1>2 DEF CancelledRunsLeaveNoHistory
<1> QED BY <1>10, <1>11, <1>13, <1>14, <1>15, <1>16, <1>17, <1>18, <1>19 DEF IInv

(* The process ends, perhaps between the two writes of a loop's end.        *)
LEMMA GoneInv ==
  ASSUME IInv, Gone, record' = record,
         saved' = saved \/ \E r \in Runs : Looping(r) /\ SavesHistory(r)
  PROVE  IInv'
<1> USE LocalAssumption
<1>1. /\ LocalTypeOK /\ Mapped /\ LoopsAreHeld /\ HistoriesAreOver /\ CancelsAreSeen
      /\ StatusFollowsTheLoop /\ CompletedSessionsAreDurable
      /\ FinishedRunsAreKept /\ CancelledRunsLeaveNoHistory
  BY DEF IInv
<1>2. \A q \in Runs :
        /\ runs'[q].at # "looping"
        /\ Looping(q) => runs'[q].at = "lost"
        /\ ~Looping(q) => runs'[q].at = runs[q].at
        /\ runs'[q].of = runs[q].of /\ runs'[q].id = runs[q].id
        /\ runs'[q].history = runs[q].history /\ runs'[q].backend = runs[q].backend
        /\ runs[q].id \in Ids
  BY <1>1 DEF Gone, Looping, LocalTypeOK
<1>3. \A q \in Runs :
        /\ runs[q].at \in Ends => runs'[q].at \in Ends
        /\ Looping(q) => runs'[q].at \in Ends
        /\ (runs'[q].at # "new") <=> (runs[q].at # "new")
  BY <1>2 DEF Ends, Looping
<1>4. /\ saved' \in [Ids -> SUBSET Runs]
      /\ \A i \in Ids : saved[i] # {} => saved'[i] # {}
      /\ \A i \in Ids : \A p \in saved'[i] : Looping(p) \/ runs[p].at \in Ends
      /\ \A i \in Ids : \A p \in saved'[i] : p \notin cancelled \ revived
      /\ \A i \in Ids : Untouched(i) => saved[i] \subseteq saved'[i]
  <2>1. CASE saved' = saved
    BY <1>1, <2>1 DEF LocalTypeOK, HistoriesAreOver, CancelledRunsLeaveNoHistory
  <2>2. CASE \E r \in Runs : Looping(r) /\ SavesHistory(r)
    <3>1. PICK r \in Runs : Looping(r) /\ SavesHistory(r)
      BY <2>2
    <3> QED BY <3>1, SavedHistory
  <2> QED BY <2>1, <2>2
<1>5. LocalTypeOK'
  <2>1. runs' \in [Runs -> [at : {"new", "looping"} \cup Ends, of : Conversations, id : Ids,
                            backend : Backends, history : SUBSET Runs]]
    <3>1. runs' = [r \in Runs |-> IF Looping(r) THEN [runs[r] EXCEPT !.at = "lost"] ELSE runs[r]]
      BY <1>1 DEF Gone
    <3>2. ASSUME NEW r \in Runs
          PROVE  [runs[r] EXCEPT !.at = "lost"] \in [at : {"new", "looping"} \cup Ends, of : Conversations, id : Ids,
                                                    backend : Backends, history : SUBSET Runs]
      BY <1>1 DEF LocalTypeOK, Ends
    <3> QED BY <1>1, <3>1, <3>2 DEF LocalTypeOK
  <2> QED BY <1>1, <1>4, <2>1 DEF Gone, LocalTypeOK
<1>6. /\ overlapped' = overlapped /\ cancelled' = cancelled /\ revived' = revived
      /\ overlapped \subseteq Runs /\ cancelled \subseteq Runs
      /\ \A q \in Runs : ~Looping(q)'
  BY <1>1, <1>2 DEF Gone, LocalTypeOK, Looping
<1>7. Mapped' /\ LoopsAreHeld' /\ CancelsAreSeen'
  <2>1. Mapped'
    <3>1. ASSUME NEW r \in Runs, runs'[r].at # "new"
          PROVE  HasRecord(runs[r].of)' /\ record'[runs'[r].of].id = runs'[r].id
      <4>1. runs[r].at # "new"
        BY <1>3, <3>1
      <4> QED BY <1>1, <1>2, <4>1 DEF Mapped, HasRecord
    <3> QED BY <1>1, <3>1 DEF Mapped, HasRecord
  <2>2. LoopsAreHeld'
    BY <1>6 DEF LoopsAreHeld
  <2>3. CancelsAreSeen'
    BY <1>6, <1>1, <1>2 DEF CancelsAreSeen
  <2> QED BY <2>1, <2>2, <2>3
<1>8. HistoriesAreOver'
  <2>1. ASSUME NEW i \in Ids, NEW p \in saved'[i] PROVE runs'[p].at \in Ends
    <3>1. p \in Runs /\ (Looping(p) \/ runs[p].at \in Ends)
      BY <1>4
    <3> QED BY <1>3, <3>1
  <2>2. ASSUME NEW r \in Runs, NEW p \in runs'[r].history PROVE runs'[p].at \in Ends
    <3>1. p \in Runs /\ runs[p].at \in Ends
      BY <1>1, <1>2 DEF HistoriesAreOver, LocalTypeOK
    <3> QED BY <1>3, <3>1
  <2>3. ASSUME NEW r \in overlapped' \cup cancelled' PROVE runs'[r].at # "new"
    <3>1. r \in Runs /\ runs[r].at # "new"
      BY <1>6, <1>1 DEF HistoriesAreOver
    <3> QED BY <1>3, <3>1
  <2> QED BY <1>6, <2>1, <2>2, <2>3 DEF HistoriesAreOver
<1>9. StatusFollowsTheLoop'
  BY <1>2 DEF StatusFollowsTheLoop, Gone, Looping
<1>10. CompletedSessionsAreDurable'
  BY <1>1, <1>4, Shapes DEF CompletedSessionsAreDurable, HasRecord, LocalTypeOK
<1>11. FinishedRunsAreKept'
  <2> SUFFICES ASSUME NEW q \in Runs, runs'[q].at = "finished", Untouched(runs[q].id)'
               PROVE  q \in saved'[runs'[q].id]
    BY DEF FinishedRunsAreKept, Untouched
  <2>1. Untouched(runs[q].id) /\ runs[q].at = "finished"
    BY <1>6, <1>2 DEF Untouched
  <2> QED BY <1>1, <1>2, <1>4, <2>1 DEF FinishedRunsAreKept, Untouched
<1>12. CancelledRunsLeaveNoHistory'
  BY <1>4 DEF CancelledRunsLeaveNoHistory, Gone
<1> QED BY <1>5, <1>7, <1>8, <1>9, <1>10, <1>11, <1>12 DEF IInv

(* A cancel: its session is marked, its loops in this backend are to stop.  *)
LEMMA CancelInv ==
  ASSUME IInv, NEW i \in Ids, Cancel(i)
  PROVE  IInv'
<1> USE LocalAssumption
<1> DEFINE hit == {r \in LoopsOf(i) : runs[r].backend = backend}
<1>1. /\ LocalTypeOK /\ Mapped /\ LoopsAreHeld /\ HistoriesAreOver /\ CancelsAreSeen
      /\ StatusFollowsTheLoop /\ CompletedSessionsAreDurable
      /\ FinishedRunsAreKept /\ CancelledRunsLeaveNoHistory
  BY DEF IInv
<1>2. /\ live' = [live EXCEPT ![<<backend, i>>] = [status |-> "CANCELLED", aborted |-> TRUE]]
      /\ cancelled' = cancelled \cup hit
      /\ backend # 0 /\ live[<<backend, i>>] # NoSession
      /\ UNCHANGED <<backend, built, record, saved, minted, runs, overlapped, revived>>
  BY DEF Cancel, Held
<1>3. hit \subseteq Runs /\ \A r \in hit : Looping(r) /\ Place(r) = <<backend, i>>
  BY DEF LoopsOf, Place
<1>4. \A r \in Runs : Looping(r) /\ Place(r) = <<backend, i>> => r \in hit
  BY DEF LoopsOf, Place
<1> HIDE DEF hit
<1>5. <<backend, i>> \in Backends \X Ids /\ [status |-> "CANCELLED", aborted |-> TRUE] \in SessionState
  BY <1>1, <1>2 DEF LocalTypeOK, Backends, SessionState, Status
<1>6. /\ live'[<<backend, i>>] = [status |-> "CANCELLED", aborted |-> TRUE]
      /\ live'[<<backend, i>>] # NoSession
      /\ \A x \in Backends \X Ids : x # <<backend, i>> => live'[x] = live[x]
  BY <1>1, <1>2, <1>5, Shapes DEF LocalTypeOK
<1>7. \A r \in Runs : Place(r) \in Backends \X Ids /\ Place(r)' = Place(r) /\ Looping(r)' = Looping(r)
  BY <1>1, <1>2 DEF Place, Looping, LocalTypeOK
<1>8. LocalTypeOK'
  <2>1. live' \in [Backends \X Ids -> SessionState \cup {NoSession}]
    BY <1>1, <1>2, <1>5 DEF LocalTypeOK
  <2> QED BY <1>1, <1>2, <1>3, <2>1 DEF LocalTypeOK
<1>9. Mapped' /\ CompletedSessionsAreDurable' /\ FinishedRunsAreKept'
  BY <1>1, <1>2 DEF Mapped, CompletedSessionsAreDurable, FinishedRunsAreKept, HasRecord
<1>10. LoopsAreHeld'
  BY <1>1, <1>2, <1>6, <1>7 DEF LoopsAreHeld
<1>11. HistoriesAreOver'
  BY <1>1, <1>2, <1>3 DEF HistoriesAreOver, Looping, Untouched
<1>12. \A r \in hit :
         /\ \A j \in Ids : r \notin saved[j]
         /\ \A q \in Runs : r \notin runs[q].history
  BY <1>1, <1>3 DEF HistoriesAreOver, Looping, Ends
<1>13. CancelsAreSeen'
  <2>1. ASSUME NEW r \in cancelled' \ revived', Looping(r)' PROVE Aborted(r)'
    <3>1. r \in Runs /\ Looping(r)
      BY <1>1, <1>2, <1>3, <1>7, <2>1 DEF LocalTypeOK
    <3>2. CASE Place(r) = <<backend, i>>
      BY <1>6, <1>7, <3>1, <3>2 DEF Aborted
    <3>3. CASE Place(r) # <<backend, i>>
      <4>1. r \in cancelled \ revived
        BY <1>2, <1>3, <2>1, <3>3
      <4> QED BY <1>1, <1>6, <1>7, <3>1, <3>3, <4>1 DEF CancelsAreSeen, Aborted
    <3> QED BY <3>2, <3>3
  <2>2. \A r \in Runs : \A p \in runs'[r].history : p \notin cancelled' \ revived'
    BY <1>1, <1>2, <1>12 DEF CancelsAreSeen
  <2> QED BY <2>1, <2>2 DEF CancelsAreSeen
<1>14. StatusFollowsTheLoop'
  <2>1. ASSUME NEW d \in Backends, NEW j \in Ids,
               live'[<<d, j>>] # NoSession, live'[<<d, j>>].status = "RUNNING"
        PROVE  \E q \in LoopsOf(j)' : runs'[q].backend = d
    <3>1. live'[<<d, j>>] = live[<<d, j>>]
      BY <1>6, <2>1
    <3> QED BY <1>1, <1>2, <2>1, <3>1 DEF StatusFollowsTheLoop, LoopsOf, Looping
  <2>2. ASSUME NEW q \in Runs \ (overlapped' \cup cancelled'), Looping(q)'
        PROVE  live'[Place(q)'].status = "RUNNING"
    <3>1. /\ Looping(q) /\ q \in Runs \ (overlapped \cup cancelled)
          /\ Place(q) # <<backend, i>> /\ Place(q)' = Place(q)
      BY <1>2, <1>4, <1>7, <2>2
    <3> QED BY <1>1, <1>6, <1>7, <3>1 DEF StatusFollowsTheLoop
  <2> QED BY <2>1, <2>2 DEF StatusFollowsTheLoop
<1>15. CancelledRunsLeaveNoHistory'
  BY <1>1, <1>2, <1>12 DEF CancelledRunsLeaveNoHistory
<1> QED BY <1>8, <1>9, <1>10, <1>11, <1>13, <1>14, <1>15 DEF IInv

-----------------------------------------------------------------------------
LEMMA NextInv == IInv /\ [LocalNext]_localVars => IInv'
<1> SUFFICES ASSUME IInv, [LocalNext]_localVars PROVE IInv'
  OBVIOUS
<1>1. ASSUME NEW r \in Runs, RequestRun(r) PROVE IInv'
  BY <1>1, StartRunInv DEF RequestRun
<1>2. ASSUME NEW r \in Runs, Stop(r) PROVE IInv'
  BY <1>2, LoopEndsInv DEF Stop, Ends
<1>3. ASSUME NEW r \in Runs, Finish(r) PROVE IInv'
  <2>1. SavesHistory(r)
    BY <1>3 DEF Finish, Heard, SavesHistory
  <2> QED BY <1>3, <2>1, LoopEndsInv DEF Finish, Ends
<1>4. ASSUME NEW r \in Runs, Fail(r) PROVE IInv'
  BY <1>4, LoopEndsInv DEF Fail, Ends
<1>5. ASSUME NEW r \in Runs, DieAfterSave(r) PROVE IInv'
  <2>1. SavesHistory(r)
    BY <1>5 DEF DieAfterSave, Heard, SavesHistory
  <2> QED BY <1>5, <2>1, GoneInv DEF DieAfterSave
<1>6. ASSUME NEW i \in Ids, Cancel(i) PROVE IInv'
  BY <1>6, CancelInv
<1>7. CASE Reconfigure
  <2>1. LocalTypeOK'
    BY <1>7, LocalAssumption DEF IInv, LocalTypeOK, Reconfigure
  <2>2. Mapped' /\ LoopsAreHeld' /\ HistoriesAreOver' /\ CancelsAreSeen'
    BY <1>7 DEF IInv, Reconfigure, Mapped, LoopsAreHeld, HistoriesAreOver, CancelsAreSeen,
                HasRecord, Looping, Place, Aborted, Untouched
  <2>3. /\ StatusFollowsTheLoop' /\ CompletedSessionsAreDurable'
        /\ FinishedRunsAreKept' /\ CancelledRunsLeaveNoHistory'
    BY <1>7 DEF IInv, Reconfigure, StatusFollowsTheLoop, CompletedSessionsAreDurable,
                FinishedRunsAreKept, CancelledRunsLeaveNoHistory, HasRecord, LoopsOf,
                Looping, Place
  <2> QED BY <2>1, <2>2, <2>3 DEF IInv
<1>8. CASE Restart
  BY <1>8, GoneInv DEF Restart
<1>9. CASE UNCHANGED localVars
  <2>1. LocalTypeOK'
    BY <1>9 DEF IInv, LocalTypeOK, localVars
  <2>2. Mapped' /\ LoopsAreHeld' /\ HistoriesAreOver' /\ CancelsAreSeen'
    BY <1>9 DEF IInv, localVars, Mapped, LoopsAreHeld, HistoriesAreOver, CancelsAreSeen,
                HasRecord, Looping, Place, Aborted, Untouched
  <2>3. /\ StatusFollowsTheLoop' /\ CompletedSessionsAreDurable'
        /\ FinishedRunsAreKept' /\ CancelledRunsLeaveNoHistory'
    BY <1>9 DEF IInv, localVars, StatusFollowsTheLoop, CompletedSessionsAreDurable,
                FinishedRunsAreKept, CancelledRunsLeaveNoHistory, HasRecord, LoopsOf,
                Looping, Place
  <2> QED BY <2>1, <2>2, <2>3 DEF IInv
<1> QED
  BY <1>1, <1>2, <1>3, <1>4, <1>5, <1>6, <1>7, <1>8, <1>9 DEF LocalNext

LEMMA Invariance == LocalSpec => []IInv
<1>1. LocalInit => IInv
  BY InitInv
<1>2. IInv /\ [LocalNext]_localVars => IInv'
  BY NextInv
<1> QED BY <1>1, <1>2, PTL DEF LocalSpec

(* The state keeps its shape, and every recorded session was minted.        *)
THEOREM TypeCorrect == LocalSpec => []LocalTypeOK
<1>1. IInv => LocalTypeOK
  BY DEF IInv
<1> QED BY <1>1, Invariance, PTL

(* Every run of a conversation, before and after any number of restarts,    *)
(* belongs to the one session of that conversation.                         *)
THEOREM SessionsAreNotShared == LocalSpec => []OneSessionPerConversation
<1>1. IInv => OneSessionPerConversation
  BY DEF IInv, Mapped, LocalTypeOK, OneSessionPerConversation
<1> QED BY <1>1, Invariance, PTL

(* A session of the backend says RUNNING only while a loop of it is under   *)
(* way, and always for a loop that nothing else touched.                    *)
THEOREM RunningMeansALoop == LocalSpec => []StatusFollowsTheLoop
<1>1. IInv => StatusFollowsTheLoop
  BY DEF IInv
<1> QED BY <1>1, Invariance, PTL

(* A record that says FINISHED has a history on disk, wherever the process  *)
(* ended.                                                                   *)
THEOREM FinishedMeansSaved == LocalSpec => []CompletedSessionsAreDurable
<1>1. IInv => CompletedSessionsAreDurable
  BY DEF IInv
<1> QED BY <1>1, Invariance, PTL

(* A finished run whose session never had two loops at once is in the saved *)
(* history for good.                                                        *)
THEOREM HistoriesOnlyGrow == LocalSpec => []FinishedRunsAreKept
<1>1. IInv => FinishedRunsAreKept
  BY DEF IInv
<1> QED BY <1>1, Invariance, PTL

(* A cancelled run whose session was not started again is in no history.    *)
THEOREM CancelledRunsAreDropped == LocalSpec => []CancelledRunsLeaveNoHistory
<1>1. IInv => CancelledRunsLeaveNoHistory
  BY DEF IInv
<1> QED BY <1>1, Invariance, PTL

(* All that the local lane guarantees, for any runs and conversations.      *)
THEOREM LaneStaysSound == LocalSpec => []LaneIsSound
<1>1. IInv => LaneIsSound
  BY DEF IInv, Mapped, LocalTypeOK, OneSessionPerConversation, LaneIsSound
<1> QED BY <1>1, Invariance, PTL

-----------------------------------------------------------------------------
(* The Cursor lane *)

(* What is recorded was created.                                            *)
Born(a) == a = NoAgent \/ agents[a] # Unborn
RecordedAreBorn == \A s \in Sessions : Born(memory[s]) /\ Born(disk[s])

(* Two turns of a conversation that look for an agent at once are counted   *)
(* as such, and an agent belongs to the turn that waits for its creation.   *)
TurnsAreCounted ==
  /\ \A s \in Sessions : \A t, u \in Resolving(s) : t # u => s \in crowded
  /\ \A t \in Turns : At(t, "created") => agents[turns[t].agent].of = turns[t].session

(* A turn that is alone with its conversation is right about what is        *)
(* recorded while it waits for the vendor.                                  *)
TurnsAreRight ==
  perRequest \/
  \A t \in Turns : turns[t].session \notin crowded \cup lost =>
    /\ At(t, "asking") => Recorded(turns[t].session) = turns[t].agent
    /\ At(t, "creating") \/ At(t, "created") => Recorded(turns[t].session) = NoAgent

CursorIInv ==
  /\ CursorTypeOK
  /\ RecordedAreBorn
  /\ TurnsAreCounted
  /\ TurnsAreRight
  /\ RestartKeepsAgents
  /\ OrphansHaveACause

LEMMA CursorInitInv == CursorInit => CursorIInv
<1> SUFFICES ASSUME CursorInit PROVE CursorIInv
  OBVIOUS
<1> USE CursorAssumption DEF CursorInit
<1>1. Unborn.state = "unborn" /\ Unborn.of \in Sessions /\ Unborn = [state |-> "unborn", of |-> Unborn.of]
  BY DEF Unborn
<1>2. CursorTypeOK
  BY <1>1 DEF CursorTypeOK, Stages
<1>3. RecordedAreBorn /\ RestartKeepsAgents
  BY DEF RecordedAreBorn, Born, RestartKeepsAgents
<1>4. \A t \in Turns : turns[t].at = "new"
  OBVIOUS
<1>5. TurnsAreCounted /\ TurnsAreRight
  BY <1>4 DEF TurnsAreCounted, TurnsAreRight, Resolving, At
<1>6. OrphansHaveACause
  BY <1>1 DEF OrphansHaveACause, Alive
<1> QED BY <1>2, <1>3, <1>5, <1>6 DEF CursorIInv

-----------------------------------------------------------------------------
(* A turn changes its stage and nothing else: the mapping stays, and no     *)
(* agent is born, lost or given away.                                       *)
LEMMA StageInv ==
  ASSUME CursorIInv, NEW t \in Turns, NEW stage \in {"streaming", "done", "failed"},
         Go(t, stage), turns[t].at # "new",
         ~At(t, "created"), stage = "streaming" => At(t, "asking"),
         UNCHANGED <<perRequest, memory, disk, crowded, lost>>,
         agents' \in [Agents -> [state : {"unborn", "idle", "busy", "gone"}, of : Sessions]],
         \A a \in Agents : /\ agents[a] # Unborn => agents'[a] # Unborn
                           /\ agents'[a].of = agents[a].of
                           /\ Alive(a)' => Alive(a)
  PROVE  CursorIInv'
<1> USE CursorAssumption
<1>1. CursorTypeOK /\ RecordedAreBorn /\ TurnsAreCounted /\ TurnsAreRight
      /\ RestartKeepsAgents /\ OrphansHaveACause
  BY DEF CursorIInv
<1>2. /\ turns' = [turns EXCEPT ![t].at = stage]
      /\ turns' \in [Turns -> [at : Stages, session : Sessions, agent : Agents \cup {NoAgent}]]
      /\ turns'[t].at = stage
      /\ \A u \in Turns : /\ u # t => turns'[u] = turns[u]
                          /\ turns'[u].session = turns[u].session
                          /\ turns'[u].agent = turns[u].agent
  BY <1>1 DEF Go, CursorTypeOK, Stages
<1>3. CursorTypeOK'
  BY <1>1, <1>2 DEF CursorTypeOK, At
<1>4. RecordedAreBorn' /\ RestartKeepsAgents'
  BY <1>1 DEF RecordedAreBorn, Born, RestartKeepsAgents, CursorTypeOK
<1>5. \A s \in Sessions : Recorded(s)' = Recorded(s) /\ Resolving(s)' \subseteq Resolving(s)
  BY <1>2 DEF Recorded, Resolving
<1>6. \A u \in Turns : \A g \in {"asking", "creating", "created"} : At(u, g)' => u # t /\ At(u, g)
  BY <1>2 DEF At
<1>7. TurnsAreCounted'
  BY <1>1, <1>2, <1>5, <1>6 DEF TurnsAreCounted, CursorTypeOK, At
<1>8. TurnsAreRight'
  BY <1>1, <1>2, <1>5, <1>6 DEF TurnsAreRight, CursorTypeOK
<1>9. OrphansHaveACause'
  <2>1. \A u \in Turns : At(u, "created") => At(u, "created")'
    BY <1>2 DEF At
  <2> QED BY <1>1, <1>2, <1>5, <2>1 DEF OrphansHaveACause, CursorTypeOK
<1> QED BY <1>3, <1>4, <1>7, <1>8, <1>9 DEF CursorIInv

LEMMA BeginTurnInv ==
  ASSUME CursorIInv, NEW t \in Turns, NEW s \in Sessions, BeginTurn(t, s)
  PROVE  CursorIInv'
<1> USE CursorAssumption
<1> DEFINE agent == IF perRequest THEN NoAgent ELSE Recorded(s)
           stage == IF Known(agent) THEN "asking" ELSE "creating"
<1>1. CursorTypeOK /\ RecordedAreBorn /\ TurnsAreCounted /\ TurnsAreRight
      /\ RestartKeepsAgents /\ OrphansHaveACause
  BY DEF CursorIInv
<1>2. /\ turns[t].at = "new"
      /\ turns' = [turns EXCEPT ![t] = [at |-> stage, session |-> s, agent |-> agent]]
      /\ crowded' = IF Resolving(s) # {} THEN crowded \cup {s} ELSE crowded
      /\ UNCHANGED <<perRequest, memory, disk, agents, lost>>
  BY DEF BeginTurn, At
<1>3. /\ agent \in Agents \cup {NoAgent}
      /\ agent # NoAgent => agents[agent] # Unborn /\ agent \in Agents
      /\ stage = "asking" => agent = Recorded(s) /\ agent # NoAgent /\ ~perRequest
      /\ stage = "creating" => agent = NoAgent /\ (perRequest \/ Recorded(s) = NoAgent)
      /\ stage \in {"asking", "creating"}
  BY <1>1 DEF CursorTypeOK, RecordedAreBorn, Born, Recorded, Known
<1> HIDE DEF agent, stage
<1>4. /\ turns' \in [Turns -> [at : Stages, session : Sessions, agent : Agents \cup {NoAgent}]]
      /\ turns'[t] = [at |-> stage, session |-> s, agent |-> agent]
      /\ \A u \in Turns : u # t => turns'[u] = turns[u]
      /\ crowded' \subseteq Sessions /\ crowded \subseteq crowded'
  BY <1>1, <1>2, <1>3 DEF CursorTypeOK, Stages
<1>5. CursorTypeOK'
  <2>1. ASSUME NEW u \in Turns, turns'[u].at \in {"asking", "created", "streaming"}
        PROVE  turns'[u].agent \in Agents /\ agents'[turns'[u].agent] # Unborn
    <3>1. CASE u = t
      BY <1>2, <1>3, <1>4, <2>1, <3>1
    <3>2. CASE u # t
      BY <1>1, <1>2, <1>4, <2>1, <3>2 DEF CursorTypeOK
    <3> QED BY <3>1, <3>2
  <2> QED BY <1>1, <1>2, <1>4, <2>1 DEF CursorTypeOK
<1>6. RecordedAreBorn' /\ RestartKeepsAgents'
  BY <1>1, <1>2 DEF RecordedAreBorn, Born, RestartKeepsAgents
<1>7. \A r \in Sessions : Recorded(r)' = Recorded(r)
  BY <1>2 DEF Recorded
<1>8. \A r \in Sessions : Resolving(r)' \subseteq Resolving(r) \cup (IF r = s THEN {t} ELSE {})
  BY <1>4 DEF Resolving
<1>9. TurnsAreCounted'
  <2>1. ASSUME NEW r \in Sessions, NEW u \in Resolving(r)', NEW v \in Resolving(r)', u # v
        PROVE  r \in crowded'
    <3>1. CASE u \in Resolving(r) /\ v \in Resolving(r)
      BY <1>1, <1>4, <2>1, <3>1 DEF TurnsAreCounted
    <3>2. CASE ~(u \in Resolving(r) /\ v \in Resolving(r))
      BY <1>2, <1>8, <2>1, <3>2
    <3> QED BY <3>1, <3>2
  <2>2. \A u \in Turns : At(u, "created")' => agents'[turns'[u].agent].of = turns'[u].session
    BY <1>1, <1>2, <1>3, <1>4 DEF TurnsAreCounted, At
  <2> QED BY <2>1, <2>2 DEF TurnsAreCounted
<1>10. TurnsAreRight'
  <2> SUFFICES ASSUME ~perRequest, NEW u \in Turns, turns'[u].session \notin crowded \cup lost
               PROVE  /\ At(u, "asking")' => Recorded(turns[u].session)' = turns'[u].agent
                      /\ At(u, "creating")' \/ At(u, "created")' => Recorded(turns[u].session)' = NoAgent
    BY <1>2, <1>4 DEF TurnsAreRight
  <2>1. Recorded(turns[u].session)' = Recorded(turns'[u].session)
    BY <1>2 DEF Recorded
  <2>2. CASE u = t
    BY <1>3, <1>4, <2>1, <2>2 DEF At
  <2>3. CASE u # t
    BY <1>1, <1>4, <2>1, <2>3 DEF TurnsAreRight, At
  <2> QED BY <2>2, <2>3
<1>11. OrphansHaveACause'
  <2>1. \A u \in Turns : At(u, "created") => At(u, "created")' /\ turns'[u] = turns[u]
    BY <1>2, <1>4 DEF At
  <2> QED BY <1>1, <1>2, <1>4, <1>7, <2>1 DEF OrphansHaveACause, CursorTypeOK, Alive
<1> QED BY <1>5, <1>6, <1>9, <1>10, <1>11 DEF CursorIInv

LEMMA AgentMissingInv ==
  ASSUME CursorIInv, NEW t \in Turns, AgentMissing(t)
  PROVE  CursorIInv'
<1> USE CursorAssumption
<1> DEFINE s == turns[t].session
<1>1. CursorTypeOK /\ RecordedAreBorn /\ TurnsAreCounted /\ TurnsAreRight
      /\ RestartKeepsAgents /\ OrphansHaveACause
  BY DEF CursorIInv
<1>2. /\ turns[t].at = "asking" /\ ~Alive(turns[t].agent)
      /\ memory' = [memory EXCEPT ![s] = NoAgent]
      /\ disk' = [disk EXCEPT ![s] = NoAgent]
      /\ turns' = [turns EXCEPT ![t].at = "creating"]
      /\ UNCHANGED <<perRequest, agents, crowded, lost>>
  BY DEF AgentMissing, At, Forget, Go, Alive
<1>3. s \in Sessions /\ t \in Resolving(s)
  BY <1>1, <1>2 DEF CursorTypeOK, Resolving
<1> HIDE DEF s
<1>4. /\ turns' \in [Turns -> [at : Stages, session : Sessions, agent : Agents \cup {NoAgent}]]
      /\ turns'[t].at = "creating" /\ turns'[t].session = s
      /\ \A u \in Turns : /\ u # t => turns'[u] = turns[u]
                          /\ turns'[u].session = turns[u].session
                          /\ turns'[u].agent = turns[u].agent
  BY <1>1, <1>2 DEF CursorTypeOK, Stages, s
<1>5. CursorTypeOK'
  BY <1>1, <1>2, <1>4 DEF CursorTypeOK
<1>6. RecordedAreBorn' /\ RestartKeepsAgents'
  BY <1>1, <1>2, <1>3 DEF RecordedAreBorn, Born, RestartKeepsAgents, CursorTypeOK
<1>7. /\ Recorded(s)' = NoAgent
      /\ \A r \in Sessions : r # s => Recorded(r)' = Recorded(r)
      /\ \A r \in Sessions : Resolving(r)' \subseteq Resolving(r)
  <2>1. Recorded(s)' = NoAgent
    BY <1>1, <1>2, <1>3 DEF Recorded, CursorTypeOK, s
  <2>2. \A r \in Sessions : r # s => Recorded(r)' = Recorded(r)
    BY <1>1, <1>2, <1>3 DEF Recorded, CursorTypeOK
  <2>3. \A r \in Sessions : Resolving(r)' \subseteq Resolving(r)
    BY <1>2, <1>4 DEF Resolving
  <2> QED BY <2>1, <2>2, <2>3
<1>8. TurnsAreCounted'
  BY <1>1, <1>2, <1>4, <1>7 DEF TurnsAreCounted, At
<1>9. TurnsAreRight'
  <2> SUFFICES ASSUME ~perRequest, NEW u \in Turns, turns[u].session \notin crowded \cup lost
               PROVE  /\ At(u, "asking")' => Recorded(turns[u].session)' = turns[u].agent
                      /\ At(u, "creating")' \/ At(u, "created")' => Recorded(turns[u].session)' = NoAgent
    BY <1>2, <1>4 DEF TurnsAreRight
  <2>1. turns'[u].session = turns[u].session /\ turns[u].session \in Sessions
    BY <1>1, <1>4 DEF CursorTypeOK
  <2>2. CASE u = t
    <3>1. turns[u].session = s /\ turns'[u].at = "creating"
      BY <1>4, <2>2 DEF s
    <3>2. Recorded(turns[u].session)' = NoAgent
      BY <1>7, <2>1, <2>2 DEF Recorded, s
    <3> QED BY <3>1, <3>2 DEF At
  <2>3. CASE u # t /\ turns[u].session = s
    <3>1. ~(turns[u].at \in {"asking", "creating", "created"})
      BY <1>1, <1>3, <2>3 DEF TurnsAreCounted, Resolving
    <3> QED BY <1>4, <2>3, <3>1 DEF At
  <2>4. CASE u # t /\ turns[u].session # s
    <3>1. Recorded(turns[u].session)' = Recorded(turns[u].session)
      BY <1>7, <2>1, <2>4 DEF Recorded
    <3> QED BY <1>1, <1>4, <2>4, <3>1 DEF TurnsAreRight, At
  <2> QED BY <2>2, <2>3, <2>4
<1>10. OrphansHaveACause'
  <2> SUFFICES ASSUME ~perRequest, NEW a \in Agents, Alive(a),
                      agents[a].of \notin crowded \cup lost
               PROVE  \/ Recorded(agents[a].of)' = a
                      \/ \E u \in Turns : At(u, "created")' /\ turns'[u].agent = a
    BY <1>2 DEF OrphansHaveACause, Alive
  <2>1. CASE \E u \in Turns : At(u, "created") /\ turns[u].agent = a
    BY <1>2, <1>4, <2>1 DEF At
  <2>2. CASE Recorded(agents[a].of) = a
    <3>1. agents[a].of # s
      BY <1>1, <1>2, <2>2 DEF TurnsAreRight, At, s
    <3> QED BY <1>1, <1>2, <1>7, <2>2, <3>1 DEF CursorTypeOK, Recorded
  <2> QED BY <1>1, <2>1, <2>2 DEF OrphansHaveACause
<1> QED BY <1>5, <1>6, <1>8, <1>9, <1>10 DEF CursorIInv

LEMMA CreateAgentInv ==
  ASSUME CursorIInv, NEW t \in Turns, NEW a \in Agents, CreateAgent(t, a)
  PROVE  CursorIInv'
<1> USE CursorAssumption
<1> DEFINE s == turns[t].session
<1>1. CursorTypeOK /\ RecordedAreBorn /\ TurnsAreCounted /\ TurnsAreRight
      /\ RestartKeepsAgents /\ OrphansHaveACause
  BY DEF CursorIInv
<1>2. /\ turns[t].at = "creating" /\ agents[a] = Unborn
      /\ agents' = [agents EXCEPT ![a] = [state |-> "busy", of |-> s]]
      /\ turns' = [turns EXCEPT ![t].at = "created", ![t].agent = a]
      /\ UNCHANGED <<perRequest, memory, disk, crowded, lost>>
  BY DEF CreateAgent, At, Agents
<1>3. s \in Sessions
  BY <1>1 DEF CursorTypeOK
<1> HIDE DEF s
<1>4. /\ turns' \in [Turns -> [at : Stages, session : Sessions, agent : Agents \cup {NoAgent}]]
      /\ turns'[t].at = "created" /\ turns'[t].session = s /\ turns'[t].agent = a
      /\ \A u \in Turns : /\ u # t => turns'[u] = turns[u]
                          /\ turns'[u].session = turns[u].session
  BY <1>1, <1>2 DEF CursorTypeOK, Stages, s
<1>5. /\ agents' \in [Agents -> [state : {"unborn", "idle", "busy", "gone"}, of : Sessions]]
      /\ agents'[a].of = s /\ agents'[a] # Unborn
      /\ \A b \in Agents : b # a => agents'[b] = agents[b]
  BY <1>1, <1>2, <1>3 DEF CursorTypeOK, Unborn
<1>6. CursorTypeOK'
  <2>1. ASSUME NEW u \in Turns, turns'[u].at \in {"asking", "created", "streaming"}
        PROVE  turns'[u].agent \in Agents /\ agents'[turns'[u].agent] # Unborn
    BY <1>1, <1>4, <1>5, <2>1 DEF CursorTypeOK
  <2> QED BY <1>1, <1>2, <1>4, <1>5, <2>1 DEF CursorTypeOK
<1>7. RecordedAreBorn' /\ RestartKeepsAgents'
  BY <1>1, <1>2, <1>5 DEF RecordedAreBorn, Born, RestartKeepsAgents, CursorTypeOK
<1>8. \A r \in Sessions : Recorded(r)' = Recorded(r) /\ Resolving(r)' = Resolving(r)
  BY <1>2, <1>4 DEF Recorded, Resolving
<1>9. TurnsAreCounted'
  <2>1. ASSUME NEW u \in Turns, At(u, "created")' PROVE agents'[turns'[u].agent].of = turns'[u].session
    <3>1. CASE u = t
      BY <1>4, <1>5, <3>1
    <3>2. CASE u # t
      BY <1>1, <1>2, <1>4, <1>5, <2>1, <3>2 DEF TurnsAreCounted, CursorTypeOK, At
    <3> QED BY <3>1, <3>2
  <2> QED BY <1>1, <1>2, <1>8, <2>1 DEF TurnsAreCounted
<1>10. TurnsAreRight'
  <2> SUFFICES ASSUME ~perRequest, NEW u \in Turns, turns[u].session \notin crowded \cup lost
               PROVE  /\ At(u, "asking")' => Recorded(turns[u].session)' = turns'[u].agent
                      /\ At(u, "creating")' \/ At(u, "created")' => Recorded(turns[u].session)' = NoAgent
    BY <1>2, <1>4 DEF TurnsAreRight
  <2>1. Recorded(turns[u].session)' = Recorded(turns[u].session)
    BY <1>1, <1>4, <1>8 DEF CursorTypeOK, Recorded
  <2>2. CASE u = t
    BY <1>1, <1>2, <1>4, <2>1, <2>2 DEF TurnsAreRight, At
  <2>3. CASE u # t
    BY <1>1, <1>4, <2>1, <2>3 DEF TurnsAreRight, At
  <2> QED BY <2>2, <2>3
<1>11. OrphansHaveACause'
  <2> SUFFICES ASSUME ~perRequest, NEW b \in Agents, Alive(b)',
                      agents'[b].of \notin crowded \cup lost
               PROVE  \/ Recorded(agents[b].of)' = b
                      \/ \E u \in Turns : At(u, "created")' /\ turns'[u].agent = b
    BY <1>2 DEF OrphansHaveACause
  <2>1. CASE b = a
    BY <1>4, <2>1 DEF At
  <2>2. CASE b # a
    <3>1. Alive(b) /\ agents'[b].of = agents[b].of /\ agents[b].of \in Sessions
      BY <1>1, <1>5, <2>2 DEF Alive, CursorTypeOK
    <3>2. CASE Recorded(agents[b].of) = b
      BY <1>2, <3>1, <3>2 DEF Recorded
    <3>3. CASE \E u \in Turns : At(u, "created") /\ turns[u].agent = b
      BY <1>2, <1>4, <3>3 DEF At
    <3> QED BY <1>1, <3>1, <3>2, <3>3 DEF OrphansHaveACause
  <2> QED BY <2>1, <2>2
<1> QED BY <1>6, <1>7, <1>9, <1>10, <1>11 DEF CursorIInv

(* The answer to a creation arrives, is lost, or cannot be written down:    *)
(* what a lost session answers afterwards is not promised.                  *)
LEMMA CreationEndsInv ==
  ASSUME CursorIInv, NEW t \in Turns, At(t, "created"), NEW stage \in {"streaming", "failed"},
         Go(t, stage), UNCHANGED <<perRequest, agents, crowded>>,
         lost \subseteq lost', lost' \subseteq lost \cup {turns[t].session},
         \/ ~perRequest /\ Remember(turns[t].session, turns[t].agent)
         \/ perRequest /\ UNCHANGED <<memory, disk>>
         \/ /\ turns[t].session \in lost'
            /\ memory' \in {memory, [memory EXCEPT ![turns[t].session] = turns[t].agent]}
            /\ UNCHANGED disk
  PROVE  CursorIInv'
<1> USE CursorAssumption
<1> DEFINE s == turns[t].session
           a == turns[t].agent
<1>1. CursorTypeOK /\ RecordedAreBorn /\ TurnsAreCounted /\ TurnsAreRight
      /\ RestartKeepsAgents /\ OrphansHaveACause
  BY DEF CursorIInv
<1>2. /\ s \in Sessions /\ a \in Agents /\ a # NoAgent /\ agents[a] # Unborn
      /\ agents[a].of = s /\ t \in Resolving(s)
  BY <1>1 DEF CursorTypeOK, TurnsAreCounted, Resolving, At
<1>3. \/ /\ ~perRequest
         /\ memory' = [memory EXCEPT ![s] = a] /\ disk' = [disk EXCEPT ![s] = a]
      \/ perRequest /\ memory' = memory /\ disk' = disk
      \/ /\ s \in lost'
         /\ memory' \in {memory, [memory EXCEPT ![s] = a]} /\ disk' = disk
  BY DEF Remember
<1>4. lost' \subseteq lost \cup {s} /\ turns' = [turns EXCEPT ![t].at = stage]
  BY DEF Go
<1> HIDE DEF s, a
<1>5. /\ turns' \in [Turns -> [at : Stages, session : Sessions, agent : Agents \cup {NoAgent}]]
      /\ turns'[t].at = stage
      /\ \A u \in Turns : /\ u # t => turns'[u] = turns[u]
                          /\ turns'[u].session = turns[u].session
                          /\ turns'[u].agent = turns[u].agent
      /\ turns[t].session = s /\ turns[t].agent = a
  BY <1>1, <1>4 DEF CursorTypeOK, Stages, s, a
<1>6. \A r \in Sessions :
        /\ memory'[r] \in {memory[r], a} /\ disk'[r] \in {disk[r], a}
        /\ r # s => memory'[r] = memory[r] /\ disk'[r] = disk[r] /\ Recorded(r)' = Recorded(r)
        /\ r = s /\ r \notin lost' /\ ~perRequest => memory'[r] = a /\ disk'[r] = a
        /\ perRequest => r \in lost' \/ (memory'[r] = memory[r] /\ disk'[r] = disk[r])
  BY <1>1, <1>2, <1>3 DEF CursorTypeOK, Recorded
<1>7. CursorTypeOK'
  <2>1. /\ memory' \in [Sessions -> Agents \cup {NoAgent}]
        /\ disk' \in [Sessions -> Agents \cup {NoAgent}]
    BY <1>1, <1>2, <1>3 DEF CursorTypeOK
  <2>2. ASSUME NEW u \in Turns, turns'[u].at \in {"asking", "created", "streaming"}
        PROVE  turns'[u].agent \in Agents /\ agents'[turns'[u].agent] # Unborn
    BY <1>1, <1>2, <1>5, <2>2 DEF CursorTypeOK
  <2> QED BY <1>1, <1>2, <1>4, <1>5, <2>1, <2>2 DEF CursorTypeOK
<1>8. RecordedAreBorn'
  BY <1>1, <1>2, <1>6 DEF RecordedAreBorn, Born
<1>9. RestartKeepsAgents'
  BY <1>1, <1>6 DEF RestartKeepsAgents
<1>10. \A r \in Sessions : Resolving(r)' \subseteq Resolving(r) \ {t}
  BY <1>5 DEF Resolving
<1>11. TurnsAreCounted'
  BY <1>1, <1>5, <1>10 DEF TurnsAreCounted, At
<1>12. TurnsAreRight'
  <2> SUFFICES ASSUME ~perRequest, NEW u \in Turns, turns[u].session \notin crowded \cup lost'
               PROVE  /\ At(u, "asking")' => Recorded(turns[u].session)' = turns[u].agent
                      /\ At(u, "creating")' \/ At(u, "created")' => Recorded(turns[u].session)' = NoAgent
    BY <1>5 DEF TurnsAreRight
  <2>1. CASE ~(turns'[u].at \in {"asking", "creating", "created"})
    BY <2>1 DEF At
  <2>2. CASE turns'[u].at \in {"asking", "creating", "created"}
    <3>1. u # t /\ turns'[u] = turns[u] /\ turns[u].session \in Sessions
      BY <1>1, <1>5, <2>2 DEF CursorTypeOK
    <3>2. turns[u].session # s
      BY <1>1, <1>2, <2>2, <3>1 DEF TurnsAreCounted, Resolving
    <3>3. Recorded(turns[u].session)' = Recorded(turns[u].session)
      BY <1>6, <3>1, <3>2 DEF Recorded
    <3> QED BY <1>1, <3>1, <3>3 DEF TurnsAreRight, At
  <2> QED BY <2>1, <2>2
<1>13. OrphansHaveACause'
  <2> SUFFICES ASSUME ~perRequest, NEW b \in Agents, Alive(b),
                      agents[b].of \notin crowded \cup lost'
               PROVE  \/ Recorded(agents[b].of)' = b
                      \/ \E u \in Turns : At(u, "created")' /\ turns'[u].agent = b
    BY DEF OrphansHaveACause, Alive
  <2>1. agents[b].of \in Sessions
    BY <1>1 DEF CursorTypeOK
  <2>2. CASE agents[b].of = s
    <3>1. Recorded(s) = NoAgent
      BY <1>1, <1>5, <2>2 DEF TurnsAreRight
    <3>2. \/ b = a \/ \E u \in Turns : u # t /\ At(u, "created") /\ turns[u].agent = b
      BY <1>1, <1>2, <1>5, <2>2, <3>1 DEF OrphansHaveACause
    <3>3. ASSUME NEW u \in Turns, u # t, At(u, "created"), turns[u].agent = b PROVE FALSE
      <4>1. u \in Resolving(s)
        BY <1>1, <2>2, <3>3 DEF TurnsAreCounted, Resolving, At
      <4> QED BY <1>1, <1>2, <2>2, <3>3, <4>1 DEF TurnsAreCounted
    <3>4. b = a
      BY <3>2, <3>3
    <3> QED BY <1>2, <1>6, <2>2, <3>4 DEF Recorded
  <2>3. CASE agents[b].of # s
    <3>1. CASE Recorded(agents[b].of) = b
      BY <1>6, <2>1, <2>3, <3>1 DEF Recorded
    <3>2. CASE \E u \in Turns : At(u, "created") /\ turns[u].agent = b
      <4>1. PICK u \in Turns : At(u, "created") /\ turns[u].agent = b
        BY <3>2
      <4>2. u # t
        BY <1>2, <1>5, <2>3, <4>1
      <4> QED BY <1>5, <4>1, <4>2 DEF At
    <3> QED BY <1>1, <3>1, <3>2 DEF OrphansHaveACause
  <2> QED BY <2>2, <2>3
<1> QED BY <1>7, <1>8, <1>9, <1>11, <1>12, <1>13 DEF CursorIInv

-----------------------------------------------------------------------------
(* At the vendor, runs end and agents are deleted.                          *)
LEMMA VendorInv ==
  ASSUME CursorIInv, NEW a \in Agents, RunEnds(a) \/ DeleteAgent(a)
  PROVE  CursorIInv'
<1> USE CursorAssumption
<1>1. CursorTypeOK /\ RecordedAreBorn /\ TurnsAreCounted /\ TurnsAreRight
      /\ RestartKeepsAgents /\ OrphansHaveACause
  BY DEF CursorIInv
<1>2. /\ UNCHANGED <<perRequest, memory, disk, turns, crowded, lost>>
      /\ agents' \in [Agents -> [state : {"unborn", "idle", "busy", "gone"}, of : Sessions]]
      /\ \A b \in Agents : /\ agents[b] # Unborn => agents'[b] # Unborn
                           /\ agents'[b].of = agents[b].of
                           /\ Alive(b)' => Alive(b)
  BY <1>1 DEF RunEnds, DeleteAgent, CursorTypeOK, Alive, Unborn
<1>3. CursorTypeOK' /\ RecordedAreBorn' /\ RestartKeepsAgents'
  BY <1>1, <1>2 DEF CursorTypeOK, RecordedAreBorn, Born, RestartKeepsAgents
<1>4. TurnsAreCounted'
  BY <1>1, <1>2 DEF TurnsAreCounted, Resolving, At, CursorTypeOK
<1>5. TurnsAreRight'
  BY <1>1, <1>2 DEF TurnsAreRight, Recorded, At
<1>6. OrphansHaveACause'
  BY <1>1, <1>2 DEF OrphansHaveACause, Recorded, At
<1> QED BY <1>3, <1>4, <1>5, <1>6 DEF CursorIInv

LEMMA CursorRestartInv ==
  ASSUME CursorIInv, CursorRestart
  PROVE  CursorIInv'
<1> USE CursorAssumption
<1>1. CursorTypeOK /\ RecordedAreBorn /\ TurnsAreCounted /\ TurnsAreRight
      /\ RestartKeepsAgents /\ OrphansHaveACause
  BY DEF CursorIInv
<1>2. /\ UNCHANGED <<perRequest, disk, agents, crowded>>
      /\ memory' = [s \in Sessions |-> NoAgent]
      /\ lost \subseteq lost' /\ lost' \subseteq Sessions
      /\ \A t \in Turns : At(t, "created") => turns[t].session \in lost'
  BY <1>1 DEF CursorRestart, CursorTypeOK
<1>3. /\ turns' \in [Turns -> [at : Stages, session : Sessions, agent : Agents \cup {NoAgent}]]
      /\ \A t \in Turns : turns'[t].at \in {"new", "done", "failed"}
  BY <1>1 DEF CursorRestart, CursorTypeOK, Stages
<1>4. CursorTypeOK'
  BY <1>1, <1>2, <1>3 DEF CursorTypeOK
<1>5. RecordedAreBorn' /\ RestartKeepsAgents'
  BY <1>1, <1>2 DEF RecordedAreBorn, Born, RestartKeepsAgents
<1>6. TurnsAreCounted' /\ TurnsAreRight'
  BY <1>3 DEF TurnsAreCounted, TurnsAreRight, Resolving, At
<1>7. OrphansHaveACause'
  <2> SUFFICES ASSUME ~perRequest, NEW a \in Agents, Alive(a), agents[a].of \notin crowded \cup lost'
               PROVE  Recorded(agents[a].of)' = a
    BY <1>2 DEF OrphansHaveACause, Alive
  <2>1. agents[a].of \in Sessions /\ a # NoAgent
    BY <1>1 DEF CursorTypeOK
  <2>2. ~\E t \in Turns : At(t, "created") /\ turns[t].agent = a
    BY <1>1, <1>2 DEF TurnsAreCounted
  <2>3. Recorded(agents[a].of) = a
    BY <1>1, <1>2, <2>2 DEF OrphansHaveACause
  <2>4. disk[agents[a].of] = a
    BY <1>1, <1>2, <2>1, <2>3 DEF RestartKeepsAgents, Recorded
  <2> QED BY <1>2, <2>1, <2>4 DEF Recorded
<1> QED BY <1>4, <1>5, <1>6, <1>7 DEF CursorIInv

-----------------------------------------------------------------------------
LEMMA TurnStepInv ==
  ASSUME CursorIInv, NEW t \in Turns, TurnStep(t)
  PROVE  CursorIInv'
<1> USE CursorAssumption
<1>0. agents \in [Agents -> [state : {"unborn", "idle", "busy", "gone"}, of : Sessions]]
  BY DEF CursorIInv, CursorTypeOK
<1>1. ASSUME NEW s \in Sessions, BeginTurn(t, s) PROVE CursorIInv'
  BY <1>1, BeginTurnInv
<1>2. CASE RunAccepted(t)
  <2>1. turns[t].agent \in Agents
    BY <1>2 DEF CursorIInv, CursorTypeOK, RunAccepted, At
  <2>2. /\ agents' \in [Agents -> [state : {"unborn", "idle", "busy", "gone"}, of : Sessions]]
        /\ \A a \in Agents : /\ agents[a] # Unborn => agents'[a] # Unborn
                             /\ agents'[a].of = agents[a].of
                             /\ Alive(a)' => Alive(a)
    BY <1>0, <1>2, <2>1 DEF RunAccepted, Alive, Unborn
  <2>3. turns[t].at = "asking" /\ At(t, "asking") /\ Go(t, "streaming")
        /\ UNCHANGED <<perRequest, memory, disk, crowded, lost>>
    BY <1>2 DEF RunAccepted, At
  <2>4. ~At(t, "created") /\ turns[t].at # "new"
    BY <2>3 DEF At
  <2> QED BY <2>2, <2>3, <2>4, StageInv
<1>3. ASSUME NEW stage \in {"done", "failed"}, Go(t, stage),
             turns[t].at \in {"asking", "creating", "streaming"},
             UNCHANGED <<perRequest, memory, disk, agents, crowded, lost>>
      PROVE  CursorIInv'
  <2>1. ~At(t, "created") /\ turns[t].at # "new"
    BY <1>3 DEF At
  <2>2. agents' \in [Agents -> [state : {"unborn", "idle", "busy", "gone"}, of : Sessions]]
    BY <1>0, <1>3
  <2>3. \A a \in Agents : /\ agents[a] # Unborn => agents'[a] # Unborn
                         /\ agents'[a].of = agents[a].of
                         /\ Alive(a)' => Alive(a)
    BY <1>3 DEF Alive
  <2> QED BY <1>3, <2>1, <2>2, <2>3, StageInv
<1>4. CASE RunRefused(t)
  BY <1>3, <1>4 DEF RunRefused, At
<1>5. CASE AgentMissing(t)
  BY <1>5, AgentMissingInv
<1>6. ASSUME NEW a \in Agents, CreateAgent(t, a) PROVE CursorIInv'
  BY <1>6, CreateAgentInv
<1>7. CASE CreationRefused(t)
  BY <1>3, <1>7 DEF CreationRefused, At
<1>8. CASE AgentCreated(t)
  BY <1>8, CreationEndsInv DEF AgentCreated
<1>9. CASE RecordUnwritten(t)
  BY <1>9, CreationEndsInv DEF RecordUnwritten
<1>10. CASE AnswerLost(t)
  BY <1>10, CreationEndsInv DEF AnswerLost
<1>11. CASE EndStream(t)
  BY <1>3, <1>11 DEF EndStream, At
<1> QED BY <1>1, <1>2, <1>4, <1>5, <1>6, <1>7, <1>8, <1>9, <1>10, <1>11 DEF TurnStep

LEMMA CursorNextInv == CursorIInv /\ [CursorNext]_cursorVars => CursorIInv'
<1> SUFFICES ASSUME CursorIInv, [CursorNext]_cursorVars PROVE CursorIInv'
  OBVIOUS
<1>1. ASSUME NEW t \in Turns, TurnStep(t) PROVE CursorIInv'
  BY <1>1, TurnStepInv
<1>2. CASE VendorStep
  BY <1>2, VendorInv DEF VendorStep
<1>3. CASE CursorRestart
  BY <1>3, CursorRestartInv
<1>4. CASE UNCHANGED cursorVars
  <2>1. CursorTypeOK' /\ RecordedAreBorn' /\ RestartKeepsAgents'
    BY <1>4 DEF CursorIInv, cursorVars, CursorTypeOK, RecordedAreBorn, Born, RestartKeepsAgents
  <2>2. TurnsAreCounted' /\ TurnsAreRight' /\ OrphansHaveACause'
    BY <1>4 DEF CursorIInv, cursorVars, TurnsAreCounted, TurnsAreRight, OrphansHaveACause,
                Resolving, Recorded, At, Alive
  <2> QED BY <2>1, <2>2 DEF CursorIInv
<1> QED BY <1>1, <1>2, <1>3, <1>4 DEF CursorNext

LEMMA CursorInvariance == CursorSpec => []CursorIInv
<1>1. CursorInit => CursorIInv
  BY CursorInitInv
<1>2. CursorIInv /\ [CursorNext]_cursorVars => CursorIInv'
  BY CursorNextInv
<1> QED BY <1>1, <1>2, PTL DEF CursorSpec

(* The state keeps its shape, and a turn only ever asks for or streams from *)
(* an agent that was created.                                               *)
THEOREM CursorTypeCorrect == CursorSpec => []CursorTypeOK
<1>1. CursorIInv => CursorTypeOK
  BY DEF CursorIInv
<1> QED BY <1>1, CursorInvariance, PTL

(* A restarted bridge finds for every conversation the agent it had, unless *)
(* a write or an answer of that conversation was lost.                      *)
THEOREM RestartsForkNoSession == CursorSpec => []RestartKeepsAgents
<1>1. CursorIInv => RestartKeepsAgents
  BY DEF CursorIInv
<1> QED BY <1>1, CursorInvariance, PTL

(* An agent left alive at the vendor that its conversation does not know is *)
(* explained by crowding turns or by a lost answer.                         *)
THEOREM NoUnexplainedOrphans == CursorSpec => []OrphansHaveACause
<1>1. CursorIInv => OrphansHaveACause
  BY DEF CursorIInv
<1> QED BY <1>1, CursorInvariance, PTL

(* All that the Cursor lane guarantees of agents and their conversations.   *)
THEOREM AgentsStayKept == CursorSpec => []AgentsAreKept
<1>1. CursorIInv => AgentsAreKept
  BY DEF CursorIInv, AgentsAreKept
<1> QED BY <1>1, CursorInvariance, PTL

-----------------------------------------------------------------------------
(* Workspaces *)

WorkspaceSpec == WorkspaceInit /\ [][WorkspaceNext]_workspaceVars

Lines == {"user", "assistant"} \X Appends
Statuses == {"none", "running", "done", "failed", "cancelled"}

WorkspaceTypeOK ==
  /\ stored \in [ChatSessions -> Seq(Lines)]
  /\ appends \in [Appends -> [state : {"new", "chatting", "over"}, session : ChatSessions \cup {"none"}, messages : Seq(Lines)]]
  /\ orders \in [WorkOrders -> Statuses]
  /\ replied \in [WorkOrders -> Statuses \ {"running"}]
  /\ controllers \subseteq WorkOrders /\ aborted \subseteq WorkOrders /\ chats \subseteq WorkOrders /\ ignored \subseteq WorkOrders
  /\ acked \subseteq Appends /\ crossed \subseteq Appends

(* A list of messages of whole exchanges, and one that holds an answer.     *)
Whole(m) ==
  \A i \in DOMAIN m : m[i][1] = "user" <=> i + 1 \in DOMAIN m /\ m[i+1] = <<"assistant", m[i][2]>>
Holds(m, r) == \E i \in DOMAIN m : m[i] = <<"assistant", r>>

(* A request under way holds whole exchanges and its question.              *)
Chatting(q) == appends[q].state = "chatting"
HoldsItsQuestion(q) ==
  /\ appends[q].session \in ChatSessions
  /\ \E m \in Seq(Lines) : Whole(m) /\ appends[q].messages = Append(m, <<"user", q>>)

(* Two requests that chat in one session have overlapped.                   *)
OverlapIsSeen ==
  \A q, r \in Appends : Chatting(q) /\ Chatting(r) /\ appends[q].session = appends[r].session /\ q # r => q \in crossed

(* An answer of a request that did not overlap is in its session's file and *)
(* in whatever a request under way will write over that file.               *)
AnswersAreHeld ==
  \A r \in acked \ crossed :
    /\ Holds(stored[appends[r].session], r)
    /\ \A q \in Appends : Chatting(q) /\ appends[q].session = appends[r].session => Holds(appends[q].messages, r)

SessionsInv ==
  /\ \A s \in ChatSessions : Whole(stored[s])
  /\ \A q \in Appends : Chatting(q) => HoldsItsQuestion(q)
  /\ \A r \in acked : appends[r].state = "over" /\ appends[r].session \in ChatSessions
  /\ OverlapIsSeen
  /\ AnswersAreHeld

(* A request that waits for its chat has an order that is not finished.     *)
OrdersInv ==
  /\ \A o \in chats : orders[o] \in {"running", "cancelled"}
  /\ OrdersSayWhatHappened

WorkspaceInv == WorkspaceTypeOK /\ SessionsInv /\ OrdersInv

-----------------------------------------------------------------------------
LEMMA LinesOf == \A r \in Appends : <<"user", r>> \in Lines /\ <<"assistant", r>> \in Lines
  BY DEF Lines

LEMMA WholeGrows ==
  ASSUME NEW m \in Seq(Lines), Whole(m), NEW r \in Appends
  PROVE  Whole(Append(Append(m, <<"user", r>>), <<"assistant", r>>))
<1> DEFINE u == Append(m, <<"user", r>>)
           w == Append(u, <<"assistant", r>>)
           n == Len(m)
<1>1. n \in Nat /\ DOMAIN m = 1..n
  OBVIOUS
<1>2. u \in Seq(Lines) /\ Len(u) = n + 1 /\ u[n+1] = <<"user", r>> /\ \A i \in 1..n : u[i] = m[i]
  <2> DEFINE x == <<"user", r>>
  <2>1. x \in Lines
    BY LinesOf
  <2> HIDE DEF x
  <2>2. /\ Append(m, x) \in Seq(Lines) /\ Len(Append(m, x)) = Len(m) + 1
        /\ Append(m, x)[Len(m) + 1] = x /\ \A i \in 1..Len(m) : Append(m, x)[i] = m[i]
    BY <2>1, AppendProperties
  <2> QED
    BY <2>2 DEF x
<1>3. w \in Seq(Lines) /\ Len(w) = n + 2 /\ w[n+2] = <<"assistant", r>> /\ \A i \in 1..(n+1) : w[i] = u[i]
  BY <1>2, LinesOf, AppendProperties
<1>4. DOMAIN w = 1..(n+2) /\ w[n+1] = <<"user", r>> /\ \A i \in 1..n : w[i] = m[i]
  BY <1>1, <1>2, <1>3
<1>5. \A i \in 1..n : m[i] \in Lines
  BY <1>1
<1> HIDE DEF w, u, n
<1>6. ASSUME NEW i \in 1..(n+2)
      PROVE w[i][1] = "user" <=> i + 1 \in 1..(n+2) /\ w[i+1] = <<"assistant", w[i][2]>>
  <2>1. CASE i \in 1..(n-1)
    <3>1. i \in 1..n /\ i+1 \in 1..n /\ i + 1 \in 1..(n+2)
      BY <2>1, <1>1
    <3>2. w[i] = m[i] /\ w[i+1] = m[i+1]
      BY <3>1, <1>4
    <3> QED
      BY <3>1, <3>2, <1>1 DEF Whole
  <2>2. CASE i = n
    <3>1. i \in 1..n /\ i + 1 \notin 1..n /\ i + 1 = n + 1
      BY <2>2, <1>1, <1>6
    <3>2. m[i][1] # "user"
      BY <3>1, <1>1 DEF Whole
    <3>3. w[i] = m[i] /\ w[i+1] = <<"user", r>>
      BY <3>1, <1>4
    <3> QED
      BY <3>2, <3>3
  <2>3. CASE i = n + 1
    BY <2>3, <1>1, <1>4, <1>3
  <2>4. CASE i = n + 2
    BY <2>4, <1>1, <1>3
  <2> QED
    BY <2>1, <2>2, <2>3, <2>4, <1>6, <1>1
<1> QED
  BY <1>4, <1>6 DEF Whole, w, u

LEMMA HoldsStays ==
  ASSUME NEW m \in Seq(Lines), NEW r \in Appends, Holds(m, r), NEW x \in Lines
  PROVE  Holds(Append(m, x), r)
  BY DEF Holds

LEMMA HoldsLast == ASSUME NEW m \in Seq(Lines), NEW r \in Appends PROVE Holds(Append(m, <<"assistant", r>>), r)
  BY LinesOf, AppendProperties DEF Holds

LEMMA WorkspaceInitInv == WorkspaceInit => WorkspaceInv
<1> SUFFICES ASSUME WorkspaceInit PROVE WorkspaceInv
  OBVIOUS
<1>1. WorkspaceTypeOK
  BY DEF WorkspaceInit, WorkspaceTypeOK, NewAppend, Statuses
<1>2. \A q \in Appends : ~Chatting(q)
  BY DEF WorkspaceInit, Chatting, NewAppend
<1>3. \A s \in ChatSessions : Whole(stored[s])
  BY DEF WorkspaceInit, Whole
<1>4. SessionsInv
  BY <1>2, <1>3 DEF SessionsInv, OverlapIsSeen, AnswersAreHeld, WorkspaceInit
<1>5. OrdersInv
  BY DEF WorkspaceInit, OrdersInv, OrdersSayWhatHappened
<1> QED
  BY <1>1, <1>4, <1>5 DEF WorkspaceInv

(* Requests that end without an answer leave everything else as it was.     *)
LEMMA FewerChats ==
  ASSUME WorkspaceTypeOK, SessionsInv, UNCHANGED <<stored, acked, crossed>>,
         appends' \in [Appends -> [state : {"new", "chatting", "over"}, session : ChatSessions \cup {"none"}, messages : Seq(Lines)]],
         \A q \in Appends : \/ appends'[q] = appends[q]
                            \/ /\ appends'[q].state = "over" /\ appends'[q].session = appends[q].session
                               /\ appends'[q].messages = appends[q].messages
  PROVE  SessionsInv'
<1>1. \A q \in Appends : appends'[q].session = appends[q].session /\ appends'[q].messages = appends[q].messages
  OBVIOUS
<1>2. \A q \in Appends : (Chatting(q)' => Chatting(q)) /\ (appends[q].state = "over" => appends'[q].state = "over")
  BY DEF Chatting
<1>3. OverlapIsSeen'
  BY <1>1, <1>2 DEF SessionsInv, OverlapIsSeen
<1>4. AnswersAreHeld'
  BY <1>1, <1>2 DEF SessionsInv, AnswersAreHeld, WorkspaceTypeOK
<1> QED
  BY <1>1, <1>2, <1>3, <1>4 DEF SessionsInv, HoldsItsQuestion, WorkspaceTypeOK

-----------------------------------------------------------------------------
LEMMA SessionSteps ==
  ASSUME WorkspaceInv, UNCHANGED orderVars,
         \/ \E r \in Appends, s \in ChatSessions : AppendMessage(r, s)
         \/ \E r \in Appends : AppendAnswered(r) \/ AppendFails(r)
  PROVE  WorkspaceInv'
<1>t. WorkspaceTypeOK /\ SessionsInv /\ OrdersInv
  BY DEF WorkspaceInv
<1>o. OrdersInv'
  BY <1>t DEF OrdersInv, OrdersSayWhatHappened, orderVars
<1>1. ASSUME NEW r \in Appends, NEW s \in ChatSessions, AppendMessage(r, s) PROVE WorkspaceInv'
  <2> DEFINE new == [state |-> "chatting", session |-> s, messages |-> Append(stored[s], <<"user", r>>)]
  <2>1. /\ appends[r].state = "new" /\ appends' = [appends EXCEPT ![r] = new]
        /\ crossed' = (IF Waiting(s) = {} THEN crossed ELSE crossed \cup Waiting(s) \cup {r})
        /\ UNCHANGED <<stored, acked>>
    BY <1>1 DEF AppendMessage
  <2>2. stored[s] \in Seq(Lines) /\ Append(stored[s], <<"user", r>>) \in Seq(Lines)
    BY <1>t, LinesOf, AppendProperties DEF WorkspaceTypeOK
  <2>3. /\ appends'[r].state = "chatting" /\ appends'[r].session = s
        /\ appends'[r].messages = Append(stored[s], <<"user", r>>)
        /\ \A q \in Appends \ {r} : appends'[q] = appends[q]
    BY <1>t, <2>1 DEF WorkspaceTypeOK
  <2> HIDE DEF new
  <2>4. WorkspaceTypeOK'
    <3>1. new \in [state : {"new", "chatting", "over"}, session : ChatSessions \cup {"none"}, messages : Seq(Lines)]
      BY <2>2 DEF new
    <3>2. crossed' \subseteq Appends
      BY <1>t, <2>1 DEF WorkspaceTypeOK, Waiting
    <3> QED
      BY <1>t, <2>1, <3>1, <3>2 DEF WorkspaceTypeOK, orderVars
  <2>5. Waiting(s) = {q \in Appends : Chatting(q) /\ appends[q].session = s} /\ crossed \subseteq crossed' /\ r \notin acked
    BY <1>t, <2>1 DEF Waiting, Chatting, SessionsInv
  <2>6. \A q \in Appends : Chatting(q)' => HoldsItsQuestion(q)'
    BY <1>t, <2>2, <2>3 DEF SessionsInv, Chatting, HoldsItsQuestion
  <2>7. OverlapIsSeen'
    BY <1>t, <2>1, <2>3, <2>5 DEF SessionsInv, OverlapIsSeen, Chatting
  <2>8. AnswersAreHeld'
    <3> SUFFICES ASSUME NEW a \in acked' \ crossed'
                 PROVE  /\ Holds(stored'[appends'[a].session], a)
                        /\ \A q \in Appends : Chatting(q)' /\ appends'[q].session = appends'[a].session => Holds(appends'[q].messages, a)
      BY DEF AnswersAreHeld
    <3>1. a \in acked \ crossed /\ a # r /\ a \in Appends
      BY <1>t, <2>1, <2>5 DEF WorkspaceTypeOK
    <3>2. appends'[a] = appends[a] /\ Holds(stored[appends[a].session], a)
      BY <1>t, <2>3, <3>1 DEF SessionsInv, AnswersAreHeld
    <3>3. ASSUME NEW q \in Appends, Chatting(q)', appends'[q].session = appends'[a].session PROVE Holds(appends'[q].messages, a)
      <4>1. CASE q = r
        BY <4>1, <3>3, <3>1, <3>2, <2>2, <2>3, HoldsStays, LinesOf
      <4>2. CASE q # r
        BY <4>2, <1>t, <3>1, <3>2, <3>3, <2>3 DEF SessionsInv, AnswersAreHeld, Chatting
      <4> QED
        BY <4>1, <4>2
    <3> QED
      BY <3>2, <3>3, <2>1
  <2> QED
    BY <1>t, <1>o, <2>1, <2>3, <2>4, <2>5, <2>6, <2>7, <2>8 DEF WorkspaceInv, SessionsInv, WorkspaceTypeOK
<1>2. ASSUME NEW r \in Appends, AppendAnswered(r) PROVE WorkspaceInv'
  <2> DEFINE s == appends[r].session
             m == Append(appends[r].messages, <<"assistant", r>>)
  <2>1. /\ Chatting(r) /\ stored' = [stored EXCEPT ![s] = m] /\ appends' = [appends EXCEPT ![r].state = "over"]
        /\ acked' = acked \cup {r} /\ UNCHANGED crossed
    BY <1>2 DEF AppendAnswered, Chatting
  <2>2. s \in ChatSessions /\ appends[r].messages \in Seq(Lines) /\ m \in Seq(Lines)
    <3>1. s \in ChatSessions /\ appends[r].messages \in Seq(Lines)
      BY <1>t, <2>1 DEF SessionsInv, HoldsItsQuestion, WorkspaceTypeOK
    <3> QED
      BY <3>1, LinesOf, AppendProperties
  <2>3. /\ appends'[r].state = "over" /\ \A q \in Appends : appends'[q].session = appends[q].session /\ appends'[q].messages = appends[q].messages
        /\ \A q \in Appends : Chatting(q)' <=> Chatting(q) /\ q # r
    BY <1>t, <2>1 DEF WorkspaceTypeOK, Chatting
  <2>4. Whole(m)
    <3>1. PICK w \in Seq(Lines) : Whole(w) /\ appends[r].messages = Append(w, <<"user", r>>)
      BY <1>t, <2>1 DEF SessionsInv, HoldsItsQuestion
    <3> QED
      BY <3>1, WholeGrows
  <2>5. Holds(m, r)
    BY <2>2, HoldsLast
  <2>6. ASSUME NEW a \in acked \ crossed, appends[a].session = s PROVE Holds(m, a)
    <3>1. Holds(appends[r].messages, a) /\ a \in Appends
      BY <1>t, <2>1, <2>6 DEF SessionsInv, AnswersAreHeld, WorkspaceTypeOK
    <3> QED
      BY <3>1, <2>2, HoldsStays, LinesOf
  <2> HIDE DEF m
  <2>7. stored' \in [ChatSessions -> Seq(Lines)] /\ stored'[s] = m /\ \A t \in ChatSessions \ {s} : stored'[t] = stored[t]
    BY <1>t, <2>1, <2>2 DEF WorkspaceTypeOK
  <2>8. WorkspaceTypeOK'
    BY <1>t, <2>1, <2>7 DEF WorkspaceTypeOK, orderVars
  <2>9. AnswersAreHeld'
    <3> SUFFICES ASSUME NEW a \in acked' \ crossed'
                 PROVE  /\ Holds(stored'[appends'[a].session], a)
                        /\ \A q \in Appends : Chatting(q)' /\ appends'[q].session = appends'[a].session => Holds(appends'[q].messages, a)
      BY DEF AnswersAreHeld
    <3>1. a \in Appends /\ a \notin crossed
      BY <1>t, <2>1 DEF WorkspaceTypeOK
    <3>2. CASE a = r
      <4>1. \A q \in Appends : Chatting(q)' => appends[q].session # s
        BY <1>t, <2>1, <2>3, <3>1, <3>2 DEF SessionsInv, OverlapIsSeen
      <4> QED
        BY <4>1, <3>2, <2>3, <2>5, <2>7
    <3>3. CASE a # r
      <4>1. a \in acked \ crossed
        BY <3>1, <3>3, <2>1
      <4>2. appends[a].session \in ChatSessions
        BY <1>t, <4>1 DEF SessionsInv
      <4>3. Holds(stored'[appends[a].session], a)
        BY <1>t, <4>1, <4>2, <2>6, <2>7 DEF SessionsInv, AnswersAreHeld
      <4> QED
        BY <1>t, <4>1, <4>3, <3>1, <2>3 DEF SessionsInv, AnswersAreHeld
    <3> QED
      BY <3>2, <3>3
  <2>10. \A t \in ChatSessions : Whole(stored'[t])
    BY <1>t, <2>4, <2>7 DEF SessionsInv
  <2>11. \A q \in Appends : Chatting(q)' => HoldsItsQuestion(q)'
    BY <1>t, <2>3 DEF SessionsInv, HoldsItsQuestion
  <2>12. OverlapIsSeen'
    BY <1>t, <2>1, <2>3 DEF SessionsInv, OverlapIsSeen
  <2>13. \A a \in acked' : appends'[a].state = "over" /\ appends'[a].session \in ChatSessions
    BY <1>t, <2>1, <2>2, <2>3 DEF SessionsInv, WorkspaceTypeOK
  <2> QED
    BY <1>o, <2>8, <2>9, <2>10, <2>11, <2>12, <2>13 DEF WorkspaceInv, SessionsInv
<1>3. ASSUME NEW r \in Appends, AppendFails(r) PROVE WorkspaceInv'
  <2>1. appends' = [appends EXCEPT ![r].state = "over"] /\ UNCHANGED <<stored, acked, crossed>> /\ Chatting(r)
    BY <1>3 DEF AppendFails, Chatting
  <2>2. appends' \in [Appends -> [state : {"new", "chatting", "over"}, session : ChatSessions \cup {"none"}, messages : Seq(Lines)]]
    BY <1>t, <2>1 DEF WorkspaceTypeOK
  <2>3. /\ \A q \in Appends \ {r} : appends'[q] = appends[q]
        /\ appends'[r].state = "over" /\ appends'[r].session = appends[r].session /\ appends'[r].messages = appends[r].messages
    BY <1>t, <2>1 DEF WorkspaceTypeOK
  <2>4. SessionsInv'
    BY <1>t, <2>1, <2>2, <2>3, FewerChats
  <2> QED
    BY <1>t, <1>o, <2>1, <2>2, <2>4 DEF WorkspaceInv, WorkspaceTypeOK, orderVars
<1> QED
  BY <1>1, <1>2, <1>3

LEMMA OrderSteps ==
  ASSUME WorkspaceInv, UNCHANGED sessionVars, NEW o \in WorkOrders,
         CreateWorkOrder(o) \/ OrderDone(o) \/ OrderThrows(o) \/ CancelWorkOrder(o)
  PROVE  /\ WorkspaceInv'
         /\ \A q \in WorkOrders : orders[q] \in {"done", "failed"} => orders'[q] = orders[q]
<1>t. WorkspaceTypeOK /\ SessionsInv /\ OrdersInv
  BY DEF WorkspaceInv
<1>s. SessionsInv'
  <2>1. UNCHANGED <<stored, appends, acked, crossed>>
    BY DEF sessionVars
  <2> QED
    BY <1>t, <2>1 DEF SessionsInv, Chatting, HoldsItsQuestion, OverlapIsSeen, AnswersAreHeld
<1>1. CASE CreateWorkOrder(o)
  <2>1. WorkspaceTypeOK'
    BY <1>t, <1>1 DEF CreateWorkOrder, WorkspaceTypeOK, Statuses, sessionVars
  <2>2. OrdersInv' /\ \A q \in WorkOrders : orders[q] \in {"done", "failed"} => orders'[q] = orders[q]
    BY <1>t, <1>1 DEF CreateWorkOrder, WorkspaceTypeOK, OrdersInv, OrdersSayWhatHappened
  <2> QED
    BY <1>s, <2>1, <2>2 DEF WorkspaceInv
<1>2. ASSUME NEW status \in {"done", "failed", "cancelled"}, Settle(o, status),
             ignored' = ignored \/ ignored' = ignored \cup {o},
             o \in aborted \ ignored' => status = "cancelled"
      PROVE  WorkspaceInv' /\ \A q \in WorkOrders : orders[q] \in {"done", "failed"} => orders'[q] = orders[q]
  <2>1. WorkspaceTypeOK'
    BY <1>t, <1>2 DEF Settle, WorkspaceTypeOK, Statuses, sessionVars
  <2>2. /\ o \in chats /\ chats' = chats \ {o} /\ aborted' = aborted
        /\ orders'[o] = status /\ replied'[o] = status
        /\ \A q \in WorkOrders \ {o} : orders'[q] = orders[q] /\ replied'[q] = replied[q]
    BY <1>t, <1>2 DEF Settle, WorkspaceTypeOK
  <2>3. orders[o] \in {"running", "cancelled"}
    BY <1>t, <2>2 DEF OrdersInv
  <2>4. \A q \in WorkOrders \ {o} : q \in aborted' \ ignored' => q \in aborted \ ignored
    BY <1>2, <2>2
  <2>5. OrdersInv' /\ \A q \in WorkOrders : orders[q] \in {"done", "failed"} => orders'[q] = orders[q]
    BY <1>t, <1>2, <2>2, <2>3, <2>4 DEF WorkspaceTypeOK, OrdersInv, OrdersSayWhatHappened
  <2> QED
    BY <1>s, <2>1, <2>5 DEF WorkspaceInv
<1>3. CASE OrderDone(o)
  BY <1>2, <1>3 DEF OrderDone
<1>4. CASE OrderThrows(o)
  BY <1>2, <1>4 DEF OrderThrows
<1>5. CASE CancelWorkOrder(o)
  <2>1. WorkspaceTypeOK'
    BY <1>t, <1>5 DEF CancelWorkOrder, WorkspaceTypeOK, Statuses, sessionVars
  <2>2. /\ orders[o] \in {"running", "cancelled"} /\ orders'[o] = "cancelled" /\ UNCHANGED <<chats, replied, ignored>>
        /\ aborted' = aborted \/ aborted' = aborted \cup {o}
        /\ \A q \in WorkOrders \ {o} : orders'[q] = orders[q]
    BY <1>t, <1>5 DEF CancelWorkOrder, WorkspaceTypeOK
  <2>3. \A q \in WorkOrders \ {o} : q \in aborted' \ ignored' => q \in aborted \ ignored
    BY <2>2
  <2>4. replied[o] # "none" => replied[o] = "cancelled"
    BY <1>t, <2>2 DEF OrdersInv, OrdersSayWhatHappened, WorkspaceTypeOK
  <2>5. OrdersInv'
    <3>1. \A q \in chats' : orders'[q] \in {"running", "cancelled"}
      BY <1>t, <2>2 DEF OrdersInv, WorkspaceTypeOK
    <3>2. ASSUME NEW q \in WorkOrders
          PROVE (replied'[q] # "none" => orders'[q] = replied'[q]) /\ (q \in aborted' \ ignored' => orders'[q] = "cancelled")
      <4>1. CASE q = o
        BY <4>1, <2>2, <2>4
      <4>2. CASE q # o
        BY <4>2, <1>t, <2>2, <2>3 DEF OrdersInv, OrdersSayWhatHappened
      <4> QED
        BY <4>1, <4>2
    <3> QED
      BY <3>1, <3>2 DEF OrdersInv, OrdersSayWhatHappened
  <2> QED
    BY <1>s, <2>1, <2>2, <2>5 DEF WorkspaceInv
<1> QED
  BY <1>1, <1>3, <1>4, <1>5

LEMMA RestartStep == ASSUME WorkspaceInv, WorkspaceRestart PROVE WorkspaceInv' /\ orders' = orders
<1>t. WorkspaceTypeOK /\ SessionsInv /\ OrdersInv
  BY DEF WorkspaceInv
<1>1. /\ appends' = [r \in Appends |-> IF appends[r].state = "chatting" THEN [appends[r] EXCEPT !.state = "over"] ELSE appends[r]]
      /\ controllers' = {} /\ chats' = {} /\ UNCHANGED <<stored, acked, crossed, orders, aborted, replied, ignored>>
  BY DEF WorkspaceRestart
<1>2. appends' \in [Appends -> [state : {"new", "chatting", "over"}, session : ChatSessions \cup {"none"}, messages : Seq(Lines)]]
  BY <1>t, <1>1 DEF WorkspaceTypeOK
<1>3. \A q \in Appends : \/ appends'[q] = appends[q]
                         \/ /\ appends'[q].state = "over" /\ appends'[q].session = appends[q].session
                            /\ appends'[q].messages = appends[q].messages
  BY <1>t, <1>1 DEF WorkspaceTypeOK
<1>4. SessionsInv'
  BY <1>t, <1>1, <1>2, <1>3, FewerChats
<1>5. OrdersInv'
  BY <1>t, <1>1 DEF OrdersInv, OrdersSayWhatHappened
<1> QED
  BY <1>t, <1>1, <1>2, <1>4, <1>5 DEF WorkspaceInv, WorkspaceTypeOK

LEMMA WorkspaceStepInv ==
  WorkspaceInv /\ [WorkspaceNext]_workspaceVars =>
    WorkspaceInv' /\ \A o \in WorkOrders : orders[o] \in {"done", "failed"} => orders'[o] = orders[o]
<1> SUFFICES ASSUME WorkspaceInv, [WorkspaceNext]_workspaceVars
             PROVE  WorkspaceInv' /\ \A o \in WorkOrders : orders[o] \in {"done", "failed"} => orders'[o] = orders[o]
  OBVIOUS
<1>1. CASE \/ \E r \in Appends, s \in ChatSessions : AppendMessage(r, s)
           \/ \E r \in Appends : AppendAnswered(r) \/ AppendFails(r)
  <2>1. UNCHANGED orderVars
    BY <1>1 DEF AppendMessage, AppendAnswered, AppendFails
  <2> QED
    BY <1>1, <2>1, SessionSteps DEF orderVars
<1>2. CASE \E o \in WorkOrders : CreateWorkOrder(o) \/ OrderDone(o) \/ OrderThrows(o) \/ CancelWorkOrder(o)
  <2>1. UNCHANGED sessionVars
    BY <1>2 DEF CreateWorkOrder, OrderDone, OrderThrows, CancelWorkOrder, Settle
  <2> QED
    BY <1>2, <2>1, OrderSteps
<1>3. CASE WorkspaceRestart
  BY <1>3, RestartStep
<1>4. CASE UNCHANGED workspaceVars
  <2>1. UNCHANGED <<stored, appends, orders, controllers, aborted, chats, replied, acked, crossed, ignored>>
    BY <1>4 DEF workspaceVars
  <2> QED
    BY <2>1 DEF WorkspaceInv, WorkspaceTypeOK, SessionsInv, OrdersInv, Chatting, HoldsItsQuestion, OverlapIsSeen, AnswersAreHeld, OrdersSayWhatHappened
<1> QED
  BY <1>1, <1>2, <1>3, <1>4 DEF WorkspaceNext

LEMMA WorkspaceAlways == WorkspaceSpec => []WorkspaceInv
  BY WorkspaceInitInv, WorkspaceStepInv, PTL DEF WorkspaceSpec

(* Whatever overlaps, fails or is cut off by a restart, a session's file    *)
(* holds whole exchanges and every answer that met no other request, and a  *)
(* work order is on file as it was answered (src/src/server/               *)
(* workspace-http.ts).                                                      *)
THEOREM SessionsStaySound == WorkspaceSpec => []SessionsAreSound
<1>1. WorkspaceInv => SessionsAreSound
  <2> SUFFICES ASSUME WorkspaceInv PROVE SessionsAreSound
    OBVIOUS
  <2>1. ExchangesLoseOnlyToOverlap
    BY DEF WorkspaceInv, SessionsInv, AnswersAreHeld, Holds, ExchangesLoseOnlyToOverlap
  <2>2. ExchangesAreWhole
    BY DEF WorkspaceInv, SessionsInv, Whole, ExchangesAreWhole
  <2> QED
    BY <2>1, <2>2 DEF WorkspaceInv, OrdersInv, SessionsAreSound
<1> QED
  BY <1>1, WorkspaceAlways, PTL

(* A work order that is done or failed on file stays so: a cancel that      *)
(* comes late is refused, and its own request writes once.                  *)
THEOREM LateCancelsAreRefused == WorkspaceSpec => FinishedOrdersStay
  BY WorkspaceAlways, WorkspaceStepInv, PTL DEF WorkspaceSpec, FinishedOrdersStay

-----------------------------------------------------------------------------
(* React hooks *)

HooksSpec == HooksInit /\ [][HooksNext]_hookVars

AsksOrNone == Asks \cup {NoRun}
Said == {"user", "assistant"} \X Asks
Loops == [state : {"new", "live", "over"}, hook : {"none", "stream", "chat"}, aborted : BOOLEAN, working : Seq(Said)]

HooksTypeOK ==
  /\ stream \in [current : AsksOrNone, isStreaming : BOOLEAN, of : AsksOrNone, chunks : Nat, error : AsksOrNone]
  /\ chat \in [current : AsksOrNone, isThinking : BOOLEAN, messages : Seq(Said)]
  /\ rendered \in [messages : Seq(Said), isThinking : BOOLEAN]
  /\ loops \in [Asks -> Loops]
  /\ asked \in Seq(Asks)
  /\ stale \in BOOLEAN
  /\ latest \in AsksOrNone

(* A run nobody aborted is the one its hook points at, and a hook that says *)
(* it is busy points at a live run of its own.                              *)
RunOf(r, hook) == Live(r) /\ loops[r].hook = hook
Kept(r, hook) == RunOf(r, hook) /\ ~loops[r].aborted
StreamInv ==
  /\ StreamShowsTheLatest
  /\ stream.isStreaming => RunOf(stream.current, "stream")
  /\ \A r \in Asks : Kept(r, "stream") => stream.current = r /\ latest = r
ChatInv ==
  /\ chat.isThinking => RunOf(chat.current, "chat")
  /\ \A r \in Asks : Kept(r, "chat") => chat.isThinking /\ chat.current = r

(* Without a stale closure the run nobody aborted works on the conversation *)
(* that is shown.                                                           *)
WorksOnWhatIsShown == ~stale => \A r \in Asks : Kept(r, "chat") => loops[r].working = chat.messages

HooksInv == HooksTypeOK /\ StreamInv /\ ChatInv /\ QuestionsStay /\ WorksOnWhatIsShown

-----------------------------------------------------------------------------
(* Where the questions of a conversation are, as it grows.                  *)
LEMMA NoQuestions == QuestionsAre(<<>>, <<>>)
<1> DEFINE f == [i \in DOMAIN <<>> |-> i]
<1>1. DOMAIN <<>> = {}
  OBVIOUS
<1>2. f \in [DOMAIN <<>> -> DOMAIN <<>>]
  OBVIOUS
<1> QED
  BY <1>1, <1>2 DEF QuestionsAre

LEMMA AnswerKeepsQuestions ==
  ASSUME NEW m \in Seq(Said), NEW q \in Seq(Asks), QuestionsAre(m, q), NEW r \in Asks
  PROVE  QuestionsAre(Append(m, <<"assistant", r>>), q)
<1> DEFINE x == <<"assistant", r>>
           w == Append(m, x)
<1>1. x \in Said /\ x[1] # "user"
  BY DEF Said
<1> HIDE DEF x
<1>2. w \in Seq(Said) /\ Len(w) = Len(m) + 1 /\ w[Len(m) + 1] = x /\ \A i \in 1..Len(m) : w[i] = m[i]
  BY <1>1, AppendProperties
<1>3. DOMAIN m = 1..Len(m) /\ DOMAIN w = 1..(Len(m) + 1) /\ Len(m) \in Nat
  BY <1>2
<1> HIDE DEF w
<1>4. PICK f \in [DOMAIN q -> DOMAIN m] :
         /\ \A i, j \in DOMAIN q : i < j => f[i] < f[j]
         /\ \A i \in DOMAIN q : m[f[i]] = <<"user", q[i]>>
         /\ \A k \in DOMAIN m : m[k][1] = "user" => \E i \in DOMAIN q : f[i] = k
  BY DEF QuestionsAre
<1>5. f \in [DOMAIN q -> DOMAIN w]
  BY <1>3
<1>6. \A i \in DOMAIN q : w[f[i]] = <<"user", q[i]>>
  BY <1>2, <1>3, <1>4
<1>7. ASSUME NEW k \in DOMAIN w, w[k][1] = "user" PROVE \E i \in DOMAIN q : f[i] = k
  <2>1. k \in DOMAIN m
    BY <1>1, <1>2, <1>3, <1>7
  <2> QED
    BY <2>1, <1>2, <1>3, <1>4, <1>7
<1>8. QuestionsAre(w, q)
  BY <1>4, <1>5, <1>6, <1>7 DEF QuestionsAre
<1> QED
  BY <1>8 DEF w, x

LEMMA QuestionIsLast ==
  ASSUME NEW m \in Seq(Said), NEW q \in Seq(Asks), QuestionsAre(m, q), NEW r \in Asks
  PROVE  QuestionsAre(Append(m, <<"user", r>>), Append(q, r))
<1> DEFINE x == <<"user", r>>
           w == Append(m, x)
           p == Append(q, r)
           n == Len(q)
           l == Len(m)
<1>1. x \in Said /\ x[1] = "user"
  BY DEF Said
<1>x. x = <<"user", r>>
  OBVIOUS
<1> HIDE DEF x
<1>2. w \in Seq(Said) /\ Len(w) = l + 1 /\ w[l + 1] = x /\ \A i \in 1..l : w[i] = m[i]
  BY <1>1, AppendProperties
<1>p. p \in Seq(Asks) /\ Len(p) = n + 1 /\ p[n + 1] = r /\ \A i \in 1..n : p[i] = q[i]
  BY AppendProperties
<1>3. DOMAIN m = 1..l /\ DOMAIN w = 1..(l + 1) /\ l \in Nat
  BY <1>2
<1>4. DOMAIN q = 1..n /\ DOMAIN p = 1..(n + 1) /\ n \in Nat
  BY <1>p
<1>5. PICK f \in [DOMAIN q -> DOMAIN m] :
         /\ \A i, j \in DOMAIN q : i < j => f[i] < f[j]
         /\ \A i \in DOMAIN q : m[f[i]] = <<"user", q[i]>>
         /\ \A k \in DOMAIN m : m[k][1] = "user" => \E i \in DOMAIN q : f[i] = k
  BY DEF QuestionsAre
<1> HIDE DEF w, p, n, l
<1> DEFINE g == [i \in 1..(n + 1) |-> IF i = n + 1 THEN l + 1 ELSE f[i]]
<1>6. \A i \in 1..n : i # n + 1 /\ i \in 1..(n+1) /\ f[i] \in 1..l
  BY <1>3, <1>4
<1>7. /\ g \in [DOMAIN p -> DOMAIN w]
      /\ g[n + 1] = l + 1 /\ \A i \in 1..n : g[i] = f[i]
  <2>1. n + 1 \in 1..(n + 1) /\ l + 1 \in 1..(l + 1) /\ 1..l \subseteq 1..(l + 1) /\ \A i \in 1..(n+1) : i # n + 1 => i \in 1..n
    BY <1>3, <1>4
  <2>2. \A i \in 1..(n + 1) : (IF i = n + 1 THEN l + 1 ELSE f[i]) \in 1..(l + 1)
    BY <1>6, <2>1
  <2> QED
    BY <1>3, <1>4, <1>6, <2>1, <2>2
<1> HIDE DEF g
<1>8. ASSUME NEW i \in DOMAIN p, NEW j \in DOMAIN p, i < j PROVE g[i] < g[j]
  <2>1. i \in 1..n
    BY <1>4, <1>8
  <2>2. CASE j = n + 1
    BY <2>1, <2>2, <1>3, <1>6, <1>7
  <2>3. CASE j # n + 1
    <3>1. j \in 1..n
      BY <2>3, <1>4
    <3> QED
      BY <3>1, <2>1, <1>4, <1>5, <1>7, <1>8
  <2> QED
    BY <2>2, <2>3
<1>9. ASSUME NEW i \in DOMAIN p PROVE w[g[i]] = <<"user", p[i]>>
  <2>1. CASE i = n + 1
    BY <2>1, <1>x, <1>2, <1>7, <1>p
  <2>2. CASE i # n + 1
    <3>1. i \in 1..n
      BY <2>2, <1>4
    <3> QED
      BY <3>1, <1>2, <1>4, <1>5, <1>6, <1>7, <1>p
  <2> QED
    BY <2>1, <2>2
<1>10. ASSUME NEW k \in DOMAIN w, w[k][1] = "user" PROVE \E i \in DOMAIN p : g[i] = k
  <2>1. CASE k = l + 1
    BY <2>1, <1>4, <1>7
  <2>2. CASE k # l + 1
    <3>1. k \in 1..l /\ w[k] = m[k]
      BY <2>2, <1>2, <1>3
    <3>2. PICK i \in DOMAIN q : f[i] = k
      BY <3>1, <1>3, <1>5, <1>10
    <3> QED
      BY <3>2, <1>4, <1>6, <1>7
  <2> QED
    BY <2>1, <2>2
<1>11. QuestionsAre(w, p)
  BY <1>7, <1>8, <1>9, <1>10 DEF QuestionsAre
<1> QED
  BY <1>11, <1>x DEF w, p

-----------------------------------------------------------------------------
(* What an abort, a new run and the end of one do to the runs.              *)
LEMMA NoneIsNotOf == \A hook : ~RunOf(NoRun, hook)
  BY HooksAssumption DEF RunOf, Live

LEMMA AbortsOne ==
  ASSUME HooksTypeOK, NEW c, loops' = Abort(c)
  PROVE  /\ loops' \in [Asks -> Loops]
         /\ \A r \in Asks : loops'[r].working = loops[r].working
         /\ \A r \in Asks : \A hook : (RunOf(r, hook)' <=> RunOf(r, hook)) /\ (Kept(r, hook)' <=> Kept(r, hook) /\ r # c)
<1>1. loops' \in [Asks -> Loops]
  BY DEF Abort, HooksTypeOK, Loops
<1>2. \A r \in Asks : /\ loops'[r].state = loops[r].state /\ loops'[r].hook = loops[r].hook /\ loops'[r].working = loops[r].working
                      /\ loops'[r].aborted = (loops[r].aborted \/ r = c)
  BY DEF Abort, HooksTypeOK, Loops
<1> QED
  BY <1>1, <1>2 DEF RunOf, Kept, Live

LEMMA BeginsOne ==
  ASSUME HooksTypeOK, NEW c, NEW a \in Asks, NEW hook \in {"stream", "chat"}, NEW w \in Seq(Said),
         loops' = Begin(Abort(c), a, hook, w)
  PROVE  /\ loops' \in [Asks -> Loops]
         /\ \A h : (RunOf(a, h)' <=> h = hook) /\ (Kept(a, h)' <=> h = hook)
         /\ loops'[a].working = w
         /\ \A r \in Asks \ {a} : loops'[r].working = loops[r].working
         /\ \A r \in Asks \ {a} : \A h : (RunOf(r, h)' <=> RunOf(r, h)) /\ (Kept(r, h)' <=> Kept(r, h) /\ r # c)
<1> DEFINE new == [state |-> "live", hook |-> hook, aborted |-> FALSE, working |-> w]
<1>a. Abort(c) \in [Asks -> Loops]
  BY DEF Abort, HooksTypeOK, Loops
<1>b. new \in Loops /\ loops' = [Abort(c) EXCEPT ![a] = new]
  BY DEF Loops, Begin
<1>3. /\ new.state = "live" /\ new.hook = hook /\ new.aborted = FALSE /\ new.working = w
  OBVIOUS
<1> HIDE DEF new
<1>1. loops' \in [Asks -> Loops] /\ loops'[a] = new /\ \A r \in Asks \ {a} : loops'[r] = Abort(c)[r]
  BY <1>a, <1>b
<1>2. \A r \in Asks \ {a} :
        /\ loops'[r].state = loops[r].state /\ loops'[r].hook = loops[r].hook /\ loops'[r].working = loops[r].working
        /\ loops'[r].aborted = (loops[r].aborted \/ r = c)
  <2>1. \A r \in Asks : /\ Abort(c)[r].state = loops[r].state /\ Abort(c)[r].hook = loops[r].hook
                        /\ Abort(c)[r].working = loops[r].working /\ Abort(c)[r].aborted = (loops[r].aborted \/ r = c)
    BY DEF Abort, HooksTypeOK, Loops
  <2> HIDE DEF Abort
  <2> QED
    BY <1>1, <2>1
<1>4. \A h : (RunOf(a, h)' <=> h = hook) /\ (Kept(a, h)' <=> h = hook)
  BY <1>1, <1>3 DEF RunOf, Kept, Live
<1>5. \A r \in Asks \ {a} : \A h : (RunOf(r, h)' <=> RunOf(r, h)) /\ (Kept(r, h)' <=> Kept(r, h) /\ r # c)
  BY <1>2 DEF RunOf, Kept, Live
<1> QED
  BY <1>1, <1>2, <1>3, <1>4, <1>5

LEMMA EndsOne ==
  ASSUME HooksTypeOK, NEW a \in Asks, Over(a)
  PROVE  /\ loops' \in [Asks -> Loops]
         /\ \A r \in Asks : loops'[r].working = loops[r].working
         /\ \A r \in Asks : \A h : (RunOf(r, h)' <=> RunOf(r, h) /\ r # a) /\ (Kept(r, h)' <=> Kept(r, h) /\ r # a)
<1>1. loops' \in [Asks -> Loops]
  BY DEF Over, HooksTypeOK, Loops
<1>2. \A r \in Asks : /\ loops'[r].hook = loops[r].hook /\ loops'[r].working = loops[r].working /\ loops'[r].aborted = loops[r].aborted
                      /\ loops'[r].state = IF r = a THEN "over" ELSE loops[r].state
  BY DEF Over, HooksTypeOK, Loops
<1> QED
  BY <1>1, <1>2 DEF RunOf, Kept, Live

-----------------------------------------------------------------------------
LEMMA HooksInitInv == HooksInit => HooksInv
<1> SUFFICES ASSUME HooksInit PROVE HooksInv
  OBVIOUS
<1>1. HooksTypeOK
  <2>1. <<>> \in Seq(Said) /\ <<>> \in Seq(Asks) /\ NoRun \in AsksOrNone
    BY DEF AsksOrNone
  <2>2. NewLoop \in Loops
    BY <2>1 DEF NewLoop, Loops
  <2> QED
    BY <2>1, <2>2 DEF HooksInit, HooksTypeOK
<1>2. \A r \in Asks : ~Live(r)
  BY DEF HooksInit, Live, NewLoop
<1>3. StreamInv /\ ChatInv /\ WorksOnWhatIsShown
  BY <1>2 DEF HooksInit, StreamInv, ChatInv, WorksOnWhatIsShown, Kept, RunOf, StreamShowsTheLatest, AsksOrNone
<1>4. QuestionsStay
  BY NoQuestions DEF HooksInit, QuestionsStay
<1> QED
  BY <1>1, <1>3, <1>4 DEF HooksInv

-----------------------------------------------------------------------------
(* The stream's part of the invariant under its own actions, and under the  *)
(* chat's, which start, abort and end no run of the stream.                 *)
LEMMA ChatLeavesTheStream ==
  ASSUME StreamInv, UNCHANGED streamState,
         \A r \in Asks : (RunOf(r, "stream") => RunOf(r, "stream")') /\ (Kept(r, "stream")' => Kept(r, "stream"))
  PROVE  StreamInv'
<1>1. UNCHANGED <<stream, latest>>
  BY DEF streamState
<1>2. RunOf(stream.current, "stream") => RunOf(stream.current, "stream")'
  <2>1. RunOf(stream.current, "stream") => stream.current \in Asks
    BY DEF RunOf, Live
  <2> QED
    BY <2>1, <1>1
<1> QED
  BY <1>1, <1>2 DEF StreamInv, StreamShowsTheLatest

LEMMA StreamLeavesTheChat ==
  ASSUME ChatInv, QuestionsStay, WorksOnWhatIsShown, UNCHANGED chatState,
         \A r \in Asks : /\ RunOf(r, "chat") => RunOf(r, "chat")'
                         /\ Kept(r, "chat")' => Kept(r, "chat") /\ loops'[r].working = loops[r].working
  PROVE  ChatInv' /\ QuestionsStay' /\ WorksOnWhatIsShown'
<1>1. UNCHANGED <<chat, rendered, asked, stale>>
  BY DEF chatState
<1>2. RunOf(chat.current, "chat") => RunOf(chat.current, "chat")'
  <2>1. RunOf(chat.current, "chat") => chat.current \in Asks
    BY DEF RunOf, Live
  <2> QED
    BY <2>1, <1>1
<1> QED
  BY <1>1, <1>2 DEF ChatInv, QuestionsStay, WorksOnWhatIsShown

(* A run that is new is of no hook.                                         *)
LEMMA NewIsNotOf == \A r \in Asks : \A hook : loops[r].state = "new" => ~RunOf(r, hook) /\ ~Kept(r, hook)
  BY DEF RunOf, Kept, Live

LEMMA StreamSteps ==
  ASSUME HooksInv, NEW a,
         (a \in Asks /\ (StartStream(a) \/ Chunk(a) \/ \E failed \in BOOLEAN : StreamEnds(a, failed))) \/ CancelStream
  PROVE  HooksInv'
<1>t. HooksTypeOK /\ StreamInv /\ ChatInv /\ QuestionsStay /\ WorksOnWhatIsShown
  BY DEF HooksInv
<1>n. NoRun \in AsksOrNone /\ Asks \subseteq AsksOrNone
  BY DEF AsksOrNone
<1>1. CASE a \in Asks /\ StartStream(a)
  <2>1. /\ a \in Asks /\ loops[a].state = "new" /\ loops' = Begin(Abort(stream.current), a, "stream", <<>>)
        /\ stream' = [current |-> a, isStreaming |-> TRUE, of |-> a, chunks |-> 0, error |-> NoRun]
        /\ latest' = a /\ UNCHANGED chatState
    BY <1>1 DEF StartStream
  <2>2. <<>> \in Seq(Said)
    OBVIOUS
  <2>3. /\ loops' \in [Asks -> Loops]
        /\ \A h : (RunOf(a, h)' <=> h = "stream") /\ (Kept(a, h)' <=> h = "stream")
        /\ \A r \in Asks \ {a} : loops'[r].working = loops[r].working
        /\ \A r \in Asks \ {a} : \A h : (RunOf(r, h)' <=> RunOf(r, h)) /\ (Kept(r, h)' <=> Kept(r, h) /\ r # stream.current)
    BY <1>t, <2>1, <2>2, BeginsOne
  <2>4. HooksTypeOK'
    BY <1>t, <1>n, <2>1, <2>3 DEF HooksTypeOK, chatState
  <2>5. StreamInv'
    BY <1>t, <2>1, <2>3 DEF StreamInv, StreamShowsTheLatest
  <2>6. ChatInv' /\ QuestionsStay' /\ WorksOnWhatIsShown'
    BY <1>t, <2>1, <2>3, NewIsNotOf, StreamLeavesTheChat
  <2> QED
    BY <2>4, <2>5, <2>6 DEF HooksInv
<1>2. CASE a \in Asks /\ Chunk(a)
  <2>1. /\ a \in Asks /\ Kept(a, "stream") /\ stream' = [stream EXCEPT !.of = a, !.chunks = @ + 1]
        /\ UNCHANGED <<loops, latest, chatState>>
    BY <1>2 DEF Chunk, Kept, RunOf
  <2>s. stream' \in [current : AsksOrNone, isStreaming : BOOLEAN, of : AsksOrNone, chunks : Nat, error : AsksOrNone]
    <3> DEFINE n == stream.chunks + 1
    <3>1. n \in Nat /\ stream' = [stream EXCEPT !.of = a, !.chunks = n]
      BY <1>t, <2>1 DEF HooksTypeOK
    <3>2. stream \in [current : AsksOrNone, isStreaming : BOOLEAN, of : AsksOrNone, chunks : Nat, error : AsksOrNone]
      BY <1>t DEF HooksTypeOK
    <3>3. a \in AsksOrNone
      BY <1>n, <2>1
    <3> HIDE DEF n
    <3> QED
      BY <3>1, <3>2, <3>3
  <2>2. HooksTypeOK'
    BY <1>t, <2>1, <2>s DEF HooksTypeOK, chatState
  <2>3. /\ stream'.of = a /\ latest = a /\ stream'.error = stream.error /\ stream'.current = stream.current
        /\ stream'.isStreaming = stream.isStreaming
    BY <1>t, <2>1 DEF HooksTypeOK, StreamInv
  <2>4. \A r, h : (RunOf(r, h)' <=> RunOf(r, h)) /\ (Kept(r, h)' <=> Kept(r, h))
    BY <2>1 DEF RunOf, Kept, Live
  <2>5. StreamInv'
    BY <1>t, <2>1, <2>3, <2>4 DEF StreamInv, StreamShowsTheLatest
  <2>6. ChatInv' /\ QuestionsStay' /\ WorksOnWhatIsShown'
    BY <1>t, <2>1, <2>4, StreamLeavesTheChat DEF chatState
  <2> QED
    BY <2>2, <2>5, <2>6 DEF HooksInv
<1>3. ASSUME a \in Asks, NEW failed \in BOOLEAN, StreamEnds(a, failed) PROVE HooksInv'
  <2>1. /\ a \in Asks /\ RunOf(a, "stream") /\ Over(a) /\ UNCHANGED <<latest, chatState>>
        /\ stream' = [stream EXCEPT !.isStreaming = FALSE,
                                    !.error = IF failed /\ ~loops[a].aborted THEN a ELSE @,
                                    !.current = IF @ = a THEN NoRun ELSE @]
    BY <1>3 DEF StreamEnds, RunOf
  <2>2. /\ loops' \in [Asks -> Loops]
        /\ \A r \in Asks : loops'[r].working = loops[r].working
        /\ \A r \in Asks : \A h : (RunOf(r, h)' <=> RunOf(r, h) /\ r # a) /\ (Kept(r, h)' <=> Kept(r, h) /\ r # a)
    BY <1>t, <2>1, EndsOne
  <2>3. HooksTypeOK'
    BY <1>t, <1>n, <2>1, <2>2 DEF HooksTypeOK, chatState
  <2>4. /\ ~stream'.isStreaming /\ stream'.of = stream.of
        /\ stream'.error = stream.error \/ (stream'.error = a /\ Kept(a, "stream"))
        /\ stream'.current = IF stream.current = a THEN NoRun ELSE stream.current
    BY <1>t, <2>1 DEF HooksTypeOK, Kept
  <2>5. StreamInv'
    BY <1>t, <2>1, <2>2, <2>4 DEF StreamInv, StreamShowsTheLatest
  <2>6. \A r \in Asks : ~(RunOf(r, "chat") /\ r = a)
    BY <2>1 DEF RunOf
  <2>7. ChatInv' /\ QuestionsStay' /\ WorksOnWhatIsShown'
    BY <1>t, <2>1, <2>2, <2>6, StreamLeavesTheChat DEF Kept
  <2> QED
    BY <2>3, <2>5, <2>7 DEF HooksInv
<1>4. CASE CancelStream
  <2>1. loops' = Abort(stream.current) /\ UNCHANGED <<streamState, chatState>>
    BY <1>4 DEF CancelStream
  <2>2. /\ loops' \in [Asks -> Loops]
        /\ \A r \in Asks : loops'[r].working = loops[r].working
        /\ \A r \in Asks : \A hook : (RunOf(r, hook)' <=> RunOf(r, hook)) /\ (Kept(r, hook)' <=> Kept(r, hook) /\ r # stream.current)
    BY <1>t, <2>1, AbortsOne
  <2>3. HooksTypeOK'
    BY <1>t, <2>1, <2>2 DEF HooksTypeOK, chatState, streamState
  <2>4. StreamInv'
    BY <1>t, <2>1, <2>2, ChatLeavesTheStream
  <2>5. ChatInv' /\ QuestionsStay' /\ WorksOnWhatIsShown'
    BY <1>t, <2>1, <2>2, StreamLeavesTheChat
  <2> QED
    BY <2>3, <2>4, <2>5 DEF HooksInv
<1> QED
  BY <1>1, <1>2, <1>3, <1>4

LEMMA ChatSteps ==
  ASSUME HooksInv, NEW a,
         (a \in Asks /\ (Send(a) \/ ChatDone(a) \/ ChatStops(a))) \/ CancelChat \/ Reset \/ Render
  PROVE  HooksInv'
<1>t. HooksTypeOK /\ StreamInv /\ ChatInv /\ QuestionsStay /\ WorksOnWhatIsShown
  BY DEF HooksInv
<1>n. NoRun \in AsksOrNone /\ Asks \subseteq AsksOrNone
  BY DEF AsksOrNone
<1>m. chat.messages \in Seq(Said) /\ rendered.messages \in Seq(Said)
  BY <1>t DEF HooksTypeOK
<1>u. a \in Asks => <<"user", a>> \in Said /\ <<"assistant", a>> \in Said
  BY DEF Said
<1>1. CASE a \in Asks /\ Send(a)
  <2> DEFINE shown == Append(chat.messages, <<"user", a>>)
             works == Append(rendered.messages, <<"user", a>>)
  <2>1. /\ a \in Asks /\ loops[a].state = "new" /\ loops' = Begin(Abort(chat.current), a, "chat", works)
        /\ chat' = [current |-> a, isThinking |-> TRUE, messages |-> shown]
        /\ asked' = Append(asked, a) /\ stale' = (stale \/ rendered.messages # chat.messages)
        /\ UNCHANGED <<rendered, streamState>>
    BY <1>1 DEF Send
  <2>2. shown \in Seq(Said) /\ works \in Seq(Said)
    BY <1>m, <1>u, <2>1, AppendProperties
  <2>3. asked' \in Seq(Asks)
    BY <1>t, <2>1, AppendProperties DEF HooksTypeOK
  <2>4. QuestionsStay'
    <3>1. ~stale' => QuestionsAre(chat.messages, asked)
      BY <1>t, <2>1 DEF QuestionsStay
    <3>2. ~stale' => QuestionsAre(shown, asked')
      BY <1>t, <1>m, <2>1, <3>1, QuestionIsLast DEF HooksTypeOK
    <3> QED
      BY <2>1, <3>2 DEF QuestionsStay
  <2>5. ~stale' => works = shown
    BY <1>t, <2>1 DEF HooksTypeOK
  <2> HIDE DEF shown, works
  <2>6. /\ loops' \in [Asks -> Loops] /\ loops'[a].working = works
        /\ \A h : (RunOf(a, h)' <=> h = "chat") /\ (Kept(a, h)' <=> h = "chat")
        /\ \A r \in Asks \ {a} : loops'[r].working = loops[r].working
        /\ \A r \in Asks \ {a} : \A h : (RunOf(r, h)' <=> RunOf(r, h)) /\ (Kept(r, h)' <=> Kept(r, h) /\ r # chat.current)
    BY <1>t, <2>1, <2>2, BeginsOne
  <2>7. HooksTypeOK'
    BY <1>t, <1>n, <2>1, <2>2, <2>3, <2>6 DEF HooksTypeOK, streamState
  <2>8. StreamInv'
    BY <1>t, <2>1, <2>6, NewIsNotOf, ChatLeavesTheStream
  <2>9. ChatInv' /\ WorksOnWhatIsShown'
    <3>1. \A r \in Asks \ {a} : ~Kept(r, "chat")'
      BY <1>t, <2>6 DEF ChatInv
    <3>2. chat'.current = a /\ chat'.isThinking /\ chat'.messages = shown
      BY <2>1
    <3>3. RunOf(chat.current, "chat")'
      BY <2>6, <3>2
    <3> QED
      BY <3>1, <3>2, <3>3, <2>5, <2>6 DEF ChatInv, WorksOnWhatIsShown
  <2> QED
    BY <2>4, <2>7, <2>8, <2>9 DEF HooksInv
<1>2. CASE a \in Asks /\ ChatDone(a)
  <2> DEFINE shown == Append(loops[a].working, <<"assistant", a>>)
  <2>1. /\ a \in Asks /\ Kept(a, "chat") /\ Over(a) /\ chat' = Finally(a, [chat EXCEPT !.messages = shown])
        /\ UNCHANGED <<rendered, asked, stale, streamState>>
    BY <1>2 DEF ChatDone, Kept, RunOf
  <2>2. shown \in Seq(Said)
    <3>1. loops[a].working \in Seq(Said)
      BY <1>t, <2>1 DEF HooksTypeOK, Loops
    <3> QED
      BY <2>1, <3>1, <1>u, AppendProperties
  <2>3. /\ loops' \in [Asks -> Loops]
        /\ \A r \in Asks : loops'[r].working = loops[r].working
        /\ \A r \in Asks : \A h : (RunOf(r, h)' <=> RunOf(r, h) /\ r # a) /\ (Kept(r, h)' <=> Kept(r, h) /\ r # a)
    BY <1>t, <2>1, EndsOne
  <2>4. chat.current = a
    BY <1>t, <2>1 DEF ChatInv
  <2>5. ~stale' => QuestionsAre(shown, asked')
    BY <1>t, <1>m, <2>1, AnswerKeepsQuestions DEF QuestionsStay, WorksOnWhatIsShown, HooksTypeOK
  <2> HIDE DEF shown
  <2>6. chat' = [current |-> NoRun, isThinking |-> FALSE, messages |-> shown]
    BY <1>t, <2>1, <2>4 DEF HooksTypeOK, Finally
  <2>7. HooksTypeOK'
    <3>1. chat' \in [current : AsksOrNone, isThinking : BOOLEAN, messages : Seq(Said)]
      BY <1>n, <2>2, <2>6
    <3> QED
      BY <1>t, <2>1, <2>3, <3>1 DEF HooksTypeOK, streamState
  <2>8. \A r \in Asks : RunOf(r, "stream") => r # a
    BY <2>1 DEF Kept, RunOf
  <2>9. StreamInv'
    BY <1>t, <2>1, <2>3, <2>8, ChatLeavesTheStream
  <2>10. \A r \in Asks : ~Kept(r, "chat")'
    BY <1>t, <2>3, <2>4 DEF ChatInv
  <2>11. ChatInv' /\ WorksOnWhatIsShown' /\ QuestionsStay'
    BY <2>5, <2>6, <2>10 DEF ChatInv, WorksOnWhatIsShown, QuestionsStay
  <2> QED
    BY <2>7, <2>9, <2>11 DEF HooksInv
<1>3. CASE a \in Asks /\ ChatStops(a)
  <2>1. /\ a \in Asks /\ RunOf(a, "chat") /\ Over(a) /\ chat' = Finally(a, chat)
        /\ UNCHANGED <<rendered, asked, stale, streamState>>
    BY <1>3 DEF ChatStops, RunOf
  <2>2. /\ loops' \in [Asks -> Loops]
        /\ \A r \in Asks : loops'[r].working = loops[r].working
        /\ \A r \in Asks : \A h : (RunOf(r, h)' <=> RunOf(r, h) /\ r # a) /\ (Kept(r, h)' <=> Kept(r, h) /\ r # a)
    BY <1>t, <2>1, EndsOne
  <2>3. chat'.messages = chat.messages /\ chat' \in [current : AsksOrNone, isThinking : BOOLEAN, messages : Seq(Said)]
    BY <1>t, <1>n, <2>1 DEF HooksTypeOK, Finally
  <2>4. HooksTypeOK'
    BY <1>t, <2>1, <2>2, <2>3 DEF HooksTypeOK, streamState
  <2>5. \A r \in Asks : RunOf(r, "stream") => r # a
    BY <2>1 DEF RunOf
  <2>6. StreamInv'
    BY <1>t, <2>1, <2>2, <2>5, ChatLeavesTheStream
  <2>7. ChatInv'
    <3>1. CASE chat.current = a
      <4>1. ~chat'.isThinking
        BY <1>t, <2>1, <3>1 DEF Finally, HooksTypeOK
      <4>2. \A r \in Asks : ~Kept(r, "chat")'
        BY <1>t, <2>2, <3>1 DEF ChatInv
      <4> QED
        BY <4>1, <4>2 DEF ChatInv
    <3>2. CASE chat.current # a
      <4>1. chat' = chat
        BY <2>1, <3>2 DEF Finally
      <4>2. RunOf(chat.current, "chat") => RunOf(chat.current, "chat")'
        <5>1. RunOf(chat.current, "chat") => chat.current \in Asks
          BY DEF RunOf, Live
        <5> QED
          BY <5>1, <4>1, <2>2, <3>2
      <4> QED
        BY <1>t, <2>2, <4>1, <4>2 DEF ChatInv
    <3> QED
      BY <3>1, <3>2
  <2>8. WorksOnWhatIsShown' /\ QuestionsStay'
    BY <1>t, <2>1, <2>2, <2>3 DEF WorksOnWhatIsShown, QuestionsStay
  <2> QED
    BY <2>4, <2>6, <2>7, <2>8 DEF HooksInv
<1>4. CASE CancelChat
  <2>1. loops' = Abort(chat.current) /\ UNCHANGED <<streamState, chatState>>
    BY <1>4 DEF CancelChat
  <2>2. /\ loops' \in [Asks -> Loops]
        /\ \A r \in Asks : loops'[r].working = loops[r].working
        /\ \A r \in Asks : \A hook : (RunOf(r, hook)' <=> RunOf(r, hook)) /\ (Kept(r, hook)' <=> Kept(r, hook) /\ r # chat.current)
    BY <1>t, <2>1, AbortsOne
  <2>3. HooksTypeOK'
    BY <1>t, <2>1, <2>2 DEF HooksTypeOK, chatState, streamState
  <2>4. StreamInv'
    BY <1>t, <2>1, <2>2, ChatLeavesTheStream
  <2>5. ChatInv' /\ QuestionsStay' /\ WorksOnWhatIsShown'
    BY <1>t, <2>1, <2>2, StreamLeavesTheChat
  <2> QED
    BY <2>3, <2>4, <2>5 DEF HooksInv
<1>5. CASE Reset
  <2>1. /\ loops' = Abort(chat.current) /\ chat' = [chat EXCEPT !.messages = <<>>, !.isThinking = FALSE]
        /\ asked' = <<>> /\ stale' = FALSE /\ UNCHANGED <<rendered, streamState>>
    BY <1>5 DEF Reset
  <2>2. /\ loops' \in [Asks -> Loops]
        /\ \A r \in Asks : loops'[r].working = loops[r].working
        /\ \A r \in Asks : \A hook : (RunOf(r, hook)' <=> RunOf(r, hook)) /\ (Kept(r, hook)' <=> Kept(r, hook) /\ r # chat.current)
    BY <1>t, <2>1, AbortsOne
  <2>e. <<>> \in Seq(Said) /\ <<>> \in Seq(Asks)
    OBVIOUS
  <2>3. /\ chat' \in [current : AsksOrNone, isThinking : BOOLEAN, messages : Seq(Said)]
        /\ chat'.messages = <<>> /\ ~chat'.isThinking
    <3> DEFINE e == <<>>
    <3>1. e \in Seq(Said) /\ chat' = [chat EXCEPT !.messages = e, !.isThinking = FALSE]
      BY <2>1
    <3>2. e = <<>>
      OBVIOUS
    <3> HIDE DEF e
    <3>3. chat' \in [current : AsksOrNone, isThinking : BOOLEAN, messages : Seq(Said)] /\ chat'.messages = e /\ ~chat'.isThinking
      BY <1>t, <3>1 DEF HooksTypeOK
    <3> QED
      BY <3>2, <3>3
  <2>4. HooksTypeOK'
    BY <1>t, <2>1, <2>2, <2>3, <2>e DEF HooksTypeOK, streamState
  <2>5. StreamInv'
    BY <1>t, <2>1, <2>2, ChatLeavesTheStream
  <2>6. \A r \in Asks : ~Kept(r, "chat")'
    BY <1>t, <2>2 DEF ChatInv
  <2>7. ChatInv' /\ WorksOnWhatIsShown' /\ QuestionsStay'
    BY <2>1, <2>3, <2>6, NoQuestions DEF ChatInv, WorksOnWhatIsShown, QuestionsStay
  <2> QED
    BY <2>4, <2>5, <2>7 DEF HooksInv
<1>6. CASE Render
  <2>1. rendered' = [messages |-> chat.messages, isThinking |-> chat.isThinking] /\ UNCHANGED <<loops, chat, asked, stale, stream, latest>>
    BY <1>6 DEF Render, streamState
  <2>2. HooksTypeOK'
    BY <1>t, <2>1 DEF HooksTypeOK
  <2>3. \A r, h : (RunOf(r, h)' <=> RunOf(r, h)) /\ (Kept(r, h)' <=> Kept(r, h))
    BY <2>1 DEF RunOf, Kept, Live
  <2>4. StreamInv'
    BY <1>t, <2>1, <2>3, ChatLeavesTheStream DEF streamState
  <2>5. ChatInv' /\ QuestionsStay' /\ WorksOnWhatIsShown'
    BY <1>t, <2>1, <2>3 DEF ChatInv, QuestionsStay, WorksOnWhatIsShown
  <2> QED
    BY <2>2, <2>4, <2>5 DEF HooksInv
<1> QED
  BY <1>1, <1>2, <1>3, <1>4, <1>5, <1>6

LEMMA HooksStepInv == HooksInv /\ [HooksNext]_hookVars => HooksInv'
<1> SUFFICES ASSUME HooksInv, [HooksNext]_hookVars PROVE HooksInv'
  OBVIOUS
<1>1. CASE UNCHANGED hookVars
  <2>1. UNCHANGED <<stream, chat, rendered, loops, asked, stale, latest>>
    BY <1>1 DEF hookVars
  <2>2. \A r, h : (RunOf(r, h)' <=> RunOf(r, h)) /\ (Kept(r, h)' <=> Kept(r, h))
    BY <2>1 DEF RunOf, Kept, Live
  <2> QED
    BY <2>1, <2>2 DEF HooksInv, HooksTypeOK, StreamInv, StreamShowsTheLatest, ChatInv, QuestionsStay, WorksOnWhatIsShown
<1>2. CASE HooksNext
  <2>1. \/ \E a : (a \in Asks /\ (StartStream(a) \/ Chunk(a) \/ \E failed \in BOOLEAN : StreamEnds(a, failed))) \/ CancelStream
        \/ \E a : (a \in Asks /\ (Send(a) \/ ChatDone(a) \/ ChatStops(a))) \/ CancelChat \/ Reset \/ Render
    BY <1>2 DEF HooksNext
  <2> QED
    BY <2>1, StreamSteps, ChatSteps
<1> QED
  BY <1>1, <1>2

(* However late an aborted run ends, a hook shows and waits for the run it  *)
(* was asked for last, and a conversation keeps its questions while no      *)
(* closure was stale (src/src/react).                                       *)
THEOREM HooksKeepShowingTheRun == HooksSpec => []HooksShowTheRun
<1>1. HooksInv => HooksShowTheRun
  BY DEF HooksInv, StreamInv, ChatInv, RunOf, Kept, HooksShowTheRun, StreamingHasARun, ThinkingFollowsTheRun
<1> QED
  BY <1>1, HooksInitInv, HooksStepInv, PTL DEF HooksSpec

-----------------------------------------------------------------------------
(* The background bridge *)

DaemonSpec == DaemonInit /\ [][DaemonNext]_daemonVars

PidsOrNone == Pids \cup {NoPid}
Stations == {"new", "probing", "spawning", "waiting", "stopping", "fronting", "cleaning", "over"}

DaemonTypeOK ==
  /\ pidFile \in PidsOrNone
  /\ procs \in [Pids -> {"free", "starting", "serving", "ending", "stranger"}]
  /\ front \in {"no", "waiting for the port", "serving"}
  /\ cmd \in [Commands -> [at : Stations, pid : PidsOrNone]]
  /\ together \in BOOLEAN
  /\ reused \in BOOLEAN

(* While commands are typed one after another, one is under way at most.    *)
OneAtATime == \A c, d \in Commands : UnderWay(c) /\ UnderWay(d) => c = d

(* What a command may still rely on of what it looked at earlier: no bridge *)
(* runs when one is about to be spawned or a file removed, and a command    *)
(* that waits for a process waits for the one the file names.               *)
Informed(c) ==
  /\ cmd[c].at \in {"spawning", "cleaning"} => Bridges = {}
  /\ cmd[c].at \in {"waiting", "stopping", "fronting"} => cmd[c].pid = pidFile /\ pidFile \in Pids

DaemonInv ==
  /\ DaemonTypeOK
  /\ ~together => OneAtATime
  /\ ~together /\ ~reused => Bridges \subseteq {pidFile} /\ \A c \in Commands : Informed(c)

LEMMA DaemonInitInv == DaemonInit => DaemonInv
<1> SUFFICES ASSUME DaemonInit PROVE DaemonInv
  OBVIOUS
<1>1. DaemonTypeOK
  BY DEF DaemonInit, DaemonTypeOK, PidsOrNone, Stations
<1>2. \A c \in Commands : cmd[c].at = "new"
  BY DEF DaemonInit
<1>3. Bridges = {}
  BY DEF DaemonInit, Bridges
<1> QED
  BY <1>1, <1>2, <1>3 DEF DaemonInv, OneAtATime, Informed, UnderWay

-----------------------------------------------------------------------------
(* How a command moves on: nobody else is under way, or two have crossed.   *)
LEMMA MoveKeeps ==
  ASSUME DaemonInv, NEW c \in Commands, NEW at \in Stations, NEW p \in PidsOrNone, Move(c, at, p)
  PROVE  /\ cmd' \in [Commands -> [at : Stations, pid : PidsOrNone]]
         /\ cmd'[c] = [at |-> at, pid |-> p]
         /\ \A d \in Commands \ {c} : cmd'[d] = cmd[d]
         /\ together' \in BOOLEAN
         /\ ~together' => ~together /\ OneAtATime'
         /\ ~together' /\ at # "over" => \A d \in Commands \ {c} : ~UnderWay(d)
  BY DEF DaemonInv, DaemonTypeOK, Move, OneAtATime, UnderWay

LEMMA DoneKeeps ==
  ASSUME DaemonInv, NEW c \in Commands, Done(c)
  PROVE  /\ cmd' \in [Commands -> [at : Stations, pid : PidsOrNone]]
         /\ cmd'[c].at = "over"
         /\ \A d \in Commands \ {c} : cmd'[d] = cmd[d]
         /\ together' \in BOOLEAN
         /\ ~together' => ~together /\ OneAtATime'
         /\ ~together' => \A d \in Commands \ {c} : ~UnderWay(d)
  BY DEF DaemonInv, DaemonTypeOK, Done, Alone, OneAtATime, UnderWay, Stations


(* A file that names no process leaves no bridge, if bridges are tracked.   *)
LEMMA NothingTracked == Bridges \subseteq {pidFile} /\ ~Tracked => Bridges = {}
  BY DEF Bridges, Tracked, isRunning

LEMMA DaemonStepInv == DaemonInv /\ [DaemonNext]_daemonVars => DaemonInv'
<1> SUFFICES ASSUME DaemonInv, [DaemonNext]_daemonVars PROVE DaemonInv'
  OBVIOUS
<1> USE DaemonAssumption
<1>t. DaemonTypeOK
  BY DEF DaemonInv
<1>s. NoPid \in PidsOrNone /\ Pids \subseteq PidsOrNone /\ pidFile \in PidsOrNone
  BY <1>t DEF PidsOrNone, DaemonTypeOK
<1>p. {"probing", "spawning", "waiting", "stopping", "fronting", "cleaning"} \subseteq Stations
  BY DEF Stations
<1>1. ASSUME NEW c \in Commands, StartBackground(c) PROVE DaemonInv'
  <2>1. UNCHANGED <<pidFile, procs, front, reused>>
    BY <1>1 DEF StartBackground
  <2>2. Bridges' = Bridges
    BY <2>1 DEF Bridges
  <2>3. CASE Tracked
    <3>1. Done(c)
      BY <1>1, <2>3 DEF StartBackground
    <3>2. DaemonTypeOK'
      BY <1>t, <3>1, <2>1, DoneKeeps DEF DaemonTypeOK
    <3> QED
      BY <3>1, <3>2, <2>1, <2>2, DoneKeeps DEF DaemonInv, Informed
  <2>4. CASE ~Tracked
    <3>1. Move(c, "probing", NoPid)
      BY <1>1, <2>4 DEF StartBackground
    <3>c. cmd'[c] = [at |-> "probing", pid |-> NoPid]
      BY <1>s, <1>p, <3>1, MoveKeeps
    <3>2. DaemonTypeOK' /\ cmd'[c].at = "probing"
      <4>1. cmd'[c].at = "probing"
        BY <3>c
      <4>2. cmd' \in [Commands -> [at : Stations, pid : PidsOrNone]] /\ together' \in BOOLEAN
        BY <1>s, <1>p, <3>1, MoveKeeps
      <4> QED
        BY <1>t, <2>1, <4>1, <4>2 DEF DaemonTypeOK
    <3> QED
      BY <1>s, <1>p, <3>1, <3>2, <2>1, <2>2, MoveKeeps DEF DaemonInv, Informed
  <2> QED
    BY <2>3, <2>4
<1>2. ASSUME NEW c \in Commands, ProbeSettles(c) PROVE DaemonInv'
  <2>1. UNCHANGED <<pidFile, procs, front, reused>>
    BY <1>2 DEF ProbeSettles
  <2>2. Bridges' = Bridges
    BY <2>1 DEF Bridges
  <2>3. CASE Responding \/ Tracked
    <3>1. Done(c)
      BY <1>2, <2>3 DEF ProbeSettles
    <3>2. DaemonTypeOK'
      BY <1>t, <3>1, <2>1, DoneKeeps DEF DaemonTypeOK
    <3> QED
      BY <3>1, <3>2, <2>1, <2>2, DoneKeeps DEF DaemonInv, Informed
  <2>4. CASE ~(Responding \/ Tracked)
    <3>1. Move(c, "spawning", NoPid)
      BY <1>2, <2>4 DEF ProbeSettles
    <3>c. cmd'[c] = [at |-> "spawning", pid |-> NoPid]
      BY <1>s, <1>p, <3>1, MoveKeeps
    <3>2. DaemonTypeOK' /\ cmd'[c].at = "spawning"
      <4>1. cmd'[c].at = "spawning"
        BY <3>c
      <4>2. cmd' \in [Commands -> [at : Stations, pid : PidsOrNone]] /\ together' \in BOOLEAN
        BY <1>s, <1>p, <3>1, MoveKeeps
      <4> QED
        BY <1>t, <2>1, <4>1, <4>2 DEF DaemonTypeOK
    <3>3. ~together' /\ ~reused' => Bridges = {}
      BY <2>1, <2>4, <3>1, <1>s, <1>p, MoveKeeps, NothingTracked DEF DaemonInv
    <3> QED
      BY <1>s, <1>p, <3>1, <3>2, <3>3, <2>1, <2>2, MoveKeeps DEF DaemonInv, Informed
  <2> QED
    BY <2>3, <2>4
<1>3. ASSUME NEW c \in Commands, NEW p \in Pids, Spawn(c, p) PROVE DaemonInv'
  <2>1. /\ procs' = [procs EXCEPT ![p] = "starting"] /\ pidFile' = p
        /\ Move(c, "waiting", p) /\ UNCHANGED <<front, reused>> /\ cmd[c].at = "spawning"
    BY <1>3 DEF Spawn
  <2>2. DaemonTypeOK' /\ cmd'[c] = [at |-> "waiting", pid |-> p]
    BY <1>t, <1>s, <1>p, <2>1, MoveKeeps DEF DaemonTypeOK
  <2>3. ~together' /\ ~reused' => Bridges = {}
    BY <2>1, <1>s, <1>p, MoveKeeps DEF DaemonInv, Informed
  <2>4. ~together' /\ ~reused' => Bridges' \subseteq {pidFile'}
    BY <1>t, <2>1, <2>3 DEF Bridges, DaemonTypeOK
  <2> QED
    BY <1>s, <1>p, <2>1, <2>2, <2>4, MoveKeeps DEF DaemonInv, Informed, UnderWay
<1>4. ASSUME NEW c \in Commands, Waited(c) PROVE DaemonInv'
  <2>1. Done(c) /\ UNCHANGED <<procs, front, reused>> /\ cmd[c].at = "waiting"
    BY <1>4 DEF Waited
  <2>2. pidFile' = pidFile \/ (~isRunning(cmd[c].pid) /\ pidFile' = NoPid)
    BY <1>4 DEF Waited
  <2>3. DaemonTypeOK'
    BY <1>t, <1>s, <2>1, <2>2, DoneKeeps DEF DaemonTypeOK
  <2>4. Bridges' = Bridges
    BY <2>1 DEF Bridges
  <2>5. ~together' /\ ~reused' => Bridges' \subseteq {pidFile'}
    BY <2>1, <2>2, <2>4, DoneKeeps, NothingTracked DEF DaemonInv, Informed, Tracked
  <2> QED
    BY <2>1, <2>3, <2>5, DoneKeeps DEF DaemonInv, Informed, UnderWay
<1>5. ASSUME NEW c \in Commands, StopEnds(c) PROVE DaemonInv'
  <2>1. /\ Done(c) /\ UNCHANGED reused /\ pidFile' = NoPid /\ cmd[c].at \in {"stopping", "fronting"}
        /\ procs' = [procs EXCEPT ![cmd[c].pid] = "free"]
        /\ front' = IF cmd[c].at = "fronting" /\ front = "no" THEN "waiting for the port" ELSE front
    BY <1>5 DEF StopEnds
  <2>2. DaemonTypeOK'
    BY <1>t, <1>s, <2>1, DoneKeeps DEF DaemonTypeOK
  <2>3. ~together' /\ ~reused' => Bridges' = {}
    <3> SUFFICES ASSUME ~together', ~reused' PROVE Bridges' = {}
      OBVIOUS
    <3>1. Bridges \subseteq {pidFile} /\ cmd[c].pid = pidFile /\ pidFile \in Pids
      BY <2>1, DoneKeeps DEF DaemonInv, Informed
    <3> QED
      BY <1>t, <2>1, <3>1 DEF Bridges, DaemonTypeOK
  <2> QED
    BY <2>1, <2>2, <2>3, DoneKeeps DEF DaemonInv, Informed, UnderWay
<1>6. ASSUME NEW c \in Commands, StatusProbes(c) PROVE DaemonInv'
  <2>1. ~Tracked /\ Move(c, "cleaning", NoPid) /\ UNCHANGED <<pidFile, procs, front, reused>>
    BY <1>6 DEF StatusProbes
  <2>2. Bridges' = Bridges
    BY <2>1 DEF Bridges
  <2>c. cmd'[c] = [at |-> "cleaning", pid |-> NoPid]
    BY <1>s, <1>p, <2>1, MoveKeeps
  <2>3. DaemonTypeOK' /\ cmd'[c].at = "cleaning"
    <3>1. cmd'[c].at = "cleaning"
      BY <2>c
    <3>2. cmd' \in [Commands -> [at : Stations, pid : PidsOrNone]] /\ together' \in BOOLEAN
      BY <1>s, <1>p, <2>1, MoveKeeps
    <3> QED
      BY <1>t, <2>1, <3>1, <3>2 DEF DaemonTypeOK
  <2>4. ~together' /\ ~reused' => Bridges = {}
    BY <2>1, <1>s, <1>p, MoveKeeps, NothingTracked DEF DaemonInv
  <2> QED
    BY <1>s, <1>p, <2>1, <2>2, <2>3, <2>4, MoveKeeps DEF DaemonInv, Informed
<1>7. ASSUME NEW c \in Commands, StatusCleans(c) PROVE DaemonInv'
  <2>1. cmd[c].at = "cleaning" /\ pidFile' = NoPid /\ Done(c) /\ UNCHANGED <<procs, front, reused>>
    BY <1>7 DEF StatusCleans
  <2>2. DaemonTypeOK'
    BY <1>t, <1>s, <2>1, DoneKeeps DEF DaemonTypeOK
  <2>3. Bridges' = Bridges
    BY <2>1 DEF Bridges
  <2>4. ~together' /\ ~reused' => Bridges' = {}
    BY <2>1, <2>3, DoneKeeps DEF DaemonInv, Informed
  <2> QED
    BY <2>1, <2>2, <2>4, DoneKeeps DEF DaemonInv, Informed, UnderWay
<1>8. ASSUME NEW c \in Commands, NEW next \in {"stopping", "fronting"}, StopBackground(c, next) PROVE DaemonInv'
  <2>1. CASE Tracked
    <3>1. /\ procs' = [procs EXCEPT ![pidFile] = Ended(pidFile)]
          /\ Move(c, next, pidFile) /\ UNCHANGED <<pidFile, front, reused>>
      BY <1>8, <2>1 DEF StopBackground
    <3>2. pidFile \in Pids
      BY <2>1 DEF Tracked, isRunning
    <3>c. procs' \in [Pids -> {"free", "starting", "serving", "ending", "stranger"}]
      BY <1>t, <3>1, <3>2 DEF DaemonTypeOK, Ended
    <3>d. next \in Stations
      BY <1>p
    <3>3. DaemonTypeOK' /\ cmd'[c] = [at |-> next, pid |-> pidFile]
      <4>1. cmd'[c] = [at |-> next, pid |-> pidFile]
        BY <1>s, <3>d, <3>1, MoveKeeps
      <4> QED
        BY <1>t, <1>s, <3>1, <3>c, <3>d, <4>1, MoveKeeps DEF DaemonTypeOK
    <3>4. Bridges' = Bridges \/ Bridges' = Bridges \ {pidFile}
      BY <1>t, <3>1, <3>2 DEF Bridges, Ended, DaemonTypeOK
    <3>5. ~together' /\ ~reused' => Bridges' \subseteq {pidFile'}
      BY <1>s, <1>p, <3>1, <3>4, MoveKeeps DEF DaemonInv
    <3> QED
      BY <1>s, <1>p, <3>1, <3>2, <3>3, <3>5, MoveKeeps DEF DaemonInv, Informed, UnderWay
  <2>2. CASE ~Tracked
    <3>1. /\ pidFile' = NoPid /\ Done(c) /\ UNCHANGED <<procs, reused>>
          /\ front' = IF next = "fronting" /\ front = "no" THEN "waiting for the port" ELSE front
      BY <1>8, <2>2 DEF StopBackground
    <3>2. DaemonTypeOK'
      BY <1>t, <1>s, <3>1, DoneKeeps DEF DaemonTypeOK
    <3>3. Bridges' = Bridges
      BY <3>1 DEF Bridges
    <3>4. ~together' /\ ~reused' => Bridges' = {}
      BY <3>1, <3>3, <2>2, DoneKeeps, NothingTracked DEF DaemonInv
    <3> QED
      BY <3>1, <3>2, <3>4, DoneKeeps DEF DaemonInv, Informed, UnderWay
  <2> QED
    BY <2>1, <2>2
<1>9. ASSUME UNCHANGED <<pidFile, cmd, together>>, reused => reused', reused' \in BOOLEAN,
             procs' \in [Pids -> {"free", "starting", "serving", "ending", "stranger"}],
             front' \in {"no", "waiting for the port", "serving"},
             Bridges' \subseteq Bridges
      PROVE DaemonInv'
  BY <1>t, <1>9 DEF DaemonInv, DaemonTypeOK, OneAtATime, Informed, UnderWay
<1>10. ASSUME NEW p \in Pids, Bind(p) \/ Exit(p) \/ Reuse(p) PROVE DaemonInv'
  <2>1. procs' \in [Pids -> {"free", "starting", "serving", "ending", "stranger"}]
    BY <1>t, <1>10 DEF Bind, Exit, Reuse, DaemonTypeOK
  <2>2. Bridges' \subseteq Bridges
    BY <1>t, <1>10 DEF Bind, Exit, Reuse, DaemonTypeOK, Bridges
  <2>3. UNCHANGED <<pidFile, cmd, together, front>>
    BY <1>10 DEF Bind, Exit, Reuse
  <2>4. (reused => reused') /\ reused' \in BOOLEAN
    BY <1>t, <1>10 DEF Bind, Exit, Reuse, DaemonTypeOK
  <2> QED
    BY <1>t, <2>1, <2>2, <2>3, <2>4, <1>9 DEF DaemonTypeOK
<1>11. ASSUME BindFront \/ FrontEnds PROVE DaemonInv'
  <2>1. UNCHANGED <<pidFile, procs, cmd, together, reused>>
    BY <1>11 DEF BindFront, FrontEnds
  <2>2. front' \in {"no", "waiting for the port", "serving"}
    BY <1>11 DEF BindFront, FrontEnds
  <2>3. Bridges' = Bridges
    BY <2>1 DEF Bridges
  <2> QED
    BY <1>t, <2>1, <2>2, <2>3, <1>9 DEF DaemonTypeOK
<1>12. ASSUME UNCHANGED daemonVars PROVE DaemonInv'
  <2>1. UNCHANGED <<pidFile, procs, front, cmd, together, reused>>
    BY <1>12 DEF daemonVars
  <2>2. Bridges' = Bridges
    BY <2>1 DEF Bridges
  <2> QED
    BY <1>t, <2>1, <2>2, <1>9 DEF DaemonTypeOK
<1> QED
  BY <1>1, <1>2, <1>3, <1>4, <1>5, <1>6, <1>7, <1>8, <1>10, <1>11, <1>12 DEF DaemonNext

(* Among commands typed one after another there is one background bridge at *)
(* most, the one the pid file names: no later command forgets or doubles it *)
(* (src/src/daemon.ts).                                                     *)
THEOREM OneBridgeStaysTracked == DaemonSpec => []OneTrackedBridge
<1>1. DaemonInv => OneTrackedBridge
  BY DEF DaemonInv, OneTrackedBridge
<1> QED
  BY <1>1, DaemonInitInv, DaemonStepInv, PTL DEF DaemonSpec

-----------------------------------------------------------------------------
(* The gate *)

(* Numbers: the least of a set, and sums over a list.                       *)
LEMMA LeastNumber ==
  ASSUME NEW T, T \subseteq Nat, T # {}
  PROVE  \E x \in T : \A y \in T : x <= y
<1>1. PICK x \in T : \A y \in T : ~(<<y, x>> \in OpToRel(<, Nat))
  BY WFMin, NatLessThanWellFounded, Zenon
<1>2. \A y \in T : <<y, x>> \in Nat \X Nat /\ <<y, x>>[1] = y /\ <<y, x>>[2] = x
  OBVIOUS
<1>3. \A y \in T : ~(<<y, x>>[1] < <<y, x>>[2])
  BY <1>1, <1>2, Zenon DEF OpToRel
<1>4. \A y \in T : ~(y < x)
  BY <1>2, <1>3
<1> QED BY <1>4

(* What holds at 0 and goes from each number to the next holds up to N.     *)
LEMMA UpTo ==
  ASSUME NEW N \in Nat, NEW S, 0 \in S, \A n \in 0..N : n \in S /\ n < N => n + 1 \in S
  PROVE  0..N \subseteq S
<1> SUFFICES ASSUME NEW m \in 0..N, m \notin S PROVE FALSE
  OBVIOUS
<1> DEFINE T == {n \in 0..N : n \notin S}
<1>1. PICK x \in T : \A y \in T : x <= y
  <2>1. T \subseteq Nat /\ T # {}
    OBVIOUS
  <2> HIDE DEF T
  <2> QED BY <2>1, LeastNumber
<1>2. x \in 0..N /\ x \notin S /\ x # 0
  OBVIOUS
<1>3. x - 1 \in 0..N /\ x - 1 < N /\ (x - 1) + 1 = x
  BY <1>2
<1>4. x - 1 \in S
  <2>1. ~(x <= x - 1)
    BY <1>2
  <2> QED BY <1>1, <1>3, <2>1
<1> QED BY <1>2, <1>3, <1>4

IsSums(f, s, n) ==
  /\ f \in [0..n -> Nat] /\ f[0] = 0
  /\ \A i \in 1..n : f[i] = f[i - 1] + s[i]

LEMMA SumsExist ==
  ASSUME NEW s \in Seq(Nat)
  PROVE  \E f : IsSums(f, s, Len(s))
<1> DEFINE S == {n \in 0..Len(s) : \E f : IsSums(f, s, n)}
<1>0. Len(s) \in Nat /\ \A i \in 1..Len(s) : s[i] \in Nat
  OBVIOUS
<1>1. 0 \in S
  <2> DEFINE f == [i \in 0..0 |-> 0]
  <2>1. IsSums(f, s, 0)
    BY DEF IsSums
  <2> HIDE DEF f
  <2> QED BY <1>0, <2>1
<1>2. ASSUME NEW n \in 0..Len(s), n \in S, n < Len(s) PROVE n + 1 \in S
  <2>1. PICK f : IsSums(f, s, n)
    BY <1>2
  <2>2. n \in Nat /\ n + 1 \in 1..Len(s) /\ n + 1 \in 0..Len(s) /\ s[n + 1] \in Nat
    BY <1>0, <1>2
  <2> DEFINE g == [i \in 0..(n + 1) |-> IF i = n + 1 THEN f[n] + s[n + 1] ELSE f[i]]
  <2>3. f[n] \in Nat /\ f[0] = 0 /\ \A i \in 0..n : f[i] \in Nat
    BY <2>1, <2>2 DEF IsSums
  <2>4. \A i \in 0..(n + 1) : (IF i = n + 1 THEN f[n] + s[n + 1] ELSE f[i]) \in Nat
    BY <2>2, <2>3
  <2>5. g \in [0..(n + 1) -> Nat]
    BY <2>4
  <2>6. g[0] = 0 /\ g[n + 1] = f[n] + s[n + 1] /\ \A i \in 0..n : g[i] = f[i]
    BY <2>2, <2>3
  <2> HIDE DEF g
  <2>7. ASSUME NEW i \in 1..(n + 1) PROVE g[i] = g[i - 1] + s[i]
    <3>1. CASE i = n + 1
      <4>1. i - 1 = n /\ n \in 0..n
        BY <2>2, <3>1
      <4> QED BY <2>6, <3>1, <4>1
    <3>2. CASE i # n + 1
      <4>1. i \in 1..n /\ i \in 0..n /\ i - 1 \in 0..n
        BY <2>2, <3>2
      <4> QED BY <2>1, <2>6, <4>1 DEF IsSums
    <3> QED BY <3>1, <3>2
  <2>8. IsSums(g, s, n + 1)
    BY <2>5, <2>6, <2>7 DEF IsSums
  <2> QED BY <2>2, <2>8
<1>3. 0..Len(s) \subseteq S
  <2> HIDE DEF S
  <2> QED BY <1>0, <1>1, <1>2, UpTo
<1> QED BY <1>0, <1>3

(* The running sums of a list of numbers.                                   *)
LEMMA SumsAre ==
  ASSUME NEW s \in Seq(Nat)
  PROVE  IsSums(Sums(s), s, Len(s))
<1> DEFINE Body(f) == [n \in 0..Len(s) |-> IF n = 0 THEN 0 ELSE f[n - 1] + s[n]]
<1>0. Len(s) \in Nat
  OBVIOUS
<1>1. PICK f : IsSums(f, s, Len(s))
  BY SumsExist
<1>2. f = Body(f)
  <2>1. DOMAIN f = 0..Len(s) /\ f = [n \in 0..Len(s) |-> f[n]]
    BY <1>1 DEF IsSums
  <2>2. \A n \in 0..Len(s) : f[n] = IF n = 0 THEN 0 ELSE f[n - 1] + s[n]
    BY <1>0, <1>1 DEF IsSums
  <2> QED BY <2>1, <2>2
<1>3. Sums(s) = CHOOSE g : g = Body(g)
  BY DEF Sums
<1>4. Sums(s) = Body(Sums(s))
  BY <1>2, <1>3
<1> DEFINE g == Sums(s)
<1>5. /\ DOMAIN g = 0..Len(s) /\ g = [n \in 0..Len(s) |-> g[n]]
      /\ \A n \in 0..Len(s) : g[n] = IF n = 0 THEN 0 ELSE g[n - 1] + s[n]
  BY <1>4
<1> HIDE DEF g
<1>6. g[0] = 0 /\ \A n \in 1..Len(s) : g[n] = g[n - 1] + s[n] /\ s[n] \in Nat
  BY <1>0, <1>5
<1> DEFINE S == {n \in 0..Len(s) : g[n] \in Nat}
<1>7. 0..Len(s) \subseteq S
  <2>1. 0 \in S
    BY <1>0, <1>6
  <2>2. ASSUME NEW n \in 0..Len(s), n \in S, n < Len(s) PROVE n + 1 \in S
    <3>1. n + 1 \in 1..Len(s) /\ n + 1 \in 0..Len(s) /\ (n + 1) - 1 = n /\ g[n] \in Nat
      BY <1>0, <2>2
    <3> QED BY <1>6, <3>1
  <2> HIDE DEF S
  <2> QED BY <1>0, <2>1, <2>2, UpTo
<1>8. g \in [0..Len(s) -> Nat]
  BY <1>5, <1>7
<1> QED BY <1>6, <1>8 DEF IsSums, g

(* A list that has nowhere less has no smaller sums.                        *)
LEMMA SumsGrowWith ==
  ASSUME NEW s \in Seq(Nat), NEW t \in Seq(Nat), NEW N \in Nat, N <= Len(s), N <= Len(t),
         \A i \in 1..N : s[i] <= t[i]
  PROVE  \A n \in 0..N : Sums(s)[n] <= Sums(t)[n]
<1> DEFINE f == Sums(s)
           g == Sums(t)
           S == {n \in 0..N : f[n] <= g[n]}
<1>0. Len(s) \in Nat /\ Len(t) \in Nat /\ IsSums(f, s, Len(s)) /\ IsSums(g, t, Len(t))
  BY SumsAre
<1> HIDE DEF f, g
<1>1. 0 \in S
  BY <1>0 DEF IsSums
<1>2. ASSUME NEW n \in 0..N, n \in S, n < N PROVE n + 1 \in S
  <2>1. /\ n + 1 \in 1..Len(s) /\ n + 1 \in 1..Len(t) /\ n + 1 \in 1..N /\ n + 1 \in 0..N
        /\ (n + 1) - 1 = n /\ n \in 0..Len(t) /\ n \in 0..Len(s)
    BY <1>0, <1>2
  <2>2. f[n + 1] = f[n] + s[n + 1] /\ g[n + 1] = g[n] + t[n + 1]
    BY <1>0, <2>1 DEF IsSums
  <2>3. f[n] \in Nat /\ g[n] \in Nat
    BY <1>0, <2>1 DEF IsSums
  <2>4. s[n + 1] \in Nat /\ t[n + 1] \in Nat /\ s[n + 1] <= t[n + 1]
    BY <2>1
  <2> QED BY <1>2, <2>1, <2>2, <2>3, <2>4
<1>3. 0..N \subseteq S
  <2> HIDE DEF S
  <2> QED BY <1>1, <1>2, UpTo
<1> QED BY <1>3 DEF f, g

(* The sums of a list do not shrink on the way.                             *)
LEMMA SumsGrow ==
  ASSUME NEW s \in Seq(Nat), NEW n \in 0..Len(s)
  PROVE  Sums(s)[n] <= Sums(s)[Len(s)]
<1> DEFINE f == Sums(s)
           S == {m \in 0..(Len(s) - n) : f[n] <= f[n + m]}
<1>0. Len(s) \in Nat /\ IsSums(f, s, Len(s)) /\ \A i \in 1..Len(s) : s[i] \in Nat
  BY SumsAre
<1> HIDE DEF f
<1>1. 0 \in S /\ Len(s) - n \in Nat
  BY <1>0 DEF IsSums
<1>2. ASSUME NEW m \in 0..(Len(s) - n), m \in S, m < Len(s) - n PROVE m + 1 \in S
  <2>1. n + m + 1 \in 1..Len(s) /\ (n + m + 1) - 1 = n + m /\ n + m \in 0..Len(s) /\ m + 1 \in 0..(Len(s) - n)
        /\ n + (m + 1) = n + m + 1
    BY <1>0, <1>2
  <2>2. f[n + m + 1] = f[n + m] + s[n + m + 1] /\ f[n + m] \in Nat /\ f[n] \in Nat /\ s[n + m + 1] \in Nat
    BY <1>0, <2>1 DEF IsSums
  <2> QED BY <1>2, <2>1, <2>2
<1>3. 0..(Len(s) - n) \subseteq S
  <2> HIDE DEF S
  <2> QED BY <1>1, <1>2, UpTo
<1>4. Len(s) - n \in 0..(Len(s) - n) /\ n + (Len(s) - n) = Len(s)
  BY <1>0
<1>5. Len(s) - n \in S
  <2> HIDE DEF S
  <2> QED BY <1>3, <1>4
<1> QED BY <1>4, <1>5 DEF f

(* Sums that reach a limit above 0 reach it at one place first.             *)
LEMMA SumsCross ==
  ASSUME NEW s \in Seq(Nat), NEW l \in Nat \ {0}, Sums(s)[Len(s)] >= l
  PROVE  \E i \in 1..Len(s) : Sums(s)[i - 1] < l /\ Sums(s)[i] >= l /\ s[i] > 0
<1> DEFINE f == Sums(s)
           T == {n \in 0..Len(s) : f[n] >= l}
<1>0. Len(s) \in Nat /\ IsSums(f, s, Len(s)) /\ \A i \in 1..Len(s) : s[i] \in Nat
  BY SumsAre
<1>1. T # {} /\ T \subseteq Nat
  BY <1>0
<1> HIDE DEF f
<1>2. PICK i \in T : \A j \in T : i <= j
  <2> HIDE DEF T
  <2> QED BY <1>1, LeastNumber
<1>3. i \in 0..Len(s) /\ f[i] >= l /\ i # 0
  BY <1>0, <1>2 DEF IsSums
<1>4. i \in 1..Len(s) /\ i - 1 \in 0..Len(s) /\ ~(i <= i - 1)
  BY <1>0, <1>3
<1>5. f[i - 1] \in Nat /\ ~(f[i - 1] >= l)
  BY <1>0, <1>2, <1>4 DEF IsSums
<1>6. f[i] = f[i - 1] + s[i] /\ s[i] \in Nat
  BY <1>0, <1>4 DEF IsSums
<1>7. f[i - 1] < l /\ s[i] > 0
  BY <1>3, <1>5, <1>6
<1> QED BY <1>3, <1>4, <1>7 DEF f

-----------------------------------------------------------------------------
(* Counting in a list: the places whose element is of a kind.               *)
Hits(s, E) == {i \in DOMAIN s : s[i] \in E}

LEMMA CountUpTo ==
  ASSUME NEW n \in Nat
  PROVE  IsFiniteSet(1..n) /\ Cardinality(1..n) = n
<1>1. n \in Int /\ 1 \in Int
  OBVIOUS
<1>2. IsFiniteSet(1..n) /\ Cardinality(1..n) = IF 1 > n THEN 0 ELSE n - 1 + 1
  BY <1>1, FS_Interval
<1> QED BY <1>2

LEMMA HitsCount ==
  ASSUME NEW S, NEW s \in Seq(S), NEW E
  PROVE  /\ IsFiniteSet(Hits(s, E)) /\ Cardinality(Hits(s, E)) \in Nat
         /\ Cardinality(Hits(s, E)) <= Len(s)
<1>1. Len(s) \in Nat /\ Hits(s, E) \subseteq 1..Len(s)
  BY DEF Hits
<1>2. IsFiniteSet(1..Len(s)) /\ Cardinality(1..Len(s)) = Len(s)
  BY <1>1, CountUpTo
<1> QED BY <1>1, <1>2, FS_Subset, FS_CardinalityType

LEMMA HitsAppend ==
  ASSUME NEW S, NEW s \in Seq(S), NEW e \in S, NEW E
  PROVE  /\ e \in E => Cardinality(Hits(Append(s, e), E)) = Cardinality(Hits(s, E)) + 1
         /\ e \notin E => Cardinality(Hits(Append(s, e), E)) = Cardinality(Hits(s, E))
<1>1. /\ Len(s) \in Nat /\ DOMAIN Append(s, e) = 1..(Len(s) + 1) /\ DOMAIN s = 1..Len(s)
      /\ Append(s, e)[Len(s) + 1] = e /\ \A i \in 1..Len(s) : Append(s, e)[i] = s[i]
  OBVIOUS
<1>2. Len(s) + 1 \notin Hits(s, E)
  BY <1>1 DEF Hits
<1>3. e \in E => Hits(Append(s, e), E) = Hits(s, E) \cup {Len(s) + 1}
  BY <1>1 DEF Hits
<1>4. e \notin E => Hits(Append(s, e), E) = Hits(s, E)
  BY <1>1 DEF Hits
<1>5. IsFiniteSet(Hits(s, E))
  BY HitsCount
<1> QED BY <1>2, <1>3, <1>4, <1>5, FS_AddElement

(* A list without its first d elements.                                     *)
IsRest(t, s, d) ==
  /\ d \in Nat /\ Len(s) = Len(t) + d
  /\ \A i \in 1..Len(t) : t[i] = s[i + d]

LEMMA HitsSplit ==
  ASSUME NEW S, NEW s \in Seq(S), NEW t \in Seq(S), NEW d, IsRest(t, s, d), NEW E
  PROVE  /\ Cardinality({i \in 1..d : s[i] \in E}) \in 0..d
         /\ Cardinality(Hits(s, E)) = Cardinality({i \in 1..d : s[i] \in E}) + Cardinality(Hits(t, E))
<1> DEFINE late == {i \in Hits(s, E) : i > d}
           early == {i \in Hits(s, E) : i <= d}
           f == [i \in Hits(t, E) |-> i + d]
<1>1. /\ Len(s) \in Nat /\ Len(t) \in Nat /\ d \in Nat /\ Len(s) = Len(t) + d
      /\ DOMAIN s = 1..Len(s) /\ DOMAIN t = 1..Len(t)
      /\ \A i \in 1..Len(t) : t[i] = s[i + d]
  BY DEF IsRest
<1>2. \A i \in Hits(t, E) : i \in Nat /\ i + d \in late
  BY <1>1 DEF Hits
<1>3. \A j \in late : j - d \in Hits(t, E) /\ (j - d) + d = j
  <2> SUFFICES ASSUME NEW j \in late PROVE j - d \in Hits(t, E) /\ (j - d) + d = j
    OBVIOUS
  <2>1. j \in 1..Len(s) /\ s[j] \in E /\ j > d
    BY <1>1 DEF Hits
  <2>2. j - d \in 1..Len(t) /\ (j - d) + d = j
    BY <1>1, <2>1
  <2> QED BY <1>1, <2>1, <2>2 DEF Hits
<1>4. f \in Bijection(Hits(t, E), late)
  <2>1. f \in [Hits(t, E) -> late]
    BY <1>2
  <2>2. \A i, j \in Hits(t, E) : f[i] = f[j] => i = j
    BY <1>1, <1>2
  <2>3. \A j \in late : \E i \in Hits(t, E) : f[i] = j
    BY <1>3
  <2> QED BY <2>1, <2>2, <2>3 DEF Bijection, Injection, Surjection, IsInjective
<1>5. IsFiniteSet(Hits(t, E)) /\ IsFiniteSet(Hits(s, E))
  BY HitsCount
<1>6. Cardinality(late) = Cardinality(Hits(t, E)) /\ IsFiniteSet(late)
  <2> HIDE DEF f, late
  <2>1. ExistsBijection(Hits(t, E), late)
    BY <1>4 DEF ExistsBijection
  <2> QED BY <1>5, <2>1, FS_Bijection
<1>7. early \subseteq 1..d /\ early \cap late = {} /\ Hits(s, E) = early \cup late
  BY <1>1 DEF Hits
<1>8. IsFiniteSet(1..d) /\ Cardinality(1..d) = d
  BY <1>1, CountUpTo
<1>9. IsFiniteSet(early) /\ Cardinality(early) <= d /\ Cardinality(early) \in Nat
  <2>1. early \in SUBSET (1..d)
    BY <1>7
  <2> HIDE DEF early
  <2>2. IsFiniteSet(early) /\ Cardinality(early) <= Cardinality(1..d)
    BY <1>8, <2>1, FS_Subset
  <2> QED BY <1>8, <2>2, FS_CardinalityType
<1>10. Cardinality(Hits(s, E)) = Cardinality(early) + Cardinality(late)
  <2>1. Cardinality(early \cup late) = Cardinality(early) + Cardinality(late) - Cardinality(early \cap late)
    <3> HIDE DEF early, late
    <3> QED BY <1>6, <1>9, FS_Union
  <2>2. Cardinality(early \cap late) = 0
    <3> HIDE DEF early, late
    <3> QED BY <1>7, FS_EmptySet
  <2>3. Cardinality(late) \in Nat
    <3> HIDE DEF late
    <3> QED BY <1>6, FS_CardinalityType
  <2> HIDE DEF early, late
  <2> QED BY <1>7, <1>9, <2>1, <2>2, <2>3
<1>11. early = {i \in 1..d : s[i] \in E}
  BY <1>1 DEF Hits
<1>12. Cardinality(early) \in 0..d /\ Cardinality(Hits(s, E)) = Cardinality(early) + Cardinality(Hits(t, E))
  <2> HIDE DEF early, late
  <2> QED BY <1>1, <1>6, <1>9, <1>10
<1> HIDE DEF early, late
<1> QED BY <1>11, <1>12

LEMMA HitsOfRest ==
  ASSUME NEW S, NEW s \in Seq(S), NEW t \in Seq(S), NEW d, IsRest(t, s, d), NEW E
  PROVE  /\ Cardinality(Hits(t, E)) <= Cardinality(Hits(s, E))
         /\ Cardinality(Hits(s, E)) <= Cardinality(Hits(t, E)) + d
         /\ (\A i \in 1..d : s[i] \notin E) => Cardinality(Hits(s, E)) = Cardinality(Hits(t, E))
<1> DEFINE early == {i \in 1..d : s[i] \in E}
<1>1. d \in Nat /\ Cardinality(Hits(t, E)) \in Nat /\ Cardinality(Hits(s, E)) \in Nat
  BY HitsCount DEF IsRest
<1>2. Cardinality(early) \in 0..d /\ Cardinality(Hits(s, E)) = Cardinality(early) + Cardinality(Hits(t, E))
  BY HitsSplit
<1>3. (\A i \in 1..d : s[i] \notin E) => early = {}
  OBVIOUS
<1> HIDE DEF early
<1>4. early = {} => Cardinality(early) = 0
  BY FS_EmptySet
<1> QED BY <1>1, <1>2, <1>3, <1>4

(* The ring keeps the last of what is recorded.                             *)
LEMMA LastOfIsRest ==
  ASSUME NEW S, NEW s \in Seq(S), NEW n \in Nat \ {0}
  PROVE  LastOf(s, n) \in Seq(S) /\ Len(LastOf(s, n)) <= n /\ \E d : IsRest(LastOf(s, n), s, d)
<1>0. Len(s) \in Nat /\ n \in Nat
  OBVIOUS
<1>1. CASE Len(s) <= n
  <2>1. LastOf(s, n) = s
    BY <1>1 DEF LastOf
  <2>2. IsRest(s, s, 0)
    BY <1>0 DEF IsRest
  <2> QED BY <1>1, <2>1, <2>2
<1>2. CASE Len(s) > n
  <2> DEFINE d == Len(s) - n
             t == SubSeq(s, d + 1, Len(s))
  <2>1. LastOf(s, n) = t
    BY <1>0, <1>2 DEF LastOf
  <2>2. d \in Nat /\ d + 1 \in 1..Len(s) /\ Len(s) = n + d
    BY <1>0, <1>2
  <2> HIDE DEF d
  <2>3. t \in Seq(S) /\ Len(t) = n /\ \A i \in 1..n : t[i] = s[i + d]
    BY <1>0, <2>2
  <2>4. IsRest(t, s, d)
    BY <2>2, <2>3 DEF IsRest
  <2> HIDE DEF t
  <2> QED BY <1>0, <2>1, <2>3, <2>4
<1> QED BY <1>0, <1>1, <1>2

LEMMA LastOfLater ==
  ASSUME NEW S, NEW s \in Seq(S), NEW e \in S, NEW n \in Nat \ {0}
  PROVE  LastOf(Append(LastOf(s, n), e), n) = LastOf(Append(s, e), n)
<1>0. Len(s) \in Nat /\ n \in Nat
  OBVIOUS
<1>1. CASE Len(s) <= n
  BY <1>1 DEF LastOf
<1>2. CASE Len(s) > n
  <2> DEFINE d == Len(s) - n
             t == SubSeq(s, d + 1, Len(s))
             u == Append(t, e)
             w == Append(s, e)
  <2>1. LastOf(s, n) = t
    BY <1>0, <1>2 DEF LastOf
  <2>2. d \in Nat /\ d + 1 \in 1..Len(s) /\ Len(s) = n + d
    BY <1>0, <1>2
  <2> HIDE DEF d
  <2>3. t \in Seq(S) /\ Len(t) = n /\ \A i \in 1..n : t[i] = s[i + d]
    BY <1>0, <2>2
  <2> HIDE DEF t
  <2>4. u \in Seq(S) /\ Len(u) = n + 1 /\ u[n + 1] = e /\ \A i \in 1..n : u[i] = s[i + d]
    BY <1>0, <2>3
  <2>5. w \in Seq(S) /\ Len(w) = n + d + 1 /\ w[n + d + 1] = e /\ \A i \in 1..(n + d) : w[i] = s[i]
    BY <1>0, <2>2
  <2> HIDE DEF u, w
  <2>6. LastOf(u, n) = SubSeq(u, 2, n + 1)
    <3>1. ~(Len(u) <= n) /\ Len(u) - n + 1 = 2
      BY <1>0, <2>4
    <3> QED BY <2>4, <3>1 DEF LastOf
  <2>7. LastOf(w, n) = SubSeq(w, d + 2, n + d + 1)
    <3>1. ~(Len(w) <= n) /\ Len(w) - n + 1 = d + 2
      BY <1>0, <2>2, <2>5
    <3> QED BY <2>5, <3>1 DEF LastOf
  <2>8. /\ SubSeq(u, 2, n + 1) \in Seq(S) /\ Len(SubSeq(u, 2, n + 1)) = n
        /\ \A i \in 1..n : SubSeq(u, 2, n + 1)[i] = u[i + 1]
    BY <1>0, <2>4
  <2>9. /\ SubSeq(w, d + 2, n + d + 1) \in Seq(S) /\ Len(SubSeq(w, d + 2, n + d + 1)) = n
        /\ \A i \in 1..n : SubSeq(w, d + 2, n + d + 1)[i] = w[i + d + 1]
    BY <1>0, <2>2, <2>5
  <2>10. \A i \in 1..n : u[i + 1] = w[i + d + 1]
    <3> SUFFICES ASSUME NEW i \in 1..n PROVE u[i + 1] = w[i + d + 1]
      OBVIOUS
    <3>1. CASE i = n
      <4>1. i + 1 = n + 1 /\ i + d + 1 = n + d + 1
        BY <3>1
      <4> QED BY <2>4, <2>5, <4>1
    <3>2. CASE i # n
      <4>1. i + 1 \in 1..n /\ i + d + 1 \in 1..(n + d) /\ (i + 1) + d = i + d + 1
        BY <1>0, <2>2, <3>2
      <4>2. u[i + 1] = s[(i + 1) + d] /\ w[i + d + 1] = s[i + d + 1]
        BY <2>4, <2>5, <4>1
      <4> QED BY <4>1, <4>2
    <3> QED BY <3>1, <3>2
  <2> DEFINE a == SubSeq(u, 2, n + 1)
             b == SubSeq(w, d + 2, n + d + 1)
  <2>11. a \in Seq(S) /\ b \in Seq(S) /\ Len(a) = Len(b) /\ \A i \in 1..Len(a) : a[i] = b[i]
    <3> HIDE DEF u, w
    <3>1. a \in Seq(S) /\ Len(a) = n /\ \A i \in 1..n : a[i] = u[i + 1]
      BY <2>8
    <3>2. b \in Seq(S) /\ Len(b) = n /\ \A i \in 1..n : b[i] = w[i + d + 1]
      BY <2>9
    <3> HIDE DEF a, b
    <3> QED BY <2>10, <3>1, <3>2
  <2> HIDE DEF a, b
  <2>12. a = b
    BY <2>11, SeqEqual
  <2> QED BY <2>1, <2>6, <2>7, <2>12 DEF a, b, u, w
<1> QED BY <1>0, <1>1, <1>2

(* A prune drops the first admissions, none of them fresh.                  *)
LEMMA PrunedIsRest ==
  ASSUME TypeOK, NEW k \in Keys
  PROVE  /\ Pruned(k) \in Seq(0..MaxNow)
         /\ \E d : IsRest(Pruned(k), reservations[k], d) /\ \A i \in 1..d : ~Fresh(reservations[k][i])
<1> DEFINE list == reservations[k]
           fresh == {i \in DOMAIN list : Fresh(list[i])}
<1>0. list \in Seq(0..MaxNow)
  BY DEF TypeOK
<1>1. Len(list) \in Nat /\ DOMAIN list = 1..Len(list)
  BY <1>0
<1>2. CASE fresh = {}
  <2>1. Pruned(k) = <<>>
    BY <1>2 DEF Pruned
  <2>2. IsRest(<<>>, list, Len(list))
    BY <1>1 DEF IsRest
  <2>3. \A i \in 1..Len(list) : ~Fresh(list[i])
    BY <1>1, <1>2
  <2> QED BY <2>1, <2>2, <2>3
<1>3. CASE fresh # {}
  <2>1. fresh \subseteq Nat
    BY <1>1
  <2> DEFINE first == CHOOSE i \in fresh : \A j \in fresh : i <= j
  <2>2. first \in fresh /\ \A j \in fresh : first <= j
    <3> HIDE DEF fresh
    <3> QED BY <1>3, <2>1, LeastNumber
  <2>3. Pruned(k) = SubSeq(list, first, Len(list))
    BY <1>3 DEF Pruned
  <2> HIDE DEF first
  <2>4. first \in 1..Len(list)
    BY <1>1, <2>2
  <2> DEFINE d == first - 1
             t == SubSeq(list, first, Len(list))
  <2>5. d \in Nat /\ first = d + 1 /\ Len(list) - d \in Nat
    BY <1>1, <2>4
  <2> HIDE DEF list
  <2>6. t \in Seq(0..MaxNow) /\ Len(t) = Len(list) - d /\ \A i \in 1..(Len(list) - d) : t[i] = list[i + d]
    <3> DEFINE Times == 0..MaxNow
    <3> HIDE DEF Times
    <3>1. list \in Seq(Times)
      BY <1>0 DEF Times
    <3>2. t \in Seq(Times)
      BY <3>1, <2>4, <1>1
    <3>3. Len(t) = Len(list) - first + 1 /\ \A i \in 1..(Len(list) - first + 1) : t[i] = list[first + i - 1]
      BY <3>1, <2>4, <1>1
    <3>4. Len(list) - first + 1 = Len(list) - d /\ \A i \in 1..(Len(list) - d) : first + i - 1 = i + d
      BY <1>1, <2>4, <2>5
    <3> QED BY <3>2, <3>3, <3>4 DEF Times
  <2> HIDE DEF t
  <2>7. IsRest(t, list, d)
    BY <1>1, <2>5, <2>6 DEF IsRest
  <2>8. \A i \in 1..d : ~Fresh(list[i])
    <3> SUFFICES ASSUME NEW i \in 1..d, Fresh(list[i]) PROVE FALSE
      OBVIOUS
    <3>1. i \in DOMAIN list /\ ~(first <= i)
      BY <1>1, <2>4, <2>5
    <3> QED BY <2>2, <3>1
  <2> QED BY <2>3, <2>6, <2>7, <2>8 DEF t, list
<1> QED BY <1>2, <1>3

-----------------------------------------------------------------------------
(* The accounts: who came in has a time, and every row and reservation of a *)
(* key can be laid to a request of its own, the rows to served ones.        *)
Admissions ==
  \A r \in Requests :
    /\ pc[r] = "idle" => key[r] = NoKey /\ admittedAt[r] = Never
    /\ pc[r] # "idle" => admittedAt[r] \in 0..now

RowsOf(k) == {e \in Event : e.key = k}
Served(k) == {r \in Of(k) : pc[r] = "served"}

Counting ==
  \A k \in Keys :
    /\ Cardinality(Hits(events, RowsOf(k))) <= Cardinality(Served(k))
    /\ Cardinality(Hits(events, RowsOf(k))) + Len(reservations[k]) <= Cardinality(Of(k))

AccountsInv == TypeOK /\ Admissions /\ Counting /\ TrackerMirrorsStore

LEMMA RequestsCount ==
  ASSUME NEW R, R \subseteq Requests
  PROVE  IsFiniteSet(R) /\ Cardinality(R) \in Nat /\ Cardinality(R) <= Cardinality(Requests)
BY GateAssumption, FS_Subset, FS_CardinalityType

LEMMA TablesAreTyped ==
  ASSUME NEW t \in Tables, NEW k \in DOMAIN t
  PROVE  k \in Keys /\ t[k].requests \in Limit /\ t[k].tokens \in Limit
BY GateAssumption

(* What the tracker's record does to the rows of each key.                  *)
LEMMA RecordKeeps ==
  ASSUME TypeOK, TrackerMirrorsStore, NEW e \in Event, RecordUsage(e)
  PROVE  /\ events' \in Seq(Event) /\ rows' \in Seq(Event) /\ TrackerMirrorsStore'
         /\ \A k : /\ e \in RowsOf(k) => Cardinality(Hits(events', RowsOf(k))) <= Cardinality(Hits(events, RowsOf(k))) + 1
                   /\ e \notin RowsOf(k) => Cardinality(Hits(events', RowsOf(k))) <= Cardinality(Hits(events, RowsOf(k)))
<1>1. events \in Seq(Event) /\ rows \in Seq(Event) /\ MaxEvents \in Nat \ {0}
  BY GateAssumption DEF TypeOK
<1>2. events' = LastOf(Append(events, e), MaxEvents) /\ rows' = Append(rows, e)
  BY DEF RecordUsage
<1>3. Append(events, e) \in Seq(Event) /\ Append(rows, e) \in Seq(Event)
  BY <1>1
<1>4. events' \in Seq(Event) /\ \E d : IsRest(events', Append(events, e), d)
  BY <1>1, <1>2, <1>3, LastOfIsRest
<1>5. TrackerMirrorsStore'
  <2>1. events' = LastOf(Append(rows, e), MaxEvents)
    BY <1>1, <1>2, LastOfLater DEF TrackerMirrorsStore
  <2> QED BY <1>2, <2>1 DEF TrackerMirrorsStore
<1>6. ASSUME NEW k
      PROVE  /\ e \in RowsOf(k) => Cardinality(Hits(events', RowsOf(k))) <= Cardinality(Hits(events, RowsOf(k))) + 1
             /\ e \notin RowsOf(k) => Cardinality(Hits(events', RowsOf(k))) <= Cardinality(Hits(events, RowsOf(k)))
  <2>1. Cardinality(Hits(events', RowsOf(k))) <= Cardinality(Hits(Append(events, e), RowsOf(k)))
    <3>1. PICK d : IsRest(events', Append(events, e), d)
      BY <1>4
    <3> QED BY <1>3, <1>4, <3>1, HitsOfRest
  <2>2. /\ e \in RowsOf(k) => Cardinality(Hits(Append(events, e), RowsOf(k))) = Cardinality(Hits(events, RowsOf(k))) + 1
        /\ e \notin RowsOf(k) => Cardinality(Hits(Append(events, e), RowsOf(k))) = Cardinality(Hits(events, RowsOf(k)))
    BY <1>1, HitsAppend
  <2> QED BY <2>1, <2>2
<1> QED BY <1>2, <1>3, <1>4, <1>5, <1>6

LEMMA InitAccounts == Init => AccountsInv
<1> SUFFICES ASSUME Init PROVE AccountsInv
  OBVIOUS
<1>0. MaxNow \in Nat /\ MaxEvents \in Nat
  BY GateAssumption
<1>1. TypeOK
  BY <1>0 DEF Init, TypeOK
<1>2. Admissions
  BY DEF Init, Admissions
<1>3. TrackerMirrorsStore
  BY <1>0 DEF Init, TrackerMirrorsStore, LastOf
<1>4. ASSUME NEW k \in Keys
      PROVE  /\ Cardinality(Hits(events, RowsOf(k))) <= Cardinality(Served(k))
             /\ Cardinality(Hits(events, RowsOf(k))) + Len(reservations[k]) <= Cardinality(Of(k))
  <2>1. events = <<>> /\ reservations[k] = <<>> /\ Len(reservations[k]) = 0
    BY DEF Init
  <2>2. Hits(events, RowsOf(k)) = {}
    BY <2>1 DEF Hits
  <2>3. Cardinality(Hits(events, RowsOf(k))) = 0
    BY <2>2, FS_EmptySet
  <2>4. Cardinality(Served(k)) \in Nat /\ Cardinality(Of(k)) \in Nat
    BY RequestsCount DEF Served, Of
  <2> QED BY <2>1, <2>3, <2>4
<1> QED BY <1>1, <1>2, <1>3, <1>4 DEF AccountsInv, Counting

(* Steps after which no key has more rows or reservations, and each still   *)
(* has its requests.                                                        *)
LEMMA CountingStays ==
  ASSUME TypeOK, Counting, TypeOK',
         \A k \in Keys :
           /\ Cardinality(Hits(events', RowsOf(k))) <= Cardinality(Hits(events, RowsOf(k)))
           /\ Len(reservations'[k]) <= Len(reservations[k])
           /\ Served(k) \subseteq Served(k)' /\ Of(k) \subseteq Of(k)'
  PROVE  Counting'
<1> SUFFICES ASSUME NEW k \in Keys
             PROVE  /\ Cardinality(Hits(events', RowsOf(k))) <= Cardinality(Served(k)')
                    /\ Cardinality(Hits(events', RowsOf(k))) + Len(reservations'[k]) <= Cardinality(Of(k)')
  BY DEF Counting
<1>1. /\ IsFiniteSet(Served(k)') /\ IsFiniteSet(Of(k)')
      /\ Cardinality(Served(k)') \in Nat /\ Cardinality(Of(k)') \in Nat
      /\ Cardinality(Served(k)) \in Nat /\ Cardinality(Of(k)) \in Nat
  BY RequestsCount DEF Served, Of
<1>2. Cardinality(Served(k)) <= Cardinality(Served(k)') /\ Cardinality(Of(k)) <= Cardinality(Of(k)')
  BY <1>1, FS_Subset
<1>3. Cardinality(Hits(events', RowsOf(k))) \in Nat /\ Cardinality(Hits(events, RowsOf(k))) \in Nat
  BY HitsCount DEF TypeOK
<1>4. Len(reservations'[k]) \in Nat /\ Len(reservations[k]) \in Nat
  BY DEF TypeOK
<1> QED BY <1>1, <1>2, <1>3, <1>4 DEF Counting

LEMMA AdmitKeepsAccounts ==
  ASSUME AccountsInv, NEW r \in Requests, NEW k \in Keys, Admit(r, k)
  PROVE  AccountsInv'
<1>0. TypeOK /\ Admissions /\ Counting /\ TrackerMirrorsStore
  BY DEF AccountsInv
<1>1. /\ reservations' = [reservations EXCEPT ![k] = Append(Pruned(k), now)]
      /\ pc' = [pc EXCEPT ![r] = "open"] /\ key' = [key EXCEPT ![r] = k]
      /\ admittedAt' = [admittedAt EXCEPT ![r] = now]
      /\ UNCHANGED <<now, table, events, rows, forgotten>> /\ pc[r] = "idle" /\ key[r] = NoKey
  BY <1>0 DEF Admit, tracker, Admissions
<1>2. Pruned(k) \in Seq(0..MaxNow) /\ \E d : IsRest(Pruned(k), reservations[k], d)
  BY <1>0, PrunedIsRest
<1>3. now \in 0..MaxNow /\ reservations \in [Keys -> Seq(0..MaxNow)]
  BY <1>0 DEF TypeOK
<1>4. Append(Pruned(k), now) \in Seq(0..MaxNow) /\ Len(Append(Pruned(k), now)) <= Len(reservations[k]) + 1
  <2>1. Len(Pruned(k)) \in Nat /\ Len(reservations[k]) \in Nat /\ Len(Pruned(k)) <= Len(reservations[k])
    BY <1>2, <1>3 DEF IsRest
  <2> DEFINE Times == 0..MaxNow
             p == Pruned(k)
  <2>2. p \in Seq(Times) /\ now \in Times
    BY <1>2, <1>3
  <2> HIDE DEF Times, p
  <2>3. Append(p, now) \in Seq(Times) /\ Len(Append(p, now)) = Len(p) + 1
    BY <2>2
  <2> QED BY <2>1, <2>3 DEF Times, p
<1>5. TypeOK'
  <2>1. reservations' \in [Keys -> Seq(0..MaxNow)]
    BY <1>1, <1>3, <1>4
  <2>2. /\ pc' \in [Requests -> {"idle", "open", "served", "failed"}]
        /\ key' \in [Requests -> Keys \cup {NoKey}]
        /\ admittedAt' \in [Requests -> {Never} \cup 0..MaxNow]
    BY <1>0, <1>1 DEF TypeOK
  <2> QED BY <1>0, <1>1, <2>1, <2>2 DEF TypeOK
<1>6. Admissions'
  BY <1>0, <1>1, <1>3 DEF Admissions, TypeOK
<1>7. TrackerMirrorsStore'
  BY <1>0, <1>1 DEF TrackerMirrorsStore
<1>8. ASSUME NEW j \in Keys
      PROVE  /\ Cardinality(Hits(events', RowsOf(j))) <= Cardinality(Served(j)')
             /\ Cardinality(Hits(events', RowsOf(j))) + Len(reservations'[j]) <= Cardinality(Of(j)')
  <2>1. Served(j)' = Served(j)
    BY <1>0, <1>1, GateAssumption DEF Served, Of, TypeOK
  <2>2. Cardinality(Hits(events, RowsOf(j))) \in Nat /\ Cardinality(Of(j)) \in Nat /\ IsFiniteSet(Of(j))
    BY <1>0, HitsCount, RequestsCount DEF TypeOK, Of
  <2>3. CASE j = k
    <3>1. Of(j)' = Of(j) \cup {r} /\ r \notin Of(j)
      BY <1>0, <1>1, <2>3, GateAssumption DEF Of, TypeOK
    <3>2. Cardinality(Of(j)') = Cardinality(Of(j)) + 1
      BY <2>2, <3>1, FS_AddElement
    <3>3. Len(reservations'[j]) <= Len(reservations[j]) + 1 /\ Len(reservations[j]) \in Nat /\ Len(reservations'[j]) \in Nat
      BY <1>1, <1>3, <1>4, <1>5, <2>3 DEF TypeOK
    <3> QED BY <1>0, <1>1, <2>1, <2>2, <3>2, <3>3 DEF Counting
  <2>4. CASE j # k
    <3>1. Of(j)' = Of(j)
      BY <1>0, <1>1, <2>4, GateAssumption DEF Of, TypeOK
    <3>2. reservations'[j] = reservations[j]
      BY <1>1, <1>3, <2>4
    <3> QED BY <1>0, <1>1, <2>1, <3>1, <3>2 DEF Counting
  <2> QED BY <2>3, <2>4
<1> QED BY <1>5, <1>6, <1>7, <1>8 DEF AccountsInv, Counting

LEMMA CompleteKeepsAccounts ==
  ASSUME AccountsInv, NEW r \in Requests, Complete(r)
  PROVE  AccountsInv'
<1>0. TypeOK /\ Admissions /\ Counting /\ TrackerMirrorsStore
  BY DEF AccountsInv
<1>1. /\ pc[r] = "open" /\ pc' = [pc EXCEPT ![r] = "served"]
      /\ UNCHANGED <<now, table, key, admittedAt, forgotten>> /\ Reconcile(key[r])
  BY DEF Complete
<1>2. /\ key[r] \in Keys \cup {NoKey} /\ now \in 0..MaxNow /\ reservations \in [Keys -> Seq(0..MaxNow)]
      /\ events \in Seq(Event) /\ rows \in Seq(Event)
  BY <1>0 DEF TypeOK
<1>3. /\ reservations' \in [Keys -> Seq(0..MaxNow)]
      /\ \A j \in Keys :
           /\ j # key[r] => reservations'[j] = reservations[j]
           /\ j = key[r] /\ reservations[j] # <<>> =>
                Len(reservations[j]) \in Nat \ {0} /\ Len(reservations'[j]) = Len(reservations[j]) - 1
           /\ j = key[r] /\ reservations[j] = <<>> => reservations'[j] = <<>>
  <2>1. CASE key[r] = NoKey \/ reservations[key[r]] = <<>>
    BY <1>1, <1>2, <2>1, GateAssumption DEF Reconcile
  <2>2. CASE ~(key[r] = NoKey \/ reservations[key[r]] = <<>>)
    <3>1. key[r] \in Keys /\ reservations' = [reservations EXCEPT ![key[r]] = Tail(reservations[key[r]])]
      BY <1>1, <1>2, <2>2 DEF Reconcile
    <3> DEFINE list == reservations[key[r]]
               Times == 0..MaxNow
    <3>2. list \in Seq(Times) /\ list # <<>>
      BY <1>2, <2>2, <3>1
    <3> HIDE DEF list, Times
    <3>3. Tail(list) \in Seq(Times) /\ Len(list) \in Nat \ {0} /\ Len(Tail(list)) = Len(list) - 1
      BY <3>2
    <3>4. reservations' = [reservations EXCEPT ![key[r]] = Tail(list)]
      BY <3>1 DEF list
    <3>5. reservations' \in [Keys -> Seq(Times)]
      BY <1>2, <3>1, <3>3, <3>4 DEF Times
    <3>6. reservations'[key[r]] = Tail(list) /\ \A j \in Keys : j # key[r] => reservations'[j] = reservations[j]
      BY <1>2, <3>1, <3>4
    <3> QED BY <2>2, <3>3, <3>5, <3>6 DEF list, Times
  <2> QED BY <2>1, <2>2
<1>4. PICK e \in Event : e.key = key[r] /\ (RecordUsage(e) \/ (key[r] = NoKey /\ UNCHANGED <<events, rows>>))
  <2>1. CASE \E n \in 0..MaxTokens : RecordUsage([key |-> key[r], at |-> now, tokens |-> n])
    <3>1. PICK n \in 0..MaxTokens : RecordUsage([key |-> key[r], at |-> now, tokens |-> n])
      BY <2>1
    <3>2. [key |-> key[r], at |-> now, tokens |-> n] \in Event
      BY <1>2 DEF Event
    <3> QED BY <3>1, <3>2
  <2>2. CASE key[r] = NoKey /\ UNCHANGED tracker
    <3>1. [key |-> key[r], at |-> now, tokens |-> 0] \in Event
      BY <1>2, GateAssumption DEF Event
    <3> QED BY <2>2, <3>1 DEF tracker
  <2> QED BY <2>1, <2>2 DEF Complete
<1>5. /\ events' \in Seq(Event) /\ rows' \in Seq(Event) /\ TrackerMirrorsStore'
      /\ \A j \in Keys :
           /\ j = key[r] => Cardinality(Hits(events', RowsOf(j))) <= Cardinality(Hits(events, RowsOf(j))) + 1
           /\ j # key[r] => Cardinality(Hits(events', RowsOf(j))) <= Cardinality(Hits(events, RowsOf(j)))
  <2>1. CASE RecordUsage(e)
    <3>1. \A j : e \in RowsOf(j) <=> j = key[r]
      BY <1>4 DEF RowsOf
    <3> QED BY <1>0, <2>1, <3>1, RecordKeeps
  <2>2. CASE key[r] = NoKey /\ UNCHANGED <<events, rows>>
    <3>1. TrackerMirrorsStore'
      BY <1>0, <2>2 DEF TrackerMirrorsStore
    <3>2. \A j \in Keys : j # key[r] /\ Cardinality(Hits(events, RowsOf(j))) \in Nat
      BY <1>2, <2>2, HitsCount, GateAssumption
    <3> QED BY <1>2, <2>2, <3>1, <3>2
  <2> QED BY <1>4, <2>1, <2>2
<1>6. TypeOK'
  <2>1. pc' \in [Requests -> {"idle", "open", "served", "failed"}]
    BY <1>0, <1>1 DEF TypeOK
  <2> QED BY <1>0, <1>1, <1>3, <1>5, <2>1 DEF TypeOK
<1>7. Admissions'
  BY <1>0, <1>1 DEF Admissions, TypeOK
<1>8. ASSUME NEW j \in Keys
      PROVE  /\ Cardinality(Hits(events', RowsOf(j))) <= Cardinality(Served(j)')
             /\ Cardinality(Hits(events', RowsOf(j))) + Len(reservations'[j]) <= Cardinality(Of(j)')
  <2>1. Of(j)' = Of(j)
    BY <1>1 DEF Of
  <2>2. /\ IsFiniteSet(Of(j)) /\ IsFiniteSet(Served(j)) /\ Cardinality(Of(j)) \in Nat /\ Cardinality(Served(j)) \in Nat
    BY RequestsCount DEF Of, Served
  <2>3. /\ Cardinality(Hits(events, RowsOf(j))) \in Nat /\ Cardinality(Hits(events', RowsOf(j))) \in Nat
        /\ Cardinality(Hits(events, RowsOf(j))) <= Cardinality(Served(j))
        /\ Cardinality(Hits(events, RowsOf(j))) + Len(reservations[j]) <= Cardinality(Of(j))
    BY <1>0, <1>2, <1>5, HitsCount DEF Counting
  <2>4. CASE j = key[r]
    <3>1. Served(j)' = Served(j) \cup {r} /\ r \notin Served(j)
      BY <1>0, <1>1, <2>4 DEF Served, Of, TypeOK
    <3>2. Cardinality(Served(j)') = Cardinality(Served(j)) + 1
      BY <2>2, <3>1, FS_AddElement
    <3>3. Served(j)' \subseteq Of(j)
      BY <1>1 DEF Served, Of
    <3>4. Cardinality(Served(j)') <= Cardinality(Of(j))
      BY <2>2, <3>3, FS_Subset
    <3>5. Cardinality(Hits(events', RowsOf(j))) <= Cardinality(Hits(events, RowsOf(j))) + 1
      BY <1>5, <2>4
    <3>6. CASE reservations[j] = <<>>
      <4>1. Len(reservations'[j]) = 0
        BY <1>3, <2>4, <3>6
      <4> QED BY <2>1, <2>2, <2>3, <3>2, <3>4, <3>5, <4>1
    <3>7. CASE reservations[j] # <<>>
      <4>1. Len(reservations[j]) \in Nat \ {0} /\ Len(reservations'[j]) = Len(reservations[j]) - 1
        BY <1>3, <2>4, <3>7
      <4> QED BY <2>1, <2>2, <2>3, <3>2, <3>5, <4>1
    <3> QED BY <3>6, <3>7
  <2>5. CASE j # key[r]
    <3>1. Served(j)' = Served(j)
      BY <1>0, <1>1, <2>5 DEF Served, Of, TypeOK
    <3>2. reservations'[j] = reservations[j] /\ Len(reservations[j]) \in Nat
      BY <1>2, <1>3, <2>5
    <3> QED BY <1>5, <2>1, <2>2, <2>3, <2>5, <3>1, <3>2
  <2> QED BY <2>4, <2>5
<1> QED BY <1>5, <1>6, <1>7, <1>8 DEF AccountsInv, Counting

(* The steps that only forget, give up, prune or let time pass.             *)
LEMMA OthersKeepAccounts ==
  ASSUME AccountsInv,
         \/ \E r \in Requests : AdmitUngated(r) \/ AnswerFails(r)
         \/ \E k \in Keys : Deny(k)
         \/ \E t \in Tables : TakeTable(t)
         \/ ResetUsage
         \/ BridgeRestarts
         \/ Tick
         \/ UNCHANGED vars
  PROVE  AccountsInv'
<1>0. TypeOK /\ Admissions /\ Counting /\ TrackerMirrorsStore
  BY DEF AccountsInv
<1> DEFINE empty == [k \in Keys |-> <<>>]
<1>1. /\ events \in Seq(Event) /\ rows \in Seq(Event) /\ reservations \in [Keys -> Seq(0..MaxNow)]
      /\ empty \in [Keys -> Seq(0..MaxNow)] /\ MaxEvents \in Nat \ {0} /\ now \in 0..MaxNow /\ MaxNow \in Nat
      /\ \A k \in Keys : Cardinality(Hits(events, RowsOf(k))) \in Nat /\ Len(reservations[k]) \in Nat
  BY <1>0, HitsCount, GateAssumption DEF TypeOK
<1> HIDE DEF empty
<1>2. ASSUME NEW r \in Requests, AdmitUngated(r) PROVE AccountsInv'
  <2>1. /\ pc[r] = "idle" /\ pc' = [pc EXCEPT ![r] = "open"] /\ admittedAt' = [admittedAt EXCEPT ![r] = now]
        /\ UNCHANGED <<now, table, reservations, events, rows, key, forgotten>>
    BY <1>2 DEF AdmitUngated, tracker
  <2>2. TypeOK' /\ Admissions' /\ TrackerMirrorsStore'
    BY <1>0, <1>1, <2>1 DEF TypeOK, Admissions, TrackerMirrorsStore
  <2>3. \A k \in Keys : Served(k) \subseteq Served(k)' /\ Of(k) \subseteq Of(k)'
    BY <1>0, <2>1 DEF Served, Of, TypeOK
  <2>4. Counting'
    BY <1>0, <1>1, <2>1, <2>2, <2>3, CountingStays
  <2> QED BY <2>2, <2>4 DEF AccountsInv
<1>3. ASSUME NEW r \in Requests, AnswerFails(r) PROVE AccountsInv'
  <2>1. /\ pc[r] = "open" /\ pc' = [pc EXCEPT ![r] = "failed"]
        /\ UNCHANGED <<now, table, reservations, events, rows, key, admittedAt, forgotten>>
    BY <1>3 DEF AnswerFails, tracker, ghosts
  <2>2. TypeOK' /\ Admissions' /\ TrackerMirrorsStore'
    BY <1>0, <2>1 DEF TypeOK, Admissions, TrackerMirrorsStore
  <2>3. \A k \in Keys : Served(k) \subseteq Served(k)' /\ Of(k) \subseteq Of(k)'
    BY <1>0, <2>1 DEF Served, Of, TypeOK
  <2>4. Counting'
    BY <1>0, <1>1, <2>1, <2>2, <2>3, CountingStays
  <2> QED BY <2>2, <2>4 DEF AccountsInv
<1>4. ASSUME NEW k \in Keys, Deny(k) PROVE AccountsInv'
  <2>1. /\ reservations' = [reservations EXCEPT ![k] = Pruned(k)]
        /\ UNCHANGED <<now, table, events, rows, pc, key, admittedAt, forgotten>>
    BY <1>4 DEF Deny, tracker
  <2>2. Pruned(k) \in Seq(0..MaxNow) /\ Len(Pruned(k)) <= Len(reservations[k])
    <3>1. Pruned(k) \in Seq(0..MaxNow) /\ \E d : IsRest(Pruned(k), reservations[k], d)
      BY <1>0, PrunedIsRest
    <3>2. Len(Pruned(k)) \in Nat
      BY <3>1
    <3> QED BY <1>1, <3>1, <3>2 DEF IsRest
  <2>3. TypeOK' /\ Admissions' /\ TrackerMirrorsStore'
    <3>1. reservations' \in [Keys -> Seq(0..MaxNow)]
      BY <1>1, <2>1, <2>2
    <3> QED BY <1>0, <2>1, <3>1 DEF TypeOK, Admissions, TrackerMirrorsStore
  <2>4. \A j \in Keys : Served(j)' = Served(j) /\ Of(j)' = Of(j)
    BY <2>1 DEF Served, Of
  <2>5. \A j \in Keys : Len(reservations'[j]) <= Len(reservations[j])
    BY <1>1, <2>1, <2>2
  <2>6. Counting'
    BY <1>0, <1>1, <2>1, <2>3, <2>4, <2>5, CountingStays
  <2> QED BY <2>3, <2>6 DEF AccountsInv
<1>5. ASSUME NEW t \in Tables, TakeTable(t) PROVE AccountsInv'
  <2>1. /\ reservations' = empty /\ table' = t /\ forgotten' \subseteq Requests
        /\ UNCHANGED <<now, events, rows, pc, key, admittedAt>>
    BY <1>5 DEF TakeTable, tracker, empty
  <2>2. TypeOK' /\ Admissions' /\ TrackerMirrorsStore'
    BY <1>0, <1>1, <2>1 DEF TypeOK, Admissions, TrackerMirrorsStore
  <2>3. \A j \in Keys : Served(j)' = Served(j) /\ Of(j)' = Of(j)
    BY <2>1 DEF Served, Of
  <2>4. \A j \in Keys : Len(reservations'[j]) <= Len(reservations[j])
    BY <1>1, <2>1 DEF empty
  <2>5. Counting'
    BY <1>0, <1>1, <2>1, <2>2, <2>3, <2>4, CountingStays
  <2> QED BY <2>2, <2>5 DEF AccountsInv
<1>6. ASSUME ResetUsage PROVE AccountsInv'
  <2>1. /\ events' = <<>> /\ rows' = <<>> /\ forgotten' \subseteq Requests
        /\ UNCHANGED <<now, table, reservations, pc, key, admittedAt>>
    BY <1>6 DEF ResetUsage
  <2>2. TrackerMirrorsStore'
    BY <1>1, <2>1 DEF TrackerMirrorsStore, LastOf
  <2>3. TypeOK' /\ Admissions'
    BY <1>0, <2>1 DEF TypeOK, Admissions
  <2>4. \A j \in Keys : Cardinality(Hits(events', RowsOf(j))) = 0
    <3>1. \A j \in Keys : Hits(events', RowsOf(j)) = {}
      BY <2>1 DEF Hits
    <3> QED BY <3>1, FS_EmptySet
  <2>5. \A j \in Keys : Served(j)' = Served(j) /\ Of(j)' = Of(j)
    BY <2>1 DEF Served, Of
  <2>6. Counting'
    BY <1>0, <1>1, <2>1, <2>3, <2>4, <2>5, CountingStays
  <2> QED BY <2>2, <2>3, <2>6 DEF AccountsInv
<1>7. ASSUME BridgeRestarts PROVE AccountsInv'
  <2>1. /\ reservations' = empty /\ events' = events /\ forgotten' \subseteq Requests
        /\ pc' = [r \in Requests |-> IF pc[r] = "open" THEN "failed" ELSE pc[r]]
        /\ UNCHANGED <<now, table, rows, key, admittedAt>>
    BY <1>0, <1>7 DEF BridgeRestarts, empty, TrackerMirrorsStore
  <2>2. TypeOK' /\ Admissions' /\ TrackerMirrorsStore'
    BY <1>0, <1>1, <2>1 DEF TypeOK, Admissions, TrackerMirrorsStore
  <2>3. \A j \in Keys : Served(j) \subseteq Served(j)' /\ Of(j) \subseteq Of(j)'
    BY <1>0, <2>1 DEF Served, Of, TypeOK
  <2>4. \A j \in Keys : Len(reservations'[j]) <= Len(reservations[j])
    BY <1>1, <2>1 DEF empty
  <2>5. Counting'
    BY <1>0, <1>1, <2>1, <2>2, <2>3, <2>4, CountingStays
  <2> QED BY <2>2, <2>5 DEF AccountsInv
<1>8. ASSUME Tick PROVE AccountsInv'
  <2>1. /\ now' = now + 1 /\ now' \in 0..MaxNow
        /\ UNCHANGED <<table, reservations, events, rows, pc, key, admittedAt, forgotten>>
    BY <1>1, <1>8 DEF Tick, tracker, ghosts
  <2>2. TypeOK' /\ TrackerMirrorsStore'
    BY <1>0, <2>1 DEF TypeOK, TrackerMirrorsStore
  <2>3. Admissions'
    <3>1. 0..now \subseteq 0..now'
      BY <1>1, <2>1
    <3> QED BY <1>0, <2>1, <3>1 DEF Admissions
  <2>4. \A j \in Keys : Served(j)' = Served(j) /\ Of(j)' = Of(j)
    BY <2>1 DEF Served, Of
  <2>5. Counting'
    BY <1>0, <2>1, <2>4 DEF Counting
  <2> QED BY <2>2, <2>3, <2>5 DEF AccountsInv
<1>9. ASSUME UNCHANGED vars PROVE AccountsInv'
  <2>1. UNCHANGED <<now, table, reservations, events, rows, pc, key, admittedAt, forgotten>>
    BY <1>9 DEF vars, tracker, ghosts
  <2>2. TypeOK' /\ Admissions' /\ TrackerMirrorsStore'
    BY <1>0, <2>1 DEF TypeOK, Admissions, TrackerMirrorsStore
  <2>3. \A j \in Keys : Served(j)' = Served(j) /\ Of(j)' = Of(j)
    BY <2>1 DEF Served, Of
  <2>4. Counting'
    BY <1>0, <2>1, <2>3 DEF Counting
  <2> QED BY <2>2, <2>4 DEF AccountsInv
<1> QED BY <1>2, <1>3, <1>4, <1>5, <1>6, <1>7, <1>8, <1>9

LEMMA AccountsStep == AccountsInv /\ [Next]_vars => AccountsInv'
<1> SUFFICES ASSUME AccountsInv, [Next]_vars PROVE AccountsInv'
  OBVIOUS
<1>1. CASE \E r \in Requests : \E k \in Keys : Admit(r, k)
  BY <1>1, AdmitKeepsAccounts
<1>2. CASE \E r \in Requests : Complete(r)
  BY <1>2, CompleteKeepsAccounts
<1>3. CASE ~(\E r \in Requests : \E k \in Keys : Admit(r, k)) /\ ~(\E r \in Requests : Complete(r))
  BY <1>3, OthersKeepAccounts DEF Next
<1> QED BY <1>1, <1>2, <1>3

LEMMA AccountsFollow == AccountsInv => AccountsAreRight
<1> SUFFICES ASSUME AccountsInv PROVE NothingCountedTwice
  BY DEF AccountsInv, AccountsAreRight
<1>1. \A k \in Keys : Hits(events, RowsOf(k)) = {i \in DOMAIN events : events[i].key = k}
  <2>1. \A i \in DOMAIN events : events[i] \in Event
    BY DEF AccountsInv, TypeOK
  <2> QED BY <2>1 DEF Hits, RowsOf
<1> QED BY <1>1 DEF AccountsInv, Counting, NothingCountedTwice

(* Whatever lands in whatever order, with restarts, resets and new gates in *)
(* between: the tracker and the store agree, and no request of a key takes  *)
(* more than one of its slots.                                              *)
THEOREM AccountsStayRight == Spec => []AccountsAreRight
<1>1. AccountsInv /\ [Next]_vars => AccountsInv'
  BY AccountsStep
<1> QED BY InitAccounts, <1>1, AccountsFollow, PTL DEF Spec

-----------------------------------------------------------------------------
(* The limits: who was admitted after a time of the window is covered by a  *)
(* row or a reservation of the time after it, though the reservation that   *)
(* gave way was another's; of the rows, the full ring may have lost some,   *)
(* and only for those was one more admitted; and no open request is younger *)
(* than the row its key's tokens ran out with.                              *)
RowsAfter(k, T) == {e \in Event : e.key = k /\ e.at > T}
TimesAfter(T) == {t \in 0..MaxNow : t > T}
Admitted(k, T) == {r \in Of(k) \ forgotten : admittedAt[r] > T}

Covered ==
  \A k \in Keys, T \in Int : T >= now - Window =>
    Cardinality(Admitted(k, T)) <=
      Cardinality(Hits(rows, RowsAfter(k, T))) + Cardinality(Hits(reservations[k], TimesAfter(T)))

Lost(k, T) == {i \in Rolled : rows[i] \in RowsAfter(k, T)}

UnderLimit ==
  \A k \in Usable : table[k].requests # Unlimited =>
    \A T \in Int : T >= now - Window =>
      Cardinality(Admitted(k, T)) <= table[k].requests + Cardinality(Lost(k, T))

Weights(s, k, T) ==
  [i \in DOMAIN s |-> IF s[i].key = k /\ s[i].at >= T THEN s[i].tokens ELSE 0]

InFlight ==
  \A k \in Usable : table[k].tokens # Unlimited =>
    \A T \in Int : T >= now - Window =>
      \A i \in DOMAIN events : Sums(Weights(events, k, T))[i] >= table[k].tokens =>
        \A r \in Of(k) \ forgotten : pc[r] = "open" => admittedAt[r] <= events[i].at

LimitsInv == AccountsInv /\ Covered /\ UnderLimit /\ InFlight

LEMMA WeightsAre ==
  ASSUME NEW s \in Seq(Event), NEW k, NEW T \in Int
  PROVE  /\ Weights(s, k, T) \in Seq(Nat) /\ Len(Weights(s, k, T)) = Len(s)
         /\ \A i \in 1..Len(s) :
              /\ s[i].key = k /\ s[i].at >= T => Weights(s, k, T)[i] = s[i].tokens
              /\ ~(s[i].key = k /\ s[i].at >= T) => Weights(s, k, T)[i] = 0
<1>1. Len(s) \in Nat /\ DOMAIN s = 1..Len(s) /\ \A i \in 1..Len(s) : s[i] \in Event
  OBVIOUS
<1>2. \A i \in 1..Len(s) : s[i].tokens \in Nat
  BY <1>1, GateAssumption DEF Event
<1>3. Weights(s, k, T) \in [1..Len(s) -> Nat]
  BY <1>1, <1>2 DEF Weights
<1>4. Weights(s, k, T) \in Seq(Nat) /\ Len(Weights(s, k, T)) = Len(s)
  BY <1>1, <1>3
<1>5. \A i \in 1..Len(s) :
        /\ s[i].key = k /\ s[i].at >= T => Weights(s, k, T)[i] = s[i].tokens
        /\ ~(s[i].key = k /\ s[i].at >= T) => Weights(s, k, T)[i] = 0
  BY <1>1 DEF Weights
<1> QED BY <1>4, <1>5

LEMMA TokensAre ==
  ASSUME NEW k, NEW T
  PROVE  TokensOf(k, T) = Sums(Weights(events, k, T))
<1>1. [i \in DOMAIN events |-> IF i \in RecordedRows(k, T) THEN events[i].tokens ELSE 0] = Weights(events, k, T)
  BY DEF RecordedRows, Weights
<1> QED BY <1>1 DEF TokensOf

(* Of a longer window more is counted, and at most all of it.               *)
LEMMA SpentBounds ==
  ASSUME TypeOK, NEW k, NEW T \in Int, T >= now - Window, NEW i \in DOMAIN events
  PROVE  Sums(Weights(events, k, T))[i] <= Spent(k) /\ Spent(k) \in Nat /\ Sums(Weights(events, k, T))[i] \in Nat
<1> DEFINE since == now - Window
           s == Weights(events, k, T)
           t == Weights(events, k, since)
<1>1. events \in Seq(Event) /\ Len(events) \in Nat /\ DOMAIN events = 1..Len(events) /\ now \in Nat /\ Window \in Nat
  BY GateAssumption DEF TypeOK
<1>2. since \in Int /\ T >= since
  BY <1>1
<1>3. \A j \in 1..Len(events) : events[j].tokens \in Nat /\ events[j].at \in Int
  <2>1. \A j \in 1..Len(events) : events[j] \in Event
    BY <1>1
  <2> QED BY <2>1, GateAssumption DEF Event
<1> HIDE DEF since
<1>4. /\ s \in Seq(Nat) /\ Len(s) = Len(events) /\ t \in Seq(Nat) /\ Len(t) = Len(events)
      /\ \A j \in 1..Len(events) : s[j] <= t[j]
  <2>1. s \in Seq(Nat) /\ Len(s) = Len(events) /\ t \in Seq(Nat) /\ Len(t) = Len(events)
    BY <1>1, <1>2, WeightsAre
  <2>2. ASSUME NEW j \in 1..Len(events) PROVE s[j] <= t[j]
    <3>1. /\ events[j].key = k /\ events[j].at >= T => s[j] = events[j].tokens
          /\ ~(events[j].key = k /\ events[j].at >= T) => s[j] = 0
          /\ events[j].key = k /\ events[j].at >= since => t[j] = events[j].tokens
          /\ ~(events[j].key = k /\ events[j].at >= since) => t[j] = 0
      BY <1>1, <1>2, WeightsAre
    <3> HIDE DEF s, t
    <3> QED BY <1>2, <1>3, <3>1
  <2> QED BY <2>1, <2>2
<1> HIDE DEF s, t
<1>5. i \in 0..Len(events) /\ Len(events) <= Len(s) /\ Len(events) <= Len(t) /\ i \in 0..Len(t) /\ i \in 0..Len(s)
      /\ Len(t) \in 0..Len(t)
  BY <1>1, <1>4
<1>6. Sums(s)[i] <= Sums(t)[i]
  BY <1>1, <1>4, <1>5, SumsGrowWith
<1>7. Sums(t)[i] <= Sums(t)[Len(t)]
  BY <1>4, <1>5, SumsGrow
<1>8. Sums(s)[i] \in Nat /\ Sums(t)[i] \in Nat /\ Sums(t)[Len(t)] \in Nat
  BY <1>4, <1>5, SumsAre DEF IsSums
<1>9. Spent(k) = Sums(t)[Len(t)]
  BY <1>4, TokensAre DEF Spent, t, since
<1> QED BY <1>6, <1>7, <1>8, <1>9 DEF s

(* The sums of a list are the same in a longer list.                        *)
LEMMA SumsOfPrefix ==
  ASSUME NEW s \in Seq(Nat), NEW t \in Seq(Nat), Len(s) <= Len(t), \A i \in 1..Len(s) : s[i] = t[i],
         NEW n \in 0..Len(s)
  PROVE  Sums(s)[n] = Sums(t)[n]
<1>1. Len(s) \in Nat /\ Len(t) \in Nat /\ Len(s) <= Len(s) /\ \A i \in 1..Len(s) : s[i] <= t[i] /\ t[i] <= s[i]
  <2>1. \A i \in 1..Len(s) : s[i] \in Nat
    OBVIOUS
  <2> QED BY <2>1
<1>2. Sums(s)[n] <= Sums(t)[n] /\ Sums(t)[n] <= Sums(s)[n]
  BY <1>1, SumsGrowWith
<1>3. n \in 0..Len(t)
  BY <1>1
<1>4. Sums(s)[n] \in Nat /\ Sums(t)[n] \in Nat
  BY <1>3, SumsAre DEF IsSums
<1> QED BY <1>2, <1>4

(* The sums of the end of a list are at most those of the list.             *)
LEMMA SumsOfRest ==
  ASSUME NEW s \in Seq(Nat), NEW t \in Seq(Nat), NEW d, IsRest(t, s, d)
  PROVE  \A n \in 0..Len(t) : n + d \in 0..Len(s) /\ Sums(t)[n] <= Sums(s)[n + d]
<1> DEFINE f == Sums(t)
           g == Sums(s)
           S == {n \in 0..Len(t) : f[n] <= g[n + d]}
<1>0. /\ Len(s) \in Nat /\ Len(t) \in Nat /\ d \in Nat /\ Len(s) = Len(t) + d
      /\ \A i \in 1..Len(t) : t[i] = s[i + d]
      /\ IsSums(f, t, Len(t)) /\ IsSums(g, s, Len(s))
  <2>1. IsSums(f, t, Len(t)) /\ IsSums(g, s, Len(s))
    BY SumsAre
  <2> HIDE DEF f, g
  <2> QED BY <2>1 DEF IsRest
<1> HIDE DEF f, g
<1>1. \A n \in 0..Len(t) : n + d \in 0..Len(s)
  BY <1>0
<1>2. 0 \in S
  <2>1. f[0] = 0 /\ 0 \in 0..Len(t) /\ 0 + d = d /\ d \in 0..Len(s)
    BY <1>0 DEF IsSums
  <2>2. g[d] \in Nat
    BY <1>0, <2>1 DEF IsSums
  <2>3. f[0] <= g[0 + d]
    BY <2>1, <2>2
  <2> QED BY <2>1, <2>3
<1>3. ASSUME NEW n \in 0..Len(t), n \in S, n < Len(t) PROVE n + 1 \in S
  <2>1. /\ n + 1 \in 1..Len(t) /\ n + 1 \in 0..Len(t) /\ (n + 1) + d \in 1..Len(s) /\ n + d \in 0..Len(s)
        /\ (n + 1) - 1 = n /\ ((n + 1) + d) - 1 = n + d
    BY <1>0, <1>3
  <2>2. f[n + 1] = f[n] + t[n + 1] /\ g[(n + 1) + d] = g[n + d] + s[(n + 1) + d]
    BY <1>0, <2>1 DEF IsSums
  <2>3. f[n] \in Nat /\ g[n + d] \in Nat
    BY <1>0, <2>1 DEF IsSums
  <2>4. t[n + 1] \in Nat /\ t[n + 1] = s[(n + 1) + d]
    BY <1>0, <2>1
  <2>5. f[n] <= g[n + d]
    BY <1>3
  <2> HIDE DEF S
  <2>6. f[n + 1] <= g[(n + 1) + d]
    BY <2>2, <2>3, <2>4, <2>5
  <2> QED BY <2>1, <2>6 DEF S
<1>4. 0..Len(t) \subseteq S
  <2> HIDE DEF S
  <2> QED BY <1>0, <1>2, <1>3, UpTo
<1> QED BY <1>1, <1>4 DEF f, g

(* What the tracker counts from is the end of what the store has.           *)
LEMMA RolledAre ==
  ASSUME AccountsInv
  PROVE  /\ IsRest(events, rows, Len(rows) - Len(events))
         /\ Len(rows) - Len(events) \in Nat /\ IsFiniteSet(Rolled)
         /\ \A k, T : IsFiniteSet(Lost(k, T)) /\ Cardinality(Lost(k, T)) \in Nat
<1>1. rows \in Seq(Event) /\ Len(rows) \in Nat /\ Len(events) \in Nat /\ events = LastOf(rows, MaxEvents) /\ MaxEvents \in Nat \ {0}
  BY GateAssumption DEF AccountsInv, TypeOK, TrackerMirrorsStore
<1>2. PICK d : IsRest(events, rows, d)
  BY <1>1, LastOfIsRest
<1>3. d \in Nat /\ d = Len(rows) - Len(events)
  BY <1>1, <1>2 DEF IsRest
<1>4. IsFiniteSet(Rolled)
  BY <1>3, CountUpTo DEF Rolled
<1>5. \A k, T : Lost(k, T) \subseteq Rolled
  BY DEF Lost
<1>6. \A k, T : IsFiniteSet(Lost(k, T)) /\ Cardinality(Lost(k, T)) \in Nat
  BY <1>4, <1>5, FS_Subset, FS_CardinalityType
<1> QED BY <1>2, <1>3, <1>4, <1>6

(* A prune leaves every admission of the window.                            *)
LEMMA PrunedCounts ==
  ASSUME TypeOK, NEW k \in Keys, NEW T \in Int, T >= now - Window
  PROVE  Cardinality(Hits(Pruned(k), TimesAfter(T))) = Cardinality(Hits(reservations[k], TimesAfter(T)))
<1>0. reservations[k] \in Seq(0..MaxNow) /\ Pruned(k) \in Seq(0..MaxNow) /\ now \in Nat /\ Window \in Nat
  BY GateAssumption, PrunedIsRest DEF TypeOK
<1>1. PICK d : IsRest(Pruned(k), reservations[k], d) /\ \A i \in 1..d : ~Fresh(reservations[k][i])
  BY PrunedIsRest
<1>2. \A t \in TimesAfter(T) : Fresh(t)
  BY <1>0 DEF TimesAfter, Fresh
<1>3. \A i \in 1..d : reservations[k][i] \notin TimesAfter(T)
  BY <1>1, <1>2
<1> QED BY <1>0, <1>1, <1>3, HitsOfRest

(* Who was admitted is counted, or a row was lost for it.                   *)
LEMMA AdmissionsAreCounted ==
  ASSUME AccountsInv, Covered, NEW k \in Keys, NEW T \in Int, T >= now - Window
  PROVE  /\ Counted(k) \in Nat
         /\ Cardinality(Admitted(k, T)) <= Counted(k) + Cardinality(Lost(k, T))
<1> DEFINE since == now - Window
<1>1. /\ TypeOK /\ now \in Nat /\ Window \in Nat /\ events \in Seq(Event) /\ reservations[k] \in Seq(0..MaxNow)
      /\ DOMAIN events = 1..Len(events) /\ Len(events) \in Nat /\ rows \in Seq(Event)
  BY GateAssumption DEF AccountsInv, TypeOK
<1>2. since \in Int /\ T >= since
  BY <1>1
<1>3. Cardinality(Hits(events, RowsAfter(k, T))) <= Cardinality(RecordedRows(k, since)) /\ Cardinality(RecordedRows(k, since)) \in Nat
  <2>1. \A i \in DOMAIN events : events[i].at > T => events[i].at >= since
    <3>1. \A i \in DOMAIN events : events[i].at \in Int
      <4>1. \A i \in DOMAIN events : events[i] \in Event
        BY <1>1
      <4> QED BY <4>1, GateAssumption DEF Event
    <3> HIDE DEF since
    <3> QED BY <1>2, <3>1
  <2> HIDE DEF since
  <2>2. Hits(events, RowsAfter(k, T)) \subseteq RecordedRows(k, since)
    BY <2>1 DEF Hits, RowsAfter, RecordedRows
  <2>3. RecordedRows(k, since) \in SUBSET (1..Len(events))
    BY <1>1 DEF RecordedRows
  <2>4. IsFiniteSet(1..Len(events))
    BY <1>1, CountUpTo
  <2>5. IsFiniteSet(RecordedRows(k, since))
    BY <2>3, <2>4, FS_Subset
  <2> QED BY <2>2, <2>5, FS_Subset, FS_CardinalityType
<1>4. Cardinality(Hits(reservations[k], TimesAfter(T))) <= Len(Pruned(k)) /\ Len(Pruned(k)) \in Nat
  <2>1. Pruned(k) \in Seq(0..MaxNow)
    BY <1>1, PrunedIsRest
  <2>2. Cardinality(Hits(Pruned(k), TimesAfter(T))) = Cardinality(Hits(reservations[k], TimesAfter(T)))
    BY <1>1, PrunedCounts
  <2>3. Cardinality(Hits(Pruned(k), TimesAfter(T))) <= Len(Pruned(k))
    BY <2>1, HitsCount
  <2> QED BY <2>1, <2>2, <2>3
<1>5. /\ Cardinality(Hits(rows, RowsAfter(k, T))) = Cardinality(Lost(k, T)) + Cardinality(Hits(events, RowsAfter(k, T)))
      /\ Cardinality(Lost(k, T)) \in Nat
  <2> DEFINE d == Len(rows) - Len(events)
  <2>1. IsRest(events, rows, d) /\ Cardinality(Lost(k, T)) \in Nat
    BY RolledAre
  <2>2. Lost(k, T) = {i \in 1..d : rows[i] \in RowsAfter(k, T)}
    BY DEF Lost, Rolled
  <2> HIDE DEF d
  <2> QED BY <1>1, <2>1, <2>2, HitsSplit
<1>6. Cardinality(Admitted(k, T)) <= Cardinality(Hits(rows, RowsAfter(k, T))) + Cardinality(Hits(reservations[k], TimesAfter(T)))
  BY DEF Covered
<1>7. /\ Cardinality(Hits(events, RowsAfter(k, T))) \in Nat /\ Cardinality(Hits(reservations[k], TimesAfter(T))) \in Nat
      /\ Cardinality(Admitted(k, T)) \in Nat
  BY <1>1, HitsCount, RequestsCount DEF Of, Admitted
<1>8. Counted(k) = Cardinality(RecordedRows(k, since)) + Len(Pruned(k))
  BY DEF Counted
<1> HIDE DEF since
<1> QED BY <1>3, <1>4, <1>5, <1>6, <1>7, <1>8

(* The window, seen as the time after its start.                            *)
LEMMA WindowIsAfter ==
  ASSUME AccountsInv, NEW k \in Keys, NEW n \in Nat,
         Cardinality(Admitted(k, now - Window)) <= n + Cardinality(Lost(k, now - Window))
  PROVE  Cardinality({r \in Of(k) \ forgotten : AdmittedInWindow(r)}) <= n + Cardinality(PushedOut(k))
<1> DEFINE since == now - Window
           within == {r \in Of(k) \ forgotten : AdmittedInWindow(r)}
<1>1. now \in Nat /\ Window \in Nat /\ since \in Int /\ rows \in Seq(Event)
  BY GateAssumption DEF AccountsInv, TypeOK
<1>2. within \subseteq Admitted(k, since)
  BY DEF Admitted, AdmittedInWindow, Fresh
<1>3. IsFiniteSet(Admitted(k, since)) /\ Cardinality(Admitted(k, since)) \in Nat
  BY RequestsCount DEF Admitted, Of
<1>4. Cardinality(within) <= Cardinality(Admitted(k, since)) /\ Cardinality(within) \in Nat
  BY <1>2, <1>3, FS_Subset, FS_CardinalityType
<1>5. Lost(k, since) \subseteq PushedOut(k)
  <2>1. \A i \in Rolled : rows[i] \in RowsAfter(k, since) => rows[i].key = k /\ rows[i].at > since /\ rows[i].at \in Int
    BY GateAssumption DEF RowsAfter, Event
  <2>2. \A i \in Rolled : rows[i] \in RowsAfter(k, since) => rows[i].at >= since
    <3> HIDE DEF since
    <3> QED BY <1>1, <2>1
  <2> QED BY <2>1, <2>2 DEF Lost, PushedOut
<1>6. IsFiniteSet(PushedOut(k))
  <2>1. PushedOut(k) \subseteq Rolled
    BY DEF PushedOut
  <2> QED BY <2>1, RolledAre, FS_Subset
<1>7. Cardinality(Lost(k, since)) <= Cardinality(PushedOut(k)) /\ Cardinality(PushedOut(k)) \in Nat /\ Cardinality(Lost(k, since)) \in Nat
  BY <1>5, <1>6, FS_Subset, FS_CardinalityType
<1>8. Cardinality(Admitted(k, since)) <= n + Cardinality(Lost(k, since))
  OBVIOUS
<1> HIDE DEF within, since
<1>9. Cardinality(within) <= n + Cardinality(PushedOut(k))
  BY <1>3, <1>4, <1>7, <1>8
<1> QED BY <1>9 DEF within

(* A key whose requests are all forgotten is within its limits.             *)
NobodyCounts == \A k \in Keys : Of(k) \ forgotten = {}

LEMMA NobodyExceeds == AccountsInv /\ NobodyCounts => LimitsInv
<1> SUFFICES ASSUME AccountsInv, NobodyCounts PROVE LimitsInv
  OBVIOUS
<1>1. TypeOK /\ events \in Seq(Event) /\ rows \in Seq(Event) /\ \A k \in Keys : reservations[k] \in Seq(0..MaxNow)
  BY DEF AccountsInv, TypeOK
<1>2. \A k \in Usable : k \in Keys /\ table[k].requests \in Limit
  BY <1>1, TablesAreTyped DEF Usable, TypeOK
<1>3. \A k \in Keys, T \in Int : Admitted(k, T) = {} /\ Cardinality(Admitted(k, T)) = 0
  BY FS_EmptySet DEF Admitted, NobodyCounts
<1>4. Covered
  <2> SUFFICES ASSUME NEW k \in Keys, NEW T \in Int
               PROVE  Cardinality(Admitted(k, T)) <= Cardinality(Hits(rows, RowsAfter(k, T))) + Cardinality(Hits(reservations[k], TimesAfter(T)))
    BY DEF Covered
  <2>1. Cardinality(Hits(rows, RowsAfter(k, T))) \in Nat /\ Cardinality(Hits(reservations[k], TimesAfter(T))) \in Nat
    BY <1>1, HitsCount
  <2> QED BY <1>3, <2>1
<1>5. UnderLimit
  <2> SUFFICES ASSUME NEW k \in Usable, table[k].requests # Unlimited, NEW T \in Int
               PROVE  Cardinality(Admitted(k, T)) <= table[k].requests + Cardinality(Lost(k, T))
    BY DEF UnderLimit
  <2>1. table[k].requests \in Nat /\ Cardinality(Lost(k, T)) \in Nat /\ Cardinality(Admitted(k, T)) = 0
    BY <1>2, <1>3, RolledAre DEF Limit
  <2> QED BY <2>1
<1>6. InFlight
  BY <1>2 DEF InFlight, NobodyCounts
<1> QED BY <1>4, <1>5, <1>6 DEF LimitsInv

LEMMA InitLimits == Init => LimitsInv
<1> SUFFICES ASSUME Init PROVE LimitsInv
  OBVIOUS
<1>1. NobodyCounts
  BY GateAssumption DEF Init, Of, NobodyCounts
<1> QED BY <1>1, InitAccounts, NobodyExceeds

LEMMA ForgottenHold ==
  ASSUME AccountsInv', \A k \in Keys : (Of(k) \ forgotten)' = {}
  PROVE  LimitsInv'
<1>1. NobodyCounts'
  BY DEF NobodyCounts
<1> QED BY <1>1, NobodyExceeds, PTL

LEMMA AdmitKeepsLimits ==
  ASSUME LimitsInv, NEW r \in Requests, NEW k \in Keys, Admit(r, k)
  PROVE  LimitsInv'
<1>0. AccountsInv /\ Covered /\ UnderLimit /\ InFlight /\ TypeOK /\ Admissions
  BY DEF LimitsInv, AccountsInv
<1>1. AccountsInv' /\ TypeOK' /\ Admissions'
  BY <1>0, AdmitKeepsAccounts DEF AccountsInv
<1>2. /\ reservations' = [reservations EXCEPT ![k] = Append(Pruned(k), now)]
      /\ pc' = [pc EXCEPT ![r] = "open"] /\ key' = [key EXCEPT ![r] = k]
      /\ admittedAt' = [admittedAt EXCEPT ![r] = now] /\ k \in Usable
      /\ UNCHANGED <<now, table, events, rows, forgotten>> /\ pc[r] = "idle" /\ key[r] = NoKey
  BY <1>0 DEF Admit, tracker, Admissions
<1>3. Below(Counted(k), table[k].requests) /\ Below(Spent(k), table[k].tokens)
  BY DEF Admit, OverLimit
<1>4. /\ now \in 0..MaxNow /\ now \in Nat /\ Window \in Nat /\ events \in Seq(Event) /\ rows \in Seq(Event)
      /\ reservations \in [Keys -> Seq(0..MaxNow)] /\ Pruned(k) \in Seq(0..MaxNow)
  BY <1>0, GateAssumption, PrunedIsRest DEF TypeOK
<1>5. /\ \A j \in Keys : j # k => Of(j)' = Of(j) /\ r \notin Of(j) /\ reservations'[j] = reservations[j]
      /\ Of(k)' = Of(k) \cup {r} /\ r \notin Of(k) /\ reservations'[k] = Append(Pruned(k), now)
      /\ \A q \in Requests : q # r => admittedAt'[q] = admittedAt[q] /\ pc'[q] = pc[q]
      /\ admittedAt'[r] = now
  <2>1. key[r] # k /\ \A j \in Keys : key[r] # j
    BY <1>2, GateAssumption
  <2>2. key'[r] = k /\ \A q \in Requests : q # r => key'[q] = key[q]
    BY <1>0, <1>2 DEF TypeOK
  <2>3. r \notin Of(k) /\ \A j \in Keys : r \notin Of(j)
    BY <2>1 DEF Of
  <2>4. Of(k)' = Of(k) \cup {r} /\ \A j \in Keys : j # k => Of(j)' = Of(j)
    BY <2>1, <2>2 DEF Of
  <2>5. /\ \A q \in Requests : q # r => admittedAt'[q] = admittedAt[q] /\ pc'[q] = pc[q]
        /\ admittedAt'[r] = now
    BY <1>0, <1>2 DEF TypeOK
  <2>6. reservations'[k] = Append(Pruned(k), now) /\ \A j \in Keys : j # k => reservations'[j] = reservations[j]
    BY <1>2, <1>4
  <2> QED BY <2>3, <2>4, <2>5, <2>6
<1>6. Covered'
  <2> SUFFICES ASSUME NEW j \in Keys, NEW T \in Int, T >= now - Window
               PROVE  Cardinality(Admitted(j, T)') <= Cardinality(Hits(rows, RowsAfter(j, T))) + Cardinality(Hits(reservations'[j], TimesAfter(T)))
    BY <1>2 DEF Covered
  <2>1. /\ Cardinality(Admitted(j, T)) <= Cardinality(Hits(rows, RowsAfter(j, T))) + Cardinality(Hits(reservations[j], TimesAfter(T)))
        /\ IsFiniteSet(Admitted(j, T)) /\ Cardinality(Admitted(j, T)) \in Nat
        /\ Cardinality(Hits(rows, RowsAfter(j, T))) \in Nat /\ Cardinality(Hits(reservations[j], TimesAfter(T))) \in Nat
    BY <1>0, <1>4, HitsCount, RequestsCount DEF Covered, Admitted, Of
  <2>2. CASE j # k
    <3>1. Admitted(j, T)' = Admitted(j, T)
      BY <1>2, <1>5, <2>2 DEF Admitted, Of
    <3> QED BY <1>5, <2>1, <2>2, <3>1
  <2>3. CASE j = k
    <3>1. Cardinality(Hits(Pruned(k), TimesAfter(T))) = Cardinality(Hits(reservations[k], TimesAfter(T)))
      BY <1>0, PrunedCounts
    <3>2. /\ now \in TimesAfter(T) => Cardinality(Hits(reservations'[k], TimesAfter(T))) = Cardinality(Hits(reservations[k], TimesAfter(T))) + 1
          /\ now \notin TimesAfter(T) => Cardinality(Hits(reservations'[k], TimesAfter(T))) = Cardinality(Hits(reservations[k], TimesAfter(T)))
      <4> DEFINE p == Pruned(k)
                 E == TimesAfter(T)
                 Times == 0..MaxNow
      <4>1. p \in Seq(Times) /\ now \in Times
        BY <1>4
      <4> HIDE DEF p, E, Times
      <4>2. /\ now \in E => Cardinality(Hits(Append(p, now), E)) = Cardinality(Hits(p, E)) + 1
            /\ now \notin E => Cardinality(Hits(Append(p, now), E)) = Cardinality(Hits(p, E))
        BY <4>1, HitsAppend
      <4> QED BY <1>5, <3>1, <4>2 DEF p, E
    <3>3. CASE now > T
      <4>1. now \in TimesAfter(T)
        BY <1>4, <3>3 DEF TimesAfter
      <4>2. Admitted(k, T)' \subseteq Admitted(k, T) \cup {r}
        BY <1>2, <1>5 DEF Admitted, Of
      <4>3. IsFiniteSet(Admitted(k, T) \cup {r}) /\ Cardinality(Admitted(k, T) \cup {r}) <= Cardinality(Admitted(k, T)) + 1
        <5>1. Cardinality(Admitted(k, T) \cup {r}) = IF r \in Admitted(k, T) THEN Cardinality(Admitted(k, T)) ELSE Cardinality(Admitted(k, T)) + 1
          BY <2>1, <2>3, FS_AddElement
        <5> QED BY <2>1, <2>3, <5>1, FS_AddElement
      <4>4. Cardinality(Admitted(k, T)') <= Cardinality(Admitted(k, T) \cup {r}) /\ Cardinality(Admitted(k, T)') \in Nat
            /\ Cardinality(Admitted(k, T) \cup {r}) \in Nat
        BY <4>2, <4>3, FS_Subset, FS_CardinalityType
      <4> QED BY <2>1, <2>3, <3>2, <4>1, <4>3, <4>4
    <3>4. CASE ~(now > T)
      <4>1. now \notin TimesAfter(T)
        BY <3>4 DEF TimesAfter
      <4>2. Admitted(k, T)' \subseteq Admitted(k, T)
        BY <1>2, <1>5, <3>4 DEF Admitted, Of
      <4>3. Cardinality(Admitted(k, T)') <= Cardinality(Admitted(k, T)) /\ Cardinality(Admitted(k, T)') \in Nat
        BY <2>1, <2>3, <4>2, FS_Subset, FS_CardinalityType
      <4> QED BY <2>1, <2>3, <3>2, <4>1, <4>3
    <3> QED BY <3>3, <3>4
  <2> QED BY <2>2, <2>3
<1>7. UnderLimit'
  <2> SUFFICES ASSUME NEW j \in Usable, table[j].requests # Unlimited, NEW T \in Int, T >= now - Window
               PROVE  Cardinality(Admitted(j, T)') <= table[j].requests + Cardinality(Lost(j, T))
    BY <1>2 DEF UnderLimit, Usable, Lost, Rolled
  <2>1. j \in Keys /\ table[j].requests \in Nat
    BY <1>0, TablesAreTyped DEF Usable, TypeOK, Limit
  <2>2. /\ IsFiniteSet(Admitted(j, T)) /\ Cardinality(Admitted(j, T)) \in Nat /\ Cardinality(Lost(j, T)) \in Nat
        /\ Cardinality(Admitted(j, T)) <= table[j].requests + Cardinality(Lost(j, T))
    BY <1>0, RequestsCount, RolledAre DEF Of, Admitted, UnderLimit
  <2>3. CASE j # k
    <3>1. Admitted(j, T)' = Admitted(j, T)
      BY <1>2, <1>5, <2>1, <2>3 DEF Admitted, Of
    <3> QED BY <2>2, <3>1
  <2>4. CASE j = k
    <3>1. Cardinality(Admitted(k, T)) <= Counted(k) + Cardinality(Lost(k, T)) /\ Counted(k) \in Nat
      BY <1>0, AdmissionsAreCounted
    <3>2. Counted(k) < table[k].requests
      BY <1>3, <2>4 DEF Below
    <3>3. Cardinality(Admitted(k, T) \cup {r}) <= Cardinality(Admitted(k, T)) + 1 /\ IsFiniteSet(Admitted(k, T) \cup {r})
      <4>1. Cardinality(Admitted(k, T) \cup {r}) = IF r \in Admitted(k, T) THEN Cardinality(Admitted(k, T)) ELSE Cardinality(Admitted(k, T)) + 1
        BY <2>2, <2>4, FS_AddElement
      <4> QED BY <2>2, <2>4, <4>1, FS_AddElement
    <3>4. Admitted(k, T)' \subseteq Admitted(k, T) \cup {r}
      BY <1>2, <1>5 DEF Admitted, Of
    <3>5. Cardinality(Admitted(k, T)') <= Cardinality(Admitted(k, T) \cup {r}) /\ Cardinality(Admitted(k, T)') \in Nat
          /\ Cardinality(Admitted(k, T) \cup {r}) \in Nat
      BY <3>3, <3>4, FS_Subset, FS_CardinalityType
    <3> QED BY <2>1, <2>2, <2>4, <3>1, <3>2, <3>3, <3>5
  <2> QED BY <2>3, <2>4
<1>8. InFlight'
  <2> SUFFICES ASSUME NEW j \in Usable, table[j].tokens # Unlimited, NEW T \in Int, T >= now - Window,
                      NEW i \in DOMAIN events, Sums(Weights(events, j, T))[i] >= table[j].tokens,
                      NEW q \in (Of(j) \ forgotten)', pc'[q] = "open"
               PROVE  admittedAt'[q] <= events[i].at
    BY <1>2 DEF InFlight, Usable
  <2>1. j \in Keys /\ table[j].tokens \in Nat
    BY <1>0, TablesAreTyped DEF Usable, TypeOK, Limit
  <2>2. CASE j = k
    <3>1. Sums(Weights(events, k, T))[i] <= Spent(k) /\ Spent(k) \in Nat /\ Sums(Weights(events, k, T))[i] \in Nat
      BY <1>0, SpentBounds
    <3>2. Spent(k) < table[k].tokens
      BY <1>3, <2>2 DEF Below
    <3> QED BY <2>1, <2>2, <3>1, <3>2
  <2>3. CASE j # k
    <3>1. q \in Of(j) \ forgotten /\ q \in Requests /\ q # r
      BY <1>2, <1>5, <2>1, <2>3 DEF Of
    <3>2. pc[q] = "open" /\ admittedAt'[q] = admittedAt[q]
      BY <1>5, <3>1
    <3> QED BY <1>0, <3>1, <3>2 DEF InFlight
  <2> QED BY <2>2, <2>3
<1> QED BY <1>1, <1>6, <1>7, <1>8 DEF LimitsInv

LEMMA WindowsMoveOn ==
  ASSUME NEW n \in Nat, NEW m \in Nat, m >= n
  PROVE  \A T \in Int : T >= m - Window => T >= n - Window
BY GateAssumption

(* Steps that record nothing and forget nothing.                            *)
LEMMA QuietKeepsLimits ==
  ASSUME LimitsInv, AccountsInv', UNCHANGED <<table, events, rows, forgotten, key>>,
         now' \in Nat, now' >= now,
         \A q \in Requests :
           key[q] \in Keys => admittedAt'[q] = admittedAt[q] /\ (pc'[q] = "open" => pc[q] = "open"),
         \A k \in Keys, T \in Int : T >= now - Window =>
           Cardinality(Hits(reservations[k], TimesAfter(T))) <= Cardinality(Hits(reservations'[k], TimesAfter(T)))
  PROVE  LimitsInv'
<1>0. /\ AccountsInv /\ Covered /\ UnderLimit /\ InFlight /\ TypeOK /\ TypeOK'
      /\ now \in Nat /\ Window \in Nat
  BY GateAssumption DEF LimitsInv, AccountsInv, TypeOK
<1>1. \A k \in Keys : Of(k)' = Of(k) /\ \A q \in Of(k) : q \in Requests /\ key[q] \in Keys
  BY DEF Of
<1>2. \A T \in Int : T >= now' - Window => T >= now - Window
  BY <1>0, WindowsMoveOn
<1>3. Covered'
  <2> SUFFICES ASSUME NEW k \in Keys, NEW T \in Int, T >= now' - Window
               PROVE  Cardinality(Admitted(k, T)') <= Cardinality(Hits(rows, RowsAfter(k, T))) + Cardinality(Hits(reservations'[k], TimesAfter(T)))
    BY DEF Covered
  <2>1. T >= now - Window
    BY <1>2
  <2>2. Admitted(k, T)' = Admitted(k, T)
    BY <1>1 DEF Admitted
  <2>3. /\ Cardinality(Admitted(k, T)) \in Nat /\ Cardinality(Hits(rows, RowsAfter(k, T))) \in Nat
        /\ Cardinality(Hits(reservations[k], TimesAfter(T))) \in Nat /\ Cardinality(Hits(reservations'[k], TimesAfter(T))) \in Nat
    BY <1>0, HitsCount, RequestsCount DEF TypeOK, Admitted, Of
  <2> QED BY <1>0, <2>1, <2>2, <2>3 DEF Covered
<1>4. UnderLimit'
  <2> SUFFICES ASSUME NEW k \in Usable, table[k].requests # Unlimited, NEW T \in Int, T >= now' - Window
               PROVE  Cardinality(Admitted(k, T)') <= table[k].requests + Cardinality(Lost(k, T))
    BY DEF UnderLimit, Usable, Lost, Rolled
  <2>1. k \in Keys
    BY <1>0, TablesAreTyped DEF Usable, TypeOK
  <2>2. Admitted(k, T)' = Admitted(k, T)
    BY <1>1, <2>1 DEF Admitted
  <2> QED BY <1>0, <1>2, <2>2 DEF UnderLimit
<1>5. InFlight'
  <2> SUFFICES ASSUME NEW k \in Usable, table[k].tokens # Unlimited, NEW T \in Int, T >= now' - Window,
                      NEW i \in DOMAIN events, Sums(Weights(events, k, T))[i] >= table[k].tokens,
                      NEW q \in (Of(k) \ forgotten)', pc'[q] = "open"
               PROVE  admittedAt'[q] <= events[i].at
    BY DEF InFlight, Usable
  <2>1. k \in Keys
    BY <1>0, TablesAreTyped DEF Usable, TypeOK
  <2>2. T >= now - Window
    BY <1>2
  <2>3. q \in Of(k) \ forgotten /\ q \in Requests /\ pc[q] = "open" /\ admittedAt'[q] = admittedAt[q]
    BY <1>1, <2>1
  <2> QED BY <1>0, <2>2, <2>3 DEF InFlight
<1> QED BY <1>3, <1>4, <1>5 DEF LimitsInv

(* The steps that record nothing.                                           *)
LEMMA OthersKeepLimits ==
  ASSUME LimitsInv,
         \/ \E r \in Requests : AdmitUngated(r) \/ AnswerFails(r)
         \/ \E k \in Keys : Deny(k)
         \/ \E t \in Tables : TakeTable(t)
         \/ ResetUsage
         \/ BridgeRestarts
         \/ Tick
         \/ UNCHANGED vars
  PROVE  LimitsInv'
<1>0. /\ AccountsInv /\ TypeOK /\ Admissions /\ now \in Nat
      /\ \A k \in Keys, T \in Int : Cardinality(Hits(reservations[k], TimesAfter(T))) \in Nat
  BY HitsCount, GateAssumption DEF LimitsInv, AccountsInv, TypeOK
<1>1. AccountsInv'
  BY <1>0, OthersKeepAccounts
<1>2. \A r \in Requests : pc[r] = "idle" => key[r] \notin Keys
  BY <1>0, GateAssumption DEF Admissions
<1>3. ASSUME NEW r \in Requests, AdmitUngated(r) PROVE LimitsInv'
  <2>1. /\ pc[r] = "idle" /\ pc' = [pc EXCEPT ![r] = "open"] /\ admittedAt' = [admittedAt EXCEPT ![r] = now]
        /\ UNCHANGED <<now, table, reservations, events, rows, key, forgotten>>
    BY <1>3 DEF AdmitUngated, tracker
  <2>2. \A q \in Requests :
          key[q] \in Keys => admittedAt'[q] = admittedAt[q] /\ (pc'[q] = "open" => pc[q] = "open")
    BY <1>0, <1>2, <2>1 DEF TypeOK
  <2> QED BY <1>0, <1>1, <2>1, <2>2, QuietKeepsLimits
<1>4. ASSUME NEW r \in Requests, AnswerFails(r) PROVE LimitsInv'
  <2>1. /\ pc[r] = "open" /\ pc' = [pc EXCEPT ![r] = "failed"]
        /\ UNCHANGED <<now, table, reservations, events, rows, key, admittedAt, forgotten>>
    BY <1>4 DEF AnswerFails, tracker, ghosts
  <2>2. \A q \in Requests :
          key[q] \in Keys => admittedAt'[q] = admittedAt[q] /\ (pc'[q] = "open" => pc[q] = "open")
    BY <1>0, <2>1 DEF TypeOK
  <2> QED BY <1>0, <1>1, <2>1, <2>2, QuietKeepsLimits
<1>5. ASSUME NEW k \in Keys, Deny(k) PROVE LimitsInv'
  <2>1. /\ reservations' = [reservations EXCEPT ![k] = Pruned(k)]
        /\ UNCHANGED <<now, table, events, rows, pc, key, admittedAt, forgotten>>
    BY <1>5 DEF Deny, tracker
  <2>2. ASSUME NEW j \in Keys, NEW T \in Int, T >= now - Window
        PROVE  Cardinality(Hits(reservations[j], TimesAfter(T))) <= Cardinality(Hits(reservations'[j], TimesAfter(T)))
    <3>1. CASE j = k
      <4>1. reservations'[k] = Pruned(k)
        BY <1>0, <2>1 DEF TypeOK
      <4>2. Cardinality(Hits(Pruned(k), TimesAfter(T))) = Cardinality(Hits(reservations[k], TimesAfter(T)))
        BY <1>0, <2>2, PrunedCounts
      <4> QED BY <1>0, <3>1, <4>1, <4>2
    <3>2. CASE j # k
      <4>1. reservations'[j] = reservations[j]
        BY <1>0, <2>1, <3>2 DEF TypeOK
      <4> QED BY <1>0, <4>1
    <3> QED BY <3>1, <3>2
  <2> QED BY <1>0, <1>1, <2>1, <2>2, QuietKeepsLimits
<1>6. ASSUME NEW t \in Tables, TakeTable(t) PROVE LimitsInv'
  <2>1. UNCHANGED <<pc, key>> /\ forgotten' = {r \in Requests : pc[r] # "idle"}
    BY <1>6 DEF TakeTable, tracker
  <2>2. \A k \in Keys : (Of(k) \ forgotten)' = {}
    BY <1>2, <2>1 DEF Of
  <2> QED BY <1>1, <2>2, ForgottenHold
<1>7. ASSUME ResetUsage PROVE LimitsInv'
  <2>1. UNCHANGED <<pc, key>> /\ forgotten' = {r \in Requests : pc[r] # "idle"}
    BY <1>7 DEF ResetUsage
  <2>2. \A k \in Keys : (Of(k) \ forgotten)' = {}
    BY <1>2, <2>1 DEF Of
  <2> QED BY <1>1, <2>2, ForgottenHold
<1>8. ASSUME BridgeRestarts PROVE LimitsInv'
  <2>1. key' = key /\ forgotten' = {r \in Requests : pc[r] # "idle"}
    BY <1>8 DEF BridgeRestarts
  <2>2. \A k \in Keys : (Of(k) \ forgotten)' = {}
    BY <1>2, <2>1 DEF Of
  <2> QED BY <1>1, <2>2, ForgottenHold
<1>9. ASSUME Tick PROVE LimitsInv'
  <2>1. /\ now' = now + 1 /\ now' \in Nat /\ now' >= now
        /\ UNCHANGED <<table, reservations, events, rows, pc, key, admittedAt, forgotten>>
    BY <1>0, <1>9 DEF Tick, tracker, ghosts
  <2> QED BY <1>0, <1>1, <2>1, QuietKeepsLimits
<1>10. ASSUME UNCHANGED vars PROVE LimitsInv'
  <2>1. UNCHANGED <<now, table, reservations, events, rows, pc, key, admittedAt, forgotten>>
    BY <1>10 DEF vars, tracker, ghosts
  <2> QED BY <1>0, <1>1, <2>1, QuietKeepsLimits
<1> QED BY <1>3, <1>4, <1>5, <1>6, <1>7, <1>8, <1>9, <1>10

LEMMA CompleteKeepsLimits ==
  ASSUME LimitsInv, NEW r \in Requests, Complete(r)
  PROVE  LimitsInv'
<1>0. /\ AccountsInv /\ Covered /\ UnderLimit /\ InFlight /\ TypeOK /\ Admissions /\ TrackerMirrorsStore
      /\ now \in 0..MaxNow /\ now \in Nat /\ Window \in Nat /\ MaxNow \in Nat /\ MaxTokens \in Nat /\ MaxEvents \in Nat \ {0}
      /\ events \in Seq(Event) /\ rows \in Seq(Event) /\ reservations \in [Keys -> Seq(0..MaxNow)]
      /\ key[r] \in Keys \cup {NoKey}
  BY GateAssumption DEF LimitsInv, AccountsInv, TypeOK
<1>1. AccountsInv' /\ TypeOK'
  BY <1>0, CompleteKeepsAccounts DEF AccountsInv
<1>2. /\ pc[r] = "open" /\ pc' = [pc EXCEPT ![r] = "served"] /\ Reconcile(key[r])
      /\ UNCHANGED <<now, table, key, admittedAt, forgotten>>
  BY DEF Complete
<1>3. /\ pc'[r] = "served" /\ \A q \in Requests : q # r => pc'[q] = pc[q]
      /\ \A k : Of(k)' = Of(k)
  BY <1>0, <1>2 DEF TypeOK, Of
<1>4. CASE key[r] = NoKey /\ UNCHANGED tracker
  <2>1. UNCHANGED <<events, rows, reservations>>
    BY <1>2, <1>4 DEF tracker, Reconcile
  <2>2. \A q \in Requests :
          key[q] \in Keys => admittedAt'[q] = admittedAt[q] /\ (pc'[q] = "open" => pc[q] = "open")
    BY <1>2, <1>3
  <2>3. \A k \in Keys, T \in Int : Cardinality(Hits(reservations[k], TimesAfter(T))) \in Nat
    BY <1>0, HitsCount
  <2> QED BY <1>0, <1>1, <1>2, <2>1, <2>2, <2>3, QuietKeepsLimits
<1>5. CASE \E n \in 0..MaxTokens : RecordUsage([key |-> key[r], at |-> now, tokens |-> n])
  <2>1. PICK n \in 0..MaxTokens : RecordUsage([key |-> key[r], at |-> now, tokens |-> n])
    BY <1>5
  <2> DEFINE e == [key |-> key[r], at |-> now, tokens |-> n]
  <2>2. e \in Event /\ e.key = key[r] /\ e.at = now
    BY <1>0 DEF Event
  <2>3. RecordUsage(e)
    BY <2>1
  <2> HIDE DEF e
  <2> DEFINE all == Append(events, e)
  <2>4. /\ rows' = Append(rows, e) /\ events' = LastOf(all, MaxEvents) /\ Len(events) \in Nat
        /\ all \in Seq(Event) /\ Len(all) = Len(events) + 1
        /\ all[Len(events) + 1] = e /\ \A i \in 1..Len(events) : all[i] = events[i]
    BY <1>0, <2>2, <2>3 DEF RecordUsage
  <2> HIDE DEF all
  <2>5. PICK d : IsRest(events', all, d)
    BY <1>0, <2>4, LastOfIsRest
  <2>6. /\ d \in Nat /\ Len(events') \in Nat /\ Len(events) + 1 = Len(events') + d
        /\ events' \in Seq(Event) /\ \A i \in 1..Len(events') : events'[i] = all[i + d]
    <3>1. events' \in Seq(Event) /\ Len(events') \in Nat
      BY <1>1 DEF TypeOK
    <3>2. d \in Nat /\ Len(all) = Len(events') + d /\ \A i \in 1..Len(events') : events'[i] = all[i + d]
      BY <2>5 DEF IsRest
    <3> QED BY <2>4, <3>1, <3>2
  <2>7. Len(rows) \in Nat /\ Len(rows') = Len(rows) + 1 /\ \A i \in 1..Len(rows) : rows'[i] = rows[i]
    BY <1>0, <2>2, <2>4
  <2>8. Covered'
    <3> SUFFICES ASSUME NEW k \in Keys, NEW T \in Int, T >= now - Window
                 PROVE  Cardinality(Admitted(k, T)') <= Cardinality(Hits(rows', RowsAfter(k, T))) + Cardinality(Hits(reservations'[k], TimesAfter(T)))
      BY <1>2 DEF Covered
    <3>1. /\ Cardinality(Admitted(k, T)) <= Cardinality(Hits(rows, RowsAfter(k, T))) + Cardinality(Hits(reservations[k], TimesAfter(T)))
          /\ Admitted(k, T)' = Admitted(k, T) /\ Cardinality(Admitted(k, T)) \in Nat
          /\ Cardinality(Hits(rows, RowsAfter(k, T))) \in Nat /\ Cardinality(Hits(reservations[k], TimesAfter(T))) \in Nat
          /\ Cardinality(Hits(rows', RowsAfter(k, T))) \in Nat /\ Cardinality(Hits(reservations'[k], TimesAfter(T))) \in Nat
      BY <1>0, <1>1, <1>2, <1>3, HitsCount, RequestsCount DEF Covered, Admitted, Of, TypeOK
    <3>2. /\ e \in RowsAfter(k, T) => Cardinality(Hits(rows', RowsAfter(k, T))) = Cardinality(Hits(rows, RowsAfter(k, T))) + 1
          /\ e \notin RowsAfter(k, T) => Cardinality(Hits(rows', RowsAfter(k, T))) = Cardinality(Hits(rows, RowsAfter(k, T)))
      BY <1>0, <2>2, <2>4, HitsAppend
    <3>3. CASE k # key[r]
      <4>1. reservations'[k] = reservations[k]
        BY <1>0, <1>2, <3>3 DEF Reconcile
      <4> QED BY <3>1, <3>2, <4>1
    <3>4. CASE k = key[r] /\ now > T
      <4>1. e \in RowsAfter(k, T)
        BY <2>2, <3>4 DEF RowsAfter
      <4>2. Cardinality(Hits(reservations[k], TimesAfter(T))) <= Cardinality(Hits(reservations'[k], TimesAfter(T))) + 1
        <5>1. CASE reservations[k] = <<>>
          <6>1. reservations' = reservations
            BY <1>2, <3>4, <5>1 DEF Reconcile
          <6> QED BY <3>1, <6>1
        <5>2. CASE reservations[k] # <<>>
          <6>1. reservations'[k] = Tail(reservations[k])
            BY <1>0, <1>2, <3>4, <5>2, GateAssumption DEF Reconcile
          <6> DEFINE list == reservations[k]
                     Times == 0..MaxNow
          <6>2. list \in Seq(Times) /\ list # <<>>
            BY <1>0, <5>2
          <6> HIDE DEF list, Times
          <6>3. Tail(list) \in Seq(Times) /\ Len(list) = Len(Tail(list)) + 1 /\ \A i \in 1..Len(Tail(list)) : Tail(list)[i] = list[i + 1]
            BY <6>2
          <6>4. IsRest(Tail(list), list, 1)
            BY <6>3 DEF IsRest
          <6>5. Cardinality(Hits(list, TimesAfter(T))) <= Cardinality(Hits(Tail(list), TimesAfter(T))) + 1
            BY <6>2, <6>3, <6>4, HitsOfRest
          <6> QED BY <6>1, <6>5 DEF list
        <5> QED BY <5>1, <5>2
      <4> QED BY <3>1, <3>2, <4>1, <4>2
    <3>5. CASE ~(now > T)
      <4>1. Admitted(k, T) = {}
        <5> SUFFICES ASSUME NEW q \in Admitted(k, T) PROVE FALSE
          OBVIOUS
        <5>1. q \in Requests /\ key[q] # NoKey /\ admittedAt[q] > T
          BY GateAssumption DEF Admitted, Of
        <5>2. admittedAt[q] \in 0..now
          BY <1>0, <5>1 DEF Admissions
        <5> QED BY <1>0, <3>5, <5>1, <5>2
      <4>2. Cardinality(Admitted(k, T)) = 0
        BY <4>1, FS_EmptySet
      <4> QED BY <3>1, <4>2
    <3> QED BY <3>3, <3>4, <3>5
  <2>9. UnderLimit'
    <3> SUFFICES ASSUME NEW k \in Usable, table[k].requests # Unlimited, NEW T \in Int, T >= now - Window
                 PROVE  Cardinality(Admitted(k, T)') <= table[k].requests + Cardinality(Lost(k, T)')
      BY <1>2 DEF UnderLimit, Usable
    <3>1. Admitted(k, T)' = Admitted(k, T) /\ Cardinality(Admitted(k, T)) \in Nat /\ table[k].requests \in Nat
      BY <1>0, <1>2, <1>3, RequestsCount, TablesAreTyped DEF Admitted, Of, Usable, TypeOK, Limit
    <3>2. Cardinality(Admitted(k, T)) <= table[k].requests + Cardinality(Lost(k, T))
      BY <1>0 DEF UnderLimit
    <3>3. Lost(k, T) \subseteq Lost(k, T)'
      <4>1. Len(rows) - Len(events) <= Len(rows') - Len(events') /\ Len(rows) - Len(events) <= Len(rows)
        BY <2>4, <2>6, <2>7
      <4>2. \A i \in Rolled : i \in Rolled' /\ rows'[i] = rows[i]
        BY <2>4, <2>6, <2>7, <4>1 DEF Rolled
      <4> QED BY <4>2 DEF Lost, RowsAfter
    <3>4. IsFiniteSet(Lost(k, T)') /\ Cardinality(Lost(k, T)') \in Nat
      <4>1. Len(rows') - Len(events') \in Nat
        <5>1. Len(rows) - Len(events) \in Nat
          BY <1>0, RolledAre
        <5> QED BY <2>4, <2>6, <2>7, <5>1
      <4>2. IsFiniteSet(Rolled')
        BY <4>1, CountUpTo DEF Rolled
      <4>3. Lost(k, T)' \subseteq Rolled'
        BY DEF Lost
      <4> QED BY <4>2, <4>3, FS_Subset, FS_CardinalityType
    <3>5. Cardinality(Lost(k, T)) <= Cardinality(Lost(k, T)') /\ Cardinality(Lost(k, T)) \in Nat
      BY <1>0, <3>3, <3>4, RolledAre, FS_Subset
    <3> QED BY <3>1, <3>2, <3>4, <3>5
  <2>10. InFlight'
    <3> SUFFICES ASSUME NEW k \in Usable, table[k].tokens # Unlimited, NEW T \in Int, T >= now - Window,
                        NEW i \in DOMAIN events', Sums(Weights(events', k, T))[i] >= table[k].tokens,
                        NEW q \in (Of(k) \ forgotten)', pc'[q] = "open"
                 PROVE  admittedAt'[q] <= events'[i].at
      BY <1>2 DEF InFlight, Usable
    <3>1. k \in Keys
      BY <1>0, TablesAreTyped DEF Usable, TypeOK
    <3>2. q \in Of(k) \ forgotten /\ q \in Requests /\ pc[q] = "open" /\ admittedAt'[q] = admittedAt[q] /\ key[q] # NoKey
      BY <1>2, <1>3, <3>1, GateAssumption DEF Of
    <3>3. i \in 1..Len(events') /\ i + d \in 1..(Len(events) + 1) /\ events'[i] = all[i + d]
      BY <2>6
    <3>4. CASE i + d = Len(events) + 1
      <4>1. admittedAt[q] \in 0..now
        BY <1>0, <3>2 DEF Admissions
      <4> QED BY <1>0, <2>2, <2>4, <3>2, <3>3, <3>4, <4>1
    <3>5. CASE i + d # Len(events) + 1
      <4>1. i + d \in 1..Len(events) /\ i + d \in DOMAIN events /\ i + d \in 0..Len(events)
        BY <1>0, <2>4, <2>6, <3>3, <3>5
      <4> DEFINE s == Weights(events, k, T)
                 t == Weights(events', k, T)
                 u == Weights(all, k, T)
      <4>2. /\ s \in Seq(Nat) /\ Len(s) = Len(events) /\ t \in Seq(Nat) /\ Len(t) = Len(events')
            /\ u \in Seq(Nat) /\ Len(u) = Len(events) + 1
        BY <1>0, <2>4, <2>6, WeightsAre
      <4>3. \A j \in 1..Len(events) : s[j] = u[j]
        <5>1. \A j \in 1..Len(events) : j \in DOMAIN events /\ j \in DOMAIN all /\ all[j] = events[j]
          BY <1>0, <2>4
        <5> QED BY <5>1 DEF Weights
      <4>4. IsRest(t, u, d)
        <5>1. \A j \in 1..Len(events') : j \in DOMAIN events' /\ j + d \in DOMAIN all /\ events'[j] = all[j + d]
          BY <2>4, <2>6
        <5>2. \A j \in 1..Len(events') : t[j] = u[j + d]
          BY <5>1 DEF Weights
        <5> HIDE DEF t, u
        <5> QED BY <2>4, <2>6, <4>2, <5>2 DEF IsRest
      <4> HIDE DEF s, t, u
      <4>5. i \in 0..Len(t) /\ Sums(t)[i] <= Sums(u)[i + d]
        <5>1. i \in 0..Len(t)
          BY <2>6, <3>3, <4>2
        <5> QED BY <4>2, <4>4, <5>1, SumsOfRest
      <4>6. Sums(s)[i + d] = Sums(u)[i + d] /\ i + d \in 0..Len(s) /\ i + d \in 0..Len(u)
        <5>1. Len(s) <= Len(u) /\ i + d \in 0..Len(s) /\ i + d \in 0..Len(u) /\ \A j \in 1..Len(s) : s[j] = u[j]
          BY <2>4, <4>1, <4>2, <4>3
        <5> QED BY <4>2, <5>1, SumsOfPrefix
      <4>7. Sums(t)[i] \in Nat /\ Sums(s)[i + d] \in Nat /\ table[k].tokens \in Nat
        BY <1>0, <4>2, <4>5, <4>6, SumsAre, TablesAreTyped DEF IsSums, Usable, TypeOK, Limit
      <4>8. Sums(s)[i + d] >= table[k].tokens
        BY <4>5, <4>6, <4>7 DEF t
      <4>9. events'[i] = events[i + d]
        BY <2>4, <3>3, <4>1
      <4> QED BY <1>0, <3>2, <4>1, <4>8, <4>9 DEF InFlight, s
    <3> QED BY <3>4, <3>5
  <2> QED BY <1>1, <2>8, <2>9, <2>10 DEF LimitsInv
<1> QED BY <1>4, <1>5 DEF Complete

LEMMA LimitsFollow == LimitsInv => LimitsHold
<1> SUFFICES ASSUME LimitsInv PROVE LimitsHold
  OBVIOUS
<1>0. /\ AccountsInv /\ TypeOK /\ Covered /\ UnderLimit /\ InFlight /\ now \in Nat /\ Window \in Nat
      /\ events \in Seq(Event) /\ Len(events) \in Nat
  BY GateAssumption DEF LimitsInv, AccountsInv, TypeOK
<1>1. AdmittedUnderLimit /\ AdmissionsStayCounted
  <2>1. now - Window \in Int /\ now - Window >= now - Window
    BY <1>0
  <2>2. \A k \in Usable : k \in Keys /\ (table[k].requests # Unlimited => table[k].requests \in Nat)
    BY <1>0, TablesAreTyped DEF Usable, TypeOK, Limit
  <2>3. AdmittedUnderLimit
    <3> SUFFICES ASSUME NEW k \in Usable, table[k].requests # Unlimited
                 PROVE  Cardinality({r \in Of(k) \ forgotten : AdmittedInWindow(r)}) <= table[k].requests + Cardinality(PushedOut(k))
      BY DEF AdmittedUnderLimit
    <3> QED BY <1>0, <2>1, <2>2, WindowIsAfter DEF UnderLimit
  <2>4. AdmissionsStayCounted
    <3> SUFFICES ASSUME NEW k \in Usable
                 PROVE  Cardinality({r \in Of(k) \ forgotten : AdmittedInWindow(r)}) <= Counted(k) + Cardinality(PushedOut(k))
      BY DEF AdmissionsStayCounted
    <3>1. Counted(k) \in Nat /\ Cardinality(Admitted(k, now - Window)) <= Counted(k) + Cardinality(Lost(k, now - Window))
      BY <1>0, <2>1, <2>2, AdmissionsAreCounted
    <3> QED BY <1>0, <2>2, <3>1, WindowIsAfter
  <2> QED BY <2>3, <2>4
<1>2. OvershootWasInFlight
  <2> DEFINE since == now - Window
  <2>1. since \in Int /\ since >= now - Window
    BY <1>0
  <2> SUFFICES ASSUME NEW k \in Usable, table[k].tokens # Unlimited, Spent(k) >= table[k].tokens
               PROVE  \E i \in RecordedRows(k, since) :
                        /\ TokensOf(k, since)[i - 1] < table[k].tokens /\ TokensOf(k, since)[i] >= table[k].tokens
                        /\ \A r \in Of(k) \ forgotten : pc[r] = "open" => admittedAt[r] <= events[i].at
    BY DEF OvershootWasInFlight
  <2> HIDE DEF since
  <2>2. table[k].tokens \in Nat \ {0}
    BY <1>0, TablesAreTyped DEF Usable, TypeOK, Limit
  <2> DEFINE s == Weights(events, k, since)
  <2>3. /\ s \in Seq(Nat) /\ Len(s) = Len(events)
        /\ \A i \in 1..Len(events) : ~(events[i].key = k /\ events[i].at >= since) => s[i] = 0
    BY <1>0, <2>1, WeightsAre
  <2>4. TokensOf(k, since) = Sums(s) /\ Spent(k) = Sums(s)[Len(events)]
    BY TokensAre DEF Spent, since
  <2> HIDE DEF s
  <2>5. PICK i \in 1..Len(s) : Sums(s)[i - 1] < table[k].tokens /\ Sums(s)[i] >= table[k].tokens /\ s[i] > 0
    <3>1. Sums(s)[Len(s)] >= table[k].tokens
      BY <2>3, <2>4
    <3> QED BY <2>2, <2>3, <3>1, SumsCross
  <2>6. i \in 1..Len(events) /\ i \in DOMAIN events
    BY <1>0, <2>3
  <2>7. s[i] # 0
    BY <2>5
  <2>8. i \in RecordedRows(k, since)
    BY <2>3, <2>6, <2>7 DEF RecordedRows
  <2>9. \A r \in Of(k) \ forgotten : pc[r] = "open" => admittedAt[r] <= events[i].at
    BY <1>0, <2>1, <2>5, <2>6 DEF InFlight, s
  <2> QED BY <2>4, <2>5, <2>8, <2>9
<1> QED BY <1>0, <1>1, <1>2 DEF LimitsHold

(* Whatever the ring holds, a key's limits hold: no more than the limit is  *)
(* admitted in a window but for what a full ring forgot of it, no admission *)
(* is lost while rows replace reservations of others, and only requests     *)
(* that were under way when the tokens ran out may still exceed them.       *)
THEOREM LimitsStay == Spec => []LimitsHold
<1>1. LimitsInv /\ [Next]_vars => LimitsInv'
  <2> SUFFICES ASSUME LimitsInv, [Next]_vars PROVE LimitsInv'
    OBVIOUS
  <2>1. CASE \E r \in Requests : \E k \in Keys : Admit(r, k)
    BY <2>1, AdmitKeepsLimits
  <2>2. CASE \E r \in Requests : Complete(r)
    BY <2>2, CompleteKeepsLimits
  <2>3. CASE ~(\E r \in Requests : \E k \in Keys : Admit(r, k)) /\ ~(\E r \in Requests : Complete(r))
    BY <2>3, OthersKeepLimits DEF Next
  <2> QED BY <2>1, <2>2, <2>3
<1> QED BY InitLimits, <1>1, LimitsFollow, PTL DEF Spec
=============================================================================
