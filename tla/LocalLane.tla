------------------------------ MODULE LocalLane ------------------------------
(***************************************************************************)
(* providers/local-agent-backend.ts and its routes in server/server.ts:     *)
(* agents that work in a local directory. A run is a tool loop driven in    *)
(* the background; the state of its session lives in the backend object,    *)
(* which the bridge caches and drops on every reconfiguration, the mapping  *)
(* of conversations to sessions and the finished histories live on disk.    *)
(***************************************************************************)
EXTENDS Naturals

CONSTANTS
  Runs,            (* bound: POST /v1/cloud-agents/run requests             *)
  Conversations,   (* the session keys requests name                        *)
  MaxIds,          (* bound: session ids minted                             *)
  MaxBackends,     (* bound: backend objects built                          *)
  NoSession, NoRecord

Ids == 1..MaxIds
Backends == 1..MaxBackends

Status == {"RUNNING", "FINISHED", "CANCELLED"}
SessionState == [status : Status, aborted : BOOLEAN]
Record == [id : Ids, status : Status]

ASSUME LocalAssumption ==
  /\ MaxIds \in Nat \ {0}
  /\ MaxBackends \in Nat \ {0}
  /\ Conversations # {}
  /\ NoSession \notin SessionState
  /\ NoRecord \notin Record

VARIABLES
  backend,   (* agentBackendsCache: 0 or the backend in it                  *)
  built,     (* backends built so far                                       *)
  live,      (* per backend and id: status, and whether its abort is set    *)
  record,    (* CloudAgentSessionStore: conversation -> id, status          *)
  saved,     (* per id: the runs in the history that is on disk             *)
  minted,    (* session ids minted so far                                   *)
  runs,      (* every run: where it is, what it was given at its start      *)
  overlapped,(* runs that shared their session with another one under way   *)
  cancelled, (* runs that a cancel reached while they were under way        *)
  revived    (* of those, the runs whose session was started again          *)

localVars == <<backend, built, live, record, saved, minted, runs, overlapped,
               cancelled, revived>>

Ends == {"finished", "cancelled", "failed", "lost"}
Idle == [at |-> "new", of |-> CHOOSE c \in Conversations : TRUE, id |-> 1,
         backend |-> 1, history |-> {}]

LocalTypeOK ==
  /\ backend \in 0..MaxBackends
  /\ built \in 0..MaxBackends
  /\ live \in [Backends \X Ids -> SessionState \cup {NoSession}]
  /\ record \in [Conversations -> Record \cup {NoRecord}]
  /\ saved \in [Ids -> SUBSET Runs]
  /\ minted \in 0..MaxIds
  /\ \A c \in Conversations : record[c] # NoRecord => record[c].id <= minted
  /\ runs \in [Runs -> [at : {"new", "looping"} \cup Ends, of : Conversations, id : Ids,
                        backend : Backends, history : SUBSET Runs]]
  /\ overlapped \subseteq Runs
  /\ revived \subseteq cancelled /\ cancelled \subseteq Runs

LocalInit ==
  /\ backend = 0
  /\ built = 0
  /\ live = [x \in Backends \X Ids |-> NoSession]
  /\ record = [c \in Conversations |-> NoRecord]
  /\ saved = [i \in Ids |-> {}]
  /\ minted = 0
  /\ runs = [r \in Runs |-> Idle]
  /\ overlapped = {} /\ cancelled = {} /\ revived = {}

Looping(r) == runs[r].at = "looping"
LoopsOf(i) == {r \in Runs : Looping(r) /\ runs[r].id = i}
Place(r) == <<runs[r].backend, runs[r].id>>
Aborted(r) == live[Place(r)].aborted

-----------------------------------------------------------------------------
\* Whether the conversation has a session, and one to continue.
HasRecord(c) == record[c] # NoRecord

Continues(c) == HasRecord(c)

\* A new session id is minted for a conversation without a record.
MintedWith(c) == IF Continues(c) THEN minted ELSE minted + 1

\* The history a run of a session starts from.
HistoryOf(i) == saved[i]

\* The cached backend, or a new one.
CachedBackend == IF backend = 0 THEN built + 1 ELSE backend

\* startRun, and streamRun up to the loop's first await, which no other request
\* can come between. A session under way is not refused: its state object gets
\* a new controller.
StartRun(r, c) ==
  LET b == CachedBackend
      i == IF Continues(c) THEN record[c].id ELSE minted + 1
      stopped == LoopsOf(i) \cap cancelled
  IN
  /\ runs[r].at = "new"
  /\ b <= MaxBackends /\ i <= MaxIds
  /\ backend' = b
  /\ built' = IF backend = 0 THEN b ELSE built
  /\ minted' = MintedWith(c)
  /\ live' = [live EXCEPT ![<<b, i>>] = [status |-> "RUNNING", aborted |-> FALSE]]
  /\ record' = [record EXCEPT ![c] = [id |-> i, status |-> "RUNNING"]]
  /\ runs' = [runs EXCEPT ![r] = [at |-> "looping", of |-> c, id |-> i, backend |-> b,
                                  history |-> HistoryOf(i)]]
  /\ overlapped' = IF LoopsOf(i) = {} THEN overlapped ELSE overlapped \cup LoopsOf(i) \cup {r}
  /\ revived' = revived \cup stopped
  /\ UNCHANGED <<saved, cancelled>>

\* handleCloudAgentRun: a request starts a run and drives it in the background.
RequestRun(r) == \E c \in Conversations : StartRun(r, c)

\* The loop's next event, whatever it is, finds the controller aborted.
Stop(r) ==
  /\ Looping(r) /\ Aborted(r)
  /\ live' = [live EXCEPT ![Place(r)].status = "CANCELLED"]
  /\ runs' = [runs EXCEPT ![r].at = "cancelled"]
  /\ UNCHANGED <<backend, built, record, saved, minted, overlapped, cancelled, revived>>

\* Whether the loop may take the event it was given.
Heard(r) == ~Aborted(r)

\* The last event carries the history; the session is finished with it.
Finish(r) ==
  /\ Looping(r) /\ Heard(r)
  /\ saved' = [saved EXCEPT ![runs[r].id] = runs[r].history \cup {r}]
  /\ live' = [live EXCEPT ![Place(r)].status = "FINISHED"]
  /\ record' = [record EXCEPT ![runs[r].of] = [id |-> runs[r].id, status |-> "FINISHED"]]
  /\ runs' = [runs EXCEPT ![r].at = "finished"]
  /\ UNCHANGED <<backend, built, minted, overlapped, cancelled, revived>>

\* The loop throws: the session counts as finished, nothing is recorded.
Fail(r) ==
  /\ Looping(r)
  /\ live' = [live EXCEPT ![Place(r)].status = "FINISHED"]
  /\ runs' = [runs EXCEPT ![r].at = "failed"]
  /\ UNCHANGED <<backend, built, record, saved, minted, overlapped, cancelled, revived>>

Held(i) == backend # 0 /\ live[<<backend, i>>] # NoSession

\* What GET answers for a session: its state in the backend, a finished session
\* if there is only a history, a 404 otherwise.
Answered(i) ==
  IF Held(i) THEN live[<<backend, i>>].status
  ELSE IF saved[i] # {} THEN "FINISHED" ELSE "not found"

\* What the list shows for a session: the record's word if the backend has none.
ListedAs(i) ==
  IF Held(i) THEN {live[<<backend, i>>].status}
  ELSE {record[c].status : c \in {d \in Conversations : HasRecord(d) /\ record[d].id = i}}

\* The cancel route: the session must be found, and be held by the backend; its
\* status does not matter.
Cancel(i) ==
  /\ Answered(i) # "not found" /\ Held(i)
  /\ live' = [live EXCEPT ![<<backend, i>>] = [status |-> "CANCELLED", aborted |-> TRUE]]
  /\ cancelled' = cancelled \cup {r \in LoopsOf(i) : runs[r].backend = backend}
  /\ UNCHANGED <<backend, built, record, saved, minted, runs, overlapped, revived>>

\* Every reconfiguration drops the cache; loops under way go on.
Reconfigure ==
  /\ backend # 0
  /\ backend' = 0
  /\ UNCHANGED <<built, live, record, saved, minted, runs, overlapped, cancelled, revived>>

\* The process ends: backends and loops are gone, files stay.
Gone ==
  /\ backend' = 0
  /\ live' = [x \in Backends \X Ids |-> NoSession]
  /\ runs' = [r \in Runs |-> IF Looping(r) THEN [runs[r] EXCEPT !.at = "lost"] ELSE runs[r]]
  /\ UNCHANGED <<built, minted, overlapped, cancelled, revived>>

Restart == Gone /\ UNCHANGED <<record, saved>>

DieAfterRecord(r) ==   \* mutant: the record is written before the history
  /\ Looping(r) /\ Heard(r)
  /\ Gone
  /\ record' = [record EXCEPT ![runs[r].of] = [id |-> runs[r].id, status |-> "FINISHED"]]
  /\ UNCHANGED saved

\* The process ends between the two writes of Finish.
DieAfterSave(r) ==
  /\ Looping(r) /\ Heard(r)
  /\ Gone
  /\ saved' = [saved EXCEPT ![runs[r].id] = runs[r].history \cup {r}]
  /\ UNCHANGED record

LocalNext ==
  \/ \E r \in Runs : \/ RequestRun(r)
                     \/ Stop(r) \/ Finish(r) \/ Fail(r) \/ DieAfterSave(r)
  \/ \E i \in Ids : Cancel(i)
  \/ Reconfigure
  \/ Restart

LocalSpec == LocalInit /\ [][LocalNext]_localVars

-----------------------------------------------------------------------------
(* "Conversations map to sessions durably": all runs of a conversation, in  *)
(* whatever process and after whatever end of the run before, belong to one *)
(* session, and no session serves two conversations.                        *)
OneSessionPerConversation ==
  \A q, r \in Runs :
    runs[q].at # "new" /\ runs[r].at # "new" =>
      (runs[q].of = runs[r].of <=> runs[q].id = runs[r].id)

(* "a run left un-driven would sit at RUNNING forever": a session says      *)
(* RUNNING only while a loop of it is under way, and a loop that nothing    *)
(* else touched is said to be running.                                      *)
StatusFollowsTheLoop ==
  /\ \A b \in Backends, i \in Ids :
       live[<<b, i>>] # NoSession /\ live[<<b, i>>].status = "RUNNING" =>
         \E r \in LoopsOf(i) : runs[r].backend = b
  /\ \A r \in Runs \ (overlapped \cup cancelled) :
       Looping(r) => live[Place(r)].status = "RUNNING"

(* "only completed sessions are durable", and those are: what the record    *)
(* calls finished has a history on disk, even if the process ended between  *)
(* the two writes.                                                          *)
CompletedSessionsAreDurable ==
  \A c \in Conversations :
    HasRecord(c) /\ record[c].status = "FINISHED" => saved[record[c].id] # {}

(* A finished run stays in the history of its session for good, unless it   *)
(* shared the session with another one: two such runs start from the same   *)
(* history and the second to finish overwrites the first.                   *)
FinishedRunsAreKept ==
  \A r \in Runs :
    runs[r].at = "finished" /\ (\A q \in overlapped : runs[q].id # runs[r].id)
      => r \in saved[runs[r].id]

(* A run that was cancelled never becomes part of a history, unless its     *)
(* session was started again before the loop noticed.                       *)
CancelledRunsLeaveNoHistory ==
  \A r \in cancelled \ revived : \A i \in Ids : r \notin saved[i]

(* What the lane guarantees of sessions, statuses, records and histories. *)
LaneIsSound ==
  /\ LocalTypeOK
  /\ OneSessionPerConversation
  /\ StatusFollowsTheLoop
  /\ CompletedSessionsAreDurable
  /\ FinishedRunsAreKept
  /\ CancelledRunsLeaveNoHistory

(* What the cancel route answers holds: a cancelled run does not finish.    *)
CancelledRunsStop == \A r \in cancelled : runs[r].at # "finished"

(* A run under way can be cancelled.                                        *)
RunsCanBeCancelled ==
  \A r \in Runs : Looping(r) => runs[r].backend = backend

(* What the list says is running is running.                                *)
ListedRunsAreRunning == \A i \in Ids : "RUNNING" \in ListedAs(i) => LoopsOf(i) # {}

(* What is listed can be fetched.                                           *)
ListedIsFound == \A i \in Ids : ListedAs(i) # {} => Answered(i) # "not found"
=============================================================================
