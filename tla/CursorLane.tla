----------------------------- MODULE CursorLane -----------------------------
(***************************************************************************)
(* providers/cursor-cloud.ts: how a turn of a conversation finds the agent  *)
(* that serves it. The mapping is held twice, in memory and as one file per *)
(* conversation, so that a restarted bridge continues the agent of an       *)
(* earlier process. Every vendor call is an await: other turns, deletions   *)
(* at the vendor and the end of the process happen in between.              *)
(***************************************************************************)
EXTENDS Naturals

CONSTANTS
  Turns,       (* bound: requests routed to the lane                        *)
  Sessions,    (* session ids the bridge derives for conversations          *)
  MaxAgents,   (* bound: agents the vendor creates                          *)
  NoAgent

Agents == 1..MaxAgents

ASSUME CursorAssumption ==
  /\ MaxAgents \in Nat
  /\ Sessions # {}
  /\ NoAgent \notin Agents

VARIABLES
  perRequest,  (* config.sessionReuse = 'per-request'                       *)
  memory,      (* CursorCloudSessionStore: session -> agent                 *)
  disk,        (* CloudAgentSessionStore: session -> agent, kept on restart *)
  agents,      (* the vendor's agents: whose they are, idle, busy or gone   *)
  turns,       (* every turn: where it is, its session, its agent           *)
  crowded,     (* sessions two of whose turns looked for an agent at once   *)
  lost         (* sessions an answer or a write of which was lost           *)

cursorVars == <<perRequest, memory, disk, agents, turns, crowded, lost>>

Unborn == [state |-> "unborn", of |-> CHOOSE s \in Sessions : TRUE]
Stages == {"new", "asking", "creating", "created", "streaming", "done", "failed"}

CursorTypeOK ==
  /\ perRequest \in BOOLEAN
  /\ memory \in [Sessions -> Agents \cup {NoAgent}]
  /\ disk \in [Sessions -> Agents \cup {NoAgent}]
  /\ agents \in [Agents -> [state : {"unborn", "idle", "busy", "gone"}, of : Sessions]]
  /\ turns \in [Turns -> [at : Stages, session : Sessions, agent : Agents \cup {NoAgent}]]
  /\ \A t \in Turns : turns[t].at \in {"asking", "created", "streaming"} =>
       turns[t].agent \in Agents /\ agents[turns[t].agent] # Unborn
  /\ crowded \subseteq Sessions
  /\ lost \subseteq Sessions

CursorInit ==
  /\ perRequest \in BOOLEAN
  /\ memory = [s \in Sessions |-> NoAgent]
  /\ disk = [s \in Sessions |-> NoAgent]
  /\ agents = [a \in Agents |-> Unborn]
  /\ turns = [t \in Turns |-> [at |-> "new", session |-> Unborn.of, agent |-> NoAgent]]
  /\ crowded = {}
  /\ lost = {}

At(t, stage) == turns[t].at = stage
Alive(a) == agents[a].state \in {"idle", "busy"}
Resolving(s) == {t \in Turns : turns[t].session = s /\ turns[t].at \in {"asking", "creating", "created"}}
Go(t, stage) == turns' = [turns EXCEPT ![t].at = stage]

\* In memory first, then the durable map.
Recorded(s) == IF memory[s] # NoAgent THEN memory[s] ELSE disk[s]

Known(agent) == agent # NoAgent

\* resolveRun up to its first vendor call.
BeginTurn(t, s) ==
  LET agent == IF perRequest THEN NoAgent ELSE Recorded(s) IN
  /\ At(t, "new")
  /\ turns' = [turns EXCEPT ![t] =
       [at |-> IF Known(agent) THEN "asking" ELSE "creating",
        session |-> s, agent |-> agent]]
  /\ crowded' = IF Resolving(s) # {} THEN crowded \cup {s} ELSE crowded
  /\ UNCHANGED <<perRequest, memory, disk, agents, lost>>

\* createRun on an agent that is there and idle.
RunAccepted(t) ==
  /\ At(t, "asking")
  /\ agents[turns[t].agent].state = "idle"
  /\ agents' = [agents EXCEPT ![turns[t].agent].state = "busy"]
  /\ Go(t, "streaming")
  /\ UNCHANGED <<perRequest, memory, disk, crowded, lost>>

\* Any answer but a 404 ends the turn: the agent is busy (409), the key is bad,
\* the vendor is down.
RunRefused(t) ==
  /\ At(t, "asking")
  /\ Go(t, "failed")
  /\ UNCHANGED <<perRequest, memory, disk, agents, crowded, lost>>

Forget(s) ==
  /\ memory' = [memory EXCEPT ![s] = NoAgent]
  /\ disk' = [disk EXCEPT ![s] = NoAgent]

\* The recorded agent is gone: drop the mapping and create a fresh one.
AgentMissing(t) ==
  /\ At(t, "asking")
  /\ agents[turns[t].agent].state = "gone"
  /\ Forget(turns[t].session)
  /\ Go(t, "creating")
  /\ UNCHANGED <<perRequest, agents, crowded, lost>>

\* POST /agents, as the vendor carries it out: an agent with its first run.
CreateAgent(t, a) ==
  /\ At(t, "creating")
  /\ a \in Agents /\ \A b \in Agents : agents[b] = Unborn <=> b >= a
  /\ agents' = [agents EXCEPT ![a] = [state |-> "busy", of |-> turns[t].session]]
  /\ turns' = [turns EXCEPT ![t].at = "created", ![t].agent = a]
  /\ UNCHANGED <<perRequest, memory, disk, crowded, lost>>

\* No repository to work on, or the vendor refuses.
CreationRefused(t) ==
  /\ At(t, "creating")
  /\ Go(t, "failed")
  /\ UNCHANGED <<perRequest, memory, disk, agents, crowded, lost>>

RememberInMemory(s, a) ==   \* mutant: the durable write is left out
  /\ memory' = [memory EXCEPT ![s] = a]
  /\ UNCHANGED disk

Remember(s, a) ==
  /\ memory' = [memory EXCEPT ![s] = a]
  /\ disk' = [disk EXCEPT ![s] = a]

\* The answer to POST /agents arrives.
AgentCreated(t) ==
  /\ At(t, "created")
  /\ IF perRequest THEN UNCHANGED <<memory, disk>>
     ELSE Remember(turns[t].session, turns[t].agent)
  /\ Go(t, "streaming")
  /\ UNCHANGED <<perRequest, agents, crowded, lost>>

\* The record cannot be written: memory holds the agent, the turn fails.
RecordUnwritten(t) ==
  /\ At(t, "created") /\ ~perRequest
  /\ memory' = [memory EXCEPT ![turns[t].session] = turns[t].agent]
  /\ lost' = lost \cup {turns[t].session}
  /\ Go(t, "failed")
  /\ UNCHANGED <<perRequest, disk, agents, crowded>>

\* The agent was made and the answer never came.
AnswerLost(t) ==
  /\ At(t, "created")
  /\ lost' = lost \cup {turns[t].session}
  /\ Go(t, "failed")
  /\ UNCHANGED <<perRequest, memory, disk, agents, crowded>>

\* The run's events end with a result, with an error, or with the stream.
EndStream(t) ==
  /\ At(t, "streaming")
  /\ \E end \in {"done", "failed"} : Go(t, end)
  /\ UNCHANGED <<perRequest, memory, disk, agents, crowded, lost>>

\* At the vendor: a run ends or is cancelled, an agent is deleted.
RunEnds(a) ==
  /\ agents[a].state = "busy"
  /\ agents' = [agents EXCEPT ![a].state = "idle"]
  /\ UNCHANGED <<perRequest, memory, disk, turns, crowded, lost>>

DeleteAgent(a) ==
  /\ Alive(a)
  /\ agents' = [agents EXCEPT ![a].state = "gone"]
  /\ UNCHANGED <<perRequest, memory, disk, turns, crowded, lost>>

\* The process ends, and every turn with it; files and agents stay.
CursorRestart ==
  /\ memory' = [s \in Sessions |-> NoAgent]
  /\ lost' = lost \cup {turns[t].session : t \in {u \in Turns : At(u, "created")}}
  /\ turns' = [t \in Turns |->
       IF turns[t].at \in {"new", "done", "failed"} THEN turns[t]
       ELSE [turns[t] EXCEPT !.at = "failed"]]
  /\ UNCHANGED <<perRequest, disk, agents, crowded>>

TurnStep(t) ==
  \/ \E s \in Sessions : BeginTurn(t, s)
  \/ RunAccepted(t) \/ RunRefused(t) \/ AgentMissing(t)
  \/ \E a \in Agents : CreateAgent(t, a)
  \/ CreationRefused(t)
  \/ AgentCreated(t) \/ RecordUnwritten(t) \/ AnswerLost(t)
  \/ EndStream(t)

VendorStep == \E a \in Agents : RunEnds(a) \/ DeleteAgent(a)

CursorNext == (\E t \in Turns : TurnStep(t)) \/ VendorStep \/ CursorRestart

CursorSpec == CursorInit /\ [][CursorNext]_cursorVars

-----------------------------------------------------------------------------
(* "a restarted bridge continues an existing session instead of forking a   *)
(* new one": whatever was deleted at the vendor, recovered from and         *)
(* restarted, an agent that is still there is the one its conversation is   *)
(* recorded to have, unless turns of the conversation ran into each other   *)
(* or an answer of the vendor was lost. Agents of the per-request mode are  *)
(* recorded nowhere.                                                        *)
OrphansHaveACause ==
  perRequest \/
  \A a \in Agents :
    Alive(a) /\ agents[a].of \notin crowded \cup lost =>
      \/ Recorded(agents[a].of) = a
      \/ \E t \in Turns : At(t, "created") /\ turns[t].agent = a

(* A restart changes no conversation's agent: what memory answers first is  *)
(* what the file would answer.                                              *)
RestartKeepsAgents ==
  \A s \in Sessions :
    memory[s] # NoAgent /\ s \notin lost => disk[s] = memory[s]

(* A conversation keeps its agent, or there is a reason. *)
AgentsAreKept ==
  CursorTypeOK /\ OrphansHaveACause /\ RestartKeepsAgents

(* What the recovery from a stale agent is for: a mapping is only dropped   *)
(* or replaced when its agent is gone.                                      *)
OnlyStaleAgentsAreForgotten ==
  [][\A s \in Sessions :
       disk[s] # NoAgent /\ disk'[s] # disk[s] => agents[disk[s]].state = "gone"]_cursorVars
=============================================================================
