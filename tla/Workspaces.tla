----------------------------- MODULE Workspaces -----------------------------
(***************************************************************************)
(* The workspace routes of the bridge: chat sessions and work orders, each *)
(* one file that is read before a chat and written, by a rename, after it. *)
(* Requests overlap; a cancel aborts the chat of a work order, and the     *)
(* provider may answer all the same. A restart of the bridge loses what is *)
(* in memory: the requests, and the controllers of the work orders.        *)
(***************************************************************************)
EXTENDS Naturals, SequencesExt, FiniteSets

CONSTANTS
    ChatSessions,   \* sessions that were created
    Appends,        \* requests that append a message to a session
    WorkOrders

VARIABLES
    stored,     \* per session: the messages in its file, as <<author, request>>
    appends,    \* per request: its state, its session and the messages it holds
    orders,     \* per work order: the status in its file, "none" before it is created
    controllers,\* the work orders with a controller in the map of this process
    aborted,    \* the work orders whose signal is aborted
    chats,      \* the work orders whose request waits for its chat
    replied,    \* history: per work order, the status its own request was answered with
    acked,      \* history: the appends answered with 200
    crossed,    \* history: the appends that overlapped another of their session
    ignored     \* history: the work orders whose provider answered after the abort

workspaceVars == <<stored, appends, orders, controllers, aborted, chats, replied, acked, crossed, ignored>>

NewAppend == [state |-> "new", session |-> "none", messages |-> <<>>]

WorkspaceInit ==
    /\ stored = [s \in ChatSessions |-> <<>>] /\ appends = [r \in Appends |-> NewAppend]
    /\ orders = [o \in WorkOrders |-> "none"] /\ controllers = {} /\ aborted = {} /\ chats = {}
    /\ replied = [o \in WorkOrders |-> "none"]
    /\ acked = {} /\ crossed = {} /\ ignored = {}

orderVars == <<orders, controllers, aborted, chats, replied, ignored>>
sessionVars == <<stored, appends, acked, crossed>>

-----------------------------------------------------------------------------
(* Sessions. *)

Waiting(s) == {q \in Appends : appends[q].state = "chatting" /\ appends[q].session = s}

\* The file is read, the question joined to what it holds, and the chat begun.
AppendMessage(r, s) ==
    /\ appends[r].state = "new"
    /\ appends' = [appends EXCEPT ![r] = [state |-> "chatting", session |-> s, messages |-> Append(stored[s], <<"user", r>>)]]
    /\ crossed' = IF Waiting(s) = {} THEN crossed ELSE crossed \cup Waiting(s) \cup {r}
    /\ UNCHANGED <<stored, acked, orderVars>>

AppendAnswered(r) ==
    /\ appends[r].state = "chatting"
    /\ stored' = [stored EXCEPT ![appends[r].session] = Append(appends[r].messages, <<"assistant", r>>)]
    /\ appends' = [appends EXCEPT ![r].state = "over"]
    /\ acked' = acked \cup {r}
    /\ UNCHANGED <<crossed, orderVars>>

\* The chat fails: 500, and the file stays.
AppendFails(r) ==
    /\ appends[r].state = "chatting"
    /\ appends' = [appends EXCEPT ![r].state = "over"]
    /\ UNCHANGED <<stored, acked, crossed, orderVars>>

-----------------------------------------------------------------------------
(* Work orders. *)

CreateWorkOrder(o) ==
    /\ orders[o] = "none"
    /\ orders' = [orders EXCEPT ![o] = "running"]
    /\ controllers' = controllers \cup {o} /\ chats' = chats \cup {o}
    /\ UNCHANGED <<aborted, replied, ignored, sessionVars>>

\* The request of a work order writes its last status and is answered with it.
Settle(o, status) ==
    /\ o \in chats /\ chats' = chats \ {o} /\ controllers' = controllers \ {o}
    /\ orders' = [orders EXCEPT ![o] = status]
    /\ replied' = [replied EXCEPT ![o] = status]
    /\ UNCHANGED <<aborted, sessionVars>>

\* The chat resolves, also one whose abort its provider does not look at.
OrderDone(o) == Settle(o, "done") /\ ignored' = IF o \in aborted THEN ignored \cup {o} ELSE ignored

\* Every failure is one, the abort's too.
OrderThrowsFailed(o) == Settle(o, "failed") /\ UNCHANGED ignored

\* The chat throws: of the abort, or of its own.
OrderThrows(o) == Settle(o, IF o \in aborted THEN "cancelled" ELSE "failed") /\ UNCHANGED ignored

\* Looks at no status first.
CancelAnyOrder(o) ==
    /\ orders[o] # "none"
    /\ aborted' = IF o \in controllers THEN aborted \cup {o} ELSE aborted
    /\ orders' = [orders EXCEPT ![o] = "cancelled"]
    /\ UNCHANGED <<controllers, chats, replied, ignored, sessionVars>>

CancelWorkOrder(o) ==
    /\ orders[o] \in {"running", "cancelled"}
    /\ aborted' = IF o \in controllers THEN aborted \cup {o} ELSE aborted
    /\ orders' = [orders EXCEPT ![o] = "cancelled"]
    /\ UNCHANGED <<controllers, chats, replied, ignored, sessionVars>>

\* The bridge ends and starts again: requests and controllers are gone.
WorkspaceRestart ==
    /\ chats # {} \/ \E r \in Appends : appends[r].state = "chatting"
    /\ appends' = [r \in Appends |-> IF appends[r].state = "chatting" THEN [appends[r] EXCEPT !.state = "over"] ELSE appends[r]]
    /\ controllers' = {} /\ chats' = {}
    /\ UNCHANGED <<stored, acked, crossed, orders, aborted, replied, ignored>>

WorkspaceNext ==
    \/ \E r \in Appends, s \in ChatSessions : AppendMessage(r, s)
    \/ \E r \in Appends : AppendAnswered(r) \/ AppendFails(r)
    \/ \E o \in WorkOrders : CreateWorkOrder(o) \/ OrderDone(o) \/ OrderThrows(o) \/ CancelWorkOrder(o)
    \/ WorkspaceRestart

-----------------------------------------------------------------------------
(* Properties *)

\* An exchange that was answered stays in its session, unless another append of
\* the session was under way at the same time.
ExchangesLoseOnlyToOverlap ==
    \A r \in acked \ crossed : \E i \in DOMAIN stored[appends[r].session] : stored[appends[r].session][i] = <<"assistant", r>>

\* A session's file holds whole exchanges, whatever failed or overlapped.
ExchangesAreWhole ==
    \A s \in ChatSessions : \A i \in DOMAIN stored[s] :
        stored[s][i][1] = "user" <=> i + 1 \in DOMAIN stored[s] /\ stored[s][i+1] = <<"assistant", stored[s][i][2]>>

\* A work order that was answered is on file with the status it was answered
\* with; one that a cancel was acknowledged for is cancelled, unless its
\* provider answered in spite of the abort.
OrdersSayWhatHappened ==
    \A o \in WorkOrders :
        /\ replied[o] # "none" => orders[o] = replied[o]
        /\ o \in aborted \ ignored => orders[o] = "cancelled"

(* Sessions and work orders say what happened. *)
SessionsAreSound ==
  /\ ExchangesLoseOnlyToOverlap
  /\ ExchangesAreWhole
  /\ OrdersSayWhatHappened

\* What is done or failed on file stays so: late cancels are refused.
FinishedOrdersStay ==
    [][\A o \in WorkOrders : orders[o] \in {"done", "failed"} => orders'[o] = orders[o]]_workspaceVars
=============================================================================
