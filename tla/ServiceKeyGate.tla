--------------------------- MODULE ServiceKeyGate ---------------------------
(***************************************************************************)
(* core/key-gate.ts with the usage tracker and store it counts from         *)
(* (core/usage.ts, core/usage-storage.ts) and the server that drives both   *)
(* (server.ts incomingServiceKey, emitUsage, reconfigure). A keyed request   *)
(* reserves a slot when it is admitted; its usage event replaces the oldest *)
(* reservation of its key when it lands. Reservations live in the gate, and *)
(* a reconfiguration builds a new gate.                                     *)
(***************************************************************************)
EXTENDS Integers, Sequences, FiniteSets

CONSTANTS
  Requests, Keys,
  Tables,       (* key tables the settings may hold: usable key -> limits     *)
  Unlimited,
  Window,       (* the rolling window (24 hours)                             *)
  MaxEvents,    (* MAX_EVENTS, the tracker's ring                            *)
  MaxTokens,    (* bound: tokens of one answer                               *)
  MaxNow,       (* bound: how far the clock runs                             *)
  NoKey

Limit == (Nat \ {0}) \cup {Unlimited}   \* a mint and a settings Apply refuse 0

ASSUME GateAssumption ==
  /\ IsFiniteSet(Requests)
  /\ Window \in Nat \ {0} /\ MaxEvents \in Nat \ {0}
  /\ MaxTokens \in Nat /\ MaxNow \in Nat
  /\ NoKey \notin Keys
  /\ \A t \in Tables :
       DOMAIN t \subseteq Keys /\ t \in [DOMAIN t -> [requests : Limit, tokens : Limit]]

VARIABLES
  now,
  table,          (* the keys the gate was built with                        *)
  reservations,   (* per key: admission times whose event has not landed      *)
  events,         (* UsageTracker.events, oldest first                       *)
  rows,         (* the SQLite table                                        *)
  pc, key,        (* each inbound request and the key it came in on          *)
  admittedAt,
  forgotten       (* requests admitted before a gate swap, restart or reset   *)

tracker == <<events, rows>>
ghosts == <<admittedAt, forgotten>>
vars == <<now, table, reservations, tracker, pc, key, ghosts>>

Never == -1
Event == [key : Keys \cup {NoKey}, at : 0..MaxNow, tokens : 0..MaxTokens]

TypeOK ==
  /\ now \in 0..MaxNow
  /\ table \in Tables
  /\ reservations \in [Keys -> Seq(0..MaxNow)]
  /\ events \in Seq(Event) /\ rows \in Seq(Event)
  /\ pc \in [Requests -> {"idle", "open", "served", "failed"}]
  /\ key \in [Requests -> Keys \cup {NoKey}]
  /\ admittedAt \in [Requests -> {Never} \cup 0..MaxNow]
  /\ forgotten \subseteq Requests

Init ==
  /\ now = 0
  /\ table \in Tables
  /\ reservations = [k \in Keys |-> <<>>]
  /\ events = <<>> /\ rows = <<>>
  /\ pc = [r \in Requests |-> "idle"]
  /\ key = [r \in Requests |-> NoKey]
  /\ admittedAt = [r \in Requests |-> Never]
  /\ forgotten = {}

-----------------------------------------------------------------------------
Usable == DOMAIN table
Fresh(ts) == ts > now - Window              \* pruneReservations

\* Times are pushed in their order, so what the filter drops is a prefix.
Pruned(k) ==
  LET list == reservations[k]
      fresh == {i \in DOMAIN list : Fresh(list[i])}
  IN IF fresh = {} THEN <<>>
     ELSE SubSeq(list, CHOOSE i \in fresh : \A j \in fresh : i <= j, Len(list))

\* The rows of a key since a time, and what a reduce over all makes of theirs.
RecordedRows(k, since) == {i \in DOMAIN events : events[i].key = k /\ events[i].at >= since}
Sums(s) ==
  LET sum[n \in 0..Len(s)] == IF n = 0 THEN 0 ELSE sum[n - 1] + s[n] IN sum
TokensOf(k, since) ==
  Sums([i \in DOMAIN events |-> IF i \in RecordedRows(k, since) THEN events[i].tokens ELSE 0])

\* compositeUsage: recorded events plus open reservations.
Counted(k) == Cardinality(RecordedRows(k, now - Window)) + Len(Pruned(k))
Spent(k) == TokensOf(k, now - Window)[Len(events)]

Below(n, limit) == limit = Unlimited \/ n < limit

OverLimit(k) ==
  ~Below(Counted(k), table[k].requests) \/ ~Below(Spent(k), table[k].tokens)

LastOf(s, n) == IF Len(s) <= n THEN s ELSE SubSeq(s, Len(s) - n + 1, Len(s))

-----------------------------------------------------------------------------
\* incomingServiceKey of a request with a usable key: decide, then reserve.
Admit(r, k) ==
  /\ pc[r] = "idle" /\ k \in Usable /\ ~OverLimit(k)
  /\ reservations' = [reservations EXCEPT ![k] = Append(Pruned(k), now)]
  /\ pc' = [pc EXCEPT ![r] = "open"]
  /\ key' = [key EXCEPT ![r] = k]
  /\ admittedAt' = [admittedAt EXCEPT ![r] = now]
  /\ UNCHANGED <<now, table, tracker, forgotten>>

\* No usable key configured: no gate at all.
AdmitUngated(r) ==
  /\ pc[r] = "idle" /\ Usable = {}
  /\ pc' = [pc EXCEPT ![r] = "open"]
  /\ admittedAt' = [admittedAt EXCEPT ![r] = now]
  /\ UNCHANGED <<now, table, reservations, tracker, key, forgotten>>

\* A 429 prunes the ledger (and names, in Retry-After, when a slot frees).
Deny(k) ==
  /\ k \in Usable /\ OverLimit(k)
  /\ reservations' = [reservations EXCEPT ![k] = Pruned(k)]
  /\ UNCHANGED <<now, table, tracker, pc, key, admittedAt, forgotten>>

\* UsageTracker.record.
RecordUsage(e) ==
  /\ events' = LastOf(Append(events, e), MaxEvents)
  /\ rows' = Append(rows, e)

ReconcileNothing(k) == UNCHANGED reservations   \* mutant: the event is counted twice

ReconcileAll(k) ==   \* mutant: one event settles every open reservation
  IF k = NoKey THEN UNCHANGED reservations
  ELSE reservations' = [reservations EXCEPT ![k] = <<>>]

\* ServiceKeyGate.reconcileUsage: the oldest reservation gives way.
Reconcile(k) ==
  IF k = NoKey \/ reservations[k] = <<>> THEN UNCHANGED reservations
  ELSE reservations' = [reservations EXCEPT ![k] = Tail(@)]

\* The request completes: emitUsage reconciles with the gate of the moment.
\* An ungated request without usage numbers records nothing.
Complete(r) ==
  /\ pc[r] = "open"
  /\ Reconcile(key[r])
  /\ \/ \E n \in 0..MaxTokens : RecordUsage([key |-> key[r], at |-> now, tokens |-> n])
     \/ key[r] = NoKey /\ UNCHANGED tracker
  /\ pc' = [pc EXCEPT ![r] = "served"]
  /\ UNCHANGED <<now, table, key, admittedAt, forgotten>>

\* The walk fails, the body is refused, or the client hangs up mid-stream.
AnswerFails(r) ==
  /\ pc[r] = "open"
  /\ pc' = [pc EXCEPT ![r] = "failed"]
  /\ UNCHANGED <<now, table, reservations, tracker, key, ghosts>>

\* A settings Apply builds a new gate, also when the keys did not change.
TakeTable(t) ==
  /\ table' = t
  /\ reservations' = [k \in Keys |-> <<>>]
  /\ forgotten' = {r \in Requests : pc[r] # "idle"}
  /\ UNCHANGED <<now, tracker, pc, key, admittedAt>>

\* POST /v1/usage/reset.
ResetUsage ==
  /\ events' = <<>> /\ rows' = <<>>
  /\ forgotten' = {r \in Requests : pc[r] # "idle"}
  /\ UNCHANGED <<now, table, reservations, pc, key, admittedAt>>

\* The daemon restarts: open requests die and the tracker is loaded back.
BridgeRestarts ==
  /\ reservations' = [k \in Keys |-> <<>>]
  /\ events' = LastOf(rows, MaxEvents)
  /\ pc' = [r \in Requests |-> IF pc[r] = "open" THEN "failed" ELSE pc[r]]
  /\ forgotten' = {r \in Requests : pc[r] # "idle"}
  /\ UNCHANGED <<now, table, rows, key, admittedAt>>

Tick ==
  /\ now < MaxNow
  /\ now' = now + 1
  /\ UNCHANGED <<table, reservations, tracker, pc, key, ghosts>>

Next ==
  \/ \E r \in Requests : (\E k \in Keys : Admit(r, k)) \/ AdmitUngated(r) \/ Complete(r) \/ AnswerFails(r)
  \/ \E k \in Keys : Deny(k)
  \/ \E t \in Tables : TakeTable(t)
  \/ ResetUsage
  \/ BridgeRestarts
  \/ Tick

Spec == Init /\ [][Next]_vars

-----------------------------------------------------------------------------
Of(k) == {r \in Requests : key[r] = k}
AdmittedInWindow(r) == admittedAt[r] # Never /\ Fresh(admittedAt[r])

\* Rows the ring gave up while they were in the window (UsageTracker.record).
Rolled == 1..(Len(rows) - Len(events))
PushedOut(k) == {i \in Rolled : rows[i].key = k /\ rows[i].at >= now - Window}

(* The daily request limit: however events land, out of order or after      *)
(* their reservation aged out, no more requests than the limit are admitted *)
(* within one window of one gate's life, but for those that took the place  *)
(* of a row the full ring pushed out.                                       *)
AdmittedUnderLimit ==
  \A k \in Usable :
    table[k].requests # Unlimited =>
      Cardinality({r \in Of(k) \ forgotten : AdmittedInWindow(r)})
        <= table[k].requests + Cardinality(PushedOut(k))

(* "Even failed attempts count": an admitted request stays counted against  *)
(* its key until it is out of the window, whether it is still open, failed, *)
(* or landed and took the place of another request's reservation; only a    *)
(* full ring forgets it sooner.                                             *)
AdmissionsStayCounted ==
  \A k \in Usable :
    Cardinality({r \in Of(k) \ forgotten : AdmittedInWindow(r)})
      <= Counted(k) + Cardinality(PushedOut(k))

(* No request takes two slots: at most one row or one reservation exists    *)
(* for each request of a key, though rows replace reservations that belong  *)
(* to other requests.                                                       *)
NothingCountedTwice ==
  \A k \in Keys :
    Cardinality({i \in DOMAIN events : events[i].key = k}) + Len(reservations[k]) <= Cardinality(Of(k))

(* "Recorded usage stays under the limit", but for the answers under way:   *)
(* a request that is open while its key has spent its tokens was admitted   *)
(* no later than the row that spent them landed.                            *)
OvershootWasInFlight ==
  \A k \in Usable :
    table[k].tokens # Unlimited /\ Spent(k) >= table[k].tokens =>
      LET tokens == TokensOf(k, now - Window) IN
      \E i \in RecordedRows(k, now - Window) :
        /\ tokens[i - 1] < table[k].tokens /\ tokens[i] >= table[k].tokens
        /\ \A r \in Of(k) \ forgotten :
             pc[r] = "open" => admittedAt[r] <= events[i].at

(* The limits of a key, seen from the window's end: who was admitted, who
   is counted, and what may exceed them. *)
LimitsHold ==
  AdmittedUnderLimit /\ AdmissionsStayCounted /\ OvershootWasInFlight

(* A restart loses no counted usage: what the tracker counts from is what   *)
(* the store would give back.                                               *)
TrackerMirrorsStore == events = LastOf(rows, MaxEvents)

(* What the gate and the tracker hold is what happened: nothing twice,
   nothing the store does not have. *)
AccountsAreRight ==
  TypeOK /\ NothingCountedTwice /\ TrackerMirrorsStore

-----------------------------------------------------------------------------
(* What the comments say, and the code does not do.                         *)

(* "in-flight requests finish under the gate they were admitted by": an     *)
(* open request of a usable key is counted against it.                      *)
InFlightStayCounted ==
  \A k \in Usable :
    Cardinality({r \in Of(k) : pc[r] = "open" /\ AdmittedInWindow(r)}) <= Counted(k)
=============================================================================
