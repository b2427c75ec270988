------------------------- MODULE MemoryLaneCooldown -------------------------
(***************************************************************************)
(* core/cooldown.ts: the plain engine. Every failure parks its lane until   *)
(* now + Retry-After (or a grace period); expired entries are swept whenever*)
(* a lane is read or cooled, and an expired lane's failure goes with them.  *)
(***************************************************************************)
EXTENDS Integers

CONSTANTS
  Lanes, GraceMs,
  RetryAfters,   (* Retry-After values providers send; 0 = none sent         *)
  NoError,
  MaxNow         (* bound: how far the clock runs                            *)

Errors == [kind : {"limit", "fault"}, retryAfterMs : RetryAfters]

\* The longest window a failure can earn.
Longest == CHOOSE n \in RetryAfters \cup {GraceMs} :
             \A m \in RetryAfters \cup {GraceMs} : m <= n

\* What the options and the walks guarantee; the module that runs assumes it.
MemoryAssumption ==
  /\ GraceMs \in Nat \ {0}
  /\ RetryAfters \subseteq Nat
  /\ \E n \in RetryAfters \cup {GraceMs} : \A m \in RetryAfters \cup {GraceMs} : m <= n
  /\ NoError \notin Errors
  /\ MaxNow \in Nat

Absent == -1   (* no entry in the until map *)

VARIABLES now, until, failures

vars == <<now, until, failures>>

TypeOK ==
  /\ now \in 0..MaxNow
  /\ until \in [Lanes -> {Absent} \cup 1..(MaxNow + Longest)]
  /\ failures \in [Lanes -> Errors \cup {NoError}]

Init ==
  /\ now = 0
  /\ until = [l \in Lanes |-> Absent]
  /\ failures = [l \in Lanes |-> NoError]

Expired(l) == until[l] # Absent /\ until[l] <= now
SweptUntil == [l \in Lanes |-> IF Expired(l) THEN Absent ELSE until[l]]
SweptFailures == [l \in Lanes |-> IF Expired(l) THEN NoError ELSE failures[l]]

CooldownMs(l) == IF until[l] > now THEN until[l] - now ELSE 0

-----------------------------------------------------------------------------
\* cooldownMs: reading any lane sweeps every expired one.
Read ==
  /\ until' = SweptUntil
  /\ failures' = SweptFailures
  /\ UNCHANGED now

CoolUnswept(l, e) ==   \* mutant: cooling a lane sweeps nothing
  LET window == IF e.retryAfterMs > 0 THEN e.retryAfterMs ELSE GraceMs IN
  /\ until' = [until EXCEPT ![l] = now + window]
  /\ failures' = [failures EXCEPT ![l] = e]
  /\ UNCHANGED now

Cool(l, e) ==
  LET window == IF e.retryAfterMs > 0 THEN e.retryAfterMs ELSE GraceMs IN
  /\ until' = [SweptUntil EXCEPT ![l] = now + window]
  /\ failures' = [SweptFailures EXCEPT ![l] = e]
  /\ UNCHANGED now

Success(l) ==
  /\ until' = [until EXCEPT ![l] = Absent]
  /\ failures' = [failures EXCEPT ![l] = NoError]
  /\ UNCHANGED now

Clear ==
  /\ until' = [l \in Lanes |-> Absent]
  /\ failures' = [l \in Lanes |-> NoError]
  /\ UNCHANGED now

Tick ==
  /\ now < MaxNow
  /\ now' = now + 1
  /\ UNCHANGED <<until, failures>>

Next ==
  \/ Read
  \/ \E l \in Lanes, e \in Errors : Cool(l, e)
  \/ \E l \in Lanes : Success(l)
  \/ Clear
  \/ Tick

Spec == Init /\ [][Next]_vars

-----------------------------------------------------------------------------
(* A recorded failure never outlives its entry, nor an entry its failure:   *)
(* the two maps the sweep keeps in step hold the same lanes.                *)
MapsAgree == \A l \in Lanes : until[l] = Absent <=> failures[l] = NoError

(* The engine keeps the LaneCooldown contract.                              *)
Contract == INSTANCE LaneCooldown WITH
  MaxPark <- Longest,
  parked <- [l \in Lanes |-> CooldownMs(l)],
  why <- [l \in Lanes |-> IF CooldownMs(l) > 0 THEN failures[l] ELSE NoError]

KeepsContract == Contract!Spec
=============================================================================
