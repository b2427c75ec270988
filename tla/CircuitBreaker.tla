--------------------------- MODULE CircuitBreaker ---------------------------
(***************************************************************************)
(* core/circuit-breaker.ts: the lane-health engine of catalog mode. A rate  *)
(* limit trips a lane at once; other failures trip it after a threshold and *)
(* then for an escalating window; anything less only cools it for a grace   *)
(* period. A lane the breaker never heard of and one it forgot are both the *)
(* Closed state.                                                           *)
(***************************************************************************)
EXTENDS Integers

CONSTANTS
  Lanes,
  FailureThreshold, BaseTripMs, MaxTripMs, GraceMs,
  RateLimitTripsImmediately,
  RetryAfters,   (* the Retry-After values providers send; 0 = none sent    *)
  NoError,
  MaxNow,        (* bound: how far the clock runs                           *)
  MaxFailures    (* bound: consecutive failures of one lane                 *)

Errors == [kind : {"limit", "fault"}, retryAfterMs : RetryAfters]

ASSUME BreakerAssumption ==
  /\ FailureThreshold \in Nat \ {0}
  /\ BaseTripMs \in Nat \ {0}
  /\ MaxTripMs \in Nat \ {0}
  /\ GraceMs \in Nat \ {0}
  /\ RateLimitTripsImmediately \in BOOLEAN
  /\ RetryAfters \subseteq Nat
  /\ NoError \notin Errors
  /\ MaxNow \in Nat
  /\ MaxFailures \in Nat

\* The one fact about powers the proofs need; true for every exponent.
ASSUME PowersArePositive == \A k \in 0..MaxFailures : 2^k \in Nat \ {0}

VARIABLES
  now,        (* the clock the engine reads                                 *)
  lanes,      (* per lane: consecutiveFailures, trips, trippedUntil         *)
  failures    (* the last failure reported for each lane                    *)

vars == <<now, lanes, failures>>

Min2(a, b) == IF a < b THEN a ELSE b
Max2(a, b) == IF a < b THEN b ELSE a

LaneState == [consecutiveFailures : 0..MaxFailures, trips : 0..MaxFailures,
              trippedUntil : Nat]
Closed == [consecutiveFailures |-> 0, trips |-> 0, trippedUntil |-> 0]

TypeOK ==
  /\ now \in 0..MaxNow
  /\ lanes \in [Lanes -> LaneState]
  /\ failures \in [Lanes -> Errors \cup {NoError}]

Init ==
  /\ now = 0
  /\ lanes = [l \in Lanes |-> Closed]
  /\ failures = [l \in Lanes |-> NoError]

CooldownMs(l) == Max2(0, lanes[l].trippedUntil - now)

\* What the settings page shows for a lane.
Health(l) ==
  IF lanes[l].consecutiveFailures = 0 THEN "closed"
  ELSE IF lanes[l].trippedUntil > now THEN "open" ELSE "half-open"

-----------------------------------------------------------------------------
\* The window a rate limit, a tripping failure and a blip earn.
LimitWindow(e) ==
  Min2(IF e.retryAfterMs > 0 THEN e.retryAfterMs ELSE GraceMs, MaxTripMs)

TripWindow(e, trips) ==
  IF e.retryAfterMs > 0 THEN Min2(e.retryAfterMs, MaxTripMs)
  ELSE Min2(BaseTripMs * 2^(trips - 1), MaxTripMs)

TripsLater(e) == FALSE   \* mutant: a rate limit escalates like any failure

TripsAtOnce(e) == e.kind = "limit" /\ RateLimitTripsImmediately

\* The lane state after one more failure.
AfterFailure(st, e) ==
  LET n == st.consecutiveFailures + 1 IN
  IF TripsAtOnce(e)
  THEN [consecutiveFailures |-> n, trips |-> st.trips,
        trippedUntil |-> now + LimitWindow(e)]
  ELSE IF n >= FailureThreshold
  THEN [consecutiveFailures |-> n, trips |-> st.trips + 1,
        trippedUntil |-> now + TripWindow(e, st.trips + 1)]
  ELSE [consecutiveFailures |-> n, trips |-> st.trips,
        trippedUntil |-> now + GraceMs]

CoolForgetsFailure(l, e) ==   \* mutant: the failure is not recorded
  /\ lanes[l].consecutiveFailures < MaxFailures
  /\ lanes' = [lanes EXCEPT ![l] = AfterFailure(lanes[l], e)]
  /\ UNCHANGED <<now, failures>>

\* A walk may report a failure at any time, also of a parked lane: the call
\* may have been under way when another one parked it.
Cool(l, e) ==
  /\ lanes[l].consecutiveFailures < MaxFailures
  /\ lanes' = [lanes EXCEPT ![l] = AfterFailure(lanes[l], e)]
  /\ failures' = [failures EXCEPT ![l] = e]
  /\ UNCHANGED now

SuccessKeepsTrips(l) ==   \* mutant: a recovery does not undo the escalation
  /\ lanes' = [lanes EXCEPT ![l].consecutiveFailures = 0, ![l].trippedUntil = 0]
  /\ failures' = [failures EXCEPT ![l] = NoError]
  /\ UNCHANGED now

Success(l) ==
  /\ lanes' = [lanes EXCEPT ![l] = Closed]
  /\ failures' = [failures EXCEPT ![l] = NoError]
  /\ UNCHANGED now

Clear ==
  /\ lanes' = [l \in Lanes |-> Closed]
  /\ failures' = [l \in Lanes |-> NoError]
  /\ UNCHANGED now

Tick ==
  /\ now < MaxNow
  /\ now' = now + 1
  /\ UNCHANGED <<lanes, failures>>

Next ==
  \/ \E l \in Lanes, e \in Errors : Cool(l, e)
  \/ \E l \in Lanes : Success(l)
  \/ Clear
  \/ Tick

Spec == Init /\ [][Next]_vars

-----------------------------------------------------------------------------
(* No failure, however many preceded it, parks a lane beyond the ceiling    *)
(* (the grace period of a blip is not capped by the code).                  *)
WindowBounded ==
  \A l \in Lanes : CooldownMs(l) <= Max2(MaxTripMs, GraceMs)

(* A lane only escalates on failures past the threshold since its last      *)
(* success: no history from before a recovery lengthens a later window.     *)
TripsArePastThreshold ==
  \A l \in Lanes :
    lanes[l].trips > 0 =>
      lanes[l].trips + FailureThreshold <= lanes[l].consecutiveFailures + 1

(* What the breaker guarantees of its windows, whatever walks report to
   it. *)
WindowsAreSound ==
  TypeOK /\ WindowBounded /\ TripsArePastThreshold

(* What the settings page calls open is exactly what a walk skips, and a    *)
(* lane it calls closed has no failure a stop lane could report.            *)
HealthIsWhatWalksSee ==
  \A l \in Lanes :
    /\ Health(l) = "open" <=> CooldownMs(l) > 0
    /\ Health(l) = "closed" <=> failures[l] = NoError

(* The breaker keeps the LaneCooldown contract: the remaining time is read  *)
(* from the clock, and a failure counts only while its lane is parked.      *)
Contract == INSTANCE LaneCooldown WITH
  MaxPark <- Max2(MaxTripMs, GraceMs),
  parked <- [l \in Lanes |-> CooldownMs(l)],
  why <- [l \in Lanes |-> IF CooldownMs(l) > 0 THEN failures[l] ELSE NoError]

KeepsContract == Contract!Spec
=============================================================================
