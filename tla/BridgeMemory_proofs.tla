------------------------- MODULE BridgeMemory_proofs --------------------------
(***************************************************************************)
(* What the bridge remembers from one request to the next.                 *)
(*                                                                         *)
(* Of lanes: what core/circuit-breaker.ts and core/cooldown.ts guarantee   *)
(* for every set of lanes and every choice of threshold and windows: the   *)
(* breaker by itself, then the two engines fed alike. Of conversations:    *)
(* what turns that overlap, fail and are cut off by restarts can rely on,  *)
(* for any number of clients, calls and turns and any cap of the memory.   *)
(* The two share no state.                                                 *)
(***************************************************************************)
EXTENDS MC_CooldownEngines, Conversations, FiniteSetTheorems, SequenceTheorems, WellFoundedInduction, TLAPS

-----------------------------------------------------------------------------
(* Lanes that rest. *)

(* The windows a failure can earn are positive and at most the ceiling.     *)
LEMMA LimitWindowBounds ==
  ASSUME NEW e \in Errors
  PROVE  LimitWindow(e) \in 1..Max2(MaxTripMs, GraceMs)
<1>1. e.retryAfterMs \in Nat
  BY BreakerAssumption DEF Errors
<1> QED
  BY <1>1, BreakerAssumption DEF LimitWindow, Min2, Max2

LEMMA TripWindowBounds ==
  ASSUME NEW e \in Errors, NEW trips \in 1..MaxFailures
  PROVE  TripWindow(e, trips) \in 1..Max2(MaxTripMs, GraceMs)
<1>0. e.retryAfterMs \in Nat
  BY BreakerAssumption DEF Errors
<1>1. CASE e.retryAfterMs > 0
  <2>1. TripWindow(e, trips) = Min2(e.retryAfterMs, MaxTripMs)
    BY <1>1 DEF TripWindow
  <2> QED
    BY <1>0, <1>1, <2>1, BreakerAssumption DEF Min2, Max2
<1>2. CASE ~(e.retryAfterMs > 0)
  <2>1. trips - 1 \in 0..MaxFailures
    BY BreakerAssumption
  <2>2. PICK power \in Nat \ {0} : power = 2^(trips - 1)
    BY <2>1, PowersArePositive
  <2>3. BaseTripMs * power \in Nat /\ BaseTripMs * power > 0
    BY <2>2, BreakerAssumption
  <2>4. TripWindow(e, trips) = Min2(BaseTripMs * power, MaxTripMs)
    BY <1>2, <2>2 DEF TripWindow
  <2> QED
    BY <2>3, <2>4, BreakerAssumption DEF Min2, Max2
<1> QED
  BY <1>1, <1>2

-----------------------------------------------------------------------------
(* The inductive invariant: trips stay behind failures, which keeps the     *)
(* exponent in range, and no window ends later than the ceiling from now.   *)
IInv ==
  /\ TypeOK
  /\ TripsArePastThreshold
  /\ WindowBounded

(* One more failure yields a lane state of the right shape, a later trip    *)
(* count only past the threshold, and a window between 1 and the ceiling.   *)
LEMMA AfterFailureBounds ==
  ASSUME now \in 0..MaxNow,
         NEW st \in LaneState, NEW e \in Errors,
         st.consecutiveFailures < MaxFailures,
         st.trips > 0 => st.trips + FailureThreshold <= st.consecutiveFailures + 1
  PROVE  LET after == AfterFailure(st, e) IN
         /\ after \in LaneState
         /\ after.trips > 0 =>
              after.trips + FailureThreshold <= after.consecutiveFailures + 1
         /\ after.trippedUntil - now \in 1..Max2(MaxTripMs, GraceMs)
<1> DEFINE n == st.consecutiveFailures + 1
<1>0. n \in 0..MaxFailures /\ st.trips \in 0..MaxFailures /\ now \in Nat
  BY BreakerAssumption DEF LaneState
<1>1. CASE TripsAtOnce(e)
  <2>1. LimitWindow(e) \in 1..Max2(MaxTripMs, GraceMs)
    BY LimitWindowBounds
  <2> QED
    BY <1>0, <1>1, <2>1, BreakerAssumption DEF AfterFailure, LaneState, Max2
<1>2. CASE ~TripsAtOnce(e) /\ n >= FailureThreshold
  <2>1. st.trips + 1 \in 1..MaxFailures
    BY <1>0, <1>2, BreakerAssumption DEF LaneState
  <2>2. TripWindow(e, st.trips + 1) \in 1..Max2(MaxTripMs, GraceMs)
    BY <2>1, TripWindowBounds
  <2> QED
    BY <1>0, <1>2, <2>1, <2>2, BreakerAssumption DEF AfterFailure, LaneState, Max2
<1>3. CASE ~TripsAtOnce(e) /\ ~(n >= FailureThreshold)
  BY <1>0, <1>3, BreakerAssumption DEF AfterFailure, LaneState, Max2
<1> QED
  BY <1>1, <1>2, <1>3

(* No step of the breaker leaves the invariant.                             *)
LEMMA StepKeepsIInv ==
  ASSUME IInv, [Next]_vars
  PROVE  IInv'
<1> USE BreakerAssumption
<1>1. ASSUME NEW l \in Lanes, NEW e \in Errors, Cool(l, e) PROVE IInv'
  <2> DEFINE after == AfterFailure(lanes[l], e)
  <2>1. /\ after \in LaneState
        /\ after.trips > 0 =>
             after.trips + FailureThreshold <= after.consecutiveFailures + 1
        /\ after.trippedUntil - now \in 1..Max2(MaxTripMs, GraceMs)
    BY <1>1, AfterFailureBounds DEF Cool, IInv, TypeOK, TripsArePastThreshold
  <2>2. lanes' = [lanes EXCEPT ![l] = after] /\ now' = now
    BY <1>1 DEF Cool
  <2> HIDE DEF after
  <2>3. TypeOK'
    BY <1>1, <2>1, <2>2 DEF Cool, IInv, TypeOK
  <2>4. TripsArePastThreshold'
    BY <2>1, <2>2 DEF IInv, TypeOK, TripsArePastThreshold
  <2>5. WindowBounded'
    BY <2>1, <2>2 DEF IInv, TypeOK, WindowBounded, CooldownMs, Max2, LaneState
  <2> QED
    BY <2>3, <2>4, <2>5 DEF IInv
<1>2. ASSUME NEW l \in Lanes, Success(l) PROVE IInv'
  BY <1>2 DEF Success, IInv, TypeOK, TripsArePastThreshold, WindowBounded, Closed,
              LaneState, CooldownMs, Max2
<1>3. CASE Clear
  BY <1>3 DEF Clear, IInv, TypeOK, TripsArePastThreshold, WindowBounded, Closed,
              LaneState, CooldownMs, Max2
<1>4. CASE Tick
  BY <1>4 DEF Tick, IInv, TypeOK, TripsArePastThreshold, WindowBounded, LaneState,
              CooldownMs, Max2
<1>5. CASE UNCHANGED vars
  BY <1>5 DEF vars, IInv, TypeOK, TripsArePastThreshold, WindowBounded, CooldownMs
<1> QED
  BY <1>1, <1>2, <1>3, <1>4, <1>5 DEF Next

LEMMA Inductive == Spec => []IInv
<1>1. Init => IInv
  BY BreakerAssumption DEF Init, IInv, TypeOK, TripsArePastThreshold, WindowBounded, Closed,
     LaneState, CooldownMs, Max2
<1>2. IInv /\ [Next]_vars => IInv'
  BY StepKeepsIInv
<1> QED
  BY <1>1, <1>2, PTL DEF Spec

(* Lane states keep their shape however often lanes fail and recover.       *)
THEOREM TypeCorrect == Spec => []TypeOK
BY Inductive, PTL DEF Spec, IInv

(* No sequence of failures parks a lane beyond the ceiling.                 *)
THEOREM WindowsAreBounded == Spec => []WindowBounded
BY Inductive, PTL DEF Spec, IInv

(* Escalation counts only failures since the last success.                  *)
THEOREM EscalationIsEarned == Spec => []TripsArePastThreshold
BY Inductive, PTL DEF Spec, IInv

(* All that the breaker guarantees of its windows, for any lanes, thresholds*)
(* and ceilings.                                                            *)
THEOREM WindowsStaySound == Spec => []WindowsAreSound
<1>1. TypeOK /\ WindowBounded /\ TripsArePastThreshold => WindowsAreSound
  BY DEF WindowsAreSound
<1> QED
  BY <1>1, TypeCorrect, WindowsAreBounded, EscalationIsEarned, PTL

-----------------------------------------------------------------------------
(* Every step of the breaker is a step of the contract or leaves its view   *)
(* unchanged, so the breaker keeps the LaneCooldown contract.               *)
LEMMA StepKeepsContract ==
  ASSUME IInv, [Next]_vars
  PROVE  [Contract!Next]_(Contract!vars)
<1> USE BreakerAssumption
<1> DEFINE parked == [l \in Lanes |-> CooldownMs(l)]
           why == [l \in Lanes |-> IF CooldownMs(l) > 0 THEN failures[l] ELSE NoError]
<1>0. /\ now \in Nat
      /\ \A l \in Lanes : lanes[l].trippedUntil \in Nat /\ CooldownMs(l) \in Nat
  BY DEF IInv, TypeOK, LaneState, CooldownMs, Max2
<1>1. ASSUME NEW l \in Lanes, NEW e \in Errors, Cool(l, e)
      PROVE  Contract!Next
  <2> DEFINE after == AfterFailure(lanes[l], e)
             window == after.trippedUntil - now
  <2>1. window \in 1..Max2(MaxTripMs, GraceMs) /\ after \in LaneState
    BY <1>1, AfterFailureBounds DEF Cool, IInv, TypeOK, TripsArePastThreshold
  <2>2. /\ lanes' = [lanes EXCEPT ![l] = after]
        /\ failures' = [failures EXCEPT ![l] = e]
        /\ now' = now
    BY <1>1 DEF Cool
  <2> HIDE DEF after
  <2>3. CooldownMs(l)' = window
    BY <1>0, <2>1, <2>2 DEF CooldownMs, Max2, IInv, TypeOK, LaneState
  <2>4. \A m \in Lanes : m # l => CooldownMs(m)' = CooldownMs(m)
    BY <2>2 DEF CooldownMs, IInv, TypeOK
  <2>5. parked' = [parked EXCEPT ![l] = window]
    BY <2>3, <2>4
  <2> HIDE DEF window
  <2>6. why' = [why EXCEPT ![l] = e]
    <3>1. CooldownMs(l)' > 0
      BY <2>1, <2>3
    <3>2. failures'[l] = e /\ \A m \in Lanes : m # l => failures'[m] = failures[m]
      BY <2>2 DEF IInv, TypeOK
    <3> QED
      BY <2>4, <3>1, <3>2
  <2> QED
    BY <2>1, <2>5, <2>6 DEF Contract!Next, Contract!Cool
<1>2. ASSUME NEW l \in Lanes, Success(l)
      PROVE  Contract!Next
  <2>1. /\ lanes' = [lanes EXCEPT ![l] = Closed]
        /\ failures' = [failures EXCEPT ![l] = NoError]
        /\ now' = now
    BY <1>2 DEF Success
  <2>2. CooldownMs(l)' = 0
    BY <1>0, <2>1 DEF CooldownMs, Max2, IInv, TypeOK, Closed
  <2>3. \A m \in Lanes : m # l => CooldownMs(m)' = CooldownMs(m)
    BY <2>1 DEF CooldownMs, IInv, TypeOK
  <2>4. parked' = [parked EXCEPT ![l] = 0] /\ why' = [why EXCEPT ![l] = NoError]
    BY <1>0, <2>1, <2>2, <2>3 DEF IInv, TypeOK
  <2> QED
    BY <2>4 DEF Contract!Next, Contract!Success
<1>3. CASE Clear
  <2>1. \A m \in Lanes : CooldownMs(m)' = 0
    BY <1>0, <1>3 DEF Clear, CooldownMs, Max2, Closed
  <2>2. parked' = [m \in Lanes |-> 0] /\ why' = [m \in Lanes |-> NoError]
    BY <2>1
  <2> QED
    BY <2>2 DEF Contract!Next, Contract!Clear
<1>4. CASE Tick
  <2>1. \A m \in Lanes :
          CooldownMs(m)' = IF CooldownMs(m) > 0 THEN CooldownMs(m) - 1 ELSE 0
    BY <1>0, <1>4 DEF Tick, CooldownMs, Max2
  <2>2. parked' = [m \in Lanes |-> IF parked[m] > 0 THEN parked[m] - 1 ELSE 0]
    BY <2>1
  <2>3. why' = [m \in Lanes |-> IF parked[m] > 1 THEN why[m] ELSE NoError]
    BY <1>0, <1>4, <2>1 DEF Tick
  <2> QED
    BY <2>2, <2>3 DEF Contract!Next, Contract!Tick, Contract!Parked
<1>5. CASE UNCHANGED vars
  <2>1. parked' = parked /\ why' = why
    BY <1>5 DEF vars, CooldownMs
  <2> QED
    BY <2>1 DEF Contract!vars
<1> QED
  BY <1>1, <1>2, <1>3, <1>4, <1>5 DEF Next

(* The breaker implements the contract the failover walk relies on.         *)
THEOREM BreakerKeepsContract == Spec => KeepsContract
<1>1. Init => Contract!Init
  BY BreakerAssumption DEF Init, Contract!Init, CooldownMs, Max2, Closed
<1>2. IInv /\ [Next]_vars => [Contract!Next]_(Contract!vars)
  BY StepKeepsContract
<1> QED
  BY <1>1, <1>2, Inductive, PTL DEF Spec, KeepsContract, Contract!Spec

-----------------------------------------------------------------------------
(* The two engines fed alike.                                              *)

\* How the breaker's counters go with the failure it has on record.
CountersMatch ==
  \A l \in Lanes :
    /\ lanes[l].consecutiveFailures = 0 <=> failures[l] = NoError
    /\ failures[l] = NoError => lanes[l].trippedUntil = 0

\* A window a rate limit gave ends no later than the plain engine's entry,
\* and is over when that engine has none.
LimitsEndTogether ==
  \A l \in Lanes :
    failures[l] # NoError /\ failures[l].kind = "limit" /\ RateLimitTripsImmediately
    => IF until[l] = Plain!Absent THEN lanes[l].trippedUntil <= now
       ELSE lanes[l].trippedUntil <= until[l]

BothInv ==
  /\ IInv
  /\ PlainTypeOK
  /\ MapsAgree
  /\ CountersMatch
  /\ LimitsEndTogether

bothVars == <<vars, until, reported>>

\* The window the plain engine gives a failure.
PlainWindow(e) == IF e.retryAfterMs > 0 THEN e.retryAfterMs ELSE GraceMs

(* The longest window is one of the windows, and none is longer.            *)
LEMMA LongestIsLongest ==
  /\ Plain!Longest \in Nat \ {0}
  /\ \A e \in Errors : PlainWindow(e) \in 1..Plain!Longest
<1>1. PICK n \in RetryAfters \cup {GraceMs} : \A m \in RetryAfters \cup {GraceMs} : m <= n
  BY PlainAssumption DEF Plain!MemoryAssumption
<1>2. /\ Plain!Longest \in RetryAfters \cup {GraceMs}
      /\ \A m \in RetryAfters \cup {GraceMs} : m <= Plain!Longest
  BY <1>1 DEF Plain!Longest
<1>3. \A e \in Errors : e.retryAfterMs \in RetryAfters
  BY DEF Errors
<1>4. RetryAfters \subseteq Nat /\ GraceMs \in Nat \ {0}
  BY BreakerAssumption
<1>5. Plain!Longest \in Nat /\ Plain!Longest >= GraceMs
  BY <1>2, <1>4
<1>6. ASSUME NEW e \in Errors PROVE PlainWindow(e) \in 1..Plain!Longest
  <2>1. CASE e.retryAfterMs > 0
    <3>1. e.retryAfterMs <= Plain!Longest /\ e.retryAfterMs \in Nat
      BY <1>2, <1>3, <1>4
    <3> QED
      BY <1>5, <2>1, <3>1 DEF PlainWindow
  <2>2. CASE ~(e.retryAfterMs > 0)
    BY <1>4, <1>5, <2>2 DEF PlainWindow
  <2> QED
    BY <2>1, <2>2
<1> QED
  BY <1>4, <1>5, <1>6

(* A step of both engines is a step of the breaker or leaves it alone.      *)
LEMMA BothStepsAreBreakerSteps == [BothNext]_bothVars => [Next]_vars
BY DEF BothNext, BothCool, BothSuccess, BothClear, BothRead, BothTick, Plain!Read, Next, vars, bothVars

(* Both engines take the same report, in terms of their own state.          *)
LEMMA BothCoolStep ==
  ASSUME BothInv, NEW l \in Lanes, NEW e \in Errors, BothCool(l, e)
  PROVE  /\ now' = now
         /\ lanes' = [lanes EXCEPT ![l] = AfterFailure(lanes[l], e)]
         /\ failures' = [failures EXCEPT ![l] = e]
         /\ until' = [Plain!SweptUntil EXCEPT ![l] = now + PlainWindow(e)]
         /\ reported' = [Plain!SweptFailures EXCEPT ![l] = e]
BY DEF BothCool, Cool, Plain!Cool, PlainWindow

LEMMA SweptEntries ==
  ASSUME BothInv, NEW l \in Lanes
  PROVE  /\ Plain!SweptUntil[l] \in {Plain!Absent, until[l]}
         /\ Plain!SweptUntil[l] = Plain!Absent <=> Plain!SweptFailures[l] = NoError
         /\ Plain!SweptFailures[l] \in {NoError, reported[l]}
         /\ Plain!SweptUntil[l] = Plain!Absent => until[l] <= now
         /\ Plain!SweptUntil[l] # Plain!Absent =>
              Plain!SweptUntil[l] > now /\ Plain!SweptFailures[l] = reported[l]
<1>1. until[l] \in {-1} \cup 1..(MaxNow + Plain!Longest) /\ now \in 0..MaxNow
  BY DEF BothInv, PlainTypeOK, Plain!TypeOK, Plain!Absent
<1>2. until[l] = -1 <=> reported[l] = NoError
  BY DEF BothInv, MapsAgree, Plain!MapsAgree, Plain!Absent
<1>3. until[l] \in Int /\ now \in Int
  BY <1>1, LongestIsLongest, BreakerAssumption
<1>4. CASE until[l] # -1 /\ until[l] <= now
  BY <1>2, <1>4 DEF Plain!SweptUntil, Plain!SweptFailures, Plain!Expired, Plain!Absent
<1>5. CASE until[l] = -1
  BY <1>1, <1>2, <1>5 DEF Plain!SweptUntil, Plain!SweptFailures, Plain!Expired, Plain!Absent
<1>6. CASE until[l] # -1 /\ until[l] > now
  BY <1>2, <1>3, <1>6 DEF Plain!SweptUntil, Plain!SweptFailures, Plain!Expired, Plain!Absent
<1> QED
  BY <1>3, <1>4, <1>5, <1>6

(* A report: a failure is counted, the windows agree, the rest is swept.    *)
LEMMA CoolKeepsBoth ==
  ASSUME BothInv, IInv', NEW l \in Lanes, NEW e \in Errors, BothCool(l, e)
  PROVE  BothInv'
<1> DEFINE after == AfterFailure(lanes[l], e)
<1> USE BreakerAssumption
<1>1. /\ now' = now
      /\ lanes' = [lanes EXCEPT ![l] = after]
      /\ failures' = [failures EXCEPT ![l] = e]
      /\ until' = [Plain!SweptUntil EXCEPT ![l] = now + PlainWindow(e)]
      /\ reported' = [Plain!SweptFailures EXCEPT ![l] = e]
  BY BothCoolStep
<1>2. /\ lanes[l] \in LaneState /\ now \in 0..MaxNow /\ now \in Nat
      /\ lanes[l].consecutiveFailures \in Nat
  BY DEF BothInv, IInv, TypeOK, LaneState
<1>3. /\ after.consecutiveFailures = lanes[l].consecutiveFailures + 1
      /\ TripsAtOnce(e) => after.trippedUntil = now + LimitWindow(e)
  BY DEF AfterFailure
<1> HIDE DEF after
<1>4. PlainWindow(e) \in 1..Plain!Longest /\ Plain!Longest \in Nat
  BY LongestIsLongest
<1>5. PlainTypeOK'
  <2>1. \A m \in Lanes : /\ Plain!SweptUntil[m] \in {Plain!Absent} \cup 1..(MaxNow + Plain!Longest)
                         /\ Plain!SweptFailures[m] \in Errors \cup {NoError}
    BY SweptEntries DEF BothInv, PlainTypeOK, Plain!TypeOK, Plain!Errors, Errors
  <2>2. now + PlainWindow(e) \in 1..(MaxNow + Plain!Longest)
    BY <1>2, <1>4
  <2>3. /\ until' \in [Lanes -> {Plain!Absent} \cup 1..(MaxNow + Plain!Longest)]
        /\ reported' \in [Lanes -> Errors \cup {NoError}]
    BY <1>1, <2>1, <2>2 DEF Plain!SweptUntil, Plain!SweptFailures
  <2> QED
    BY <1>1, <1>2, <2>3 DEF PlainTypeOK, Plain!TypeOK, Plain!Errors, Errors
<1>6. MapsAgree'
  <2>1. now + PlainWindow(e) # Plain!Absent /\ e # NoError
    BY <1>2, <1>4 DEF Plain!Absent
  <2>2. ASSUME NEW m \in Lanes PROVE until'[m] = Plain!Absent <=> reported'[m] = NoError
    BY <1>1, <2>1, SweptEntries DEF Plain!SweptUntil, Plain!SweptFailures
  <2> QED
    BY <2>2 DEF MapsAgree, Plain!MapsAgree, Plain!Absent
<1>7. CountersMatch'
  BY <1>1, <1>2, <1>3 DEF BothInv, CountersMatch, IInv, TypeOK
<1>8. LimitsEndTogether'
  <2> SUFFICES ASSUME NEW m \in Lanes, failures'[m] # NoError, failures'[m].kind = "limit",
                      RateLimitTripsImmediately
               PROVE  IF until'[m] = Plain!Absent THEN lanes'[m].trippedUntil <= now'
                      ELSE lanes'[m].trippedUntil <= until'[m]
    BY DEF LimitsEndTogether, Plain!Absent
  <2>1. CASE m = l
    <3>1. failures'[m] = e /\ lanes'[m] = after /\ until'[m] = now + PlainWindow(e)
      BY <1>1, <2>1 DEF BothInv, IInv, TypeOK, Plain!SweptUntil
    <3>2. after.trippedUntil = now + LimitWindow(e)
      BY <1>3, <3>1 DEF TripsAtOnce
    <3>3. LimitWindow(e) \in Int /\ LimitWindow(e) <= PlainWindow(e)
      BY LimitWindowBounds, <1>4 DEF LimitWindow, PlainWindow, Min2, Errors
    <3> QED
      BY <1>2, <1>4, <3>1, <3>2, <3>3 DEF Plain!Absent
  <2>2. CASE m # l
    <3>1. failures'[m] = failures[m] /\ lanes'[m] = lanes[m] /\ until'[m] = Plain!SweptUntil[m]
      BY <1>1, <2>2 DEF BothInv, IInv, TypeOK, Plain!SweptUntil
    <3>2. lanes[m].trippedUntil \in Nat
      BY DEF BothInv, IInv, TypeOK, LaneState
    <3>3. until[m] \in Int
      BY LongestIsLongest DEF BothInv, PlainTypeOK, Plain!TypeOK, Plain!Absent
    <3> QED
      BY <1>1, <1>2, <3>1, <3>2, <3>3, SweptEntries DEF BothInv, LimitsEndTogether
  <2> QED
    BY <2>1, <2>2
<1> QED
  BY <1>5, <1>6, <1>7, <1>8 DEF BothInv

(* A read sweeps the plain engine and leaves the breaker alone.             *)
LEMMA ReadKeepsBoth ==
  ASSUME BothInv, IInv', BothRead
  PROVE  BothInv'
<1> USE BreakerAssumption
<1>1. /\ now' = now /\ lanes' = lanes /\ failures' = failures
      /\ until' = Plain!SweptUntil /\ reported' = Plain!SweptFailures
  BY DEF BothRead, Plain!Read
<1>2. PlainTypeOK'
  <2>1. \A m \in Lanes : /\ Plain!SweptUntil[m] \in {Plain!Absent} \cup 1..(MaxNow + Plain!Longest)
                         /\ Plain!SweptFailures[m] \in Errors \cup {NoError}
    BY SweptEntries DEF BothInv, PlainTypeOK, Plain!TypeOK, Plain!Errors, Errors
  <2>2. /\ until' \in [Lanes -> {Plain!Absent} \cup 1..(MaxNow + Plain!Longest)]
        /\ reported' \in [Lanes -> Errors \cup {NoError}]
    BY <1>1, <2>1 DEF Plain!SweptUntil, Plain!SweptFailures
  <2> QED
    BY <1>1, <2>2 DEF BothInv, PlainTypeOK, Plain!TypeOK, Plain!Errors, Errors
<1>3. MapsAgree'
  BY <1>1, SweptEntries DEF MapsAgree, Plain!MapsAgree, Plain!Absent
<1>4. CountersMatch'
  BY <1>1 DEF BothInv, CountersMatch
<1>5. LimitsEndTogether'
  <2> SUFFICES ASSUME NEW m \in Lanes, failures[m] # NoError, failures[m].kind = "limit",
                      RateLimitTripsImmediately
               PROVE  IF until'[m] = Plain!Absent THEN lanes[m].trippedUntil <= now
                      ELSE lanes[m].trippedUntil <= until'[m]
    BY <1>1 DEF LimitsEndTogether, Plain!Absent
  <2>1. until[m] \in Int /\ now \in Int /\ lanes[m].trippedUntil \in Int
    BY LongestIsLongest DEF BothInv, IInv, TypeOK, LaneState, PlainTypeOK, Plain!TypeOK, Plain!Absent
  <2> QED
    BY <1>1, <2>1, SweptEntries DEF BothInv, LimitsEndTogether
<1> QED
  BY <1>2, <1>3, <1>4, <1>5 DEF BothInv

LEMMA BothInductive == BothSpec => []BothInv
<1> USE BreakerAssumption
<1>1. BothInit => BothInv
  <2> SUFFICES ASSUME BothInit PROVE BothInv
    OBVIOUS
  <2>1. IInv
    BY DEF BothInit, Init, IInv, TypeOK, TripsArePastThreshold, WindowBounded, Closed, LaneState,
           CooldownMs, Max2
  <2>2. PlainTypeOK /\ MapsAgree
    BY DEF BothInit, Plain!Init, PlainTypeOK, Plain!TypeOK, MapsAgree, Plain!MapsAgree
  <2>3. CountersMatch /\ LimitsEndTogether
    BY DEF BothInit, Init, CountersMatch, LimitsEndTogether, Closed
  <2> QED
    BY <2>1, <2>2, <2>3 DEF BothInv
<1>2. BothInv /\ [BothNext]_bothVars => BothInv'
  <2> SUFFICES ASSUME BothInv, [BothNext]_bothVars PROVE BothInv'
    OBVIOUS
  <2>0. IInv'
    BY BothStepsAreBreakerSteps, StepKeepsIInv DEF BothInv
  <2>1. ASSUME NEW l \in Lanes, NEW e \in Errors, BothCool(l, e) PROVE BothInv'
    BY <2>0, <2>1, CoolKeepsBoth
  <2>2. ASSUME NEW l \in Lanes, BothSuccess(l) PROVE BothInv'
    <3>1. /\ now' = now
          /\ lanes' = [lanes EXCEPT ![l] = Closed]
          /\ failures' = [failures EXCEPT ![l] = NoError]
          /\ until' = [until EXCEPT ![l] = Plain!Absent]
          /\ reported' = [reported EXCEPT ![l] = NoError]
      BY <2>2 DEF BothSuccess, Success, Plain!Success
    <3>2. PlainTypeOK' /\ MapsAgree'
      BY <3>1 DEF BothInv, PlainTypeOK, Plain!TypeOK, MapsAgree, Plain!MapsAgree, Plain!Absent
    <3>3. CountersMatch'
      BY <3>1 DEF BothInv, IInv, TypeOK, CountersMatch, Closed
    <3>4. LimitsEndTogether'
      BY <3>1 DEF BothInv, IInv, TypeOK, PlainTypeOK, Plain!TypeOK, LimitsEndTogether, Plain!Absent
    <3> QED
      BY <2>0, <3>2, <3>3, <3>4 DEF BothInv
  <2>3. CASE BothClear
    <3>1. PlainTypeOK' /\ MapsAgree'
      BY <2>3 DEF BothClear, Plain!Clear, BothInv, PlainTypeOK, Plain!TypeOK, MapsAgree, Plain!MapsAgree
    <3>2. CountersMatch' /\ LimitsEndTogether'
      BY <2>3 DEF BothClear, Clear, CountersMatch, LimitsEndTogether, Closed
    <3> QED
      BY <2>0, <3>1, <3>2 DEF BothInv
  <2>4. CASE BothRead
    BY <2>0, <2>4, ReadKeepsBoth
  <2>5. CASE BothTick
    <3>1. /\ now' = now + 1 /\ now < MaxNow /\ lanes' = lanes /\ failures' = failures
          /\ until' = until /\ reported' = reported
      BY <2>5 DEF BothTick, Tick, Plain!Tick
    <3>2. PlainTypeOK' /\ MapsAgree' /\ CountersMatch'
      BY <3>1 DEF BothInv, PlainTypeOK, Plain!TypeOK, MapsAgree, Plain!MapsAgree, CountersMatch
    <3>3. LimitsEndTogether'
      BY <3>1 DEF BothInv, IInv, TypeOK, LaneState, LimitsEndTogether, Plain!Absent
    <3> QED
      BY <2>0, <3>2, <3>3 DEF BothInv
  <2>6. CASE UNCHANGED bothVars
    BY <2>0, <2>6 DEF bothVars, vars, BothInv, PlainTypeOK, Plain!TypeOK, MapsAgree, Plain!MapsAgree,
                      CountersMatch, LimitsEndTogether, Plain!Absent
  <2> QED
    BY <2>1, <2>2, <2>3, <2>4, <2>5, <2>6 DEF BothNext
<1> QED
  BY <1>1, <1>2, PTL DEF BothSpec, bothVars

-----------------------------------------------------------------------------
(* The breaker's promises hold of it in company as well.                    *)
LEMMA BreakerRunsAlone == BothSpec => Spec
<1>1. BothInit => Init
  BY DEF BothInit
<1> QED
  BY <1>1, BothStepsAreBreakerSteps, PTL DEF BothSpec, Spec, bothVars

(* What the settings page and the walks are told of a lane agrees with what *)
(* either engine holds, the plain engine's two maps stay in step, and       *)
(* catalog mode rests a rate-limited lane no longer: in every state, for    *)
(* any lanes, thresholds, ceilings and Retry-After values.                  *)
THEOREM EnginesStayTruthful == BothSpec => []EnginesTellTheTruth
<1>1. BothInv => EnginesTellTheTruth
  <2> SUFFICES ASSUME BothInv PROVE EnginesTellTheTruth
    OBVIOUS
  <2>0. /\ now \in Nat
        /\ \A l \in Lanes : lanes[l].trippedUntil \in Nat /\ lanes[l].consecutiveFailures \in Nat
    BY BreakerAssumption DEF BothInv, IInv, TypeOK, LaneState
  <2>1. HealthIsWhatWalksSee
    <3>1. ASSUME NEW l \in Lanes PROVE CooldownMs(l) > 0 <=> lanes[l].trippedUntil > now
      BY <2>0 DEF CooldownMs, Max2
    <3>2. ASSUME NEW l \in Lanes, lanes[l].consecutiveFailures = 0
          PROVE  ~(lanes[l].trippedUntil > now)
      BY <2>0, <3>2 DEF BothInv, CountersMatch
    <3> QED
      BY <3>1, <3>2 DEF BothInv, CountersMatch, HealthIsWhatWalksSee, Health
  <2>2. CatalogModeWaitsNoLonger
    <3> SUFFICES ASSUME NEW l \in Lanes, failures[l] # NoError, failures[l].kind = "limit",
                        RateLimitTripsImmediately
                 PROVE  CooldownMs(l) <= Plain!CooldownMs(l)
      BY DEF CatalogModeWaitsNoLonger
    <3>1. until[l] \in Int
      BY LongestIsLongest DEF BothInv, PlainTypeOK, Plain!TypeOK, Plain!Absent
    <3> QED
      BY <2>0, <3>1 DEF BothInv, LimitsEndTogether, CooldownMs, Max2, Plain!CooldownMs, Plain!Absent
  <2> QED
    BY <2>1, <2>2 DEF EnginesTellTheTruth, BothInv
<1> QED
  BY <1>1, BothInductive, PTL

(* Fed the same reports as the plain engine, the breaker still keeps its    *)
(* windows and the contract.                                                *)
THEOREM BreakerKeepsUp == BothSpec => []WindowsAreSound /\ KeepsContract
BY BreakerRunsAlone, WindowsStaySound, BreakerKeepsContract, PTL

(* A sweep changes nothing anyone can read: an entry that is over counts as *)
(* none.                                                                    *)
LEMMA SweepIsInvisible ==
  ASSUME BothInv, NEW m \in Lanes, now' = now, until'[m] = Plain!SweptUntil[m],
         reported'[m] = Plain!SweptFailures[m]
  PROVE  /\ Plain!CooldownMs(m)' = Plain!CooldownMs(m)
         /\ Plain!CooldownMs(m) > 0 => reported'[m] = reported[m]
<1>1. until[m] \in Int /\ now \in Nat
  BY LongestIsLongest, BreakerAssumption DEF BothInv, PlainTypeOK, Plain!TypeOK, Plain!Absent
<1>2. CASE Plain!SweptUntil[m] = Plain!Absent
  BY <1>1, <1>2, SweptEntries DEF Plain!CooldownMs, Plain!Absent
<1>3. CASE Plain!SweptUntil[m] # Plain!Absent
  BY <1>1, <1>3, SweptEntries DEF Plain!CooldownMs, Plain!Absent
<1> QED
  BY <1>2, <1>3

(* Every step of the plain engine is a step of the contract or leaves its   *)
(* view unchanged.                                                          *)
LEMMA PlainStepKeepsContract ==
  ASSUME BothInv, BothInv', [BothNext]_bothVars
  PROVE  [Plain!Contract!Next]_(Plain!Contract!vars)
<1> USE BreakerAssumption
<1> DEFINE parked == [l \in Lanes |-> Plain!CooldownMs(l)]
           why == [l \in Lanes |-> IF Plain!CooldownMs(l) > 0 THEN reported[l] ELSE NoError]
<1>0. /\ now \in Nat
      /\ \A l \in Lanes : until[l] \in Int /\ Plain!CooldownMs(l) \in Nat
  BY LongestIsLongest DEF BothInv, PlainTypeOK, Plain!TypeOK, Plain!Absent, Plain!CooldownMs
<1>1. ASSUME NEW l \in Lanes, NEW e \in Errors, BothCool(l, e)
      PROVE  Plain!Contract!Next
  <2> DEFINE window == PlainWindow(e)
  <2>1. window \in 1..Plain!Longest /\ Plain!Longest \in Nat
    BY LongestIsLongest
  <2>2. /\ now' = now
        /\ until' = [Plain!SweptUntil EXCEPT ![l] = now + window]
        /\ reported' = [Plain!SweptFailures EXCEPT ![l] = e]
    BY <1>1, BothCoolStep
  <2> HIDE DEF window
  <2>3. Plain!CooldownMs(l)' = window /\ reported'[l] = e
    BY <1>0, <2>1, <2>2 DEF Plain!CooldownMs, Plain!SweptUntil, Plain!SweptFailures
  <2>4. ASSUME NEW m \in Lanes, m # l
        PROVE  /\ Plain!CooldownMs(m)' = Plain!CooldownMs(m)
               /\ Plain!CooldownMs(m) > 0 => reported'[m] = reported[m]
    <3>1. until'[m] = Plain!SweptUntil[m] /\ reported'[m] = Plain!SweptFailures[m]
      BY <2>2, <2>4 DEF Plain!SweptUntil, Plain!SweptFailures
    <3> QED
      BY <2>2, <3>1, SweepIsInvisible
  <2>5. parked' = [parked EXCEPT ![l] = window]
    BY <2>3, <2>4
  <2>6. Plain!CooldownMs(l)' > 0
    BY <2>1, <2>3
  <2>7. why' = [why EXCEPT ![l] = e]
    BY <2>3, <2>4, <2>6
  <2> QED
    BY <2>1, <2>5, <2>7 DEF Plain!Contract!Next, Plain!Contract!Cool, Plain!Errors, Errors
<1>2. ASSUME NEW l \in Lanes, BothSuccess(l)
      PROVE  Plain!Contract!Next
  <2>1. /\ now' = now
        /\ until' = [until EXCEPT ![l] = Plain!Absent]
        /\ reported' = [reported EXCEPT ![l] = NoError]
    BY <1>2 DEF BothSuccess, Plain!Success
  <2>2. Plain!CooldownMs(l)' = 0
    BY <1>0, <2>1 DEF Plain!CooldownMs, Plain!Absent, BothInv, PlainTypeOK, Plain!TypeOK
  <2>3. \A m \in Lanes : m # l => Plain!CooldownMs(m)' = Plain!CooldownMs(m) /\ reported'[m] = reported[m]
    BY <2>1 DEF Plain!CooldownMs, BothInv, PlainTypeOK, Plain!TypeOK
  <2>4. parked' = [parked EXCEPT ![l] = 0]
    BY <2>2, <2>3
  <2>5. ~(Plain!CooldownMs(l)' > 0)
    BY <2>2
  <2>6. why' = [why EXCEPT ![l] = NoError]
    BY <2>3, <2>5
  <2> QED
    BY <2>4, <2>6 DEF Plain!Contract!Next, Plain!Contract!Success
<1>3. CASE BothClear
  <2>1. \A m \in Lanes : Plain!CooldownMs(m)' = 0
    BY <1>0, <1>3 DEF BothClear, Plain!Clear, Plain!CooldownMs, Plain!Absent
  <2>2. parked' = [m \in Lanes |-> 0] /\ why' = [m \in Lanes |-> NoError]
    BY <2>1
  <2> QED
    BY <2>2 DEF Plain!Contract!Next, Plain!Contract!Clear
<1>4. CASE BothRead
  <2>1. now' = now /\ until' = Plain!SweptUntil /\ reported' = Plain!SweptFailures
    BY <1>4 DEF BothRead, Plain!Read
  <2>2. ASSUME NEW m \in Lanes
        PROVE  /\ Plain!CooldownMs(m)' = Plain!CooldownMs(m)
               /\ Plain!CooldownMs(m) > 0 => reported'[m] = reported[m]
    BY <2>1, SweepIsInvisible
  <2>3. parked' = parked /\ why' = why
    BY <2>2
  <2> QED
    BY <2>3 DEF Plain!Contract!vars
<1>5. CASE BothTick
  <2>1. now' = now + 1 /\ until' = until /\ reported' = reported
    BY <1>5 DEF BothTick, Plain!Tick
  <2>2. \A m \in Lanes :
          Plain!CooldownMs(m)' = IF Plain!CooldownMs(m) > 0 THEN Plain!CooldownMs(m) - 1 ELSE 0
    BY <1>0, <2>1 DEF Plain!CooldownMs
  <2>3. parked' = [m \in Lanes |-> IF parked[m] > 0 THEN parked[m] - 1 ELSE 0]
    BY <2>2
  <2>4. why' = [m \in Lanes |-> IF parked[m] > 1 THEN why[m] ELSE NoError]
    BY <1>0, <2>1, <2>2
  <2> QED
    BY <2>3, <2>4 DEF Plain!Contract!Next, Plain!Contract!Tick, Plain!Contract!Parked
<1>6. CASE UNCHANGED bothVars
  <2>1. parked' = parked /\ why' = why
    BY <1>6 DEF bothVars, vars, Plain!CooldownMs
  <2> QED
    BY <2>1 DEF Plain!Contract!vars
<1> QED
  BY <1>1, <1>2, <1>3, <1>4, <1>5, <1>6 DEF BothNext

(* The plain engine implements the contract the walks rely on, and every    *)
(* read and every failure leaves no entry that is over on any lane, so its  *)
(* maps cannot grow with lanes nobody uses any more.                        *)
THEOREM PlainEngineStaysSwept == BothSpec => PlainEngineKeepsUp
<1> DEFINE Sweeps == (\E l \in Lanes, e \in Errors : BothCool(l, e)) \/ BothRead
                     => \A l \in Lanes : until'[l] = Plain!Absent \/ until'[l] > now'
<1>1. BothInit => Plain!Contract!Init
  BY BreakerAssumption DEF BothInit, Plain!Init, Plain!Contract!Init, Plain!CooldownMs, Plain!Absent
<1>2. BothInv /\ BothInv' /\ [BothNext]_bothVars => [Plain!Contract!Next]_(Plain!Contract!vars)
  BY PlainStepKeepsContract
<1>3. BothInv /\ [BothNext]_bothVars => [Sweeps]_<<now, until>>
  <2>1. ASSUME BothInv, NEW l \in Lanes, NEW e \in Errors, BothCool(l, e)
        PROVE  \A m \in Lanes : until'[m] = Plain!Absent \/ until'[m] > now'
    <3>0. PlainWindow(e) \in 1..Plain!Longest /\ Plain!Longest \in Nat
      BY LongestIsLongest
    <3>1. PlainWindow(e) \in Nat \ {0} /\ now \in Nat
      BY <2>1, <3>0, BreakerAssumption DEF BothInv, IInv, TypeOK
    <3>2. /\ now' = now
          /\ until' = [Plain!SweptUntil EXCEPT ![l] = now + PlainWindow(e)]
      BY <2>1, BothCoolStep
    <3>3. ASSUME NEW m \in Lanes PROVE until'[m] = Plain!Absent \/ until'[m] > now'
      <4>1. CASE m = l
        BY <3>1, <3>2, <4>1 DEF Plain!SweptUntil
      <4>2. CASE m # l
        BY <2>1, <3>2, <4>2, SweptEntries DEF Plain!SweptUntil
      <4> QED
        BY <4>1, <4>2
    <3> QED
      BY <3>3
  <2>2. ASSUME BothInv, BothRead
        PROVE  \A m \in Lanes : until'[m] = Plain!Absent \/ until'[m] > now'
    BY <2>2, SweptEntries DEF BothRead, Plain!Read
  <2> QED
    BY <2>1, <2>2
<1> QED
  BY <1>1, <1>2, <1>3, BothInductive, PTL
     DEF BothSpec, bothVars, PlainEngineKeepsUp, PlainKeepsContract, UseSweepsEverything,
         Plain!KeepsContract, Plain!Contract!Spec

(***************************************************************************)
(* Conversations. A message of one list stands at the same place among the *)
(* messages of another that lacks its instructions, so first come facts    *)
(* about lists; then the memory, what a client says, and the steps.        *)
(***************************************************************************)

-----------------------------------------------------------------------------
(* Lists of messages. *)

(* The elements of two lists, one behind the other.                          *)
LEMMA Elements ==
  ASSUME NEW S, NEW m \in Seq(S), NEW p \in Seq(S)
  PROVE  /\ m \o p \in Seq(S)
         /\ \A i \in DOMAIN (m \o p) :
              (i \in DOMAIN m /\ (m \o p)[i] = m[i]) \/ (\E k \in DOMAIN p : i = Len(m) + k /\ (m \o p)[i] = p[k])
         /\ \A i \in DOMAIN m : i \in DOMAIN (m \o p) /\ (m \o p)[i] = m[i]
         /\ \A k \in DOMAIN p : Len(m) + k \in DOMAIN (m \o p) /\ (m \o p)[Len(m) + k] = p[k]
<1>1. /\ Len(m) \in Nat /\ Len(p) \in Nat /\ DOMAIN m = 1..Len(m) /\ DOMAIN p = 1..Len(p)
      /\ m \o p \in Seq(S) /\ DOMAIN (m \o p) = 1..(Len(m) + Len(p))
      /\ \A i \in 1..(Len(m) + Len(p)) : (m \o p)[i] = IF i <= Len(m) THEN m[i] ELSE p[i - Len(m)]
  OBVIOUS
<1>2. ASSUME NEW i \in DOMAIN (m \o p)
      PROVE  \/ i \in DOMAIN m /\ (m \o p)[i] = m[i]
             \/ \E k \in DOMAIN p : i = Len(m) + k /\ (m \o p)[i] = p[k]
  <2>1. CASE i <= Len(m)
    BY <1>1, <2>1
  <2>2. CASE ~(i <= Len(m))
    <3>1. i - Len(m) \in 1..Len(p) /\ i = Len(m) + (i - Len(m))
      BY <1>1, <2>2
    <3> QED BY <1>1, <2>2, <3>1
  <2> QED BY <2>1, <2>2
<1>3. ASSUME NEW i \in DOMAIN m PROVE i \in DOMAIN (m \o p) /\ (m \o p)[i] = m[i]
  BY <1>1
<1>4. ASSUME NEW k \in DOMAIN p PROVE Len(m) + k \in DOMAIN (m \o p) /\ (m \o p)[Len(m) + k] = p[k]
  <2>1. Len(m) + k \in 1..(Len(m) + Len(p)) /\ ~(Len(m) + k <= Len(m)) /\ (Len(m) + k) - Len(m) = k
    BY <1>1
  <2> QED BY <1>1, <2>1
<1> QED BY <1>1, <1>2, <1>3, <1>4

(* What is left of a list without instructions: f says where each message of *)
(* t stands in m.                                                            *)
Stands(f, m, t) ==
  /\ f \in [1..Len(t) -> 1..Len(m)]
  /\ \A k, l \in 1..Len(t) : k < l => f[k] < f[l]
  /\ \A i \in 1..Len(m) : m[i].role # "system" <=> \E k \in 1..Len(t) : f[k] = i
  /\ \A k \in 1..Len(t) : m[f[k]] = t[k]

Without(m, t) == \E f : Stands(f, m, t)

(* There are k numbers up to the k-th.                                       *)
Rises(f, n, z, T) ==
  /\ n \in Nat /\ z \in Nat /\ f \in [1..n -> 1..z]
  /\ \A k, l \in 1..n : k < l => f[k] < f[l]
  /\ T = {f[k] : k \in 1..n}

LEMMA RankOf ==
  ASSUME NEW n, NEW z, NEW f, NEW T, Rises(f, n, z, T), NEW k \in 1..n
  PROVE  Cardinality({j \in T : j <= f[k]}) = k
<1>0. /\ n \in Nat /\ z \in Nat /\ f \in [1..n -> 1..z]
      /\ \A i, l \in 1..n : i < l => f[i] < f[l]
      /\ T = {f[i] : i \in 1..n}
  BY DEF Rises
<1>1. PICK U, g : U = {j \in T : j <= f[k]} /\ g = [l \in 1..k |-> f[l]]
  OBVIOUS
<1>2. k \in Nat /\ k <= n /\ \A l \in 1..k : l \in 1..n
  BY <1>0
<1>3. \A l \in 1..k : g[l] = f[l] /\ f[l] \in 1..z
  BY <1>0, <1>1, <1>2
<1>4. \A l \in 1..k : g[l] \in U
  <2> SUFFICES ASSUME NEW l \in 1..k PROVE f[l] \in T /\ f[l] <= f[k]
    BY <1>1, <1>3
  <2>1. f[l] \in T
    BY <1>0, <1>2
  <2>2. CASE l = k
    BY <1>3, <2>1, <2>2
  <2>3. CASE l < k
    BY <1>0, <1>2, <1>3, <2>1, <2>3
  <2> QED BY <2>2, <2>3
<1>5. g \in [1..k -> U]
  BY <1>1, <1>4
<1>6. \A a, b \in 1..k : g[a] = g[b] => a = b
  <2> SUFFICES ASSUME NEW a \in 1..k, NEW b \in 1..k, f[a] = f[b], a # b PROVE FALSE
    BY <1>3
  <2>1. a < b \/ b < a
    OBVIOUS
  <2> QED BY <1>0, <1>2, <1>3, <2>1
<1>7. \A u \in U : \E l \in 1..k : g[l] = u
  <2> SUFFICES ASSUME NEW u \in U PROVE \E l \in 1..k : f[l] = u
    BY <1>3
  <2>1. PICK l \in 1..n : u = f[l]
    BY <1>0, <1>1
  <2>2. f[l] <= f[k] /\ f[l] \in 1..z /\ f[k] \in 1..z
    BY <1>0, <1>1, <2>1
  <2>3. ~(k < l)
    BY <1>0, <2>1, <2>2
  <2>4. l \in 1..k
    BY <1>0, <1>2, <2>3
  <2> QED BY <2>1, <2>4
<1>8. g \in Bijection(1..k, U)
  BY <1>5, <1>6, <1>7 DEF Bijection, Injection, IsInjective, Surjection
<1>9. ExistsBijection(1..k, U)
  BY <1>8 DEF ExistsBijection
<1>10. Cardinality(U) = k
  BY <1>2, <1>9, FS_CountingElements
<1> QED BY <1>1, <1>10

(* The messages at the places of T, in their order.                          *)
Ranked(T, m) == [k \in 1..Cardinality(T) |-> m[CHOOSE i \in T : Cardinality({j \in T : j <= i}) = k]]

LEMMA NoSystemIs == ASSUME NEW m PROVE NoSystem(m) = Ranked({i \in DOMAIN m : m[i].role # "system"}, m)
BY DEF NoSystem, Ranked

LEMMA WithoutIs ==
  ASSUME NEW S, NEW m \in Seq(S), NEW t \in Seq(S), Without(m, t)
  PROVE  NoSystem(m) = t
<1>1. PICK f, n, z : Stands(f, m, t) /\ n = Len(t) /\ z = Len(m)
  BY DEF Without
<1>2. /\ n \in Nat /\ z \in Nat /\ DOMAIN m = 1..z /\ DOMAIN t = 1..n /\ f \in [1..n -> 1..z]
      /\ \A k, l \in 1..n : k < l => f[k] < f[l]
      /\ \A i \in 1..z : m[i].role # "system" <=> \E k \in 1..n : f[k] = i
      /\ \A k \in 1..n : m[f[k]] = t[k]
  BY <1>1 DEF Stands
<1>3. PICK T : T = {f[k] : k \in 1..n}
  OBVIOUS
<1>4. {i \in DOMAIN m : m[i].role # "system"} = T
  BY <1>2, <1>3
<1>5a. Rises(f, n, z, T)
  BY <1>2, <1>3 DEF Rises
<1>5. ASSUME NEW k \in 1..n PROVE Cardinality({j \in T : j <= f[k]}) = k
  BY <1>5a, RankOf
<1>6. Cardinality(T) = n
  <2>1. CASE n = 0
    <3>1. T = {}
      BY <1>2, <1>3, <2>1
    <3> QED BY <2>1, <3>1, FS_EmptySet
  <2>2. CASE n # 0
    <3>1. n \in 1..n
      BY <1>2, <2>2
    <3>2. \A x \in T : x <= f[n]
      <4> SUFFICES ASSUME NEW x \in T PROVE x <= f[n]
        OBVIOUS
      <4>1. PICK k \in 1..n : x = f[k]
        BY <1>3
      <4>2. f[k] \in 1..z /\ f[n] \in 1..z
        BY <1>2, <3>1
      <4>3. k = n \/ k < n
        BY <1>2
      <4>4. f[k] = f[n] \/ f[k] < f[n]
        BY <1>2, <3>1, <4>3
      <4> QED BY <4>1, <4>2, <4>4
    <3>3. {j \in T : j <= f[n]} = T
      BY <3>2
    <3> QED BY <1>5, <3>1, <3>3
  <2> QED BY <2>1, <2>2
<1> DEFINE Place(k) == CHOOSE i \in T : Cardinality({j \in T : j <= i}) = k
<1>7. ASSUME NEW k \in 1..n PROVE Place(k) = f[k]
  <2>1. f[k] \in T /\ Cardinality({j \in T : j <= f[k]}) = k
    BY <1>3, <1>5
  <2>2. ASSUME NEW i \in T, Cardinality({j \in T : j <= i}) = k PROVE i = f[k]
    <3>1. PICK l \in 1..n : i = f[l]
      BY <1>3
    <3>2. Cardinality({j \in T : j <= f[l]}) = l
      BY <1>5
    <3> QED BY <2>2, <3>1, <3>2
  <2> QED BY <2>1, <2>2
<1>8. NoSystem(m) = [k \in 1..n |-> m[Place(k)]]
  <2>1. NoSystem(m) = Ranked(T, m)
    BY <1>4, NoSystemIs
  <2> QED BY <1>6, <2>1 DEF Ranked
<1>9. \A k \in 1..n : m[Place(k)] = t[k]
  BY <1>2, <1>7
<1> HIDE DEF Place
<1>10. NoSystem(m) = [k \in 1..n |-> t[k]]
  BY <1>8, <1>9
<1>11. t = [k \in 1..n |-> t[k]]
  BY <1>2
<1> QED BY <1>10, <1>11

LEMMA WithoutSame ==
  ASSUME NEW S, NEW m \in Seq(S), \A i \in DOMAIN m : m[i].role # "system"
  PROVE  Without(m, m)
<1>1. PICK n, f : n = Len(m) /\ f = [k \in 1..n |-> k]
  OBVIOUS
<1>2. n \in Nat /\ DOMAIN m = 1..n /\ \A k \in 1..n : f[k] = k
  BY <1>1
<1>3. f \in [1..n -> 1..n]
  BY <1>1
<1>4. Stands(f, m, m)
  BY <1>1, <1>2, <1>3 DEF Stands
<1> QED BY <1>4 DEF Without

LEMMA WithoutSystem == ASSUME NEW c PROVE Without(<<System(c)>>, <<>>)
<1>1. PICK m, t, f : m = <<System(c)>> /\ t = <<>> /\ f = [k \in 1..0 |-> k]
  OBVIOUS
<1>2. Len(m) = 1 /\ Len(t) = 0 /\ m[1].role = "system" /\ \A k \in 1..0 : FALSE
  BY <1>1 DEF System
<1>3. f \in [1..0 -> 1..1]
  BY <1>1, <1>2
<1>4. \A i \in 1..1 : i = 1
  OBVIOUS
<1>5. Stands(f, m, t)
  BY <1>2, <1>3, <1>4 DEF Stands
<1> QED BY <1>1, <1>5 DEF Without

LEMMA WithoutJoins ==
  ASSUME NEW S, NEW m \in Seq(S), NEW t \in Seq(S), NEW p \in Seq(S), NEW u \in Seq(S), Without(m, t), Without(p, u)
  PROVE  Without(m \o p, t \o u)
<1>0. PICK f : Stands(f, m, t)
  BY DEF Without
<1>0a. PICK g : Stands(g, p, u)
  BY DEF Without
<1>0b. PICK a, b, x, y : a = Len(t) /\ b = Len(u) /\ x = Len(m) /\ y = Len(p)
  OBVIOUS
<1>0c. PICK h : h = [k \in 1..(a + b) |-> IF k <= a THEN f[k] ELSE x + g[k - a]]
  OBVIOUS
<1>1. /\ Stands(f, m, t) /\ Stands(g, p, u) /\ a = Len(t) /\ b = Len(u) /\ x = Len(m) /\ y = Len(p)
      /\ h = [k \in 1..(a + b) |-> IF k <= a THEN f[k] ELSE x + g[k - a]]
  BY <1>0, <1>0a, <1>0b, <1>0c
<1>2. PICK q, v : q = m \o p /\ v = t \o u
  OBVIOUS
<1>3. /\ a \in Nat /\ b \in Nat /\ x \in Nat /\ y \in Nat
      /\ DOMAIN m = 1..x /\ DOMAIN t = 1..a /\ DOMAIN p = 1..y /\ DOMAIN u = 1..b
  BY <1>1
<1>4. /\ Len(q) = x + y /\ \A i \in 1..x : q[i] = m[i]
  BY <1>1, <1>2, <1>3
<1>5. \A k \in 1..y : q[x + k] = p[k]
  BY <1>1, <1>2, <1>3, Elements
<1>6. /\ Len(v) = a + b /\ \A k \in 1..a : v[k] = t[k]
  BY <1>1, <1>2, <1>3
<1>7. \A k \in 1..b : v[a + k] = u[k]
  BY <1>1, <1>2, <1>3, Elements
<1>8. /\ f \in [1..a -> 1..x] /\ \A k, l \in 1..a : k < l => f[k] < f[l]
      /\ \A i \in 1..x : m[i].role # "system" <=> \E k \in 1..a : f[k] = i
      /\ \A k \in 1..a : m[f[k]] = t[k]
  BY <1>1 DEF Stands
<1>9. /\ g \in [1..b -> 1..y] /\ \A k, l \in 1..b : k < l => g[k] < g[l]
      /\ \A i \in 1..y : p[i].role # "system" <=> \E k \in 1..b : g[k] = i
      /\ \A k \in 1..b : p[g[k]] = u[k]
  BY <1>1 DEF Stands
<1>10. /\ \A k \in 1..a : k \in 1..(a + b) /\ h[k] = f[k] /\ f[k] \in 1..x
       /\ DOMAIN h = 1..(a + b)
  <2>1. ASSUME NEW k \in 1..a PROVE k \in 1..(a + b) /\ k <= a
    BY <1>3
  <2> QED BY <1>1, <1>8, <2>1
<1>11. ASSUME NEW k \in 1..b PROVE a + k \in 1..(a + b) /\ h[a + k] = x + g[k] /\ g[k] \in 1..y
  <2>1. a + k \in 1..(a + b) /\ ~(a + k <= a) /\ (a + k) - a = k
    BY <1>3
  <2> QED BY <1>1, <1>9, <2>1
<1>12. ASSUME NEW k \in 1..(a + b) PROVE k \in 1..a \/ \E l \in 1..b : k = a + l
  <2> SUFFICES ASSUME k \notin 1..a PROVE \E l \in 1..b : k = a + l
    OBVIOUS
  <2>1. k - a \in 1..b /\ k = a + (k - a)
    BY <1>3
  <2> QED BY <2>1
<1>13. ASSUME NEW i \in 1..(x + y) PROVE i \in 1..x \/ \E l \in 1..y : i = x + l
  <2> SUFFICES ASSUME i \notin 1..x PROVE \E l \in 1..y : i = x + l
    OBVIOUS
  <2>1. i - x \in 1..y /\ i = x + (i - x)
    BY <1>3
  <2> QED BY <2>1
<1>14. h \in [1..(a + b) -> 1..(x + y)]
  <2>1. ASSUME NEW k \in 1..(a + b) PROVE h[k] \in 1..(x + y)
    <3>1. CASE k \in 1..a
      <4>1. h[k] = f[k] /\ f[k] \in 1..x
        BY <3>1, <1>10
      <4> QED BY <4>1, <1>3
    <3>2. CASE \E l \in 1..b : k = a + l
      <4>1. PICK l \in 1..b : k = a + l
        BY <3>2
      <4>2. h[k] = x + g[l] /\ g[l] \in 1..y
        BY <4>1, <1>11
      <4> QED BY <4>2, <1>3
    <3> QED BY <3>1, <3>2, <1>12
  <2>2. h = [k \in 1..(a + b) |-> h[k]]
    BY <1>1
  <2> QED BY <2>1, <2>2
<1>15. ASSUME NEW k \in 1..(a + b), NEW l \in 1..(a + b), k < l PROVE h[k] < h[l]
  <2>1. CASE l \in 1..a
    <3>1. k \in 1..a
      BY <1>15, <2>1, <1>3
    <3> QED BY <1>15, <2>1, <3>1, <1>8, <1>10
  <2>2. CASE \E j \in 1..b : l = a + j
    <3>1. PICK j \in 1..b : l = a + j
      BY <2>2
    <3>2. h[l] = x + g[j] /\ g[j] \in 1..y
      BY <3>1, <1>11
    <3>3. CASE k \in 1..a
      <4>1. h[k] = f[k] /\ f[k] \in 1..x
        BY <3>3, <1>10
      <4> QED BY <3>2, <4>1, <1>3
    <3>4. CASE \E i \in 1..b : k = a + i
      <4>1. PICK i \in 1..b : k = a + i
        BY <3>4
      <4>2. h[k] = x + g[i] /\ g[i] \in 1..y
        BY <4>1, <1>11
      <4>3. i < j
        BY <1>15, <3>1, <4>1, <1>3
      <4>4. g[i] < g[j]
        BY <4>3, <1>9
      <4> QED BY <3>2, <4>2, <4>4, <1>3
    <3> QED BY <3>3, <3>4, <1>12
  <2> QED BY <2>1, <2>2, <1>12
<1>16. ASSUME NEW i \in 1..(x + y) PROVE q[i].role # "system" <=> \E k \in 1..(a + b) : h[k] = i
  <2>1. CASE i \in 1..x
    <3>1. ASSUME NEW k \in 1..(a + b), h[k] = i PROVE k \in 1..a /\ f[k] = i
      <4>1. CASE k \in 1..a
        BY <3>1, <4>1, <1>10
      <4>2. CASE \E l \in 1..b : k = a + l
        <5>1. PICK l \in 1..b : k = a + l
          BY <4>2
        <5>2. h[k] = x + g[l] /\ g[l] \in 1..y
          BY <5>1, <1>11
        <5> QED BY <2>1, <3>1, <5>2, <1>3
      <4> QED BY <4>1, <4>2, <1>12
    <3>2. (\E k \in 1..(a + b) : h[k] = i) <=> \E k \in 1..a : f[k] = i
      BY <3>1, <1>10
    <3>3. q[i] = m[i]
      BY <2>1, <1>4
    <3> QED BY <2>1, <3>2, <3>3, <1>8
  <2>2. CASE \E j \in 1..y : i = x + j
    <3>1. PICK j \in 1..y : i = x + j
      BY <2>2
    <3>2. ASSUME NEW k \in 1..(a + b), h[k] = i PROVE \E l \in 1..b : g[l] = j
      <4>1. CASE k \in 1..a
        <5>1. h[k] = f[k] /\ f[k] \in 1..x
          BY <4>1, <1>10
        <5> QED BY <3>1, <3>2, <5>1, <1>3
      <4>2. CASE \E l \in 1..b : k = a + l
        <5>1. PICK l \in 1..b : k = a + l
          BY <4>2
        <5>2. h[k] = x + g[l] /\ g[l] \in 1..y
          BY <5>1, <1>11
        <5>3. g[l] = j
          BY <3>1, <3>2, <5>2, <1>3
        <5> QED BY <5>3
      <4> QED BY <4>1, <4>2, <1>12
    <3>3. ASSUME NEW l \in 1..b, g[l] = j PROVE \E k \in 1..(a + b) : h[k] = i
      BY <3>1, <3>3, <1>11
    <3>4. q[i] = p[j]
      BY <3>1, <1>5
    <3> QED BY <3>2, <3>3, <3>4, <1>9
  <2> QED BY <2>1, <2>2, <1>13
<1>17. ASSUME NEW k \in 1..(a + b) PROVE q[h[k]] = v[k]
  <2>1. CASE k \in 1..a
    BY <2>1, <1>4, <1>6, <1>8, <1>10
  <2>2. CASE \E l \in 1..b : k = a + l
    <3>1. PICK l \in 1..b : k = a + l
      BY <2>2
    <3> QED BY <3>1, <1>5, <1>7, <1>9, <1>11
  <2> QED BY <2>1, <2>2, <1>12
<1>18. Stands(h, q, v)
  BY <1>4, <1>6, <1>14, <1>15, <1>16, <1>17 DEF Stands
<1> QED BY <1>2, <1>18 DEF Without

-----------------------------------------------------------------------------
(* Whole conversations: messages of one client, whose results follow the     *)
(* calls they answer, and whose calls were given to it.                      *)
Makes(m, G) == \A i \in DOMAIN m : m[i].role = "assistant" => m[i].ids \subseteq G
Whole(c, m, G) == Own(c, m) /\ Answers(m) /\ Makes(m, G)
Answered(p, m) ==
  \A k \in DOMAIN p : p[k].role = "tool" => \E j \in DOMAIN m : m[j].role = "assistant" /\ p[k].ids \subseteq m[j].ids

LEMMA WholeJoins ==
  ASSUME NEW S, NEW c, NEW G, NEW m \in Seq(S), NEW p \in Seq(S),
         Whole(c, m, G), Own(c, p), Makes(p, G), Answered(p, m)
  PROVE  Whole(c, m \o p, G)
<1>1. PICK q : q = m \o p
  OBVIOUS
<1>2. /\ \A i \in DOMAIN q : (i \in DOMAIN m /\ q[i] = m[i]) \/ (\E k \in DOMAIN p : i = Len(m) + k /\ q[i] = p[k])
      /\ \A i \in DOMAIN m : q[i] = m[i]
  BY <1>1, Elements
<1>3. DOMAIN m = 1..Len(m) /\ Len(m) \in Nat /\ DOMAIN p = 1..Len(p) /\ Len(p) \in Nat
  OBVIOUS
<1>4. Own(c, q)
  BY <1>2 DEF Whole, Own
<1>5. Makes(q, G)
  BY <1>2 DEF Whole, Makes
<1>6. Answers(q)
  <2> SUFFICES ASSUME NEW i \in DOMAIN q, q[i].role = "tool"
               PROVE  \E j \in 1..i-1 : q[j].role = "assistant" /\ q[i].ids \subseteq q[j].ids
    BY DEF Answers
  <2>1. CASE i \in DOMAIN m /\ q[i] = m[i]
    <3>1. PICK j \in 1..i-1 : m[j].role = "assistant" /\ m[i].ids \subseteq m[j].ids
      BY <2>1 DEF Whole, Answers
    <3>2. j \in DOMAIN m
      BY <1>3, <2>1
    <3> QED BY <1>2, <2>1, <3>1, <3>2
  <2>2. CASE \E k \in DOMAIN p : i = Len(m) + k /\ q[i] = p[k]
    <3>1. PICK k \in DOMAIN p : i = Len(m) + k /\ q[i] = p[k]
      BY <2>2
    <3>2. PICK j \in DOMAIN m : m[j].role = "assistant" /\ p[k].ids \subseteq m[j].ids
      BY <3>1 DEF Answered
    <3>3. j \in 1..i-1
      BY <1>3, <3>1, <3>2
    <3> QED BY <1>2, <3>1, <3>2, <3>3
  <2> QED BY <1>2, <2>1, <2>2
<1> QED BY <1>1, <1>4, <1>5, <1>6 DEF Whole

LEMMA WholeGrows ==
  ASSUME NEW c, NEW m, NEW G, NEW H, Whole(c, m, G), G \subseteq H
  PROVE  Whole(c, m, H)
BY DEF Whole, Makes

LEMMA WholeNothing == ASSUME NEW c, NEW G PROVE Whole(c, <<>>, G)
BY DEF Whole, Own, Answers, Makes

LEMMA WithoutHas ==
  ASSUME NEW m, NEW t, Without(m, t), NEW i \in 1..Len(t)
  PROVE  \E j \in 1..Len(m) : m[j] = t[i]
<1>1. PICK f : Stands(f, m, t)
  BY DEF Without
<1> QED BY <1>1 DEF Stands

-----------------------------------------------------------------------------
(* The invariant. *)

Given(c) == {id \in CallIds : c \in gave[id]}
Busy == {c \in Clients : flight[c].busy}

TalkTypes ==
  /\ issued \in Nat /\ restarted \in 0..issued /\ fails \in 0..MaxFails /\ whole \subseteq Clients
  /\ issued + Cardinality(Busy) <= MaxTurns
  /\ talk \in [Clients -> [last : 0..issued, calls : Orders]]
  /\ flight \in [Clients -> [busy : BOOLEAN, asked : Seq(Messages), messages : Seq(Messages), found : BOOLEAN, anchored : BOOLEAN]]
  /\ said \in [Clients -> Seq(Messages)]
  /\ gave \in [CallIds -> SUBSET Clients]

Entries == [key : Nat, val : Seq(Messages)]

(* The memory holds the last responses issued since the restart, in order.   *)
MemoryInv ==
  /\ conversations \in Seq(Entries)
  /\ Len(conversations) <= MAX_CONVERSATIONS /\ Len(conversations) <= issued - restarted
  /\ Len(conversations) = MAX_CONVERSATIONS \/ Len(conversations) = issued - restarted
  /\ \A i \in DOMAIN conversations : conversations[i].key = issued - Len(conversations) + i

(* A thread is whole, and has the calls its client must answer.              *)
ThreadOf(c) ==
  /\ said[c] = <<>> <=> talk[c].last = 0
  /\ said[c] = <<>> => talk[c].calls = <<>>
  /\ Whole(c, said[c], Given(c)) /\ \A i \in DOMAIN said[c] : said[c][i].role # "system"
  /\ said[c] # <<>> => \E i \in DOMAIN said[c] : said[c][i] = Assistant(c, ToSet(talk[c].calls))
  /\ ToSet(talk[c].calls) \subseteq Given(c)

(* An entry is of a client that was issued its id or a later one; the last   *)
(* entry of a client that lost nothing is its thread.                        *)
EntryOf(e) ==
  /\ \E c \in Clients : e.key <= talk[c].last /\ (c \in whole => Whole(c, e.val, Given(c)))
  /\ \A c \in Clients : e.key = talk[c].last /\ c \in whole => Without(e.val, said[c]) /\ Whole(c, e.val, Given(c))

(* A request carries what the client has to say, and the whole thread when   *)
(* its past was found.                                                       *)
AskedOf(c) ==
  \A i \in DOMAIN flight[c].asked :
     /\ flight[c].asked[i].of = c /\ flight[c].asked[i].role \in {"user", "tool"}
     /\ flight[c].asked[i].ids \subseteq Given(c)
     /\ flight[c].asked[i].role = "tool" =>
           flight[c].asked[i].ids # {} /\ flight[c].asked[i].ids \subseteq ToSet(talk[c].calls)

FlightOf(c) ==
  /\ ~flight[c].busy => flight[c] = Idle
  /\ AskedOf(c)
  /\ c \in whole /\ (flight[c].found \/ said[c] = <<>>) /\ flight[c].busy =>
        Without(flight[c].messages, said[c] \o flight[c].asked) /\ Whole(c, flight[c].messages, Given(c))

AnchoredOf(c) ==
  flight[c].anchored /\ whole = Clients
        /\ (\A i \in DOMAIN flight[c].asked : \A id \in flight[c].asked[i].ids : gave[id] = {c}) =>
    Own(c, flight[c].messages) /\ Answers(flight[c].messages)

TalkInv ==
  /\ TalkTypes /\ MemoryInv
  /\ \A c \in Clients : ThreadOf(c)
  /\ \A i \in DOMAIN conversations : EntryOf(conversations[i])
  /\ \A c \in Clients : FlightOf(c)
  /\ \A c \in Clients : AnchoredOf(c)

(* What is promised follows.                                                 *)
LEMMA TalkPromises == TalkInv => ThreadsStayApart
<1> SUFFICES ASSUME TalkInv PROVE ThreadsStayApart
  OBVIOUS
<1>0. PICK L : L = Len(conversations)
  OBVIOUS
<1>1. /\ MAX_CONVERSATIONS \in Nat /\ MaxTurns \in Nat /\ IsFiniteSet(Clients)
      /\ issued \in Nat /\ restarted \in 0..issued /\ L \in Nat /\ DOMAIN conversations = 1..L
      /\ L <= MAX_CONVERSATIONS /\ L <= issued - restarted
      /\ L = MAX_CONVERSATIONS \/ L = issued - restarted
      /\ \A i \in 1..L : conversations[i].key = issued - L + i /\ conversations[i].val \in Seq(Messages)
  <2>1. MAX_CONVERSATIONS \in Nat /\ MaxTurns \in Nat /\ IsFiniteSet(Clients)
    BY ConversationsAssumption
  <2>2. issued \in Nat /\ restarted \in 0..issued
    BY DEF TalkInv, TalkTypes
  <2>3. conversations \in Seq(Entries)
    BY DEF TalkInv, MemoryInv
  <2>4. L \in Nat /\ DOMAIN conversations = 1..L /\ \A i \in 1..L : conversations[i] \in Entries
    <3>1. Len(conversations) \in Nat /\ DOMAIN conversations = 1..Len(conversations)
      BY <2>3
    <3>2. \A i \in DOMAIN conversations : conversations[i] \in Entries
      BY <2>3
    <3> QED BY <1>0, <3>1, <3>2
  <2>5. /\ L <= MAX_CONVERSATIONS /\ L <= issued - restarted
        /\ L = MAX_CONVERSATIONS \/ L = issued - restarted
        /\ \A i \in DOMAIN conversations : conversations[i].key = issued - L + i
    BY <1>0 DEF TalkInv, MemoryInv
  <2>6. \A i \in 1..L : conversations[i].val \in Seq(Messages)
    BY <2>4 DEF Entries
  <2>7. \A i \in 1..L : conversations[i].key = issued - L + i
    BY <2>4, <2>5
  <2> QED BY <2>1, <2>2, <2>4, <2>5, <2>6, <2>7
<1>2. TalkTypeOK
  <2>1. Cardinality(Busy) \in Nat
    <3>1. IsFiniteSet(Busy)
      BY <1>1, FS_Subset DEF Busy
    <3> QED BY <3>1, FS_CardinalityType
  <2>2. issued \in 0..MaxTurns /\ restarted \in 0..issued /\ fails \in 0..MaxFails /\ whole \subseteq Clients
    BY <1>1, <2>1 DEF TalkInv, TalkTypes
  <2>3. ASSUME NEW i \in DOMAIN conversations PROVE conversations[i].key \in 1..issued /\ conversations[i].val \in Seq(Messages)
    BY <1>1
  <2>4. ASSUME NEW i \in DOMAIN conversations, NEW j \in DOMAIN conversations, conversations[i].key = conversations[j].key
        PROVE  i = j
    BY <1>1, <2>4
  <2>5. ASSUME NEW c \in Clients PROVE said[c] \in Seq(Messages) /\ flight[c].messages \in Seq(Messages) /\ talk[c].last \in 0..issued
    BY DEF TalkInv, TalkTypes
  <2> QED BY <1>1, <2>2, <2>3, <2>4, <2>5 DEF TalkTypeOK
<1>3. RecentResolvable
  <2> SUFFICES ASSUME NEW c \in Clients, talk[c].last > restarted, issued - talk[c].last < MAX_CONVERSATIONS
               PROVE  Has(conversations, talk[c].last)
    BY DEF RecentResolvable
  <2>1. PICK l : l = talk[c].last /\ l \in 0..issued
    BY DEF TalkInv, TalkTypes
  <2>1a. l > restarted /\ issued - l < MAX_CONVERSATIONS
    BY <2>1
  <2>1b. issued - l < L
    BY <1>1, <2>1, <2>1a
  <2>2. l - issued + L \in 1..L /\ issued - L + (l - issued + L) = l
    <3>1. l \in Int /\ issued \in Int /\ L \in Int /\ l <= issued
      BY <1>1, <2>1
    <3> QED BY <2>1b, <3>1
  <2>3. conversations[l - issued + L].key = l
    BY <1>1, <2>2
  <2> QED BY <1>1, <2>1, <2>2, <2>3 DEF Has
<1>4. ContinuesOwnThread
  <2> SUFFICES ASSUME NEW c \in whole, flight[c].found PROVE NoSystem(flight[c].messages) = said[c] \o flight[c].asked
    BY DEF ContinuesOwnThread
  <2>1. c \in Clients /\ FlightOf(c) /\ flight[c].messages \in Seq(Messages) /\ said[c] \in Seq(Messages) /\ flight[c].asked \in Seq(Messages)
    BY DEF TalkInv, TalkTypes
  <2>2. flight[c].busy
    BY <2>1 DEF FlightOf, Idle
  <2>3. Without(flight[c].messages, said[c] \o flight[c].asked)
    BY <2>1, <2>2 DEF FlightOf
  <2>4. said[c] \o flight[c].asked \in Seq(Messages)
    BY <2>1
  <2> QED BY <2>1, <2>3, <2>4, WithoutIs
<1>5. AnchoredInOwnThread
  BY DEF AnchoredInOwnThread, TalkInv, AnchoredOf
<1> QED BY <1>2, <1>3, <1>4, <1>5 DEF ThreadsStayApart

-----------------------------------------------------------------------------
(* The memory takes an answer: behind what it holds, and the oldest entry    *)
(* goes when it is full.                                                     *)
LEMMA Rooms ==
  ASSUME NEW m \in Seq(Entries), NEW d \in {0, 1}, d = 1 => m # <<>>, NEW r, r = IF d = 1 THEN Tail(m) ELSE m
  PROVE  r \in Seq(Entries) /\ Len(r) = Len(m) - d /\ \A i \in 1..(Len(m) - d) : r[i] = m[i + d] /\ i + d \in 1..Len(m)
<1>1. Len(m) \in Nat
  OBVIOUS
<1>2. CASE d = 0
  BY <1>1, <1>2
<1>3. CASE d = 1
  <2>1. r = Tail(m) /\ m # <<>>
    BY <1>3
  <2>2. r \in Seq(Entries) /\ Len(r) = Len(m) - 1
    BY <2>1
  <2>3. \A i \in 1..(Len(m) - 1) : r[i] = m[i + 1] /\ i + 1 \in 1..Len(m)
    BY <1>1, <2>1
  <2> QED BY <1>3, <2>2, <2>3
<1> QED BY <1>2, <1>3

Remembered(d, k, v) ==
  /\ d \in {0, 1} /\ Len(conversations) - d \in Nat
  /\ d = 1 <=> Len(conversations) = MAX_CONVERSATIONS
  /\ conversations' \in Seq(Entries)
  /\ Len(conversations') = Len(conversations) - d + 1
  /\ \A i \in 1..(Len(conversations) - d) :
        i + d \in DOMAIN conversations /\ conversations'[i] = conversations[i + d]
  /\ conversations'[Len(conversations) - d + 1] = [key |-> k, val |-> v]

LEMMA Remembers ==
  ASSUME TalkTypes, MemoryInv, NEW v \in Seq(Messages), NEW k, k = issued + 1, rememberConversation(k, v)
  PROVE  \E d : Remembered(d, k, v)
<1>1. PICK L : L = Len(conversations)
  OBVIOUS
<1>2. MAX_CONVERSATIONS \in Nat \ {0} /\ issued \in Nat /\ k \in Nat /\ conversations \in Seq(Entries)
  BY ConversationsAssumption DEF TalkTypes, MemoryInv
<1>3. L \in Nat /\ DOMAIN conversations = 1..L
  BY <1>1, <1>2
<1>4. L <= MAX_CONVERSATIONS /\ \A i \in 1..L : conversations[i].key = issued - L + i
  BY <1>1, <1>3 DEF MemoryInv
<1>5. \A i \in 1..L : conversations[i].key # k
  BY <1>2, <1>3, <1>4
<1>6. ~Has(conversations, k)
  BY <1>3, <1>5 DEF Has
<1>7. PICK d : d = IF L = MAX_CONVERSATIONS THEN 1 ELSE 0
  OBVIOUS
<1>8. d \in {0, 1} /\ (d = 1 <=> L = MAX_CONVERSATIONS)
  BY <1>7
<1>9. d = 1 => conversations # <<>>
  BY <1>1, <1>2, <1>8
<1>10. PICK r : r = IF d = 1 THEN Tail(conversations) ELSE conversations
  OBVIOUS
<1>11. r \in Seq(Entries) /\ Len(r) = Len(conversations) - d
       /\ \A i \in 1..(Len(conversations) - d) : r[i] = conversations[i + d] /\ i + d \in 1..Len(conversations)
  BY <1>2, <1>8, <1>9, <1>10, Rooms
<1>12. L >= MAX_CONVERSATIONS <=> d = 1
  BY <1>2, <1>3, <1>4, <1>8
<1>13. conversations' = Put(r, k, v)
  BY <1>1, <1>6, <1>10, <1>12 DEF rememberConversation
<1>14. L - d \in Nat /\ DOMAIN r = 1..(L - d)
  BY <1>1, <1>11
<1>15. \A i \in 1..(L - d) : r[i].key # k
  BY <1>1, <1>5, <1>11
<1>16. ~Has(r, k)
  BY <1>14, <1>15 DEF Has
<1>17a. [key |-> k, val |-> v] \in Entries
  BY <1>2 DEF Entries
<1>17. PICK e : e = [key |-> k, val |-> v] /\ e \in Entries
  BY <1>17a
<1>18. conversations' = Append(r, e)
  BY <1>13, <1>16, <1>17 DEF Put
<1>19. /\ conversations' \in Seq(Entries) /\ Len(conversations') = Len(r) + 1 /\ conversations'[Len(r) + 1] = e
       /\ \A i \in 1..Len(r) : conversations'[i] = r[i]
  BY <1>11, <1>17, <1>18
<1>20. Remembered(d, k, v)
  <2>1. d \in {0, 1} /\ Len(conversations) - d \in Nat /\ (d = 1 <=> Len(conversations) = MAX_CONVERSATIONS)
    BY <1>1, <1>8, <1>14
  <2>2. conversations' \in Seq(Entries) /\ Len(conversations') = Len(conversations) - d + 1
    BY <1>11, <1>19
  <2>3. ASSUME NEW i \in 1..(Len(conversations) - d) PROVE i + d \in DOMAIN conversations /\ conversations'[i] = conversations[i + d]
    BY <1>1, <1>3, <1>11, <1>19
  <2>4. conversations'[Len(conversations) - d + 1] = [key |-> k, val |-> v]
    BY <1>11, <1>17, <1>19
  <2> QED BY <2>1, <2>2, <2>3, <2>4 DEF Remembered
<1> QED BY <1>20

(* The memory stays what it is, and each of its entries is the new one or    *)
(* one it had.                                                               *)
LEMMA MemoryAfter ==
  ASSUME TalkTypes, MemoryInv, NEW v \in Seq(Messages), NEW k, k = issued + 1, issued' = k, restarted' = restarted,
         rememberConversation(k, v)
  PROVE  MemoryInv'
<1>1. PICK d : Remembered(d, k, v)
  BY Remembers
<1>2. PICK L, M : L = Len(conversations) /\ M = Len(conversations')
  OBVIOUS
<1>3. MAX_CONVERSATIONS \in Nat \ {0} /\ issued \in Nat /\ restarted \in 0..issued /\ conversations \in Seq(Entries)
  BY ConversationsAssumption DEF TalkTypes, MemoryInv
<1>4. L \in Nat /\ DOMAIN conversations = 1..L
  BY <1>2, <1>3
<1>5. /\ L <= MAX_CONVERSATIONS /\ L <= issued - restarted
      /\ L = MAX_CONVERSATIONS \/ L = issued - restarted
      /\ \A i \in 1..L : conversations[i].key = issued - L + i
  BY <1>2, <1>4 DEF MemoryInv
<1>6. d \in {0, 1} /\ L - d \in Nat /\ (d = 1 <=> L = MAX_CONVERSATIONS) /\ M = L - d + 1 /\ conversations' \in Seq(Entries)
  BY <1>1, <1>2 DEF Remembered
<1>7. DOMAIN (conversations') = 1..M
  <2>1. DOMAIN (conversations') = 1..Len(conversations')
    BY <1>6
  <2> QED BY <1>2, <2>1
<1>7a. d \in Int /\ L \in Int /\ M \in Int /\ issued \in Int /\ restarted \in Int /\ k \in Int /\ MAX_CONVERSATIONS \in Int
       /\ k = issued + 1 /\ M = L - d + 1
  BY <1>3, <1>4, <1>6
<1>8. M <= MAX_CONVERSATIONS /\ M <= k - restarted /\ (M = MAX_CONVERSATIONS \/ M = k - restarted)
  <2>1. CASE d = 0
    <3>1. L # MAX_CONVERSATIONS /\ L = issued - restarted
      BY <1>5, <1>6, <2>1
    <3>2. L < MAX_CONVERSATIONS
      BY <1>5, <1>7a, <3>1
    <3> QED BY <1>7a, <2>1, <3>1, <3>2
  <2>2. CASE d = 1
    <3>1. L = MAX_CONVERSATIONS /\ M = L
      BY <1>6, <1>7a, <2>2
    <3> QED BY <1>5, <1>7a, <3>1
  <2> QED BY <1>6, <2>1, <2>2
<1>9. ASSUME NEW i \in 1..M PROVE conversations'[i].key = k - M + i
  <2>1. CASE i = M
    <3>1. conversations'[M].key = k
      BY <1>1, <1>2, <1>6 DEF Remembered
    <3> QED BY <1>3, <1>6, <2>1, <3>1
  <2>2. CASE i # M
    <3>1. i \in 1..(L - d)
      BY <1>4, <1>6, <2>2
    <3>2. i + d \in 1..L /\ conversations'[i] = conversations[i + d]
      BY <1>1, <1>2, <1>4, <3>1 DEF Remembered
    <3>3. conversations'[i].key = issued - L + (i + d)
      BY <1>5, <3>2
    <3>4. i \in Int /\ issued - L + (i + d) = k - M + i
      BY <1>7a, <3>1
    <3> QED BY <3>3, <3>4
  <2> QED BY <2>1, <2>2
<1> QED BY <1>2, <1>6, <1>7, <1>8, <1>9 DEF MemoryInv

LEMMA EntriesAfter ==
  ASSUME TalkTypes, MemoryInv, NEW v \in Seq(Messages), NEW k, k = issued + 1, rememberConversation(k, v),
         NEW i \in DOMAIN (conversations')
  PROVE  conversations'[i] = [key |-> k, val |-> v] \/ \E j \in DOMAIN conversations : conversations'[i] = conversations[j]
<1>1. PICK d : Remembered(d, k, v)
  BY Remembers
<1>2. PICK L : L = Len(conversations)
  OBVIOUS
<1>3. d \in {0, 1} /\ L - d \in Nat /\ DOMAIN (conversations') = 1..(L - d + 1)
  BY <1>1, <1>2 DEF Remembered
<1>4. CASE i = L - d + 1
  BY <1>1, <1>2, <1>4 DEF Remembered
<1>5. CASE i # L - d + 1
  <2>1. i \in 1..(L - d)
    BY <1>3, <1>5
  <2> QED BY <1>1, <1>2, <2>1 DEF Remembered
<1> QED BY <1>4, <1>5

(* An entry has an id the bridge issued.                                     *)
LEMMA EntryKey ==
  ASSUME TalkTypes, MemoryInv, NEW j \in DOMAIN conversations
  PROVE  conversations[j] \in Entries /\ conversations[j].key \in 1..issued
<1>1. PICK L : L = Len(conversations)
  OBVIOUS
<1>2. issued \in Nat /\ restarted \in 0..issued /\ conversations \in Seq(Entries)
  BY DEF TalkTypes, MemoryInv
<1>3. L \in Nat /\ DOMAIN conversations = 1..L /\ conversations[j] \in Entries
  BY <1>1, <1>2
<1>4. L <= issued - restarted /\ conversations[j].key = issued - L + j
  BY <1>1 DEF MemoryInv
<1> QED BY <1>2, <1>3, <1>4

-----------------------------------------------------------------------------
(* What a client says. *)

Results(c, outputs) == [i \in DOMAIN outputs |-> Tool(c, outputs[i])]
New(c, user) == IF user THEN <<User(c)>> ELSE <<>>
Instructed(c, instructions) == IF instructions THEN <<System(c)>> ELSE <<>>
Spoken(c, outputs, m) ==
  \A i \in DOMAIN m : m[i] = System(c) \/ m[i] = User(c) \/ \E k \in DOMAIN outputs : m[i] = Tool(c, outputs[k])

LEMMA MessageTypes ==
  ASSUME NEW c \in Clients
  PROVE  /\ System(c) \in Messages /\ User(c) \in Messages
         /\ \A id \in CallIds : Tool(c, id) \in Messages
         /\ \A ids \in SUBSET CallIds : Assistant(c, ids) \in Messages
BY DEF System, User, Tool, Assistant, Messages

LEMMA CallsAre == ASSUME NEW calls \in Orders PROVE calls \in Seq(CallIds)
<1>1. PICK n \in 0..CallsPerTurn : calls \in [1..n -> CallIds]
  BY DEF Orders
<1>2. n \in Nat
  BY ConversationsAssumption
<1> QED BY <1>1, <1>2

LEMMA ResultsAre ==
  ASSUME NEW c \in Clients, NEW outputs \in Seq(CallIds)
  PROVE  /\ Results(c, outputs) \in Seq(Messages) /\ Spoken(c, outputs, Results(c, outputs))
         /\ outputs = <<>> => Results(c, outputs) = <<>>
         /\ \A i \in DOMAIN Results(c, outputs) : Results(c, outputs)[i] = Tool(c, outputs[i])
         /\ DOMAIN Results(c, outputs) = DOMAIN outputs
<1>1. PICK n : n = Len(outputs) /\ n \in Nat /\ DOMAIN outputs = 1..n /\ \A i \in 1..n : outputs[i] \in CallIds
  OBVIOUS
<1>2. PICK r : r = Results(c, outputs)
  OBVIOUS
<1>3. DOMAIN r = 1..n /\ \A i \in 1..n : r[i] = Tool(c, outputs[i])
  BY <1>1, <1>2 DEF Results
<1>4. \A i \in 1..n : r[i] \in Messages
  BY <1>1, <1>3, MessageTypes
<1>5. r = [i \in 1..n |-> r[i]]
  BY <1>1, <1>2 DEF Results
<1>6. r \in Seq(Messages)
  BY <1>1, <1>4, <1>5
<1>7. outputs = <<>> => r = <<>>
  <2> SUFFICES ASSUME outputs = <<>> PROVE r = <<>>
    OBVIOUS
  <2>1. n = 0
    BY <1>1
  <2>2. Len(r) = 0
    BY <1>1, <1>3, <1>6, <2>1
  <2> QED BY <1>6, <2>2
<1> QED BY <1>1, <1>2, <1>3, <1>6, <1>7 DEF Spoken

LEMMA SpokenJoins ==
  ASSUME NEW c, NEW outputs, NEW S, NEW m \in Seq(S), NEW p \in Seq(S), Spoken(c, outputs, m), Spoken(c, outputs, p)
  PROVE  Spoken(c, outputs, m \o p)
<1>1. PICK q : q = m \o p
  OBVIOUS
<1>2. \A i \in DOMAIN q : (i \in DOMAIN m /\ q[i] = m[i]) \/ (\E k \in DOMAIN p : i = Len(m) + k /\ q[i] = p[k])
  BY <1>1, Elements
<1> QED BY <1>1, <1>2 DEF Spoken

LEMMA ExtrasAre ==
  ASSUME NEW c \in Clients, NEW outputs, NEW user, NEW instructions
  PROVE  /\ New(c, user) \in Seq(Messages) /\ Spoken(c, outputs, New(c, user))
         /\ Instructed(c, instructions) \in Seq(Messages) /\ Spoken(c, outputs, Instructed(c, instructions))
         /\ Without(New(c, user), New(c, user))
         /\ Without(Instructed(c, instructions), <<>>)
<1>1. System(c) \in Messages /\ User(c) \in Messages /\ User(c).role # "system"
  BY MessageTypes DEF User
<1>2. <<>> \in Seq(Messages) /\ \A i \in DOMAIN <<>> : FALSE
  OBVIOUS
<1>3. <<User(c)>> \in Seq(Messages) /\ \A i \in DOMAIN <<User(c)>> : <<User(c)>>[i] = User(c)
  BY <1>1
<1>4. <<System(c)>> \in Seq(Messages) /\ \A i \in DOMAIN <<System(c)>> : <<System(c)>>[i] = System(c)
  BY <1>1
<1>5. New(c, user) \in Seq(Messages) /\ Instructed(c, instructions) \in Seq(Messages)
  BY <1>2, <1>3, <1>4 DEF New, Instructed
<1>6. \A i \in DOMAIN New(c, user) : New(c, user)[i] = User(c)
  <2>1. CASE user
    BY <1>3, <2>1 DEF New
  <2>2. CASE ~user
    BY <1>2, <2>2 DEF New
  <2> QED BY <2>1, <2>2
<1>7. \A i \in DOMAIN Instructed(c, instructions) : Instructed(c, instructions)[i] = System(c)
  <2>1. CASE instructions
    BY <1>4, <2>1 DEF Instructed
  <2>2. CASE ~instructions
    BY <1>2, <2>2 DEF Instructed
  <2> QED BY <2>1, <2>2
<1>8. Spoken(c, outputs, New(c, user)) /\ Spoken(c, outputs, Instructed(c, instructions))
  BY <1>6, <1>7 DEF Spoken
<1>9. Without(New(c, user), New(c, user))
  BY <1>1, <1>5, <1>6, WithoutSame
<1>10. Without(<<>>, <<>>)
  BY <1>2, WithoutSame
<1>11. Without(Instructed(c, instructions), <<>>)
  BY <1>10, WithoutSystem DEF Instructed
<1> QED BY <1>5, <1>8, <1>9, <1>11

(* A mapped input is of messages of its client; it says what the client      *)
(* asked when it names a previous response, or when nothing was called.      *)
LEMMA MappedAre ==
  ASSUME NEW c \in Clients, NEW outputs \in Seq(CallIds), NEW user, NEW previous, NEW instructions,
         NEW M, M = Mapped(c, outputs, user, previous, instructions)
  PROVE  /\ M \in Seq(Messages) /\ Spoken(c, outputs, M)
         /\ previous # NoResponse \/ outputs = <<>> => Without(M, Results(c, outputs) \o New(c, user))
<1>1. PICK A, B, C, R : /\ A = Instructed(c, instructions) /\ C = New(c, user) /\ R = Results(c, outputs)
                        /\ B = IF previous # NoResponse THEN R ELSE <<>>
  OBVIOUS
<1>2. M = (A \o B) \o C
  BY <1>1 DEF Mapped, Instructed, New, Results
<1>3. A \in Seq(Messages) /\ C \in Seq(Messages) /\ R \in Seq(Messages) /\ <<>> \in Seq(Messages)
  BY <1>1, ExtrasAre, ResultsAre
<1>4. Spoken(c, outputs, A) /\ Spoken(c, outputs, C) /\ Spoken(c, outputs, R) /\ Spoken(c, outputs, <<>>)
  <2>1. Spoken(c, outputs, <<>>)
    BY DEF Spoken
  <2> QED BY <1>1, <2>1, ExtrasAre, ResultsAre
<1>5. B \in Seq(Messages) /\ Spoken(c, outputs, B)
  BY <1>1, <1>3, <1>4
<1>6. A \o B \in Seq(Messages) /\ Spoken(c, outputs, A \o B)
  BY <1>3, <1>4, <1>5, SpokenJoins
<1>7. M \in Seq(Messages) /\ Spoken(c, outputs, M)
  <2>1. PICK D : D = A \o B
    OBVIOUS
  <2>2. D \in Seq(Messages) /\ Spoken(c, outputs, D)
    BY <1>6, <2>1
  <2>3. D \o C \in Seq(Messages)
    BY <1>3, <2>2
  <2>4. Spoken(c, outputs, D \o C)
    BY <1>3, <1>4, <2>2, SpokenJoins
  <2> QED BY <1>2, <2>1, <2>3, <2>4
<1>8. ASSUME previous # NoResponse \/ outputs = <<>> PROVE Without(M, R \o C)
  <2>1. B = R
    BY <1>1, <1>8, ResultsAre
  <2>2. \A i \in DOMAIN R : R[i].role # "system"
    BY <1>1, ResultsAre DEF Tool
  <2>3. Without(R, R)
    BY <1>3, <2>2, WithoutSame
  <2>4. Without(A, <<>>) /\ Without(C, C)
    BY <1>1, ExtrasAre
  <2>5. Without(A \o B, <<>> \o R)
    BY <1>3, <2>1, <2>3, <2>4, WithoutJoins
  <2>6. <<>> \o R = R /\ R \in Seq(Messages) /\ A \o B \in Seq(Messages)
    BY <1>3, <1>6
  <2>7. Without(A \o B, R)
    BY <2>5, <2>6
  <2> QED BY <1>2, <1>3, <2>4, <2>6, <2>7, WithoutJoins
<1> QED BY <1>1, <1>7, <1>8

(* What a client says continues a whole conversation that makes the calls.   *)
LEMMA SpokenContinues ==
  ASSUME NEW c, NEW outputs \in Seq(CallIds), NEW m \in Seq(Messages), NEW p \in Seq(Messages), NEW G,
         Whole(c, m, G), Spoken(c, outputs, p),
         outputs = <<>> \/ \E j \in DOMAIN m : m[j].role = "assistant" /\ ToSet(outputs) \subseteq m[j].ids
  PROVE  Whole(c, m \o p, G)
<1>1. Own(c, p)
  BY DEF Spoken, Own, System, User, Tool
<1>2. Makes(p, G)
  BY DEF Spoken, Makes, System, User, Tool
<1>3. Answered(p, m)
  <2> SUFFICES ASSUME NEW k \in DOMAIN p, p[k].role = "tool"
               PROVE  \E j \in DOMAIN m : m[j].role = "assistant" /\ p[k].ids \subseteq m[j].ids
    BY DEF Answered
  <2>1. p[k] # System(c) /\ p[k] # User(c)
    BY DEF System, User
  <2>2. PICK i \in DOMAIN outputs : p[k] = Tool(c, outputs[i])
    BY <2>1 DEF Spoken
  <2>3. p[k].ids = {outputs[i]} /\ outputs # <<>> /\ outputs[i] \in ToSet(outputs)
    BY <2>2 DEF Tool, ToSet
  <2> QED BY <2>3
<1> QED BY <1>1, <1>2, <1>3, WholeJoins

-----------------------------------------------------------------------------
(* The conversation that made the calls of some results. *)

(* Bounded numbers have a largest one.                                       *)
LEMMA LargestOf ==
  ASSUME NEW n \in Nat, NEW T, T \subseteq 1..n, T # {}
  PROVE  \E x \in T : \A y \in T : y <= x
<1>1. PICK B : B = {b \in Nat : \A x \in T : x <= b}
  OBVIOUS
<1>2. B \subseteq Nat /\ n \in B
  BY <1>1
<1>3. PICK b \in B : \A m \in B : ~(<<m, b>> \in OpToRel(<, Nat))
  BY <1>2, WFMin, NatLessThanWellFounded, Zenon
<1>4. \A m \in B : <<m, b>> \in Nat \X Nat /\ <<m, b>>[1] = m /\ <<m, b>>[2] = b
  BY <1>2
<1>5. \A m \in B : ~(<<m, b>>[1] < <<m, b>>[2])
  BY <1>3, <1>4, Zenon DEF OpToRel
<1>6. b \in Nat /\ (\A x \in T : x <= b) /\ \A m \in B : ~(m < b)
  BY <1>1, <1>4, <1>5
<1>7. b \in T
  <2> SUFFICES ASSUME b \notin T PROVE FALSE
    OBVIOUS
  <2>1. \A x \in T : x \in Nat /\ x < b
    BY <1>6
  <2>2. PICK t \in T : TRUE
    OBVIOUS
  <2>3. b - 1 \in Nat /\ \A x \in T : x <= b - 1
    BY <1>6, <2>1, <2>2
  <2> QED BY <1>1, <1>6, <2>3
<1> QED BY <1>6, <1>7

LEMMA PriorIs ==
  ASSUME MemoryInv, NEW ids, NEW prior, prior = findConversationWithToolCall(ids), prior # <<>>
  PROVE  \E i \in DOMAIN conversations :
            /\ prior = conversations[i].val /\ Holds(prior, ids)
            /\ \A j \in DOMAIN conversations : Holds(conversations[j].val, ids) => j <= i
<1>1. PICK hits : hits = {i \in DOMAIN conversations : Holds(conversations[i].val, ids)}
  OBVIOUS
<1>2. prior = IF hits = {} THEN <<>> ELSE conversations[CHOOSE i \in hits : \A j \in hits : j <= i].val
  BY <1>1 DEF findConversationWithToolCall
<1>3. hits # {}
  BY <1>2
<1>4. conversations \in Seq(Entries)
  BY DEF MemoryInv
<1>5. Len(conversations) \in Nat /\ DOMAIN conversations = 1..Len(conversations)
  BY <1>4
<1>6. \E x \in hits : \A y \in hits : y <= x
  BY <1>1, <1>3, <1>5, LargestOf
<1>7. PICK i : i = CHOOSE x \in hits : \A y \in hits : y <= x
  OBVIOUS
<1>8. i \in hits /\ \A j \in hits : j <= i
  BY <1>6, <1>7
<1>9. prior = conversations[i].val
  BY <1>2, <1>3, <1>7
<1> QED BY <1>1, <1>8, <1>9

(* A conversation that lacks nothing holds the calls its client must answer. *)
LEMMA HasTheCalls ==
  ASSUME NEW c \in Clients, ThreadOf(c), NEW m \in Seq(Messages), said[c] \in Seq(Messages), Without(m, said[c]), talk[c].calls # <<>>
  PROVE  \E j \in DOMAIN m : m[j].role = "assistant" /\ ToSet(talk[c].calls) \subseteq m[j].ids
<1>1. said[c] # <<>>
  BY DEF ThreadOf
<1>2. PICK i \in DOMAIN said[c] : said[c][i] = Assistant(c, ToSet(talk[c].calls))
  BY <1>1 DEF ThreadOf
<1>3. DOMAIN said[c] = 1..Len(said[c]) /\ DOMAIN m = 1..Len(m)
  OBVIOUS
<1>4. PICK j \in 1..Len(m) : m[j] = said[c][i]
  BY <1>2, <1>3, WithoutHas
<1> QED BY <1>2, <1>3, <1>4 DEF Assistant

LEMMA RemembersOwn ==
  ASSUME TalkInv, NEW c \in whole, Has(conversations, talk[c].last)
  PROVE  /\ conversationFor(talk[c].last) \in Seq(Messages)
         /\ Without(conversationFor(talk[c].last), said[c])
         /\ Whole(c, conversationFor(talk[c].last), Given(c))
<1>1. c \in Clients
  BY DEF TalkInv, TalkTypes
<1>2. PICK j \in DOMAIN conversations : conversations[j].key = talk[c].last /\ conversationFor(talk[c].last) = conversations[j].val
  BY DEF Has, At, conversationFor
<1>3. conversations[j] \in Entries /\ EntryOf(conversations[j])
  BY EntryKey DEF TalkInv
<1>4. conversations[j].val \in Seq(Messages)
  BY <1>3 DEF Entries
<1>5. Without(conversations[j].val, said[c]) /\ Whole(c, conversations[j].val, Given(c))
  BY <1>1, <1>2, <1>3 DEF EntryOf
<1> QED BY <1>2, <1>4, <1>5

(* The conversation found by the ids of calls that were given to one client  *)
(* only is its own last one, whatever other ids were given twice.            *)
LEMMA PriorIsOwn ==
  ASSUME TalkInv, NEW c \in Clients, whole = Clients,
         NEW prior, prior = findConversationWithToolCall(ToSet(talk[c].calls)), prior # <<>>,
         \A id \in ToSet(talk[c].calls) : gave[id] = {c}
  PROVE  prior \in Seq(Messages) /\ Without(prior, said[c]) /\ Whole(c, prior, Given(c))
<1>1. PICK ids : ids = ToSet(talk[c].calls)
  OBVIOUS
<1>2. PICK i \in DOMAIN conversations :
            /\ prior = conversations[i].val /\ Holds(prior, ids)
            /\ \A j \in DOMAIN conversations : Holds(conversations[j].val, ids) => j <= i
  BY <1>1, PriorIs DEF TalkInv
<1>3. conversations[i] \in Entries /\ conversations[i].key \in 1..issued /\ EntryOf(conversations[i])
  BY EntryKey DEF TalkInv
<1>4. prior \in Seq(Messages)
  BY <1>2, <1>3 DEF Entries
<1>5. PICK d \in Clients : conversations[i].key <= talk[d].last /\ Whole(d, prior, Given(d))
  BY <1>2, <1>3 DEF EntryOf
<1>6. PICK n \in DOMAIN prior : prior[n].role = "assistant" /\ prior[n].ids \cap ids # {}
  BY <1>2 DEF Holds
<1>7. PICK id \in ids : id \in prior[n].ids
  BY <1>6
<1>8. id \in Given(d)
  BY <1>5, <1>6, <1>7 DEF Whole, Makes
<1>9. d = c
  BY <1>1, <1>7, <1>8 DEF Given
<1>10. PICK L, l : L = Len(conversations) /\ l = talk[c].last
  OBVIOUS
<1>11. issued \in Nat /\ l \in 0..issued /\ conversations \in Seq(Entries) /\ said[c] \in Seq(Messages) /\ ThreadOf(c)
  BY <1>10 DEF TalkInv, TalkTypes, MemoryInv
<1>12. L \in Nat /\ DOMAIN conversations = 1..L
  BY <1>10, <1>11
<1>13. \A j \in 1..L : conversations[j].key = issued - L + j
  BY <1>10, <1>12 DEF TalkInv, MemoryInv
<1>14. i \in 1..L /\ issued - L + i <= l
  BY <1>5, <1>9, <1>10, <1>12, <1>13
<1>15. PICK j : j = l - (issued - L)
  OBVIOUS
<1>16. j \in 1..L /\ i <= j /\ issued - L + j = l
  BY <1>11, <1>12, <1>14, <1>15
<1>17. conversations[j].key = l
  BY <1>13, <1>16
<1>18. conversations[j] \in Entries /\ EntryOf(conversations[j])
  BY <1>12, <1>16, EntryKey DEF TalkInv
<1>19. conversations[j].val \in Seq(Messages) /\ Without(conversations[j].val, said[c]) /\ Whole(c, conversations[j].val, Given(c))
  BY <1>10, <1>17, <1>18 DEF Entries, EntryOf
<1>20. talk[c].calls # <<>>
  BY <1>1, <1>7 DEF ToSet
<1>21. Holds(conversations[j].val, ids)
  <2>1. PICK k \in DOMAIN (conversations[j].val) : conversations[j].val[k].role = "assistant" /\ ids \subseteq conversations[j].val[k].ids
    BY <1>1, <1>11, <1>19, <1>20, HasTheCalls
  <2> QED BY <1>7, <2>1 DEF Holds
<1>22. j <= i
  BY <1>2, <1>12, <1>16, <1>21
<1>23. j = i
  BY <1>14, <1>16, <1>22
<1> QED BY <1>2, <1>4, <1>19, <1>23

-----------------------------------------------------------------------------
(* A request. *)

Says(c, user) == Results(c, talk[c].calls) \o New(c, user)

LEMMA SaysIs ==
  ASSUME TalkInv, NEW c \in Clients, NEW user
  PROVE  /\ talk[c].calls \in Seq(CallIds) /\ Says(c, user) \in Seq(Messages)
         /\ \A i \in DOMAIN Says(c, user) :
              /\ Says(c, user)[i].of = c /\ Says(c, user)[i].role \in {"user", "tool"}
              /\ Says(c, user)[i].ids \subseteq ToSet(talk[c].calls)
              /\ Says(c, user)[i].role = "tool" => Says(c, user)[i].ids # {}
         /\ \A id \in ToSet(talk[c].calls) : \E i \in DOMAIN Says(c, user) : id \in Says(c, user)[i].ids
<1>1. PICK calls, R, U, q : calls = talk[c].calls /\ R = Results(c, calls) /\ U = New(c, user) /\ q = R \o U
  OBVIOUS
<1>2. calls \in Seq(CallIds)
  BY <1>1, CallsAre DEF TalkInv, TalkTypes
<1>3. R \in Seq(Messages) /\ U \in Seq(Messages)
  BY <1>1, <1>2, ResultsAre, ExtrasAre
<1>4. DOMAIN R = DOMAIN calls /\ \A i \in DOMAIN R : R[i] = Tool(c, calls[i])
  BY <1>1, <1>2, ResultsAre
<1>5. \A i \in DOMAIN U : U[i] = User(c)
  BY <1>1 DEF New
<1>6. /\ q \in Seq(Messages)
      /\ \A i \in DOMAIN q : (i \in DOMAIN R /\ q[i] = R[i]) \/ (\E k \in DOMAIN U : i = Len(R) + k /\ q[i] = U[k])
      /\ \A i \in DOMAIN R : i \in DOMAIN q /\ q[i] = R[i]
  <2>1. q = R \o U /\ q \in Seq(Messages)
    BY <1>1, <1>3
  <2>2. \A i \in DOMAIN (R \o U) : (i \in DOMAIN R /\ (R \o U)[i] = R[i]) \/ (\E k \in DOMAIN U : i = Len(R) + k /\ (R \o U)[i] = U[k])
    BY <1>3, Elements
  <2>3. \A i \in DOMAIN R : i \in DOMAIN (R \o U) /\ (R \o U)[i] = R[i]
    BY <1>3, Elements
  <2> QED BY <2>1, <2>2, <2>3
<1>7. \A i \in DOMAIN calls : calls[i] \in ToSet(calls)
  BY DEF ToSet
<1>8. ASSUME NEW i \in DOMAIN q
      PROVE  /\ q[i].of = c /\ q[i].role \in {"user", "tool"} /\ q[i].ids \subseteq ToSet(calls)
             /\ q[i].role = "tool" => q[i].ids # {}
  <2>1. CASE i \in DOMAIN R /\ q[i] = R[i]
    BY <1>4, <1>7, <2>1 DEF Tool
  <2>2. CASE \E k \in DOMAIN U : i = Len(R) + k /\ q[i] = U[k]
    BY <1>5, <2>2 DEF User
  <2> QED BY <1>6, <2>1, <2>2
<1>9. ASSUME NEW id \in ToSet(calls) PROVE \E i \in DOMAIN q : id \in q[i].ids
  <2>1. PICK i \in DOMAIN calls : id = calls[i]
    BY DEF ToSet
  <2>2. i \in DOMAIN q /\ q[i] = Tool(c, calls[i])
    BY <1>4, <1>6
  <2> QED BY <2>1, <2>2 DEF Tool
<1> QED BY <1>1, <1>2, <1>6, <1>8, <1>9 DEF Says

(* A mapped input that continues the remembered past is the whole thread.    *)
LEMMA FoundIsWhole ==
  ASSUME TalkInv, NEW c \in whole, NEW user, NEW instructions, Has(conversations, talk[c].last), talk[c].last # NoResponse,
         NEW p, p = Mapped(c, talk[c].calls, user, talk[c].last, instructions)
  PROVE  /\ Without(conversationFor(talk[c].last) \o p, said[c] \o Says(c, user))
         /\ Whole(c, conversationFor(talk[c].last) \o p, Given(c))
<1>1. c \in Clients /\ said[c] \in Seq(Messages) /\ ThreadOf(c)
  BY DEF TalkInv, TalkTypes
<1>2. PICK v : v = conversationFor(talk[c].last)
  OBVIOUS
<1>3. v \in Seq(Messages) /\ Without(v, said[c]) /\ Whole(c, v, Given(c))
  BY <1>2, RemembersOwn
<1>4. talk[c].calls \in Seq(CallIds) /\ Says(c, user) \in Seq(Messages)
  BY <1>1, SaysIs
<1>5. p \in Seq(Messages) /\ Spoken(c, talk[c].calls, p)
  BY <1>1, <1>4, MappedAre
<1>6. Without(p, Says(c, user))
  BY <1>1, <1>4, MappedAre DEF Says
<1>7. Without(v \o p, said[c] \o Says(c, user))
  BY <1>1, <1>3, <1>4, <1>5, <1>6, WithoutJoins
<1>8. talk[c].calls = <<>> \/ \E j \in DOMAIN v : v[j].role = "assistant" /\ ToSet(talk[c].calls) \subseteq v[j].ids
  BY <1>1, <1>3, HasTheCalls
<1>9. Whole(c, v \o p, Given(c))
  BY <1>3, <1>4, <1>5, <1>8, SpokenContinues
<1> QED BY <1>2, <1>7, <1>9

(* So is the first input of a thread.                                        *)
LEMMA FirstIsWhole ==
  ASSUME TalkInv, NEW c \in Clients, NEW user, NEW instructions, NEW previous, said[c] = <<>>,
         NEW p, p = Mapped(c, talk[c].calls, user, previous, instructions)
  PROVE  Without(p, said[c] \o Says(c, user)) /\ Whole(c, p, Given(c))
<1>1. ThreadOf(c) /\ talk[c].calls = <<>>
  BY DEF TalkInv, ThreadOf
<1>2. talk[c].calls \in Seq(CallIds) /\ Says(c, user) \in Seq(Messages)
  BY SaysIs
<1>3. p \in Seq(Messages) /\ Spoken(c, talk[c].calls, p)
  BY <1>2, MappedAre
<1>4. Without(p, Says(c, user))
  BY <1>1, <1>2, MappedAre DEF Says
<1>5. said[c] \o Says(c, user) = Says(c, user) /\ <<>> \o p = p /\ <<>> \in Seq(Messages)
  BY <1>2, <1>3
<1>6. Whole(c, <<>> \o p, Given(c))
  BY <1>1, <1>2, <1>3, <1>5, WholeNothing, SpokenContinues
<1> QED BY <1>4, <1>5, <1>6

-----------------------------------------------------------------------------
(* What a step leaves to the others: ids are only given, and nobody becomes  *)
(* whole again.                                                              *)
Onward == (\A id \in CallIds : gave[id] \subseteq gave'[id]) /\ whole' \subseteq whole

LEMMA GivenGrows == ASSUME Onward, NEW c PROVE Given(c) \subseteq Given(c)'
BY DEF Onward, Given

LEMMA ThreadStays ==
  ASSUME Onward, NEW c, ThreadOf(c), talk'[c] = talk[c], said'[c] = said[c]
  PROVE  ThreadOf(c)'
<1>1. PICK G, H : G = Given(c) /\ H = Given(c)' /\ G \subseteq H
  BY GivenGrows
<1>2. Whole(c, said'[c], H)
  BY <1>1, WholeGrows DEF ThreadOf
<1> QED BY <1>1, <1>2 DEF ThreadOf

LEMMA FlightStays ==
  ASSUME Onward, NEW c, FlightOf(c), talk'[c] = talk[c], said'[c] = said[c], flight'[c] = flight[c]
  PROVE  FlightOf(c)'
<1>1. PICK G, H : G = Given(c) /\ H = Given(c)' /\ G \subseteq H
  BY GivenGrows
<1>2. AskedOf(c)'
  BY <1>1 DEF FlightOf, AskedOf
<1>3. ASSUME c \in whole', flight[c].found \/ said[c] = <<>>, flight[c].busy
      PROVE  Without(flight[c].messages, said[c] \o flight[c].asked) /\ Whole(c, flight[c].messages, H)
  <2>1. c \in whole
    BY <1>3 DEF Onward
  <2>2. Without(flight[c].messages, said[c] \o flight[c].asked) /\ Whole(c, flight[c].messages, G)
    BY <1>1, <1>3, <2>1 DEF FlightOf
  <2> QED BY <1>1, <2>2, WholeGrows
<1>4. ~flight'[c].busy => flight'[c] = Idle
  BY DEF FlightOf
<1> QED BY <1>1, <1>2, <1>3, <1>4 DEF FlightOf

LEMMA AnchorStays ==
  ASSUME Onward, TalkTypes, NEW c \in Clients, FlightOf(c), AnchoredOf(c), flight'[c] = flight[c]
  PROVE  AnchoredOf(c)'
<1> SUFFICES ASSUME flight[c].anchored, whole' = Clients,
                    \A i \in DOMAIN flight[c].asked : \A id \in flight[c].asked[i].ids : gave'[id] = {c}
             PROVE  Own(c, flight[c].messages) /\ Answers(flight[c].messages)
  BY DEF AnchoredOf
<1>1. whole = Clients
  BY DEF Onward, TalkTypes
<1>2. ASSUME NEW i \in DOMAIN flight[c].asked, NEW id \in flight[c].asked[i].ids PROVE gave[id] = {c}
  <2>1. id \in CallIds /\ c \in gave[id]
    BY DEF FlightOf, AskedOf, Given
  <2>2. gave[id] \subseteq gave'[id] /\ gave'[id] = {c}
    BY <2>1 DEF Onward
  <2> QED BY <2>1, <2>2
<1> QED BY <1>1, <1>2 DEF AnchoredOf

(* An entry stays what it is while the clients whose last response it is     *)
(* stay, and the others move on.                                             *)
LEMMA EntryStays ==
  ASSUME Onward, NEW e, EntryOf(e), e.key \in Nat,
         \A c \in Clients : talk[c].last \in Nat /\ talk'[c].last \in Nat,
         \A c \in Clients : (talk'[c] = talk[c] /\ said'[c] = said[c]) \/ (talk'[c].last > e.key)
  PROVE  EntryOf(e)'
<1>1. PICK c \in Clients : e.key <= talk[c].last /\ (c \in whole => Whole(c, e.val, Given(c)))
  BY DEF EntryOf
<1>2. e.key <= talk'[c].last
  BY <1>1
<1>3. c \in whole' => Whole(c, e.val, Given(c)')
  <2>1. c \in whole' => Whole(c, e.val, Given(c))
    BY <1>1 DEF Onward
  <2>2. Given(c) \subseteq Given(c)'
    BY GivenGrows
  <2> QED BY <2>1, <2>2, WholeGrows
<1>4. ASSUME NEW d \in Clients, e.key = talk'[d].last, d \in whole'
      PROVE  Without(e.val, said'[d]) /\ Whole(d, e.val, Given(d)')
  <2>1. talk'[d] = talk[d] /\ said'[d] = said[d] /\ d \in whole
    BY <1>4 DEF Onward
  <2>2. Without(e.val, said[d]) /\ Whole(d, e.val, Given(d))
    BY <1>4, <2>1 DEF EntryOf
  <2>3. Given(d) \subseteq Given(d)'
    BY GivenGrows
  <2> QED BY <2>1, <2>2, <2>3, WholeGrows
<1>5. \E b \in Clients : e.key <= talk'[b].last /\ (b \in whole' => Whole(b, e.val, Given(b)'))
  BY <1>2, <1>3
<1> QED BY <1>4, <1>5 DEF EntryOf

-----------------------------------------------------------------------------
(* The steps. *)

LEMMA BusyCounts ==
  ASSUME TalkTypes
  PROVE  IsFiniteSet(Clients) /\ IsFiniteSet(Busy) /\ Cardinality(Busy) \in Nat /\ MaxTurns \in Nat
<1>1. IsFiniteSet(Clients) /\ MaxTurns \in Nat
  BY ConversationsAssumption
<1>2. IsFiniteSet(Busy)
  BY <1>1, FS_Subset DEF Busy
<1> QED BY <1>1, <1>2, FS_CardinalityType

(* A turn that ends is not waited for.                                       *)
LEMMA BusyEnds ==
  ASSUME TalkTypes, NEW c \in Clients, flight[c].busy, flight' = [flight EXCEPT ![c] = Idle]
  PROVE  Cardinality(Busy') = Cardinality(Busy) - 1
<1>1. Busy' = Busy \ {c} /\ c \in Busy
  <2>1. \A d \in Clients : flight'[d] = IF d = c THEN Idle ELSE flight[d]
    BY DEF TalkTypes
  <2> QED BY <2>1 DEF Busy, Idle
<1>2. IsFiniteSet(Busy)
  BY BusyCounts
<1> QED BY <1>1, <1>2, FS_RemoveElement

Flights == [busy : BOOLEAN, asked : Seq(Messages), messages : Seq(Messages), found : BOOLEAN, anchored : BOOLEAN]

LEMMA IdleFlight == Idle \in Flights
<1>1. <<>> \in Seq(Messages)
  OBVIOUS
<1> QED BY <1>1 DEF Idle, Flights

(* A turn that is not taken any further keeps what holds of its client.      *)
LEMMA IdleIsFine ==
  ASSUME NEW c, flight'[c] = Idle
  PROVE  FlightOf(c)' /\ AnchoredOf(c)'
<1>1. \A i \in DOMAIN <<>> : FALSE
  OBVIOUS
<1>2. AskedOf(c)'
  BY <1>1 DEF AskedOf, Idle
<1> QED BY <1>2 DEF FlightOf, AnchoredOf, Idle

(* A request is forwarded: with what its client says, and the whole thread   *)
(* if its past was found.                                                    *)
LEMMA ForwardKeeps ==
  ASSUME TalkInv, NEW c \in Clients, ~flight[c].busy, issued + Cardinality(Busy) < MaxTurns,
         NEW user, NEW M \in Seq(Messages), NEW found \in BOOLEAN, NEW anchored \in BOOLEAN,
         Forward(c, Says(c, user), M, found, anchored),
         UNCHANGED <<conversations, issued, talk, said, whole, gave, restarted, fails>>,
         c \in whole /\ (found \/ said[c] = <<>>) => Without(M, said[c] \o Says(c, user)) /\ Whole(c, M, Given(c)),
         anchored /\ whole = Clients /\ (\A id \in ToSet(talk[c].calls) : gave[id] = {c}) => Own(c, M) /\ Answers(M)
  PROVE  TalkInv'
<1>1. PICK F : F = [busy |-> TRUE, asked |-> Says(c, user), messages |-> M, found |-> found, anchored |-> anchored]
  OBVIOUS
<1>2. /\ Says(c, user) \in Seq(Messages)
      /\ \A i \in DOMAIN Says(c, user) :
              /\ Says(c, user)[i].of = c /\ Says(c, user)[i].role \in {"user", "tool"}
              /\ Says(c, user)[i].ids \subseteq ToSet(talk[c].calls)
              /\ Says(c, user)[i].role = "tool" => Says(c, user)[i].ids # {}
      /\ \A id \in ToSet(talk[c].calls) : \E i \in DOMAIN Says(c, user) : id \in Says(c, user)[i].ids
  <2>1. Says(c, user) \in Seq(Messages)
    BY SaysIs
  <2>2. \A i \in DOMAIN Says(c, user) :
              /\ Says(c, user)[i].of = c /\ Says(c, user)[i].role \in {"user", "tool"}
              /\ Says(c, user)[i].ids \subseteq ToSet(talk[c].calls)
              /\ Says(c, user)[i].role = "tool" => Says(c, user)[i].ids # {}
    BY SaysIs
  <2>3. \A id \in ToSet(talk[c].calls) : \E i \in DOMAIN Says(c, user) : id \in Says(c, user)[i].ids
    BY SaysIs
  <2> QED BY <2>1, <2>2, <2>3
<1>3. F \in Flights
  BY <1>1, <1>2 DEF Flights
<1>4. TalkTypes
  BY DEF TalkInv
<1>5. flight' = [flight EXCEPT ![c] = F]
  BY <1>1 DEF Forward
<1>6. flight' \in [Clients -> Flights] /\ flight'[c] = F /\ \A d \in Clients \ {c} : flight'[d] = flight[d]
  BY <1>3, <1>4, <1>5 DEF TalkTypes, Flights
<1>7. Busy' = Busy \cup {c} /\ c \notin Busy
  BY <1>1, <1>6 DEF Busy
<1>8. Cardinality(Busy') = Cardinality(Busy) + 1
  BY <1>4, <1>7, BusyCounts, FS_AddElement
<1>9. TalkTypes'
  <2>1. issued + Cardinality(Busy') <= MaxTurns
    BY <1>4, <1>8, BusyCounts DEF TalkTypes
  <2> QED BY <1>4, <1>6, <2>1 DEF TalkTypes, Flights
<1>10. MemoryInv'
  BY DEF TalkInv, MemoryInv
<1>11. Onward
  BY DEF Onward
<1>12. ASSUME NEW d \in Clients PROVE ThreadOf(d)'
  BY <1>11, ThreadStays DEF TalkInv
<1>13. ASSUME NEW i \in DOMAIN conversations PROVE EntryOf(conversations[i])'
  BY DEF TalkInv, EntryOf, Given
<1>14. ASSUME NEW d \in Clients PROVE FlightOf(d)'
  <2>1. CASE d # c
    <3>1. flight'[d] = flight[d] /\ FlightOf(d)
      BY <1>6, <2>1 DEF TalkInv
    <3> QED BY <1>11, <3>1, FlightStays
  <2>2. CASE d = c
    <3>1. ToSet(talk[c].calls) \subseteq Given(c)
      BY DEF TalkInv, ThreadOf
    <3>2. AskedOf(c)'
      BY <1>1, <1>2, <1>6, <3>1 DEF AskedOf, Given
    <3>3. F.busy /\ F.messages = M /\ F.asked = Says(c, user) /\ F.found = found
      BY <1>1
    <3>4. FlightOf(c)'
      BY <1>6, <3>2, <3>3 DEF FlightOf, Given
    <3> QED BY <2>2, <3>4
  <2> QED BY <2>1, <2>2
<1>15. ASSUME NEW d \in Clients PROVE AnchoredOf(d)'
  <2>1. CASE d # c
    <3>1. flight'[d] = flight[d] /\ FlightOf(d) /\ AnchoredOf(d)
      BY <1>6, <2>1 DEF TalkInv
    <3> QED BY <1>4, <1>11, <3>1, AnchorStays
  <2>2. CASE d = c
    <3>1. F.messages = M /\ F.asked = Says(c, user) /\ F.anchored = anchored
      BY <1>1
    <3>2. (\A i \in DOMAIN Says(c, user) : \A id \in Says(c, user)[i].ids : gave[id] = {c})
             => \A id \in ToSet(talk[c].calls) : gave[id] = {c}
      BY <1>2
    <3>3. AnchoredOf(c)'
      BY <1>6, <3>1, <3>2 DEF AnchoredOf
    <3> QED BY <2>2, <3>3
  <2> QED BY <2>1, <2>2
<1> QED BY <1>9, <1>10, <1>12, <1>13, <1>14, <1>15 DEF TalkInv

LEMMA FailsKeeps == ASSUME TalkInv, NEW c \in Clients, Fails(c) PROVE TalkInv'
<1>1. TalkTypes /\ flight[c].busy /\ flight' = [flight EXCEPT ![c] = Idle] /\ fails' = fails + 1 /\ fails < MaxFails
  BY DEF Fails, TalkInv
<1>2. UNCHANGED <<conversations, issued, talk, said, whole, gave, restarted>>
  BY DEF Fails
<1>3. flight' \in [Clients -> Flights] /\ flight'[c] = Idle /\ \A d \in Clients \ {c} : flight'[d] = flight[d]
  BY <1>1, IdleFlight DEF TalkTypes, Flights
<1>4. TalkTypes'
  <2>1. issued + Cardinality(Busy') <= MaxTurns
    <3>1. Cardinality(Busy') = Cardinality(Busy) - 1
      BY <1>1, BusyEnds
    <3>2. Cardinality(Busy) \in Nat /\ MaxTurns \in Nat
      BY <1>1, BusyCounts
    <3> QED BY <1>1, <3>1, <3>2 DEF TalkTypes
  <2>2. fails' \in 0..MaxFails
    BY <1>1, ConversationsAssumption DEF TalkTypes
  <2> QED BY <1>1, <1>2, <1>3, <2>1, <2>2 DEF TalkTypes, Flights
<1>5. MemoryInv'
  BY <1>2 DEF TalkInv, MemoryInv
<1>6. Onward
  BY <1>2 DEF Onward
<1>7. ASSUME NEW d \in Clients PROVE ThreadOf(d)'
  BY <1>2, <1>6, ThreadStays DEF TalkInv
<1>8. ASSUME NEW i \in DOMAIN conversations PROVE EntryOf(conversations[i])'
  BY <1>2 DEF TalkInv, EntryOf, Given
<1>9. ASSUME NEW d \in Clients PROVE FlightOf(d)' /\ AnchoredOf(d)'
  <2>1. CASE d # c
    <3>1. flight'[d] = flight[d] /\ FlightOf(d) /\ AnchoredOf(d)
      BY <1>3, <2>1 DEF TalkInv
    <3>2. FlightOf(d)'
      BY <1>2, <1>6, <3>1, FlightStays
    <3>3. AnchoredOf(d)'
      BY <1>1, <1>6, <3>1, AnchorStays
    <3> QED BY <3>2, <3>3
  <2>2. CASE d = c
    BY <1>3, <2>2, IdleIsFine
  <2> QED BY <2>1, <2>2
<1> QED BY <1>2, <1>4, <1>5, <1>7, <1>8, <1>9 DEF TalkInv

LEMMA RestartKeeps == ASSUME TalkInv, Restart PROVE TalkInv'
<1>1. TalkTypes /\ conversations' = <<>> /\ restarted' = issued /\ flight' = [c \in Clients |-> Idle]
  BY DEF Restart, TalkInv
<1>2. UNCHANGED <<issued, talk, said, whole, gave, fails>>
  BY DEF Restart
<1>3. flight' \in [Clients -> Flights] /\ \A d \in Clients : flight'[d] = Idle
  BY <1>1, IdleFlight
<1>4. TalkTypes'
  <2>1. Busy' = {}
    BY <1>3 DEF Busy, Idle
  <2>2. Cardinality(Busy') = 0
    BY <2>1, FS_EmptySet
  <2>3. issued + Cardinality(Busy') <= MaxTurns
    BY <1>1, <2>2, BusyCounts DEF TalkTypes
  <2> QED BY <1>1, <1>2, <1>3, <2>3 DEF TalkTypes, Flights
<1>5. MemoryInv'
  <2>1. <<>> \in Seq(Entries) /\ Len(<<>>) = 0 /\ \A i \in DOMAIN <<>> : FALSE
    OBVIOUS
  <2>2. MAX_CONVERSATIONS \in Nat /\ issued \in Nat
    BY <1>1, ConversationsAssumption DEF TalkTypes
  <2> QED BY <1>1, <1>2, <2>1, <2>2 DEF MemoryInv
<1>6. Onward
  BY <1>2 DEF Onward
<1>7. ASSUME NEW d \in Clients PROVE ThreadOf(d)'
  BY <1>2, <1>6, ThreadStays DEF TalkInv
<1>8. \A i \in DOMAIN (conversations') : FALSE
  BY <1>1
<1>9. ASSUME NEW d \in Clients PROVE FlightOf(d)' /\ AnchoredOf(d)'
  BY <1>3, IdleIsFine
<1> QED BY <1>4, <1>5, <1>7, <1>8, <1>9 DEF TalkInv

(* The messages an answer leaves are the assistant's, with calls of it.      *)
LEMMA KeptAre ==
  ASSUME NEW c \in Clients, NEW calls \in Seq(CallIds), NEW stream, NEW full, full = <<Assistant(c, ToSet(calls))>>,
         NEW kept, kept = IF stream /\ calls # <<>> THEN Streamed(c, calls) ELSE full
  PROVE  full \in Seq(Messages) /\ kept \in Seq(Messages)
<1>1. ToSet(calls) \subseteq CallIds
  BY DEF ToSet
<1>2. full \in Seq(Messages)
  BY <1>1, MessageTypes
<1>3. ASSUME calls # <<>> PROVE Streamed(c, calls) \in Seq(Messages)
  <2>1. Last(calls) \in CallIds
    BY <1>3 DEF Last
  <2>2. Assistant(c, {Last(calls)}) \in Messages
    BY <2>1, MessageTypes
  <2> QED BY <2>2 DEF Streamed
<1> QED BY <1>2, <1>3

LEMMA FullIs ==
  ASSUME NEW c, NEW ids, NEW G, ids \subseteq G, NEW full, full = <<Assistant(c, ids)>>
  PROVE  /\ Own(c, full) /\ Makes(full, G) /\ \A m : Answered(full, m)
         /\ \A i \in DOMAIN full : full[i].role # "system"
<1>1. \A i \in DOMAIN full : full[i] = Assistant(c, ids)
  OBVIOUS
<1> QED BY <1>1 DEF Own, Makes, Answered, Assistant

LEMMA AskedIs ==
  ASSUME TalkInv, NEW c \in Clients
  PROVE  /\ Own(c, flight[c].asked) /\ \A G : Makes(flight[c].asked, G)
         /\ Answered(flight[c].asked, said[c])
         /\ \A i \in DOMAIN flight[c].asked : flight[c].asked[i].role # "system"
<1>1. AskedOf(c) /\ ThreadOf(c)
  BY DEF TalkInv, FlightOf
<1>2. Own(c, flight[c].asked)
  BY <1>1 DEF AskedOf, Own
<1>3. ASSUME NEW G PROVE Makes(flight[c].asked, G)
  BY <1>1 DEF AskedOf, Makes
<1>4. Answered(flight[c].asked, said[c])
  <2> SUFFICES ASSUME NEW k \in DOMAIN flight[c].asked, flight[c].asked[k].role = "tool"
               PROVE  \E j \in DOMAIN said[c] : said[c][j].role = "assistant" /\ flight[c].asked[k].ids \subseteq said[c][j].ids
    BY DEF Answered
  <2>1. flight[c].asked[k].ids \subseteq ToSet(talk[c].calls)
    BY <1>1 DEF AskedOf
  <2>2. CASE said[c] # <<>>
    <3>1. PICK i \in DOMAIN said[c] : said[c][i] = Assistant(c, ToSet(talk[c].calls))
      BY <1>1, <2>2 DEF ThreadOf
    <3> QED BY <2>1, <3>1 DEF Assistant
  <2>3. CASE said[c] = <<>>
    <3>1. ToSet(talk[c].calls) = {}
      BY <1>1, <2>3 DEF ThreadOf, ToSet
    <3> QED BY <1>1, <2>1, <3>1 DEF AskedOf
  <2> QED BY <2>2, <2>3
<1>5. \A i \in DOMAIN flight[c].asked : flight[c].asked[i].role # "system"
  BY <1>1 DEF AskedOf
<1> QED BY <1>2, <1>3, <1>4, <1>5

LEMMA AnswerKeeps ==
  ASSUME TalkInv, NEW c \in Clients, NEW calls \in Orders, NEW stream \in BOOLEAN, Answer(c, calls, stream)
  PROVE  TalkInv'
<1>1. PICK full, kept : full = <<Assistant(c, ToSet(calls))>> /\ kept = IF stream /\ calls # <<>> THEN Streamed(c, calls) ELSE full
  OBVIOUS
<1>2. PICK k, v : k = issued + 1 /\ v = flight[c].messages \o kept
  OBVIOUS
<1>3. TalkTypes /\ MemoryInv /\ FlightOf(c) /\ ThreadOf(c)
  BY DEF TalkInv
<1>4. /\ flight[c].busy /\ issued' = k /\ rememberConversation(k, v)
      /\ talk' = [talk EXCEPT ![c] = [last |-> k, calls |-> calls]]
      /\ said' = [said EXCEPT ![c] = @ \o flight[c].asked \o full]
      /\ whole' = IF kept = full /\ (flight[c].found \/ said[c] = <<>>) THEN whole ELSE whole \ {c}
      /\ gave' = [id \in CallIds |-> IF id \in ToSet(calls) THEN gave[id] \cup {c} ELSE gave[id]]
      /\ flight' = [flight EXCEPT ![c] = Idle]
      /\ restarted' = restarted /\ fails' = fails
  BY <1>1, <1>2 DEF Answer
<1>5. calls \in Seq(CallIds) /\ ToSet(calls) \subseteq CallIds
  <2>1. calls \in Seq(CallIds)
    BY CallsAre
  <2> QED BY <2>1 DEF ToSet
<1>6. full \in Seq(Messages) /\ kept \in Seq(Messages)
  BY <1>1, <1>5, KeptAre
<1>7. flight[c].messages \in Seq(Messages) /\ flight[c].asked \in Seq(Messages) /\ said[c] \in Seq(Messages)
      /\ issued \in Nat /\ k \in Nat
  BY <1>2, <1>3 DEF TalkTypes
<1>8. v \in Seq(Messages)
  BY <1>2, <1>6, <1>7
<1>9. /\ talk'[c] = [last |-> k, calls |-> calls] /\ flight'[c] = Idle /\ said'[c] = said[c] \o flight[c].asked \o full
      /\ \A d \in Clients \ {c} : talk'[d] = talk[d] /\ said'[d] = said[d] /\ flight'[d] = flight[d]
  BY <1>3, <1>4 DEF TalkTypes
<1>10. Onward
  <2>1. ASSUME NEW id \in CallIds PROVE gave[id] \subseteq gave'[id]
    BY <1>4
  <2>2. whole' \subseteq whole
    BY <1>4
  <2> QED BY <2>1, <2>2 DEF Onward
<1>11. ToSet(calls) \subseteq Given(c)'
  BY <1>4, <1>5 DEF Given
<1>12. TalkTypes'
  <2>1. Cardinality(Busy') = Cardinality(Busy) - 1
    BY <1>3, <1>4, BusyEnds
  <2>2. Cardinality(Busy) \in Nat /\ MaxTurns \in Nat
    BY <1>3, BusyCounts
  <2>3. k + Cardinality(Busy') <= MaxTurns
    BY <1>2, <1>3, <1>7, <2>1, <2>2 DEF TalkTypes
  <2>4. restarted \in 0..k /\ fails \in 0..MaxFails /\ whole' \subseteq Clients
    BY <1>2, <1>3, <1>7, <1>10 DEF TalkTypes, Onward
  <2>5. talk' \in [Clients -> [last : 0..k, calls : Orders]]
    <3>1. talk \in [Clients -> [last : 0..issued, calls : Orders]] /\ k \in 0..k /\ \A n \in 0..issued : n \in 0..k
      BY <1>2, <1>3, <1>7 DEF TalkTypes
    <3>2. [last |-> k, calls |-> calls] \in [last : 0..k, calls : Orders]
      BY <3>1
    <3>3. \A d \in Clients : talk[d] \in [last : 0..k, calls : Orders]
      BY <3>1
    <3> QED BY <1>4, <3>1, <3>2, <3>3
  <2>6. flight' \in [Clients -> Flights]
    BY <1>3, <1>4, IdleFlight DEF TalkTypes, Flights
  <2>7. said' \in [Clients -> Seq(Messages)]
    <3>1. said[c] \o flight[c].asked \o full \in Seq(Messages)
      BY <1>6, <1>7
    <3> QED BY <1>3, <1>4, <3>1 DEF TalkTypes
  <2>8. gave' \in [CallIds -> SUBSET Clients]
    BY <1>3, <1>4 DEF TalkTypes
  <2> QED BY <1>4, <1>7, <2>3, <2>4, <2>5, <2>6, <2>7, <2>8 DEF TalkTypes, Flights
<1>13. MemoryInv'
  BY <1>2, <1>3, <1>4, <1>8, MemoryAfter
<1>14. Whole(c, said'[c], Given(c)')
  <2>1. PICK G : G = Given(c)'
    OBVIOUS
  <2>2. Whole(c, said[c], G)
    BY <1>3, <1>10, <2>1, GivenGrows, WholeGrows DEF ThreadOf
  <2>3. Own(c, flight[c].asked) /\ Makes(flight[c].asked, G) /\ Answered(flight[c].asked, said[c])
    BY AskedIs
  <2>4. Whole(c, said[c] \o flight[c].asked, G)
    BY <1>7, <2>2, <2>3, WholeJoins
  <2>5. Own(c, full) /\ Makes(full, G) /\ Answered(full, said[c] \o flight[c].asked)
    BY <1>1, <1>11, <2>1, FullIs
  <2>6. said[c] \o flight[c].asked \in Seq(Messages)
    BY <1>7
  <2>7. Whole(c, (said[c] \o flight[c].asked) \o full, G)
    BY <1>6, <2>4, <2>5, <2>6, WholeJoins
  <2> QED BY <1>9, <2>1, <2>7
<1>15. ASSUME NEW d \in Clients PROVE ThreadOf(d)'
  <2>1. CASE d # c
    <3>1. talk'[d] = talk[d] /\ said'[d] = said[d] /\ ThreadOf(d)
      BY <1>9, <2>1 DEF TalkInv
    <3> QED BY <1>10, <3>1, ThreadStays
  <2>2. CASE d = c
    <3>1. PICK s : s = said[c] \o flight[c].asked
      OBVIOUS
    <3>2. s \in Seq(Messages) /\ said'[c] = s \o full
      BY <1>7, <1>9, <3>1
    <3>3. 1 \in DOMAIN full /\ full[1] = Assistant(c, ToSet(calls))
      BY <1>1
    <3>4. Len(s) + 1 \in DOMAIN (s \o full) /\ (s \o full)[Len(s) + 1] = Assistant(c, ToSet(calls))
      BY <1>6, <3>2, <3>3, Elements
    <3>5. s \o full # <<>>
      BY <3>4
    <3>6. ASSUME NEW i \in DOMAIN (s \o full) PROVE (s \o full)[i].role # "system"
      <4>1. \A j \in DOMAIN said[c] : said[c][j].role # "system"
        BY <1>3 DEF ThreadOf
      <4>2. \A j \in DOMAIN flight[c].asked : flight[c].asked[j].role # "system"
        BY AskedIs
      <4>3. \A j \in DOMAIN (said[c] \o flight[c].asked) : (said[c] \o flight[c].asked)[j].role # "system"
        <5>1. PICK a, b : a = said[c] /\ b = flight[c].asked
          OBVIOUS
        <5>2. a \in Seq(Messages) /\ b \in Seq(Messages)
          BY <1>7, <5>1
        <5>3. \A j \in DOMAIN (a \o b) : (j \in DOMAIN a /\ (a \o b)[j] = a[j]) \/ (\E n \in DOMAIN b : j = Len(a) + n /\ (a \o b)[j] = b[n])
          BY <5>2, Elements
        <5>4. (\A j \in DOMAIN a : a[j].role # "system") /\ \A j \in DOMAIN b : b[j].role # "system"
          BY <4>1, <4>2, <5>1
        <5>5. \A j \in DOMAIN (a \o b) : (a \o b)[j].role # "system"
          BY <5>3, <5>4
        <5> QED BY <5>1, <5>5
      <4>4. \A j \in DOMAIN full : full[j].role # "system"
        BY <1>1, FullIs
      <4>5. \A j \in DOMAIN s : s[j].role # "system"
        BY <3>1, <4>3
      <4>6. \/ (i \in DOMAIN s /\ (s \o full)[i] = s[i])
            \/ (\E j \in DOMAIN full : i = Len(s) + j /\ (s \o full)[i] = full[j])
        BY <1>6, <3>2, Elements
      <4> QED BY <4>4, <4>5, <4>6
    <3>7. talk'[c].last = k /\ talk'[c].calls = calls /\ k # 0
      BY <1>2, <1>7, <1>9
    <3>8. ThreadOf(c)'
      BY <1>11, <1>14, <3>2, <3>4, <3>5, <3>6, <3>7 DEF ThreadOf
    <3> QED BY <2>2, <3>8
  <2> QED BY <2>1, <2>2
<1>16. ASSUME c \in whole' PROVE Without(v, said'[c]) /\ Whole(c, v, Given(c)')
  <2>1. kept = full /\ (flight[c].found \/ said[c] = <<>>) /\ c \in whole
    BY <1>4, <1>16
  <2>2. PICK G, m, s : G = Given(c)' /\ m = flight[c].messages /\ s = said[c] \o flight[c].asked
    OBVIOUS
  <2>3. m \in Seq(Messages) /\ s \in Seq(Messages) /\ Without(m, s) /\ Whole(c, m, Given(c))
    BY <1>3, <1>4, <1>7, <2>1, <2>2 DEF FlightOf
  <2>4. Whole(c, m, G)
    BY <1>10, <2>2, <2>3, GivenGrows, WholeGrows
  <2>5. Own(c, full) /\ Makes(full, G) /\ Answered(full, m) /\ \A i \in DOMAIN full : full[i].role # "system"
    BY <1>1, <1>11, <2>2, FullIs
  <2>6. Without(full, full)
    BY <1>6, <2>5, WithoutSame
  <2>7. Without(m \o full, s \o full)
    BY <1>6, <2>3, <2>6, WithoutJoins
  <2>8. Whole(c, m \o full, G)
    BY <1>6, <2>3, <2>4, <2>5, WholeJoins
  <2> QED BY <1>2, <1>9, <2>1, <2>2, <2>7, <2>8
<1>17. ASSUME NEW i \in DOMAIN (conversations'), NEW e, e = conversations'[i]
       PROVE  /\ \E d \in Clients : e.key <= talk'[d].last /\ (d \in whole' => Whole(d, e.val, Given(d)'))
              /\ \A d \in Clients : e.key = talk'[d].last /\ d \in whole' => Without(e.val, said'[d]) /\ Whole(d, e.val, Given(d)')
  <2>1. CASE e = [key |-> k, val |-> v]
    <3>1. e.key = k /\ e.val = v
      BY <2>1
    <3>2. talk'[c].last = k
      BY <1>9
    <3>3. ASSUME NEW d \in Clients, k = talk'[d].last PROVE d = c
      <4>1. talk[d].last \in 0..issued
        BY <1>3 DEF TalkTypes
      <4> QED BY <1>2, <1>7, <1>9, <3>3, <4>1
    <3>4. \E d \in Clients : e.key <= talk'[d].last /\ (d \in whole' => Whole(d, e.val, Given(d)'))
      BY <1>7, <1>16, <3>1, <3>2
    <3>5. \A d \in Clients : e.key = talk'[d].last /\ d \in whole' => Without(e.val, said'[d]) /\ Whole(d, e.val, Given(d)')
      BY <1>16, <3>1, <3>3
    <3> QED BY <3>4, <3>5
  <2>2. CASE \E j \in DOMAIN conversations : e = conversations[j]
    <3>2. PICK j \in DOMAIN conversations : e = conversations[j]
      BY <2>2
    <3>3. e.key \in 1..issued /\ EntryOf(e)
      BY <1>3, <3>2, EntryKey DEF TalkInv
    <3>4. \A d \in Clients : talk[d].last \in Nat /\ talk'[d].last \in Nat
      <4>1. \A d \in Clients : talk[d].last \in Nat
        BY <1>3, <1>7 DEF TalkTypes
      <4> QED BY <1>7, <1>9, <4>1
    <3>5. \A d \in Clients : (talk'[d] = talk[d] /\ said'[d] = said[d]) \/ (talk'[d].last > e.key)
      <4>1. talk'[c].last > e.key
        BY <1>2, <1>7, <1>9, <3>3
      <4> QED BY <1>9, <4>1
    <3>6. e.key \in Nat
      BY <1>7, <3>3
    <3>7. EntryOf(e)'
      BY <1>10, <3>3, <3>4, <3>5, <3>6, EntryStays
    <3> QED BY <3>7 DEF EntryOf
  <2>3. e = [key |-> k, val |-> v] \/ \E j \in DOMAIN conversations : e = conversations[j]
    BY <1>2, <1>3, <1>4, <1>8, <1>17, EntriesAfter
  <2> QED BY <2>1, <2>2, <2>3
<1>17a. (\A i \in DOMAIN conversations : EntryOf(conversations[i]))'
  BY <1>17 DEF EntryOf
<1>18. ASSUME NEW d \in Clients PROVE FlightOf(d)' /\ AnchoredOf(d)'
  <2>1. CASE d # c
    <3>1. talk'[d] = talk[d] /\ said'[d] = said[d] /\ flight'[d] = flight[d] /\ FlightOf(d) /\ AnchoredOf(d)
      BY <1>9, <2>1 DEF TalkInv
    <3>2. FlightOf(d)'
      BY <1>10, <3>1, FlightStays
    <3>3. AnchoredOf(d)'
      BY <1>3, <1>10, <3>1, AnchorStays
    <3> QED BY <3>2, <3>3
  <2>2. CASE d = c
    BY <1>9, <2>2, IdleIsFine
  <2> QED BY <2>1, <2>2
<1> QED BY <1>12, <1>13, <1>15, <1>17a, <1>18 DEF TalkInv

(* What a request does, with its parts by name.                              *)
LEMMA AskIs ==
  ASSUME NEW c, NEW user, NEW named, NEW instructions, Ask(c, user, named, instructions),
         NEW previous, previous = IF named THEN talk[c].last ELSE NoResponse,
         NEW p, p = Mapped(c, talk[c].calls, user, previous, instructions),
         NEW M, M = resolveConversation(p, previous),
         NEW prior, prior = findConversationWithToolCall(ToSet(talk[c].calls))
  PROVE  /\ ~flight[c].busy /\ issued + Cardinality(Busy) < MaxTurns
         /\ named => talk[c].last # NoResponse
         /\ UNCHANGED <<conversations, issued, talk, said, whole, gave, restarted>>
         /\ \/ Forward(c, Says(c, user), M, previous # NoResponse /\ Has(conversations, previous), FALSE) /\ UNCHANGED fails
            \/ Forward(c, Says(c, user), prior \o Results(c, talk[c].calls), FALSE, TRUE) /\ prior # <<>> /\ UNCHANGED fails
            \/ fails < MaxFails /\ fails' = fails + 1 /\ UNCHANGED flight
BY DEF Ask, Says, Results, New, Busy

LEMMA AskKeeps ==
  ASSUME TalkInv, NEW c \in Clients, NEW user \in BOOLEAN, NEW named \in BOOLEAN, NEW instructions \in BOOLEAN,
         Ask(c, user, named, instructions)
  PROVE  TalkInv'
<1>1. PICK previous : previous = IF named THEN talk[c].last ELSE NoResponse
  OBVIOUS
<1>2. PICK p : p = Mapped(c, talk[c].calls, user, previous, instructions)
  OBVIOUS
<1>3. PICK M : M = resolveConversation(p, previous)
  OBVIOUS
<1>4. PICK prior : prior = findConversationWithToolCall(ToSet(talk[c].calls))
  OBVIOUS
<1>5. PICK found : found = (previous # NoResponse /\ Has(conversations, previous)) /\ found \in BOOLEAN
  OBVIOUS
<1>6. ~flight[c].busy /\ issued + Cardinality(Busy) < MaxTurns /\ (named => talk[c].last # NoResponse)
  BY <1>1, <1>2, <1>3, <1>4, AskIs
<1>7. UNCHANGED <<conversations, issued, talk, said, whole, gave, restarted>>
  BY <1>1, <1>2, <1>3, <1>4, AskIs
<1>8. \/ Forward(c, Says(c, user), M, found, FALSE) /\ UNCHANGED fails
      \/ Forward(c, Says(c, user), prior \o Results(c, talk[c].calls), FALSE, TRUE) /\ prior # <<>> /\ UNCHANGED fails
      \/ fails < MaxFails /\ fails' = fails + 1 /\ UNCHANGED flight
  BY <1>1, <1>2, <1>3, <1>4, <1>5, AskIs
<1>9. TalkTypes /\ ThreadOf(c) /\ talk[c].calls \in Seq(CallIds) /\ said[c] \in Seq(Messages)
  BY SaysIs DEF TalkInv, TalkTypes
<1>10. p \in Seq(Messages)
  BY <1>2, <1>9, MappedAre
<1>11. CASE Forward(c, Says(c, user), M, found, FALSE) /\ UNCHANGED fails
  <2>1. M = IF found THEN conversationFor(previous) \o p ELSE p
    BY <1>3, <1>5 DEF resolveConversation
  <2>2. M \in Seq(Messages)
    <3>1. CASE found
      <4>1. PICK j \in DOMAIN conversations : conversationFor(previous) = conversations[j].val
        BY <1>5, <3>1 DEF Has, At, conversationFor
      <4>2. conversations[j].val \in Seq(Messages)
        BY EntryKey DEF TalkInv, Entries
      <4> QED BY <1>10, <2>1, <3>1, <4>1, <4>2
    <3>2. CASE ~found
      BY <1>10, <2>1, <3>2
    <3> QED BY <3>1, <3>2
  <2>3. ASSUME c \in whole, found PROVE Without(M, said[c] \o Says(c, user)) /\ Whole(c, M, Given(c))
    <3>1. previous = talk[c].last /\ talk[c].last # NoResponse /\ Has(conversations, talk[c].last)
      BY <1>1, <1>5, <2>3
    <3>2. M = conversationFor(talk[c].last) \o p /\ p = Mapped(c, talk[c].calls, user, talk[c].last, instructions)
      BY <1>2, <2>1, <2>3, <3>1
    <3> QED BY <2>3, <3>1, <3>2, FoundIsWhole
  <2>4. ASSUME c \in whole, ~found, said[c] = <<>> PROVE Without(M, said[c] \o Says(c, user)) /\ Whole(c, M, Given(c))
    <3>1. M = p
      BY <2>1, <2>4
    <3> QED BY <1>2, <2>4, <3>1, FirstIsWhole
  <2>5. c \in whole /\ (found \/ said[c] = <<>>) => Without(M, said[c] \o Says(c, user)) /\ Whole(c, M, Given(c))
    BY <2>3, <2>4
  <2>6. FALSE \in BOOLEAN /\ found \in BOOLEAN
    BY <1>5
  <2> QED BY <1>6, <1>7, <1>11, <2>2, <2>5, <2>6, ForwardKeeps
<1>12. CASE Forward(c, Says(c, user), prior \o Results(c, talk[c].calls), FALSE, TRUE) /\ prior # <<>> /\ UNCHANGED fails
  <2>1. PICK R, N : R = Results(c, talk[c].calls) /\ N = prior \o R
    OBVIOUS
  <2>2. R \in Seq(Messages) /\ Spoken(c, talk[c].calls, R)
    BY <1>9, <2>1, ResultsAre
  <2>3. PICK i \in DOMAIN conversations : prior = conversations[i].val /\ Holds(prior, ToSet(talk[c].calls))
    BY <1>4, <1>12, PriorIs DEF TalkInv
  <2>4. prior \in Seq(Messages)
    BY <2>3, EntryKey DEF TalkInv, Entries
  <2>5. N \in Seq(Messages)
    BY <2>1, <2>2, <2>4
  <2>6. said[c] # <<>>
    <3>1. talk[c].calls # <<>>
      BY <2>3 DEF Holds, ToSet
    <3> QED BY <1>9, <3>1 DEF ThreadOf
  <2>7. ASSUME whole = Clients, \A id \in ToSet(talk[c].calls) : gave[id] = {c}
        PROVE  Own(c, N) /\ Answers(N)
    <3>1. Without(prior, said[c]) /\ Whole(c, prior, Given(c))
      BY <1>4, <1>12, <2>7, PriorIsOwn
    <3>2. talk[c].calls = <<>> \/ \E j \in DOMAIN prior : prior[j].role = "assistant" /\ ToSet(talk[c].calls) \subseteq prior[j].ids
      BY <1>9, <2>4, <3>1, HasTheCalls
    <3>3. Whole(c, N, Given(c))
      BY <1>9, <2>1, <2>2, <2>4, <3>1, <3>2, SpokenContinues
    <3> QED BY <3>3 DEF Whole
  <2>8. c \in whole /\ (FALSE \/ said[c] = <<>>) => Without(N, said[c] \o Says(c, user)) /\ Whole(c, N, Given(c))
    BY <2>6
  <2>9. TRUE /\ whole = Clients /\ (\A id \in ToSet(talk[c].calls) : gave[id] = {c}) => Own(c, N) /\ Answers(N)
    BY <2>7
  <2>10. Forward(c, Says(c, user), N, FALSE, TRUE)
    BY <1>12, <2>1
  <2>11. FALSE \in BOOLEAN /\ TRUE \in BOOLEAN
    OBVIOUS
  <2> QED BY <1>6, <1>7, <1>12, <2>5, <2>8, <2>9, <2>10, <2>11, ForwardKeeps
<1>13. CASE fails < MaxFails /\ fails' = fails + 1 /\ UNCHANGED flight
  <2>1. Onward
    BY <1>7 DEF Onward
  <2>2. TalkTypes'
    <3>1. fails' \in 0..MaxFails
      BY <1>9, <1>13, ConversationsAssumption DEF TalkTypes
    <3>2. Busy' = Busy
      BY <1>13 DEF Busy
    <3> QED BY <1>7, <1>9, <1>13, <3>1, <3>2 DEF TalkTypes
  <2>3. MemoryInv'
    BY <1>7 DEF TalkInv, MemoryInv
  <2>4. ASSUME NEW d \in Clients PROVE ThreadOf(d)' /\ FlightOf(d)' /\ AnchoredOf(d)'
    <3>1. ThreadOf(d)'
      BY <1>7, <2>1, ThreadStays DEF TalkInv
    <3>2. flight'[d] = flight[d] /\ FlightOf(d) /\ AnchoredOf(d)
      BY <1>13 DEF TalkInv
    <3>3. FlightOf(d)'
      BY <1>7, <2>1, <3>2, FlightStays
    <3>4. AnchoredOf(d)'
      BY <1>9, <2>1, <3>2, AnchorStays
    <3> QED BY <3>1, <3>3, <3>4
  <2>5. ASSUME NEW i \in DOMAIN conversations PROVE EntryOf(conversations[i])'
    BY <1>7 DEF TalkInv, EntryOf, Given
  <2> QED BY <1>7, <2>2, <2>3, <2>4, <2>5 DEF TalkInv
<1> QED BY <1>8, <1>11, <1>12, <1>13

LEMMA TalkStarts == TalkInit => TalkInv
<1> SUFFICES ASSUME TalkInit PROVE TalkInv
  OBVIOUS
<1>1. /\ conversations = <<>> /\ issued = 0 /\ restarted = 0 /\ fails = 0
      /\ talk = [c \in Clients |-> [last |-> NoResponse, calls |-> <<>>]]
      /\ flight = [c \in Clients |-> Idle]
      /\ said = [c \in Clients |-> <<>>] /\ whole = Clients
      /\ gave = [id \in CallIds |-> {}]
  BY DEF TalkInit
<1>2. /\ IsFiniteSet(Clients) /\ CallsPerTurn \in Nat /\ MaxTurns \in Nat /\ MaxFails \in Nat /\ MAX_CONVERSATIONS \in Nat
  BY ConversationsAssumption
<1>3. <<>> \in Seq(Messages) /\ <<>> \in Seq(Entries) /\ Len(<<>>) = 0 /\ \A i \in DOMAIN <<>> : FALSE
  OBVIOUS
<1>4. <<>> \in Orders
  <2>1. <<>> \in [1..0 -> CallIds] /\ 0 \in 0..CallsPerTurn
    BY <1>2
  <2> QED BY <1>3, <2>1 DEF Orders, IsInjective
<1>5. TalkTypes
  <2>1. Busy = {}
    BY <1>1 DEF Busy, Idle
  <2>2. Cardinality(Busy) = 0
    BY <2>1, FS_EmptySet
  <2>3. talk \in [Clients -> [last : 0..issued, calls : Orders]]
    BY <1>1, <1>4 DEF NoResponse
  <2>4. flight \in [Clients -> Flights]
    BY <1>1, IdleFlight
  <2>5. said \in [Clients -> Seq(Messages)] /\ gave \in [CallIds -> SUBSET Clients]
    BY <1>1, <1>3
  <2> QED BY <1>1, <1>2, <2>2, <2>3, <2>4, <2>5 DEF TalkTypes, Flights
<1>6. MemoryInv
  BY <1>1, <1>2, <1>3 DEF MemoryInv
<1>7. ASSUME NEW c \in Clients PROVE ThreadOf(c)
  <2>1. said[c] = <<>> /\ talk[c].last = 0 /\ talk[c].calls = <<>> /\ ToSet(<<>>) = {}
    BY <1>1 DEF NoResponse, ToSet
  <2> QED BY <1>3, <2>1, WholeNothing DEF ThreadOf
<1>8. ASSUME NEW c \in Clients PROVE FlightOf(c) /\ AnchoredOf(c)
  <2>1. flight[c] = Idle
    BY <1>1
  <2> QED BY <1>3, <2>1 DEF FlightOf, AskedOf, AnchoredOf, Idle
<1> QED BY <1>1, <1>3, <1>5, <1>6, <1>7, <1>8 DEF TalkInv

LEMMA TalkSteps == TalkInv /\ [TalkNext]_talkVars => TalkInv'
<1> SUFFICES ASSUME TalkInv, [TalkNext]_talkVars PROVE TalkInv'
  OBVIOUS
<1>1. CASE \E c \in Clients, user, named, instructions \in BOOLEAN : Ask(c, user, named, instructions)
  BY <1>1, AskKeeps
<1>2. CASE \E c \in Clients, calls \in Orders, stream \in BOOLEAN : Answer(c, calls, stream)
  BY <1>2, AnswerKeeps
<1>3. CASE \E c \in Clients : Fails(c)
  BY <1>3, FailsKeeps
<1>4. CASE Restart
  BY <1>4, RestartKeeps
<1>5. CASE UNCHANGED talkVars
  <2>1. UNCHANGED <<conversations, issued, talk, flight, said, whole, gave, restarted, fails>>
    BY <1>5 DEF talkVars
  <2>2. TalkTypes' /\ MemoryInv'
    BY <2>1 DEF TalkInv, TalkTypes, MemoryInv, Busy
  <2>3. ASSUME NEW c \in Clients PROVE ThreadOf(c)' /\ FlightOf(c)' /\ AnchoredOf(c)'
    <3>1. Onward
      BY <2>1 DEF Onward
    <3>2. ThreadOf(c)'
      BY <2>1, <3>1, ThreadStays DEF TalkInv
    <3>3. FlightOf(c) /\ AnchoredOf(c) /\ TalkTypes
      BY DEF TalkInv
    <3>4. FlightOf(c)'
      BY <2>1, <3>1, <3>3, FlightStays
    <3>5. AnchoredOf(c)'
      BY <2>1, <3>1, <3>3, AnchorStays
    <3> QED BY <3>2, <3>4, <3>5
  <2>4. ASSUME NEW i \in DOMAIN conversations PROVE EntryOf(conversations[i])'
    BY <2>1 DEF TalkInv, EntryOf, Given
  <2> QED BY <2>1, <2>2, <2>3, <2>4 DEF TalkInv
<1> QED BY <1>1, <1>2, <1>3, <1>4, <1>5 DEF TalkNext

LEMMA TalkInvHolds == TalkSpec => []TalkInv
BY TalkStarts, TalkSteps, PTL DEF TalkSpec

(* However the turns of the clients overlap, fail and are cut off by restarts:*)
(* the memory is within its cap and can resolve a recent response, a turn    *)
(* that continues a remembered one is forwarded as its client's whole thread,*)
(* and results joined by the ids of their calls join their client's own.     *)
THEOREM ThreadsNeverMix == TalkSpec => []ThreadsStayApart
BY TalkInvHolds, TalkPromises, PTL
=============================================================================
