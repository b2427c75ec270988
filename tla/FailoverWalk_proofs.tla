------------------------ MODULE FailoverWalk_proofs ------------------------
(* Safety of core/failover.ts's walks, for any number of concurrent walks,  *)
(* any lane plans and any cooldown engine that keeps the contract.          *)
EXTENDS FailoverWalk, SequenceTheorems, TLAPS

(* Why a walk's end is explained: a walk stops only on a lane the engine    *)
(* has a failure for.                                                      *)
Explained(w) ==
  \/ pc[w] \in {"thrown", "stopped"}
  \/ pc[w] = "exhausted" /\ tried[w] # <<>>
  => surfaced[w] # NoError

SecondOutput(w) ==
  \A j \in sent[w] :
    j < at[w] => \E n \in 1..Len(tried[w]) :
                   tried[w][n].at = j /\ Credential(tried[w][n].error)

NotPastTerminal(w) == \A k \in 1..(at[w] - 1) : ~plan[w][k].terminal

(* What holds of one walk between two of its steps: a live walk is inside   *)
(* its plan, output came from targets it has reached, and a walk that is    *)
(* about to rotate sent none and stands on a lane it may leave.             *)
WalkInv(w) ==
  /\ pc[w] = "idle" => sent[w] = {} /\ tried[w] = <<>>
  /\ pc[w] # "idle" => /\ plan[w] \in Plans
                       /\ at[w] >= 1
                       /\ sent[w] \subseteq 1..at[w]
                       /\ NotPastTerminal(w)
  /\ pc[w] \in Live => at[w] <= Limit(plan[w], cap[w])
  /\ pc[w] = "backoff" => ~LastStop(w) /\ ~Yielded(w)
  /\ SecondOutput(w)
  /\ Explained(w)

IInv ==
  /\ TypeOK
  /\ Cooldown!ParkedForAReason
  /\ \A w \in Walks : WalkInv(w)

-----------------------------------------------------------------------------
(* Plans are never empty and hold targets.                                  *)
LEMMA PlanShape ==
  ASSUME NEW p \in Plans
  PROVE  /\ p \in Seq(Target)
         /\ Len(p) \in Nat \ {0}
         /\ \A k \in 1..Len(p) : p[k].lane \in Lanes
<1>1. p \in Seq(Target) /\ p # <<>>
  BY WalkAssumption
<1>2. Len(p) \in Nat \ {0}
  BY <1>1, EmptySeq
<1>3. \A k \in 1..Len(p) : p[k] \in Target
  BY <1>1, ElementOfSeq
<1> QED
  BY <1>1, <1>2, <1>3 DEF Target

(* The first failure of a trail is a failure.                               *)
LEMMA FirstErrorShape ==
  ASSUME NEW trail \in Seq(Attempt)
  PROVE  /\ FirstError(trail) \in Errors \cup {NoError}
         /\ trail # <<>> => FirstError(trail) # NoError
<1>1. CASE trail = <<>>
  BY <1>1 DEF FirstError
<1>2. CASE trail # <<>>
  <2>1. Head(trail) \in Attempt
    BY <1>2, HeadTailProperties
  <2>2. FirstError(trail) \in Errors
    BY <1>2, <2>1 DEF FirstError, Attempt
  <2>3. NoError \notin Errors
    BY WalkAssumption
  <2> QED
    BY <2>2, <2>3
<1> QED
  BY <1>1, <1>2

(* Where the loop can land: on a usable target, on a parked terminal one,   *)
(* or past the end, and only non-terminal targets lie in between.           *)
LandsAt(w, p, c, from, trail, j, how, e) ==
  /\ at' = [at EXCEPT ![w] = j]
  /\ pc' = [pc EXCEPT ![w] = how]
  /\ surfaced' = [surfaced EXCEPT ![w] = e]
  /\ j >= from
  /\ \A k \in from..(j - 1) : ~p[k].terminal
  /\ how = "attempting" => j <= Limit(p, c)
  /\ how = "stopped" => e # NoError
  /\ how = "exhausted" /\ trail # <<>> => e # NoError

LandsSomewhere(w, p, c, from, trail) ==
  \E j \in Nat, how \in {"attempting", "exhausted", "stopped"},
     e \in Errors \cup {NoError} : LandsAt(w, p, c, from, trail, j, how, e)

LEMMA Landing ==
  ASSUME TypeOK, Cooldown!ParkedForAReason,
         NEW w \in Walks, NEW p \in Plans, NEW c \in Nat, NEW from \in Nat \ {0},
         NEW trail \in Seq(Attempt),
         Land(w, p, c, from, trail)
  PROVE  LandsSomewhere(w, p, c, from, trail)
<1>1. p \in Seq(Target) /\ Len(p) \in Nat /\ c \in Nat /\ Limit(p, c) \in Nat /\ Limit(p, c) <= Len(p)
  BY PlanShape, WalkAssumption DEF Limit
<1>2. PICK j \in from..(Limit(p, c) + 1) :
        /\ \A k \in from..(j - 1) : Cooldown!Parked(p[k].lane) /\ ~p[k].terminal
        /\ at' = [at EXCEPT ![w] = j]
        /\ \/ /\ j > Limit(p, c)
              /\ pc' = [pc EXCEPT ![w] = "exhausted"]
              /\ surfaced' = [surfaced EXCEPT ![w] = FirstError(trail)]
           \/ /\ j <= Limit(p, c)
              /\ Cooldown!Parked(p[j].lane)
              /\ p[j].terminal
              /\ pc' = [pc EXCEPT ![w] = "stopped"]
              /\ surfaced' = [surfaced EXCEPT ![w] = why[p[j].lane]]
           \/ /\ j <= Limit(p, c)
              /\ ~Cooldown!Parked(p[j].lane)
              /\ pc' = [pc EXCEPT ![w] = "attempting"]
              /\ UNCHANGED surfaced
  BY DEF Land
<1>3. j \in Nat /\ j >= from
  BY <1>1, <1>2
<1>4. CASE pc' = [pc EXCEPT ![w] = "exhausted"] /\ j > Limit(p, c)
           /\ surfaced' = [surfaced EXCEPT ![w] = FirstError(trail)]
  BY <1>2, <1>3, <1>4, FirstErrorShape DEF LandsAt, LandsSomewhere
<1>5. CASE /\ j <= Limit(p, c) /\ Cooldown!Parked(p[j].lane)
           /\ pc' = [pc EXCEPT ![w] = "stopped"]
           /\ surfaced' = [surfaced EXCEPT ![w] = why[p[j].lane]]
  <2>1. p[j].lane \in Lanes
    BY <1>1, <1>3, <1>5, PlanShape
  <2>2. why[p[j].lane] \in Errors /\ why[p[j].lane] # NoError
    BY <1>5, <2>1 DEF TypeOK, Cooldown!TypeOK, Cooldown!ParkedForAReason
  <2> QED
    BY <1>2, <1>3, <1>5, <2>2 DEF LandsAt, LandsSomewhere
<1>6. CASE /\ j <= Limit(p, c) /\ pc' = [pc EXCEPT ![w] = "attempting"]
           /\ UNCHANGED surfaced
  <2>1. surfaced' = [surfaced EXCEPT ![w] = surfaced[w]] /\ surfaced[w] \in Errors \cup {NoError}
    BY <1>6 DEF TypeOK
  <2> QED
    BY <1>2, <1>3, <1>6, <2>1 DEF LandsAt, LandsSomewhere
<1> QED
  BY <1>2, <1>4, <1>5, <1>6

-----------------------------------------------------------------------------
(* The engine part of the invariant.                                        *)
EngineInv == Cooldown!TypeOK /\ Cooldown!ParkedForAReason

LEMMA ParkKeepsEngine ==
  ASSUME EngineInv, NEW w \in Walks, NEW e \in Errors,
         CurrentTarget(w).lane \in Lanes, Park(w, e)
  PROVE  EngineInv'
<1>1. ParkWindows[e] \subseteq 1..MaxPark /\ MaxPark \in Nat /\ e # NoError
  BY WalkAssumption
<1>2. PICK window \in ParkWindows[e] :
        Cooldown!Cool(CurrentTarget(w).lane, e, window)
  BY DEF Park
<1>3. window \in 0..MaxPark /\ window > 0
  BY <1>1, <1>2
<1> QED
  BY <1>1, <1>2, <1>3 DEF EngineInv, Cooldown!TypeOK, Cooldown!ParkedForAReason,
       Cooldown!Parked, Cooldown!Cool

LEMMA SuccessKeepsEngine ==
  ASSUME EngineInv, NEW l \in Lanes, Cooldown!Success(l)
  PROVE  EngineInv'
BY WalkAssumption DEF EngineInv, Cooldown!TypeOK, Cooldown!ParkedForAReason,
     Cooldown!Parked, Cooldown!Success

LEMMA TickKeepsEngine ==
  ASSUME EngineInv, Cooldown!Tick
  PROVE  EngineInv'
BY WalkAssumption DEF EngineInv, Cooldown!TypeOK, Cooldown!ParkedForAReason,
     Cooldown!Parked, Cooldown!Tick

(* A walk none of whose variables change keeps its invariant.               *)
LEMMA BystanderKeeps ==
  ASSUME NEW v \in Walks, WalkInv(v),
         pc'[v] = pc[v], plan'[v] = plan[v], cap'[v] = cap[v], at'[v] = at[v],
         tried'[v] = tried[v], sent'[v] = sent[v], surfaced'[v] = surfaced[v]
  PROVE  WalkInv(v)'
BY DEF WalkInv, NotPastTerminal, SecondOutput, Explained, LastStop, Yielded, CurrentTarget

(* The target a live walk stands on.                                        *)
LEMMA LiveTarget ==
  ASSUME TypeOK, NEW w \in Walks, WalkInv(w), pc[w] \in Live
  PROVE  /\ plan[w] \in Plans
         /\ at[w] \in 1..Len(plan[w])
         /\ CurrentTarget(w).lane \in Lanes
<1>1. plan[w] \in Plans /\ at[w] \in Nat /\ at[w] >= 1 /\ at[w] <= Limit(plan[w], cap[w])
  BY DEF WalkInv, Live, TypeOK
<1>2. cap[w] \in Nat /\ Len(plan[w]) \in Nat
  <2>1. cap[w] \in Caps \cup {0} /\ Caps \subseteq Nat
    BY WalkAssumption DEF TypeOK
  <2>2. cap[w] \in Nat
    <3>1. \A n \in Caps \cup {0} : n \in Nat
      BY WalkAssumption
    <3> QED
      BY <2>1, <3>1
  <2>3. Len(plan[w]) \in Nat \ {0}
    BY <1>1, PlanShape
  <2> QED
    BY <2>2, <2>3
<1>3. at[w] \in 1..Len(plan[w])
  BY <1>1, <1>2 DEF Limit
<1> QED
  BY <1>1, <1>3, PlanShape DEF CurrentTarget

(* A longer trail still explains what a shorter one did.                    *)
LEMMA LongerTrail ==
  ASSUME NEW trail \in Seq(Attempt), NEW n \in Nat, NEW e \in Errors
  PROVE  LET longer == Append(trail, [at |-> n, error |-> e]) IN
         /\ longer \in Seq(Attempt)
         /\ longer # <<>>
         /\ Len(longer) = Len(trail) + 1
         /\ \A k \in 1..Len(trail) : longer[k] = trail[k]
         /\ longer[Len(longer)] = [at |-> n, error |-> e]
BY DEF Attempt

(* An outcome keeps the shape of the variables it writes.                   *)
LEMMA OutcomeTyped ==
  ASSUME TypeOK, NEW w \in Walks, NEW j \in Nat, NEW how \in Live \cup Ended,
         NEW e \in Errors \cup {NoError},
         at' = [at EXCEPT ![w] = j], pc' = [pc EXCEPT ![w] = how],
         surfaced' = [surfaced EXCEPT ![w] = e]
  PROVE  /\ at' \in [Walks -> Nat] /\ at'[w] = j
         /\ pc' \in [Walks -> {"idle"} \cup Live \cup Ended] /\ pc'[w] = how
         /\ surfaced' \in [Walks -> Errors \cup {NoError}] /\ surfaced'[w] = e
         /\ \A v \in Walks : v # w =>
              at'[v] = at[v] /\ pc'[v] = pc[v] /\ surfaced'[v] = surfaced[v]
BY DEF TypeOK

-----------------------------------------------------------------------------
(* One lemma per step of a walk.                                            *)
LEMMA StartStep ==
  ASSUME IInv, NEW w \in Walks, Start(w)
  PROVE  IInv'
<1>1. PICK p \in Plans, c \in Caps, m \in {"chat", "stream"} :
        /\ plan' = [plan EXCEPT ![w] = p]
        /\ cap' = [cap EXCEPT ![w] = c]
        /\ mode' = [mode EXCEPT ![w] = m]
        /\ Land(w, p, c, 1, <<>>)
  BY DEF Start
<1>2. /\ TypeOK /\ Cooldown!ParkedForAReason /\ WalkInv(w)
      /\ pc[w] = "idle" /\ sent[w] = {} /\ tried[w] = <<>>
  BY DEF IInv, Start, WalkInv
<1>3. PICK j \in Nat, how \in {"attempting", "exhausted", "stopped"},
           e \in Errors \cup {NoError} : LandsAt(w, p, c, 1, <<>>, j, how, e)
  <2>1. <<>> \in Seq(Attempt) /\ 1 \in Nat \ {0} /\ c \in Nat
    BY EmptySeq, WalkAssumption
  <2>2. LandsSomewhere(w, p, c, 1, <<>>)
    BY <1>1, <1>2, <2>1, Landing
  <2> QED
    BY <2>2 DEF LandsSomewhere
<1>4. /\ at' \in [Walks -> Nat] /\ at'[w] = j
      /\ pc' \in [Walks -> {"idle"} \cup Live \cup Ended] /\ pc'[w] = how
      /\ surfaced' \in [Walks -> Errors \cup {NoError}] /\ surfaced'[w] = e
      /\ \A v \in Walks : v # w =>
           at'[v] = at[v] /\ pc'[v] = pc[v] /\ surfaced'[v] = surfaced[v]
  BY <1>2, <1>3, OutcomeTyped DEF LandsAt, Live, Ended
<1>5. TypeOK' /\ Cooldown!ParkedForAReason'
  BY <1>1, <1>2, <1>4 DEF Start, TypeOK, Cooldown!TypeOK, Cooldown!ParkedForAReason,
     Cooldown!Parked
<1>6. WalkInv(w)'
  <2>1. plan'[w] = p /\ cap'[w] = c /\ sent'[w] = {} /\ tried'[w] = <<>>
    BY <1>1, <1>2 DEF Start, TypeOK
  <2> QED
    BY <1>3, <1>4, <2>1 DEF LandsAt, WalkInv, NotPastTerminal, SecondOutput, Explained, Live
<1>7. \A v \in Walks : v # w => WalkInv(v)'
  <2> SUFFICES ASSUME NEW v \in Walks, v # w PROVE WalkInv(v)'
    OBVIOUS
  <2>1. plan'[v] = plan[v] /\ cap'[v] = cap[v] /\ tried'[v] = tried[v] /\ sent'[v] = sent[v]
    BY <1>1, <1>2 DEF Start, TypeOK
  <2> QED
    BY <1>4, <2>1, BystanderKeeps DEF IInv
<1> QED
  BY <1>5, <1>6, <1>7 DEF IInv

LEMMA YieldStep ==
  ASSUME IInv, NEW w \in Walks, Yield(w)
  PROVE  IInv'
<1>1. TypeOK /\ WalkInv(w) /\ pc[w] = "attempting" /\ at[w] \in Nat /\ at[w] >= 1
  BY DEF IInv, Yield, WalkInv, TypeOK
<1>2. /\ sent'[w] = sent[w] \cup {at[w]}
      /\ \A v \in Walks : v # w => sent'[v] = sent[v]
      /\ sent' \in [Walks -> SUBSET Nat]
  BY <1>1 DEF Yield, TypeOK
<1>3. TypeOK' /\ Cooldown!ParkedForAReason'
  BY <1>1, <1>2 DEF Yield, IInv, TypeOK, Cooldown!TypeOK, Cooldown!ParkedForAReason,
     Cooldown!Parked
<1>4. WalkInv(w)'
  BY <1>1, <1>2 DEF Yield, WalkInv, NotPastTerminal, SecondOutput, Explained, Live
<1>5. \A v \in Walks : v # w => WalkInv(v)'
  BY <1>2, BystanderKeeps DEF IInv, Yield
<1> QED
  BY <1>3, <1>4, <1>5 DEF IInv

LEMMA SucceedStep ==
  ASSUME IInv, NEW w \in Walks, Succeed(w)
  PROVE  IInv'
<1>1. /\ TypeOK /\ WalkInv(w) /\ pc[w] = "attempting" /\ at[w] \in Nat /\ at[w] >= 1
      /\ CurrentTarget(w).lane \in Lanes
  <2>1. pc[w] = "attempting" /\ TypeOK /\ WalkInv(w)
    BY DEF IInv, Succeed
  <2>2. CurrentTarget(w).lane \in Lanes /\ at[w] \in 1..Len(plan[w]) /\ plan[w] \in Plans
    BY <2>1, LiveTarget DEF Live
  <2> QED
    BY <2>1, <2>2 DEF WalkInv, TypeOK
<1>2. EngineInv'
  BY <1>1, SuccessKeepsEngine DEF EngineInv, IInv, Succeed, TypeOK
<1>3. /\ sent'[w] = sent[w] \cup {at[w]} /\ pc'[w] = "served"
      /\ \A v \in Walks : v # w => sent'[v] = sent[v] /\ pc'[v] = pc[v]
      /\ sent' \in [Walks -> SUBSET Nat]
      /\ pc' \in [Walks -> {"idle"} \cup Live \cup Ended]
  BY <1>1 DEF Succeed, TypeOK, Ended
<1>4. TypeOK' /\ Cooldown!ParkedForAReason'
  BY <1>1, <1>2, <1>3 DEF Succeed, TypeOK, EngineInv
<1>5. WalkInv(w)'
  BY <1>1, <1>3 DEF Succeed, WalkInv, NotPastTerminal, SecondOutput, Explained, Live
<1>6. \A v \in Walks : v # w => WalkInv(v)'
  BY <1>3, BystanderKeeps DEF IInv, Succeed
<1> QED
  BY <1>4, <1>5, <1>6 DEF IInv

LEMMA AbandonStep ==
  ASSUME IInv, NEW w \in Walks, Abandon(w)
  PROVE  IInv'
<1>1. TypeOK /\ WalkInv(w) /\ pc[w] = "attempting"
  BY DEF IInv, Abandon
<1>2. /\ pc'[w] = "abandoned" /\ \A v \in Walks : v # w => pc'[v] = pc[v]
      /\ pc' \in [Walks -> {"idle"} \cup Live \cup Ended]
  BY <1>1 DEF Abandon, TypeOK, Ended
<1>3. TypeOK' /\ Cooldown!ParkedForAReason'
  BY <1>1, <1>2 DEF Abandon, IInv, TypeOK, Cooldown!TypeOK, Cooldown!ParkedForAReason,
     Cooldown!Parked
<1>4. WalkInv(w)'
  BY <1>1, <1>2 DEF Abandon, WalkInv, NotPastTerminal, SecondOutput, Explained, Live
<1>5. \A v \in Walks : v # w => WalkInv(v)'
  BY <1>2, BystanderKeeps DEF IInv, Abandon
<1> QED
  BY <1>3, <1>4, <1>5 DEF IInv

LEMMA TickStep ==
  ASSUME IInv, Tick
  PROVE  IInv'
<1>1. EngineInv'
  BY TickKeepsEngine DEF Tick, IInv, TypeOK, EngineInv
<1>2. TypeOK' /\ Cooldown!ParkedForAReason'
  BY <1>1 DEF Tick, walkVars, IInv, TypeOK, EngineInv
<1>3. \A v \in Walks : WalkInv(v)'
  BY BystanderKeeps DEF Tick, walkVars, IInv
<1> QED
  BY <1>2, <1>3 DEF IInv

-----------------------------------------------------------------------------
(* A step of one walk keeps its invariant and leaves the others alone.      *)
Kept(w) ==
  /\ at' \in [Walks -> Nat]
  /\ pc' \in [Walks -> {"idle"} \cup Live \cup Ended]
  /\ surfaced' \in [Walks -> Errors \cup {NoError}]
  /\ WalkInv(w)'
  /\ \A v \in Walks : v # w =>
       at'[v] = at[v] /\ pc'[v] = pc[v] /\ surfaced'[v] = surfaced[v]

(* A walk that goes on from its target: what it lands on keeps the walk's   *)
(* invariant, once the failure that made it leave is on its trail.          *)
LEMMA MovingOn ==
  ASSUME IInv, NEW w \in Walks, pc[w] \in Live, ~LastStop(w),
         NEW trail \in Seq(Attempt), tried'[w] = trail,
         Land(w, plan[w], cap[w], at[w] + 1, trail),
         plan'[w] = plan[w], cap'[w] = cap[w], sent'[w] = sent[w],
         \A j \in sent[w] :
           \E n \in 1..Len(trail) :
             trail[n].at = j /\ Credential(trail[n].error)
  PROVE  Kept(w)
<1>1. /\ TypeOK /\ Cooldown!ParkedForAReason /\ WalkInv(w)
      /\ plan[w] \in Plans /\ at[w] \in 1..Len(plan[w]) /\ Len(plan[w]) \in Nat
      /\ at[w] \in Nat /\ ~CurrentTarget(w).terminal
  <2>1. TypeOK /\ Cooldown!ParkedForAReason /\ WalkInv(w)
    BY DEF IInv
  <2>2. plan[w] \in Plans /\ at[w] \in 1..Len(plan[w])
    BY <2>1, LiveTarget
  <2> QED
    BY <2>1, <2>2, PlanShape DEF TypeOK, LastStop
<1>2. cap[w] \in Nat
  <2>1. cap[w] \in Caps \cup {0} /\ Caps \subseteq Nat
    BY <1>1, WalkAssumption DEF TypeOK
  <2> QED
    BY <2>1
<1>3. PICK j \in Nat, how \in {"attempting", "exhausted", "stopped"},
           e \in Errors \cup {NoError} :
             LandsAt(w, plan[w], cap[w], at[w] + 1, trail, j, how, e)
  <2>1. at[w] + 1 \in Nat \ {0}
    BY <1>1
  <2>2. LandsSomewhere(w, plan[w], cap[w], at[w] + 1, trail)
    BY <1>1, <1>2, <2>1, Landing
  <2> QED
    BY <2>2 DEF LandsSomewhere
<1>4. /\ at' \in [Walks -> Nat] /\ at'[w] = j
      /\ pc' \in [Walks -> {"idle"} \cup Live \cup Ended] /\ pc'[w] = how
      /\ surfaced' \in [Walks -> Errors \cup {NoError}] /\ surfaced'[w] = e
      /\ \A v \in Walks : v # w =>
           at'[v] = at[v] /\ pc'[v] = pc[v] /\ surfaced'[v] = surfaced[v]
  BY <1>1, <1>3, OutcomeTyped DEF LandsAt, Live, Ended
<1>5. NotPastTerminal(w)'
  <2> SUFFICES ASSUME NEW k \in 1..(j - 1) PROVE ~plan[w][k].terminal
    BY <1>4 DEF NotPastTerminal
  <2>1. CASE k < at[w]
    BY <1>1, <2>1 DEF WalkInv, NotPastTerminal, Live
  <2>2. CASE k = at[w]
    BY <1>1, <2>2 DEF CurrentTarget
  <2>3. CASE k > at[w]
    BY <1>1, <1>3, <2>3 DEF LandsAt
  <2> QED
    BY <1>1, <2>1, <2>2, <2>3
<1>6. SecondOutput(w)'
  BY <1>4 DEF SecondOutput
<1>7. sent'[w] \subseteq 1..at'[w]
  BY <1>1, <1>3, <1>4 DEF LandsAt, WalkInv, Live
<1>8. WalkInv(w)'
  BY <1>1, <1>3, <1>4, <1>5, <1>6, <1>7 DEF LandsAt, WalkInv, Explained, Live
<1> QED
  BY <1>4, <1>8 DEF Kept

LEMMA RotateStep ==
  ASSUME IInv, NEW w \in Walks, Rotate(w)
  PROVE  IInv'
<1>1. TypeOK /\ Cooldown!ParkedForAReason /\ WalkInv(w) /\ pc[w] = "backoff" /\ pc[w] \in Live
  BY DEF IInv, Rotate, Live
<1>2. /\ ~LastStop(w) /\ ~Yielded(w) /\ tried[w] \in Seq(Attempt) /\ at[w] \in Nat
      /\ sent[w] \subseteq 1..at[w]
  BY <1>1 DEF WalkInv, TypeOK
<1>3. \A j \in sent[w] :
        \E n \in 1..Len(tried[w]) :
          tried[w][n].at = j /\ Credential(tried[w][n].error)
  BY <1>1, <1>2 DEF WalkInv, SecondOutput, Yielded
<1>4. Kept(w)
  <2>1. /\ tried'[w] = tried[w] /\ plan'[w] = plan[w] /\ cap'[w] = cap[w] /\ sent'[w] = sent[w]
        /\ Land(w, plan[w], cap[w], at[w] + 1, tried[w])
    BY DEF Rotate
  <2> HIDE DEF Land
  <2> QED
    BY <1>1, <1>2, <1>3, <2>1, MovingOn
<1>5. TypeOK' /\ Cooldown!ParkedForAReason'
  BY <1>1, <1>2, <1>4 DEF Kept, Rotate, TypeOK, Cooldown!TypeOK, Cooldown!ParkedForAReason,
     Cooldown!Parked
<1>6. \A v \in Walks : v # w => WalkInv(v)'
  BY <1>4, BystanderKeeps DEF Kept, IInv, Rotate
<1> QED
  BY <1>4, <1>5, <1>6 DEF Kept, IInv

(* A failure that ends its walk, or leaves it at its target for the backoff.*)
LEMMA FailedHere ==
  ASSUME IInv, NEW w \in Walks, pc[w] = "attempting", NEW err \in Errors,
         NEW trail \in Seq(Attempt), trail = Append(tried[w], [at |-> at[w], error |-> err]),
         tried'[w] = trail,
         NEW how \in {"thrown", "exhausted", "backoff"}, NEW e \in Errors \cup {NoError},
         at' = at, pc' = [pc EXCEPT ![w] = how], surfaced' = [surfaced EXCEPT ![w] = e],
         how # "backoff" => e # NoError,
         how = "backoff" => ~LastStop(w) /\ ~Yielded(w),
         plan'[w] = plan[w], cap'[w] = cap[w], sent'[w] = sent[w]
  PROVE  /\ pc' \in [Walks -> {"idle"} \cup Live \cup Ended]
         /\ surfaced' \in [Walks -> Errors \cup {NoError}]
         /\ WalkInv(w)'
         /\ \A v \in Walks : v # w => pc'[v] = pc[v] /\ surfaced'[v] = surfaced[v]
<1>1. TypeOK /\ WalkInv(w) /\ tried[w] \in Seq(Attempt) /\ at[w] \in Nat
  BY DEF IInv, TypeOK
<1>2. /\ Len(trail) = Len(tried[w]) + 1 /\ Len(tried[w]) \in Nat
      /\ \A k \in 1..Len(tried[w]) : trail[k] = tried[w][k]
  BY <1>1, LongerTrail, LenProperties
<1>3. /\ pc' \in [Walks -> {"idle"} \cup Live \cup Ended] /\ pc'[w] = how
      /\ surfaced' \in [Walks -> Errors \cup {NoError}] /\ surfaced'[w] = e
      /\ \A v \in Walks : v # w => pc'[v] = pc[v] /\ surfaced'[v] = surfaced[v]
  BY <1>1 DEF TypeOK, Live, Ended
<1>4. SecondOutput(w)'
  <2> SUFFICES ASSUME NEW j \in sent[w], j < at[w]
               PROVE  \E n \in 1..Len(trail) :
                        trail[n].at = j /\ Credential(trail[n].error)
    BY DEF SecondOutput
  <2>1. PICK n \in 1..Len(tried[w]) :
          tried[w][n].at = j /\ Credential(tried[w][n].error)
    BY <1>1 DEF WalkInv, SecondOutput
  <2> QED
    BY <1>2, <2>1
<1>5. /\ LastStop(w)' <=> LastStop(w)
      /\ Yielded(w)' <=> Yielded(w)
      /\ NotPastTerminal(w)' <=> NotPastTerminal(w)
  BY DEF LastStop, Yielded, CurrentTarget, NotPastTerminal
<1>6. WalkInv(w)'
  BY <1>1, <1>3, <1>4, <1>5 DEF WalkInv, Explained, Live
<1> QED
  BY <1>3, <1>6

(* The catch block: five ways out of a failure.                             *)
LEMMA FailStep ==
  ASSUME IInv, NEW w \in Walks, NEW err \in Errors, Fail(w, err)
  PROVE  IInv'
<1> DEFINE trail == Append(tried[w], [at |-> at[w], error |-> err])
<1>1. /\ TypeOK /\ WalkInv(w) /\ pc[w] = "attempting" /\ pc[w] \in Live
      /\ tried[w] \in Seq(Attempt) /\ at[w] \in Nat /\ sent[w] \subseteq 1..at[w]
      /\ CurrentTarget(w).lane \in Lanes
  <2>1. TypeOK /\ WalkInv(w) /\ pc[w] = "attempting" /\ pc[w] \in Live
    BY DEF IInv, Fail, Live
  <2>2. CurrentTarget(w).lane \in Lanes
    BY <2>1, LiveTarget
  <2> QED
    BY <2>1, <2>2 DEF TypeOK, WalkInv
<1>2. trail \in Seq(Attempt) /\ trail # <<>>
  BY <1>1, LongerTrail
<1>3. FirstError(trail) \in Errors \cup {NoError} /\ FirstError(trail) # NoError /\ err # NoError
  BY <1>2, FirstErrorShape, WalkAssumption
<1>4. /\ tried' = [tried EXCEPT ![w] = trail] /\ tried'[w] = trail
      /\ tried' \in [Walks -> Seq(Attempt)]
      /\ \A v \in Walks : v # w => tried'[v] = tried[v]
      /\ UNCHANGED <<mode, plan, cap, sent, announced>>
  BY <1>1, <1>2 DEF Fail, TypeOK
<1> HIDE DEF trail
<1>5. EngineInv'
  <2>1. EngineInv
    BY DEF IInv, EngineInv, TypeOK
  <2>2. CASE UNCHANGED <<parked, why>>
    BY <2>1, <2>2 DEF EngineInv, Cooldown!TypeOK, Cooldown!ParkedForAReason, Cooldown!Parked
  <2>3. CASE Park(w, err)
    BY <1>1, <2>1, <2>3, ParkKeepsEngine
  <2> QED
    BY <2>2, <2>3 DEF Fail
<1>6. Kept(w)
  <2>1. ASSUME NEW how \in {"thrown", "exhausted", "backoff"}, NEW e \in Errors \cup {NoError},
               at' = at, pc' = [pc EXCEPT ![w] = how], surfaced' = [surfaced EXCEPT ![w] = e],
               how # "backoff" => e # NoError,
               how = "backoff" => ~LastStop(w) /\ ~Yielded(w)
        PROVE  Kept(w)
    <3>1. trail = Append(tried[w], [at |-> at[w], error |-> err])
      BY DEF trail
    <3>2. plan'[w] = plan[w] /\ cap'[w] = cap[w] /\ sent'[w] = sent[w] /\ at' \in [Walks -> Nat]
      BY <1>1, <1>4, <2>1 DEF TypeOK
    <3>3. /\ pc' \in [Walks -> {"idle"} \cup Live \cup Ended]
          /\ surfaced' \in [Walks -> Errors \cup {NoError}]
          /\ WalkInv(w)'
          /\ \A v \in Walks : v # w => pc'[v] = pc[v] /\ surfaced'[v] = surfaced[v]
      BY <1>1, <1>2, <1>4, <2>1, <3>1, <3>2, FailedHere
    <3> QED
      BY <2>1, <3>2, <3>3 DEF Kept
  <2>2. CASE End(w, "thrown", err)
    BY <2>1, <2>2, <1>3 DEF End
  <2>3. CASE End(w, "exhausted", FirstError(trail))
    BY <2>1, <2>3, <1>3 DEF End
  <2>4. CASE ~LastStop(w) /\ ~Yielded(w) /\ pc' = [pc EXCEPT ![w] = "backoff"]
             /\ UNCHANGED <<at, surfaced>>
    <3>1. surfaced' = [surfaced EXCEPT ![w] = surfaced[w]] /\ surfaced[w] \in Errors \cup {NoError}
      BY <1>1, <2>4 DEF TypeOK
    <3> QED
      BY <2>1, <2>4, <3>1
  <2>5. CASE ~LastStop(w) /\ Credential(err) /\ Land(w, plan[w], cap[w], at[w] + 1, trail)
    <3>1. ASSUME NEW j \in sent[w]
          PROVE  \E n \in 1..Len(trail) : trail[n].at = j /\ Credential(trail[n].error)
      <4>1. /\ Len(trail) = Len(tried[w]) + 1 /\ Len(tried[w]) \in Nat
            /\ \A k \in 1..Len(tried[w]) : trail[k] = tried[w][k]
            /\ trail[Len(trail)] = [at |-> at[w], error |-> err]
        BY <1>1, LongerTrail, LenProperties DEF trail
      <4>2. CASE j < at[w]
        <5>1. PICK n \in 1..Len(tried[w]) :
                tried[w][n].at = j /\ Credential(tried[w][n].error)
          BY <1>1, <4>2 DEF WalkInv, SecondOutput
        <5> QED
          BY <4>1, <5>1
      <4>3. CASE j = at[w]
        BY <2>5, <4>1, <4>3
      <4> QED
        BY <1>1, <4>2, <4>3
    <3>2. plan'[w] = plan[w] /\ cap'[w] = cap[w] /\ sent'[w] = sent[w]
      BY <1>4
    <3> QED
      BY <1>1, <1>2, <1>4, <2>5, <3>1, <3>2, MovingOn
  <2> QED
    BY <2>2, <2>3, <2>4, <2>5 DEF Fail, trail
<1>7. TypeOK' /\ Cooldown!ParkedForAReason'
  BY <1>1, <1>4, <1>5, <1>6 DEF Kept, TypeOK, EngineInv
<1>8. \A v \in Walks : v # w => WalkInv(v)'
  BY <1>4, <1>6, BystanderKeeps DEF Kept, IInv
<1> QED
  BY <1>6, <1>7, <1>8 DEF Kept, IInv

-----------------------------------------------------------------------------
LEMMA Initially ==
  ASSUME Init
  PROVE  IInv
<1>1. TypeOK /\ Cooldown!ParkedForAReason
  BY WalkAssumption, EmptySeq DEF Init, TypeOK, Cooldown!Init, Cooldown!TypeOK,
     Cooldown!ParkedForAReason, Cooldown!Parked
<1>2. \A w \in Walks : WalkInv(w)
  BY DEF Init, WalkInv, SecondOutput, Explained, Live
<1> QED
  BY <1>1, <1>2 DEF IInv

LEMMA Inductive ==
  ASSUME IInv, [Next]_vars
  PROVE  IInv'
<1>1. CASE \E w \in Walks :
             Start(w) \/ Yield(w) \/ Succeed(w) \/ Abandon(w) \/ FailSomehow(w) \/ Rotate(w)
  BY <1>1, StartStep, YieldStep, SucceedStep, AbandonStep, FailStep, RotateStep DEF FailSomehow
<1>2. CASE Tick
  BY <1>2, TickStep
<1>3. CASE UNCHANGED vars
  <2>1. TypeOK' /\ Cooldown!ParkedForAReason'
    BY <1>3 DEF vars, walkVars, IInv, TypeOK, Cooldown!TypeOK, Cooldown!ParkedForAReason,
       Cooldown!Parked
  <2>2. \A v \in Walks : WalkInv(v)'
    BY <1>3, BystanderKeeps DEF vars, walkVars, IInv
  <2> QED
    BY <2>1, <2>2 DEF IInv
<1> QED
  BY <1>1, <1>2, <1>3 DEF Next

LEMMA InvariantHolds == Spec => []IInv
<1>1. Init => IInv
  BY Initially
<1>2. IInv /\ [Next]_vars => IInv'
  BY Inductive
<1> QED
  BY <1>1, <1>2, PTL DEF Spec

(* Every reachable state is typed, the shared engine's included.            *)
THEOREM TypeCorrect == Spec => []TypeOK
<1>1. IInv => TypeOK
  BY DEF IInv
<1> QED
  BY <1>1, InvariantHolds, PTL

(* No walk ever gets past a stop lane, whatever the other walks do.         *)
THEOREM StopLanesStop == Spec => []NothingPastTerminal
<1>1. IInv => NothingPastTerminal
  BY DEF IInv, WalkInv, NotPastTerminal, NothingPastTerminal
<1> QED
  BY <1>1, InvariantHolds, PTL

(* Output of a second lane follows output of a first only behind a          *)
(* credential error: everything else that breaks mid-stream is thrown.      *)
THEOREM OneLanePerStream == Spec => []SecondOutputOnlyAfterCredential
<1>1. IInv => SecondOutputOnlyAfterCredential
  BY DEF IInv, WalkInv, SecondOutput, SecondOutputOnlyAfterCredential
<1> QED
  BY <1>1, InvariantHolds, PTL

(* A walk that gives up has a failure to show for it.                       *)
THEOREM EveryFailureIsExplained == Spec => []FailureIsExplained
<1>1. IInv => FailureIsExplained
  BY DEF IInv, WalkInv, Explained, FailureIsExplained
<1> QED
  BY <1>1, InvariantHolds, PTL

(* All that the walks guarantee, for any number of them over one engine.    *)
THEOREM WalksStaySound == Spec => []WalksAreSound
<1>1. /\ TypeOK /\ NothingPastTerminal
      /\ SecondOutputOnlyAfterCredential /\ FailureIsExplained
      => WalksAreSound
  BY DEF WalksAreSound
<1> QED
  BY <1>1, TypeCorrect, StopLanesStop, OneLanePerStream, EveryFailureIsExplained, PTL

-----------------------------------------------------------------------------
(* Who is named. Failures lie behind a walk's target, and those at or past  *)
(* the lane onFailover named last are credential errors: any other failure  *)
(* is announced before the walk goes on.                                    *)
BehindTarget(w) == \A n \in 1..Len(tried[w]) : tried[w][n].at <= at[w]
OnlySilentSince(w) ==
  \A n \in 1..Len(tried[w]) : tried[w][n].at >= announced[w] => Credential(tried[w][n].error)

Named(w) ==
  /\ pc[w] \in Live => BehindTarget(w)
  /\ pc[w] \in {"attempting", "served"} => OnlySilentSince(w)

NamedInv == IInv /\ \A w \in Walks : Named(w)

(* A walk none of whose variables change is still named rightly.            *)
LEMMA BystanderStaysNamed ==
  ASSUME NEW v \in Walks, Named(v),
         pc'[v] = pc[v], at'[v] = at[v], tried'[v] = tried[v], announced'[v] = announced[v]
  PROVE  Named(v)'
BY DEF Named, BehindTarget, OnlySilentSince

(* Where a walk lands, in terms of its own variables.                       *)
LEMMA LandsAhead ==
  ASSUME TypeOK, Cooldown!ParkedForAReason, NEW w \in Walks, NEW p \in Plans, NEW c \in Nat,
         NEW from \in Nat \ {0}, NEW trail \in Seq(Attempt), Land(w, p, c, from, trail)
  PROVE  /\ at'[w] \in Nat /\ at'[w] >= from
         /\ pc'[w] \in {"attempting", "exhausted", "stopped"}
         /\ \A v \in Walks : v # w => at'[v] = at[v] /\ pc'[v] = pc[v]
<1>1. PICK j \in Nat, how \in {"attempting", "exhausted", "stopped"},
           e \in Errors \cup {NoError} : LandsAt(w, p, c, from, trail, j, how, e)
  <2>1. LandsSomewhere(w, p, c, from, trail)
    BY Landing
  <2> QED
    BY <2>1 DEF LandsSomewhere
<1> QED
  BY <1>1 DEF LandsAt, TypeOK

LEMMA CapIsNat ==
  ASSUME TypeOK, NEW w \in Walks
  PROVE  cap[w] \in Nat
<1>1. cap[w] \in Caps \cup {0} /\ Caps \subseteq Nat
  BY WalkAssumption DEF TypeOK
<1>2. \A n \in Caps \cup {0} : n \in Nat
  BY <1>1
<1> QED
  BY <1>1, <1>2

LEMMA FailStaysNamed ==
  ASSUME NamedInv, NEW w \in Walks, NEW e \in Errors, Fail(w, e)
  PROVE  \A v \in Walks : Named(v)'
<1> DEFINE trail == Append(tried[w], [at |-> at[w], error |-> e])
<1>1. /\ TypeOK /\ Cooldown!ParkedForAReason /\ WalkInv(w) /\ Named(w) /\ pc[w] = "attempting"
      /\ pc[w] \in Live /\ tried[w] \in Seq(Attempt) /\ at[w] \in Nat /\ announced[w] \in Nat
  BY DEF NamedInv, IInv, Fail, Live, TypeOK
<1>2. /\ trail \in Seq(Attempt) /\ Len(trail) = Len(tried[w]) + 1 /\ Len(tried[w]) \in Nat
      /\ \A k \in 1..Len(tried[w]) : trail[k] = tried[w][k]
      /\ trail[Len(trail)] = [at |-> at[w], error |-> e]
  BY <1>1, LongerTrail, LenProperties
<1>3. /\ tried'[w] = trail /\ announced' = announced
      /\ \A v \in Walks : v # w => tried'[v] = tried[v]
  BY <1>1 DEF Fail, TypeOK
<1> HIDE DEF trail
<1>4. \A n \in 1..Len(trail) : trail[n].at <= at[w]
  BY <1>1, <1>2 DEF Named, BehindTarget
<1>5. ASSUME at' = at, pc'[w] \in {"thrown", "exhausted", "backoff"},
             \A v \in Walks : v # w => pc'[v] = pc[v]
      PROVE  \A v \in Walks : Named(v)'
  <2>1. Named(w)'
    BY <1>3, <1>4, <1>5 DEF Named, BehindTarget
  <2>2. ASSUME NEW v \in Walks, v # w PROVE Named(v)'
    BY <1>3, <1>5, <2>2, BystanderStaysNamed DEF NamedInv
  <2> QED
    BY <2>1, <2>2
<1>6. CASE Credential(e) /\ ~LastStop(w) /\ Land(w, plan[w], cap[w], at[w] + 1, trail)
  <2>1. plan[w] \in Plans /\ cap[w] \in Nat /\ at[w] + 1 \in Nat \ {0}
    BY <1>1, LiveTarget, CapIsNat
  <2>2. /\ at'[w] \in Nat /\ at'[w] >= at[w] + 1
        /\ pc'[w] \in {"attempting", "exhausted", "stopped"}
        /\ \A v \in Walks : v # w => at'[v] = at[v] /\ pc'[v] = pc[v]
    BY <1>1, <1>2, <1>6, <2>1, LandsAhead
  <2>3. \A n \in 1..Len(trail) : trail[n].at >= announced[w] => Credential(trail[n].error)
    BY <1>1, <1>2, <1>6 DEF Named, OnlySilentSince
  <2>4. \A n \in 1..Len(trail) : trail[n].at <= at'[w]
    <3>0. \A n \in 1..Len(trail) : trail[n] \in Attempt
      BY <1>2, ElementOfSeq
    <3>1. \A n \in 1..Len(trail) : trail[n].at \in Nat
      BY <3>0 DEF Attempt
    <3> QED
      BY <1>1, <1>4, <2>2, <3>1
  <2>5. Named(w)'
    BY <1>3, <2>2, <2>3, <2>4 DEF Named, BehindTarget, OnlySilentSince
  <2>6. ASSUME NEW v \in Walks, v # w PROVE Named(v)'
    BY <1>3, <2>2, <2>6, BystanderStaysNamed DEF NamedInv
  <2> QED
    BY <2>5, <2>6
<1>7. CASE \E x \in Errors \cup {NoError}, how \in {"thrown", "exhausted"} : End(w, how, x)
  BY <1>1, <1>5, <1>7 DEF End, TypeOK
<1>8. CASE pc' = [pc EXCEPT ![w] = "backoff"] /\ at' = at
  BY <1>1, <1>5, <1>8 DEF TypeOK
<1>9. FirstError(trail) \in Errors \cup {NoError}
  BY <1>2, FirstErrorShape
<1> QED
  BY <1>6, <1>7, <1>8, <1>9 DEF Fail, trail

LEMMA RotateStaysNamed ==
  ASSUME NamedInv, NEW w \in Walks, Rotate(w)
  PROVE  \A v \in Walks : Named(v)'
<1>1. /\ TypeOK /\ Cooldown!ParkedForAReason /\ WalkInv(w) /\ Named(w) /\ pc[w] \in Live
      /\ tried[w] \in Seq(Attempt) /\ at[w] \in Nat
  BY DEF NamedInv, IInv, Rotate, Live, TypeOK
<1>2. plan[w] \in Plans /\ cap[w] \in Nat /\ at[w] + 1 \in Nat \ {0}
  BY <1>1, LiveTarget, CapIsNat
<1>3. /\ at'[w] \in Nat /\ at'[w] >= at[w] + 1
      /\ pc'[w] \in {"attempting", "exhausted", "stopped"}
      /\ \A v \in Walks : v # w => at'[v] = at[v] /\ pc'[v] = pc[v]
  BY <1>1, <1>2, LandsAhead DEF Rotate
<1>4. /\ announced'[w] = at[w] + 1 /\ tried' = tried
      /\ \A v \in Walks : v # w => announced'[v] = announced[v]
  BY <1>1 DEF Rotate, TypeOK
<1>5. \A n \in 1..Len(tried[w]) : tried[w][n].at \in Nat /\ tried[w][n].at <= at[w]
  <2>1. \A n \in 1..Len(tried[w]) : tried[w][n] \in Attempt
    BY <1>1, ElementOfSeq
  <2> QED
    BY <1>1, <2>1 DEF Named, BehindTarget, Attempt
<1>6. \A n \in 1..Len(tried[w]) : tried[w][n].at <= at'[w] /\ ~(tried[w][n].at >= at[w] + 1)
  BY <1>1, <1>3, <1>5
<1>7. Named(w)'
  BY <1>3, <1>4, <1>6 DEF Named, BehindTarget, OnlySilentSince
<1>8. ASSUME NEW v \in Walks, v # w PROVE Named(v)'
  BY <1>3, <1>4, <1>8, BystanderStaysNamed DEF NamedInv
<1> QED
  BY <1>7, <1>8

LEMMA StartStaysNamed ==
  ASSUME NamedInv, NEW w \in Walks, Start(w)
  PROVE  \A v \in Walks : Named(v)'
<1>1. TypeOK /\ Cooldown!ParkedForAReason /\ tried[w] = <<>> /\ tried' = tried
  BY DEF NamedInv, IInv, WalkInv, Start
<1>2. PICK p \in Plans, c \in Caps : Land(w, p, c, 1, <<>>)
  BY DEF Start
<1>3. \A v \in Walks : v # w => at'[v] = at[v] /\ pc'[v] = pc[v]
  <2>1. <<>> \in Seq(Attempt) /\ 1 \in Nat \ {0} /\ c \in Nat
    BY EmptySeq, WalkAssumption
  <2> QED
    BY <1>1, <1>2, <2>1, LandsAhead
<1>4. Named(w)'
  BY <1>1 DEF Named, BehindTarget, OnlySilentSince
<1>5. ASSUME NEW v \in Walks, v # w PROVE Named(v)'
  <2>1. announced'[v] = announced[v]
    BY <1>1, <1>5 DEF Start, TypeOK
  <2> QED
    BY <1>1, <1>3, <1>5, <2>1, BystanderStaysNamed DEF NamedInv
<1> QED
  BY <1>4, <1>5

LEMMA NamedHolds == Spec => []NamedInv
<1>1. Init => NamedInv
  BY Initially DEF Init, NamedInv, Named, BehindTarget, OnlySilentSince
<1>2. NamedInv /\ [Next]_vars => NamedInv'
  <2> SUFFICES ASSUME NamedInv, [Next]_vars PROVE NamedInv'
    OBVIOUS
  <2>0. IInv' /\ TypeOK
    BY Inductive DEF NamedInv, IInv
  <2>1. ASSUME NEW w \in Walks, Start(w) PROVE NamedInv'
    BY <2>0, <2>1, StartStaysNamed DEF NamedInv
  <2>2. ASSUME NEW w \in Walks, Yield(w) PROVE NamedInv'
    BY <2>0, <2>2, BystanderStaysNamed DEF NamedInv, Yield
  <2>3. ASSUME NEW w \in Walks, Succeed(w) PROVE NamedInv'
    <3>1. ASSUME NEW v \in Walks, v # w PROVE Named(v)'
      BY <2>0, <2>3, <3>1, BystanderStaysNamed DEF NamedInv, Succeed, TypeOK
    <3>2. Named(w)'
      BY <2>0, <2>3 DEF NamedInv, Named, Succeed, OnlySilentSince, TypeOK, Live
    <3> QED
      BY <2>0, <3>1, <3>2 DEF NamedInv
  <2>4. ASSUME NEW w \in Walks, Abandon(w) PROVE NamedInv'
    <3>1. ASSUME NEW v \in Walks, v # w PROVE Named(v)'
      BY <2>0, <2>4, <3>1, BystanderStaysNamed DEF NamedInv, Abandon, TypeOK
    <3>2. Named(w)'
      BY <2>0, <2>4 DEF Named, Abandon, TypeOK, Live
    <3> QED
      BY <2>0, <3>1, <3>2 DEF NamedInv
  <2>5. ASSUME NEW w \in Walks, FailSomehow(w) PROVE NamedInv'
    BY <2>0, <2>5, FailStaysNamed DEF NamedInv, FailSomehow
  <2>6. ASSUME NEW w \in Walks, Rotate(w) PROVE NamedInv'
    BY <2>0, <2>6, RotateStaysNamed DEF NamedInv
  <2>7. CASE Tick
    BY <2>0, <2>7, BystanderStaysNamed DEF NamedInv, Tick, walkVars
  <2>8. CASE UNCHANGED vars
    BY <2>0, <2>8, BystanderStaysNamed DEF NamedInv, vars, walkVars
  <2> QED
    BY <2>1, <2>2, <2>3, <2>4, <2>5, <2>6, <2>7, <2>8 DEF Next
<1> QED
  BY <1>1, <1>2, PTL DEF Spec

(* The lane onFailover named last is the one that serves, save for lanes    *)
(* skipped as parked or passed silently for want of a key: in any walk,     *)
(* whatever the others park and free meanwhile.                             *)
THEOREM AttributionIsRight == Spec => []AttributionMissesOnlySilentSkips
<1>1. NamedInv => AttributionMissesOnlySilentSkips
  BY DEF NamedInv, Named, OnlySilentSince, AttributionMissesOnlySilentSkips
<1> QED
  BY <1>1, NamedHolds, PTL

-----------------------------------------------------------------------------
(* What a walk leaves behind it.                                            *)

(* Every way out of a retryable failure parks the lane it happened on.      *)
LEMMA FailureParks ==
  ASSUME IInv, NEW w \in Walks, NEW e \in Errors, Fail(w, e), Retryable(e),
         Credential(e) => LastStop(w)
  PROVE  parked'[plan[w][at[w]].lane] > 0
<1>1. Park(w, e)
  BY DEF Fail
<1>2. TypeOK /\ CurrentTarget(w).lane \in Lanes
  BY LiveTarget DEF IInv, Fail, Live
<1>3. PICK window \in ParkWindows[e] : parked' = [parked EXCEPT ![CurrentTarget(w).lane] = window]
  BY <1>1 DEF Park, Cooldown!Cool
<1>4. window \in 1..MaxPark /\ MaxPark \in Nat
  BY <1>3, WalkAssumption
<1>5. parked'[CurrentTarget(w).lane] = window
  BY <1>2, <1>3 DEF TypeOK, Cooldown!TypeOK
<1> QED
  BY <1>4, <1>5 DEF CurrentTarget

(* A failure worth another lane parks its lane at that very step, whether   *)
(* the walk rotates, throws or is exhausted, so that no later walk can find *)
(* the lane open before it was parked.                                      *)
THEOREM FailuresPark == Spec => NextRequestSparesIt
<1> DEFINE Spared(w) == /\ tried'[w] # tried[w]
                        /\ Retryable(tried'[w][Len(tried'[w])].error)
                        /\ Credential(tried'[w][Len(tried'[w])].error) => LastStop(w)
                        => parked'[plan[w][at[w]].lane] > 0
<1>1. IInv /\ [Next]_vars => [\A w \in Walks : Spared(w)]_vars
  <2> SUFFICES ASSUME IInv, Next, NEW w \in Walks, tried'[w] # tried[w],
                      Retryable(tried'[w][Len(tried'[w])].error),
                      Credential(tried'[w][Len(tried'[w])].error) => LastStop(w)
               PROVE  parked'[plan[w][at[w]].lane] > 0
    OBVIOUS
  <2>1. PICK v \in Walks, e \in Errors : Fail(v, e)
    BY DEF Next, Start, Yield, Succeed, Abandon, Rotate, Tick, walkVars, FailSomehow
  <2>2. TypeOK /\ tried' = [tried EXCEPT ![v] = Append(tried[v], [at |-> at[v], error |-> e])]
    BY <2>1 DEF Fail, IInv
  <2>3. v = w
    BY <2>2 DEF TypeOK
  <2>4. tried'[w] = Append(tried[w], [at |-> at[w], error |-> e]) /\ tried[w] \in Seq(Attempt) /\ at[w] \in Nat
    BY <2>2, <2>3 DEF TypeOK
  <2>5. tried'[w][Len(tried'[w])] = [at |-> at[w], error |-> e]
    BY <2>4, LongerTrail
  <2> QED
    BY <2>1, <2>3, <2>5, FailureParks
<1> QED
  BY <1>1, InvariantHolds, PTL DEF Spec, NextRequestSparesIt
=============================================================================
