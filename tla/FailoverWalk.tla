---------------------------- MODULE FailoverWalk ----------------------------
(***************************************************************************)
(* core/failover.ts: withFailover and withFailoverStream. Several requests  *)
(* walk their own ordered lane plans at the same time over one shared       *)
(* LaneCooldown. JavaScript runs a walk without interruption between two    *)
(* awaits, so a step here is the code from one await to the next: skipping  *)
(* parked lanes belongs to the step that reached them.                      *)
(*                                                                         *)
(* A walk awaits a lane's answer ("attempting"), or the optional backoff    *)
(* sleep before it rotates ("backoff", a microtask when no wait is set).    *)
(***************************************************************************)
EXTENDS Integers, Sequences

CONSTANTS
  Walks,           (* requests under way                                    *)
  Lanes,
  Plans,           (* the lane plans requests come with                     *)
  Caps,            (* maxAttempts values                                    *)
  Errors,          (* failures lanes answer with                            *)
  RetryableKinds,  (* the kinds isRetryableError accepts                     *)
  ParkWindows,     (* the windows the cooldown engine may give a failure    *)
  NoError, MaxPark

Kinds == {"limit", "fault", "credential", "rejected", "abort"}
Target == [lane : Lanes, terminal : BOOLEAN]
Attempt == [at : Nat, error : Errors]   \* LaneAttempt

ASSUME WalkAssumption ==
  /\ Plans \subseteq Seq(Target) \ {<<>>}
  /\ Caps \subseteq Nat
  /\ \A e \in Errors : e.kind \in Kinds
  /\ RetryableKinds \subseteq Kinds \ {"abort"}   \* aborts are no ModelHitchError
  /\ "limit" \in RetryableKinds                   \* 402 and 429 always are
  /\ ParkWindows \in [Errors -> SUBSET (1..MaxPark)]
  /\ NoError \notin Errors
  /\ MaxPark \in Nat \ {0}

VARIABLES
  parked, why,   (* the shared cooldown engine                              *)
  pc,            (* where each walk is                                      *)
  mode,          (* "chat" or "stream"                                      *)
  plan, cap,     (* targets and maxAttempts of the walk                     *)
  at,            (* i, the index of the current target                      *)
  tried,         (* attempts: the failures so far, in walk order            *)
  sent,          (* indices of the targets whose output reached the caller  *)
  announced,     (* index the last onFailover named as having taken over    *)
  surfaced       (* the error the walk ended with                           *)

walkVars == <<pc, mode, plan, cap, at, tried, sent, announced, surfaced>>
vars == <<parked, why, walkVars>>

Cooldown == INSTANCE LaneCooldown

Live == {"attempting", "backoff"}
Ended == {"served", "thrown", "exhausted", "stopped", "abandoned"}

TypeOK ==
  /\ Cooldown!TypeOK
  /\ pc \in [Walks -> {"idle"} \cup Live \cup Ended]
  /\ mode \in [Walks -> {"chat", "stream"}]
  /\ plan \in [Walks -> Plans \cup {<<>>}]
  /\ cap \in [Walks -> Caps \cup {0}]
  /\ at \in [Walks -> Nat]
  /\ tried \in [Walks -> Seq(Attempt)]
  /\ sent \in [Walks -> SUBSET Nat]
  /\ announced \in [Walks -> Nat]
  /\ surfaced \in [Walks -> Errors \cup {NoError}]

Init ==
  /\ Cooldown!Init
  /\ pc = [w \in Walks |-> "idle"]
  /\ mode = [w \in Walks |-> "chat"]
  /\ plan = [w \in Walks |-> <<>>]
  /\ cap = [w \in Walks |-> 0]
  /\ at = [w \in Walks |-> 0]
  /\ tried = [w \in Walks |-> <<>>]
  /\ sent = [w \in Walks |-> {}]
  /\ announced = [w \in Walks |-> 0]
  /\ surfaced = [w \in Walks |-> NoError]

-----------------------------------------------------------------------------
\* isRetryableError and isCredentialError.
Retryable(e) == e.kind \in RetryableKinds
Credential(e) == e.kind = "credential"

\* The loop runs while i < targets.length && i < maxAttempts.
Limit(p, c) == IF c < Len(p) THEN c ELSE Len(p)

\* The first failure of a walk (firstError ??= err).
FirstError(trail) == IF trail = <<>> THEN NoError ELSE Head(trail).error

CurrentTarget(w) == plan[w][at[w]]
Yielded(w) == at[w] \in sent[w]

LastStopButTerminal(w) ==   \* mutant: terminal lanes rotate like any other
  at[w] >= Len(plan[w]) \/ at[w] >= cap[w]

\* No target may be tried after this one.
LastStop(w) ==
  at[w] >= Len(plan[w]) \/ at[w] >= cap[w] \/ CurrentTarget(w).terminal

\* The loop from index `from`: parked targets are skipped, up to the first
\* one that is usable, or parked but terminal, or past the end.
Land(w, p, c, from, trail) ==
  \E j \in from..(Limit(p, c) + 1) :
    /\ \A k \in from..(j - 1) :
         Cooldown!Parked(p[k].lane) /\ ~p[k].terminal
    /\ at' = [at EXCEPT ![w] = j]
    /\ \/ /\ j > Limit(p, c)
          /\ pc' = [pc EXCEPT ![w] = "exhausted"]
          /\ surfaced' = [surfaced EXCEPT ![w] = FirstError(trail)]
       \/ /\ j <= Limit(p, c)
          /\ Cooldown!Parked(p[j].lane)
          /\ p[j].terminal
          /\ pc' = [pc EXCEPT ![w] = "stopped"]
          /\ surfaced' = [surfaced EXCEPT ![w] = why[p[j].lane]]
       \/ /\ j <= Limit(p, c)
          /\ ~Cooldown!Parked(p[j].lane)
          /\ pc' = [pc EXCEPT ![w] = "attempting"]
          /\ UNCHANGED surfaced

End(w, how, e) ==
  /\ pc' = [pc EXCEPT ![w] = how]
  /\ surfaced' = [surfaced EXCEPT ![w] = e]
  /\ UNCHANGED at

ParkOnRetryAfter(w, e) ==   \* mutant: no Retry-After, no cooling
  IF e.retryAfterMs > 0
  THEN \E window \in ParkWindows[e] : Cooldown!Cool(CurrentTarget(w).lane, e, window)
  ELSE UNCHANGED <<parked, why>>

Park(w, e) ==
  \E window \in ParkWindows[e] : Cooldown!Cool(CurrentTarget(w).lane, e, window)

-----------------------------------------------------------------------------
Start(w) ==
  /\ pc[w] = "idle"
  /\ \E p \in Plans, c \in Caps, m \in {"chat", "stream"} :
       /\ plan' = [plan EXCEPT ![w] = p]
       /\ cap' = [cap EXCEPT ![w] = c]
       /\ mode' = [mode EXCEPT ![w] = m]
       /\ Land(w, p, c, 1, <<>>)
  /\ announced' = [announced EXCEPT ![w] = 1]
  /\ UNCHANGED <<parked, why, tried, sent>>

\* A stream yields its first chunk to the caller; later chunks change nothing.
Yield(w) ==
  /\ pc[w] = "attempting" /\ mode[w] = "stream" /\ ~Yielded(w)
  /\ sent' = [sent EXCEPT ![w] = @ \cup {at[w]}]
  /\ UNCHANGED <<parked, why, pc, mode, plan, cap, at, tried, announced, surfaced>>

\* The lane answered, or its stream completed: onSuccess and return.
Succeed(w) ==
  /\ pc[w] = "attempting"
  /\ pc' = [pc EXCEPT ![w] = "served"]
  /\ sent' = [sent EXCEPT ![w] = @ \cup {at[w]}]
  /\ Cooldown!Success(CurrentTarget(w).lane)
  /\ UNCHANGED <<mode, plan, cap, at, tried, announced, surfaced>>

\* The caller stops reading: the generator ends at its yield, neither
\* succeeding nor cooling.
Abandon(w) ==
  /\ pc[w] = "attempting" /\ mode[w] = "stream" /\ Yielded(w)
  /\ pc' = [pc EXCEPT ![w] = "abandoned"]
  /\ UNCHANGED <<parked, why, mode, plan, cap, at, tried, sent, announced, surfaced>>

\* The catch block. Each disjunct is one way out of it.
Fail(w, e) ==
  LET trail == Append(tried[w], [at |-> at[w], error |-> e]) IN
  /\ pc[w] = "attempting"
  /\ tried' = [tried EXCEPT ![w] = trail]
  /\ UNCHANGED <<mode, plan, cap, sent, announced>>
  /\ \/ \* the last stop: a stream that sent output throws, the rest exhaust
        /\ LastStop(w)
        /\ IF Retryable(e) THEN Park(w, e) ELSE UNCHANGED <<parked, why>>
        /\ IF Yielded(w) THEN End(w, "thrown", e)
           ELSE End(w, "exhausted", FirstError(trail))
     \/ \* no key for this lane: the next one is tried at once, and silently
        /\ ~LastStop(w) /\ Credential(e)
        /\ Land(w, plan[w], cap[w], at[w] + 1, trail)
        /\ UNCHANGED <<parked, why>>
     \/ \* not worth another lane
        /\ ~LastStop(w) /\ ~Credential(e) /\ ~Retryable(e)
        /\ End(w, "thrown", e)
        /\ UNCHANGED <<parked, why>>
     \/ \* died mid-stream
        /\ ~LastStop(w) /\ ~Credential(e) /\ Retryable(e) /\ Yielded(w)
        /\ Park(w, e)
        /\ End(w, "thrown", e)
     \/ \* rotate, after the backoff
        /\ ~LastStop(w) /\ ~Credential(e) /\ Retryable(e) /\ ~Yielded(w)
        /\ Park(w, e)
        /\ pc' = [pc EXCEPT ![w] = "backoff"]
        /\ UNCHANGED <<at, surfaced>>

RotateSilently(w) ==   \* mutant: onFailover is not called
  /\ pc[w] = "backoff"
  /\ Land(w, plan[w], cap[w], at[w] + 1, tried[w])
  /\ UNCHANGED <<parked, why, mode, plan, cap, tried, sent, announced>>

RotateWhenFree(w) ==   \* mutant: a parked lane is waited for, not skipped
  /\ pc[w] = "backoff"
  /\ ~Cooldown!Parked(plan[w][at[w] + 1].lane)
  /\ announced' = [announced EXCEPT ![w] = at[w] + 1]
  /\ Land(w, plan[w], cap[w], at[w] + 1, tried[w])
  /\ UNCHANGED <<parked, why, mode, plan, cap, tried, sent>>

\* The sleep is over: onFailover names the next target of the plan, then the
\* loop goes on from there.
Rotate(w) ==
  /\ pc[w] = "backoff"
  /\ announced' = [announced EXCEPT ![w] = at[w] + 1]
  /\ Land(w, plan[w], cap[w], at[w] + 1, tried[w])
  /\ UNCHANGED <<parked, why, mode, plan, cap, tried, sent>>

\* Time passes for the engine, whatever the walks are doing.
Tick ==
  /\ \E l \in Lanes : Cooldown!Parked(l)
  /\ Cooldown!Tick
  /\ UNCHANGED walkVars

FailSomehow(w) == \E e \in Errors : Fail(w, e)

Next ==
  \/ \E w \in Walks :
       Start(w) \/ Yield(w) \/ Succeed(w) \/ Abandon(w) \/ FailSomehow(w) \/ Rotate(w)
  \/ Tick

\* A call settles (the HTTP client times out on its own) and a timer fires;
\* nobody has to send a request.
Fairness ==
  \A w \in Walks :
    /\ WF_vars(Succeed(w) \/ Abandon(w) \/ FailSomehow(w))
    /\ WF_vars(Rotate(w))

Spec == Init /\ [][Next]_vars /\ Fairness

-----------------------------------------------------------------------------
(* Stop-on-limit: a walk never gets past a terminal target, whether it      *)
(* fails now or was parked by another request, so no other provider's quota *)
(* is spent in its place.                                                   *)
NothingPastTerminal ==
  \A w \in Walks :
    pc[w] # "idle" => \A k \in 1..(at[w] - 1) : ~plan[w][k].terminal

(* Output of two lanes reaches one caller only in one way: the earlier lane *)
(* ended with a credential error after it had already sent output.          *)
SecondOutputOnlyAfterCredential ==
  \A w \in Walks : \A j \in sent[w] :
    j < at[w] => \E n \in 1..Len(tried[w]) :
                   tried[w][n].at = j /\ Credential(tried[w][n].error)

(* A walk that fails after trying something, or that stops on a parked lane *)
(* tried by somebody else, always surfaces an actual failure.               *)
FailureIsExplained ==
  \A w \in Walks :
    \/ pc[w] \in {"thrown", "stopped"}
    \/ pc[w] = "exhausted" /\ tried[w] # <<>>
    => surfaced[w] # NoError

(* Where a walk may go, whose output the caller may see, and what a
   failed walk says for itself. *)
WalksAreSound ==
  /\ TypeOK
  /\ NothingPastTerminal
  /\ SecondOutputOnlyAfterCredential
  /\ FailureIsExplained

(* A retryable failure leaves its lane parked on every way out of the walk, *)
(* so the next request does not hammer an endpoint that is going down; only *)
(* a lane without a key is passed silently, unless it is the last stop.     *)
NextRequestSparesIt ==
  [][\A w \in Walks :
       /\ tried'[w] # tried[w]
       /\ Retryable(tried'[w][Len(tried'[w])].error)
       /\ Credential(tried'[w][Len(tried'[w])].error) => LastStop(w)
       => parked'[plan[w][at[w]].lane] > 0]_vars

(* The lane onFailover names last is the lane that serves, unless the walk  *)
(* skipped it as parked or passed it silently for want of a key.            *)
AttributionMissesOnlySilentSkips ==
  \A w \in Walks :
    pc[w] = "served" /\ announced[w] # at[w] =>
      \A n \in 1..Len(tried[w]) :
        tried[w][n].at >= announced[w] => Credential(tried[w][n].error)

(* Every walk ends: rotation cannot cycle, also while other walks park and  *)
(* free the lanes ahead of it.                                              *)
EveryWalkEnds == \A w \in Walks : pc[w] \in Live ~> pc[w] \in Ended

-----------------------------------------------------------------------------
(* What the comments of the source say, and the code does not do.           *)

(* "fail over only before any content is emitted": one caller, one lane.    *)
StreamNeverDuplicates ==
  \A w \in Walks : \A j, k \in sent[w] : j = k
=============================================================================
