-------------------------- MODULE MC_FailoverWalk --------------------------
(* Requests over three lanes, with an ordinary plan and one that starts at  *)
(* its far end and has a stop lane half way, under two caps.                *)
EXTENDS FailoverWalk

CONSTANTS a, b, c

Go(l) == [lane |-> l, terminal |-> FALSE]
Stop(l) == [lane |-> l, terminal |-> TRUE]

MCPlans == {<<Go(a), Go(b), Go(c)>>, <<Go(c), Stop(b), Go(a)>>}
MCCaps == {2, 3}

Err(k, n) == [kind |-> k, retryAfterMs |-> n]
MCErrors == {Err("limit", 2), Err("fault", 0), Err("credential", 0), Err("rejected", 0)}
\* One failure for every way out of the catch block.
MCErrorsBrief == {Err("fault", 0), Err("credential", 0), Err("rejected", 0)}
MCRetryable == {"limit", "fault"}

\* MemoryLaneCooldown with a grace period of one unit.
MemoryWindow ==
  [e \in Errors |-> {IF e.retryAfterMs > 0 THEN e.retryAfterMs ELSE 1}]
=============================================================================
