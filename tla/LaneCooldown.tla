---------------------------- MODULE LaneCooldown ----------------------------
(***************************************************************************)
(* The contract behind the LaneCooldown interface of core/failover.ts: a    *)
(* lane is parked for some remaining time, the failure that parked it can   *)
(* be read while it is parked, a success un-parks it, and time un-parks it. *)
(*                                                                         *)
(* MemoryLaneCooldown and CircuitBreaker implement it; FailoverWalk uses    *)
(* it. How long one failure parks a lane is the engine's own business, so   *)
(* the contract only bounds it by MaxPark.                                  *)
(***************************************************************************)
EXTENDS Integers

CONSTANTS
  Lanes,    (* provider/model lanes, the unit of trust and of cooling       *)
  Errors,   (* failures a walk reports (FailoverErrorInfo)                   *)
  NoError,  (* no failure recorded; not one of Errors                       *)
  MaxPark   (* the longest window any engine gives one failure, above 0     *)

VARIABLES
  parked,   (* remaining time each lane is skipped; 0 = usable              *)
  why       (* the failure a parked lane is parked for                      *)

vars == <<parked, why>>

TypeOK ==
  /\ parked \in [Lanes -> 0..MaxPark]
  /\ why \in [Lanes -> Errors \cup {NoError}]

Parked(l) == parked[l] > 0

Init ==
  /\ parked = [l \in Lanes |-> 0]
  /\ why = [l \in Lanes |-> NoError]

-----------------------------------------------------------------------------
\* A failure parks the lane, replacing whatever window it had.
Cool(l, e, window) ==
  /\ parked' = [parked EXCEPT ![l] = window]
  /\ why' = [why EXCEPT ![l] = e]

\* A success forgets the window and the failure.
Success(l) ==
  /\ parked' = [parked EXCEPT ![l] = 0]
  /\ why' = [why EXCEPT ![l] = NoError]

\* The engine is emptied.
Clear ==
  /\ parked' = [l \in Lanes |-> 0]
  /\ why' = [l \in Lanes |-> NoError]

\* One unit of time passes; a window that runs out takes its failure along.
Tick ==
  /\ parked' = [l \in Lanes |-> IF Parked(l) THEN parked[l] - 1 ELSE 0]
  /\ why' = [l \in Lanes |-> IF parked[l] > 1 THEN why[l] ELSE NoError]

Next ==
  \/ \E l \in Lanes, e \in Errors, window \in 1..MaxPark : Cool(l, e, window)
  \/ \E l \in Lanes : Success(l)
  \/ Clear
  \/ Tick

Spec == Init /\ [][Next]_vars

-----------------------------------------------------------------------------
(* A lane is parked exactly as long as a failure is on record for it: a     *)
(* walk that stops on a parked terminal lane always has a reason to report. *)
ParkedForAReason == \A l \in Lanes : Parked(l) <=> why[l] # NoError
=============================================================================
