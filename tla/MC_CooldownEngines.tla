------------------------- MODULE MC_CooldownEngines -------------------------
(***************************************************************************)
(* The two engines a bridge may be given, fed the same reports by the same  *)
(* walks under one clock: the breaker of catalog mode, whose definitions    *)
(* this module extends, and the plain engine.                               *)
(***************************************************************************)
EXTENDS CircuitBreaker

VARIABLES until, reported   (* the plain engine's two maps                  *)

Plain == INSTANCE MemoryLaneCooldown WITH failures <- reported

ASSUME PlainAssumption == Plain!MemoryAssumption

BothInit == Init /\ Plain!Init

BothCool(l, e) == Cool(l, e) /\ Plain!Cool(l, e)
BothSuccess(l) == Success(l) /\ Plain!Success(l)
BothClear == Clear /\ Plain!Clear
BothTick == Tick /\ Plain!Tick

\* Reading the breaker changes nothing; reading the plain engine sweeps it.
BothRead == UNCHANGED <<lanes, failures>> /\ Plain!Read

BothNext ==
  \/ \E l \in Lanes, e \in Errors : BothCool(l, e)
  \/ \E l \in Lanes : BothSuccess(l)
  \/ BothClear
  \/ BothRead
  \/ BothTick

BothSpec == BothInit /\ [][BothNext]_<<vars, until, reported>>

-----------------------------------------------------------------------------
(* What the plain engine promises by itself: see MemoryLaneCooldown.        *)
PlainTypeOK == Plain!TypeOK
MapsAgree == Plain!MapsAgree
PlainKeepsContract == Plain!KeepsContract

(* A read or a failure on one lane leaves no expired entry behind on any    *)
(* lane, so the maps cannot grow with lanes nobody uses any more.           *)
UseSweepsEverything ==
  [][(\E l \in Lanes, e \in Errors : BothCool(l, e)) \/ BothRead
     => \A l \in Lanes : until'[l] = Plain!Absent \/ until'[l] > now']_<<now, until>>

(* The plain engine implements the contract, and each use of it sweeps. *)
PlainEngineKeepsUp ==
  PlainKeepsContract /\ UseSweepsEverything

(* Catalog mode never rests a rate-limited lane longer than the plain       *)
(* engine would: whatever failures went before, a rate limit neither        *)
(* escalates the breaker's window nor leaves an escalated one standing.     *)
CatalogModeWaitsNoLonger ==
  \A l \in Lanes :
    /\ failures[l] # NoError
    /\ failures[l].kind = "limit"
    /\ RateLimitTripsImmediately
    => CooldownMs(l) <= Plain!CooldownMs(l)

(* What the engines tell walks and the page agrees with what they hold. *)
EnginesTellTheTruth ==
  /\ PlainTypeOK
  /\ HealthIsWhatWalksSee
  /\ MapsAgree
  /\ CatalogModeWaitsNoLonger
=============================================================================
