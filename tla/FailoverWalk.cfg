\* Two concurrent requests, chat or stream, on a shared cooldown engine.
SPECIFICATION Spec
CONSTANTS
  a = a
  b = b
  c = c
  Walks = {w1, w2}
  Lanes = {a, b, c}
  Plans <- MCPlans
  Caps <- MCCaps
  Errors <- MCErrorsBrief
  RetryableKinds <- MCRetryable
  ParkWindows <- MemoryWindow
  NoError = none
  MaxPark = 1
INVARIANTS
  WalksAreSound
  AttributionMissesOnlySilentSkips
PROPERTIES
  NextRequestSparesIt
  EveryWalkEnds
CHECK_DEADLOCK FALSE
