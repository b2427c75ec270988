\* Two turns of two calls over one file, one change from outside.
SPECIFICATION Spec
CONSTANTS
  code = code
  Files = {code}
  Batches <- MCBatches
  MaxTurns = 2
  MaxCalls = 2
  Concurrency = 2
  Outside = {x1}
  NoCall = nocall
  NoEntry = noentry
INVARIANTS
  GatesHold
PROPERTIES
  NoticesAreTrue
  EditsLoseOnlyToCancelled
  EveryBatchEnds
CHECK_DEADLOCK FALSE
