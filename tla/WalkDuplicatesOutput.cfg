\* One request whose stream can break at any point.
SPECIFICATION Spec
CONSTANTS
  a = a
  b = b
  c = c
  Walks = {w1}
  Lanes = {a, b, c}
  Plans <- MCPlans
  Caps = {3}
  Errors <- MCErrors
  RetryableKinds <- MCRetryable
  ParkWindows <- MemoryWindow
  NoError = none
  MaxPark = 2
INVARIANT
  StreamNeverDuplicates
CHECK_DEADLOCK FALSE
