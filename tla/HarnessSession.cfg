\* Two tasks, two calls in all, of one run or of two that overlap.
SPECIFICATION Spec
CONSTANTS
  a = a
  b = b
  Absent = absent
  Paths = {a, b}
  Existing = {a}
  Batches <- MCBatches
  Labels = {"none", "safe"}
  AssumeYes = FALSE
  Budgeted = TRUE
  Copies = {TRUE, FALSE}
  MaxRuns = 2
  MaxCalls = 2
INVARIANTS
  RecordIsTrue
PROPERTIES
  StopsAndUndosHold
  EveryRunEnds
CHECK_DEADLOCK FALSE
