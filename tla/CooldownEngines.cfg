\* Two lanes, a threshold of two, Retry-After from below the grace period's
\* windows to beyond the cap.
SPECIFICATION BothSpec
CONSTANTS
  Lanes = {a, b}
  FailureThreshold = 2
  BaseTripMs = 1
  MaxTripMs = 3
  GraceMs = 1
  RateLimitTripsImmediately = TRUE
  RetryAfters = {0, 2, 4}
  NoError = none
  MaxNow = 3
  MaxFailures = 4
INVARIANTS
  WindowsAreSound
  EnginesTellTheTruth
PROPERTIES
  KeepsContract
  PlainEngineKeepsUp
