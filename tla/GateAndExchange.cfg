\* Three requests at the gate and a ring of one row; every body of every wire
\* to every upstream, with one retry.
SPECIFICATION MCSpec
CONSTANTS
  a = a
  none = none
  Requests = {r1, r2, r3}
  Keys = {a}
  Tables <- MCTables
  Unlimited = none
  Window = 2
  MaxEvents = 1
  MaxTokens = 1
  MaxNow = 3
  NoKey = nokey
  Asked <- MCAsked
  Given <- MCGiven
  HttpFailures = {400, 401, 403, 404, 429, 503}
SYMMETRY RequestSymmetry
INVARIANTS
  AccountsAreRight
  LimitsHold
  ExchangesSurvive
CHECK_DEADLOCK FALSE
