\* Requests, a sign-in and sign-outs of two accounts at once.
SPECIFICATION Spec
CONSTANTS
  Keys = {alice, bob}
  Calls = {c1, c2}
  Attempts = {s1}
  Stores <- OneSaved
  MaxIssued = 3
  MaxHandlers = 2
  NoKey = nokey
  NoToken = notoken
  NoAnswer = noanswer
  Refused = refused
INVARIANTS
  CredentialsAreSound
PROPERTIES
  CallsAreAnswered
CHECK_DEADLOCK FALSE
