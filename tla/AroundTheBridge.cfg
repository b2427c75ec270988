\* Three runs of two conversations of the local lane; three turns of two
\* conversations of the Cursor lane, up to three agents; three messages to a
\* session and a work order; three runs of a page; three commands and two pids.
SPECIFICATION MCSpec
CONSTANTS
  Runs = {r1, r2, r3}
  Conversations = {p, q}
  MaxIds = 3
  MaxBackends = 2
  NoSession = noSession
  NoRecord = noRecord
  Turns = {t1, t2, t3}
  Sessions = {s, u}
  MaxAgents = 3
  NoAgent = noAgent
  ChatSessions = {s1}
  Appends = {a1, a2, a3}
  WorkOrders = {o1}
  Asks = {q1, q2, q3}
  MaxChunks = 1
  NoRun = noRun
  Pids = {p1, p2}
  Commands = {c1, c2, c3}
  NoPid = noPid
SYMMETRY Symmetry
INVARIANTS
  LaneIsSound
  AgentsAreKept
  SessionsAreSound
  HooksShowTheRun
  OneTrackedBridge
PROPERTIES
  FinishedOrdersStay
CHECK_DEADLOCK FALSE
