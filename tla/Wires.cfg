\* Every upstream wire with every wire of the server, two calls in two pieces;
\* three turns of two clients, with a memory of two conversations; two tasks of
\* two turns in one tool loop.
SPECIFICATION MCSpec
CONSTANTS
    Sources = {"openai", "anthropic", "ollama", "zen", "plan", "gemini"}
    Wires = {"chat-completions", "responses", "messages", "gemini"}
    Names = {"f"}
    MaxCalls = 2
    MaxParts = 2
    MaxText = 2
    Clients = {a, b}
    CallIds = {x, y}
    CallsPerTurn = 2
    MaxTurns = 3
    MaxFails = 1
    MAX_CONVERSATIONS = 2
    LoopCalls = {"call_0", "call_1"}
    Shapes <- NumberedShapes
    Sizes = {1, 4}
    DigestSizes = {0, 1}
    Long = 3
    Short = 2
    Threshold = 5
    KeepRecent = 2
    MinGain = 10
    MaxRounds = 2
    MaxTasks = 2
INVARIANTS
  StreamsAreSound
  ThreadsStayApart
  HistoriesAreWhole
PROPERTIES
  AbortEndsUpstream
CHECK_DEADLOCK FALSE
