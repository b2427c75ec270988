\* Three turns, so that a history is long enough to lose the second task.
SPECIFICATION LoopSpec
CONSTANTS
    LoopCalls = {"call_0", "call_1"}
    Shapes <- NumberedShapes
    Sizes = {4}
    DigestSizes = {0, 1}
    Long = 3
    Short = 2
    Threshold = 5
    KeepRecent = 2
    MinGain = 10
    MaxRounds = 3
    MaxTasks = 2
CHECK_DEADLOCK FALSE
INVARIANTS TaskIsNeverDigested
