CONSTANTS
    MaxWorkPerTurn = 2
    MaxMessagesPerTurn = 1
    PollGroup = 1
    Commands <- FloodCommands
    Wakers = {}
    MaxTasks = 8
    MaxSends = 1
    MaxQueued = 0
SPECIFICATION Spec
INVARIANTS NoSleepOverReadyFutures
CHECK_DEADLOCK FALSE
