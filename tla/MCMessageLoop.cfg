CONSTANTS
    MaxWorkPerTurn = 4
    MaxMessagesPerTurn = 2
    PollGroup = 2
    Commands <- MCCommands
    Wakers = {w1}
    MaxTasks = 1
    MaxSends = 2
    MaxQueued = 2
SPECIFICATION FairSpec
INVARIANTS TypeOK SleepsOnlyWhenDrained
PROPERTIES NothingAfterQuit NoSourceStarves
CHECK_DEADLOCK FALSE
