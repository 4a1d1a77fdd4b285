CONSTANTS
    Sizes = {1, 2}
    MaxVersion = 2
    MaxEvents = 2
    MaxResizes = 2
    MaxFaults = 1
    Lookahead = 1
SPECIFICATION FairSpec
INVARIANTS TypeOK ScreenIsCommitted DispatchSeesScreen KeysInOrder IdleShowsModel
PROPERTIES KeysAreDispatched
CHECK_DEADLOCK FALSE
