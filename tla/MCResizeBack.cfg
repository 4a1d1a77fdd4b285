CONSTANTS
    Sizes = {1, 2}
    MaxVersion = 0
    MaxEvents = 0
    MaxResizes = 2
    MaxFaults = 0
    Lookahead = 2
SPECIFICATION Spec
INVARIANTS SettledScreenIsCommitted
CHECK_DEADLOCK FALSE
