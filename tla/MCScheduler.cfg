CONSTANTS
    Tasks = {t1, t2}
    Threads = {w1, w2}
    Delays = {1}
    Limits = {1, 2}
    MaxWakes = 1
    MaxTimers = 2
    MaxTime = 1
SPECIFICATION FairSpec
INVARIANTS TypeOK NoLostWake FlagMatchesChannel NoneIsPassedTwice
PROPERTIES WorkIsServed
CHECK_DEADLOCK FALSE
