SPECIFICATION Spec
CONSTANTS
    Desired <- MCDesired
    Images = {"i"}
    MaxId = 3
    Writers = {"buffered", "unbuffered"}
    Careful = TRUE
    MaxFaults = 2
INVARIANTS TypeOK RestoredIsClean AppliedIsReal FrameIsShown ForeignImagesKept OneFaultSurvived
CHECK_DEADLOCK FALSE
