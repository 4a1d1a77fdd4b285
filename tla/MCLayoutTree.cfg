CONSTANTS
    MaxGeneration = 1
    NoNode = NoNode
    MaxSlots = 3
    Texts = {1, 2}
    Viewports = {small, large}
    NewLooks <- PlainLook
    MaxEdits = 4
SPECIFICATION LayoutSpec
INVARIANTS LayoutTypeOK RemovedStayUnknown LayoutIsFresh
CHECK_DEADLOCK FALSE
SYMMETRY ViewportSymmetry
