CONSTANTS
    N = 4
    Parent <- MCParent
    Views <- MCViews
    Points = {1, 2}
    Buttons = {primary, secondary}
    MaxBorn = 2
SPECIFICATION Spec
SYMMETRY Symmetry
INVARIANTS NoHoverWithoutPointer
CHECK_DEADLOCK FALSE
