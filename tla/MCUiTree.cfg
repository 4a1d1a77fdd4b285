CONSTANTS
    N = 4
    Parent <- MCParent
    Views <- MCViews
    Points = {1, 2}
    Buttons = {primary, secondary}
    MaxBorn = 2
SPECIFICATION Spec
SYMMETRY Symmetry
INVARIANTS TypeOK FocusIsLegal FocusEventsPair OrphansAreConsumed HoverIsCurrent
PROPERTIES ScopesKeepFocus
CHECK_DEADLOCK FALSE
