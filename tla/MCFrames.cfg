SPECIFICATION Spec
CONSTANTS
    Width = 3
    Height = 2
    Ids = {1, 2, 3, 4}
    Styles = {"plain", "focus"}
    Plain = "plain"
    FocusStyle = "focus"
    N = 3
    Parent <- MCParent
    Layout <- MCLayout
    Variants <- MCVariants
    Focusable = {2}
    Policies = {"unicode", "cjk"}
    Graphemes = {"a", "w", "q"}
    GlyphWidth <- MCWidth
    Pictures = {}
    MaxPlacements = 2
    MaxSources = 2
INVARIANTS TypeOK RepaintIsFull ScreenShowsFrame IdsKeepMeaning
CHECK_DEADLOCK FALSE
