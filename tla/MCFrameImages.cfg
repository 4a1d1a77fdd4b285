SPECIFICATION Spec
CONSTANTS
    Width = 2
    Height = 3
    Ids = {1, 2}
    Styles = {"plain", "focus"}
    Plain = "plain"
    FocusStyle = "focus"
    N = 4
    Parent <- MCParent
    Layout <- MCLayout
    Variants <- MCVariants
    Focusable = {4}
    Policies = {"unicode"}
    Graphemes = {"w"}
    GlyphWidth <- MCWidth
    Pictures = {"i", "j"}
    MaxPlacements = 4
    MaxSources = 2
INVARIANT ImagesAreKept
CHECK_DEADLOCK FALSE
