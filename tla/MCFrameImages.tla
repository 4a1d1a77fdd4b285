----------------------------- MODULE MCFrameImages -----------------------------
EXTENDS Frames

Rect(x, y, w, h) == (x..x + w - 1) \X (y..y + h - 1)
Text(x, y, what) == [kind |-> "text", at |-> <<x, y>>, area |-> {}, what |-> what]
Image(area, what) == [kind |-> "image", at |-> <<0, 0>>, area |-> area, what |-> <<what>>]
Node(interactive, text, paint) ==
    [fill |-> FALSE, interactive |-> interactive, style |-> "plain", text |-> text, paint |-> paint]

MCWidth == [unicode |-> [w |-> 2]]

\* Images on one, two and three rows that overlap each other.  The small one is drawn
\* before or after the node whose two images reach beyond the rows that this damages.
MCParent == <<0, 1, 1, 1>>
MCLayout == <<Rect(0, 0, 2, 3), Rect(0, 0, 2, 1), Rect(0, 0, 2, 3), Rect(0, 0, 2, 1)>>
High == Image(Rect(1, 0, 1, 3), "i")
Upper == Image(Rect(1, 0, 1, 2), "j")
Lower(what) == Image(Rect(0, 1, 2, 2), what)
Small == Image(Rect(1, 0, 1, 1), "i")
MCVariants ==
    << {Node(FALSE, <<>>, p) : p \in {<<>>, <<Upper>>}},
       {Node(FALSE, <<>>, p) : p \in {<<>>, <<Small>>}},
       {Node(TRUE, <<>>, p) : p \in {<<Lower("i"), High>>, <<High, Lower("j")>>}},
       {Node(FALSE, <<>>, p) : p \in {<<Small>>, <<Text(0, 0, <<"w">>)>>}} >>

\* A selective repaint stacks the images it replays and the ones it does not as a full
\* repaint would, and the patch prints again what lies under images that come and go.
ImagesAreKept == RepaintIsFull /\ ScreenShowsFrame
=============================================================================
