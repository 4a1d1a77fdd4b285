-------------------------------- MODULE MCFrames -------------------------------
EXTENDS Frames

Rect(x, y, w, h) == (x..x + w - 1) \X (y..y + h - 1)
Text(x, y, what) == [kind |-> "text", at |-> <<x, y>>, area |-> {}, what |-> what]
Image(area, what) == [kind |-> "image", at |-> <<0, 0>>, area |-> area, what |-> <<what>>]
Node(fill, interactive, style, text, paint) ==
    [fill |-> fill, interactive |-> interactive, style |-> style, text |-> text, paint |-> paint]

MCWidth == [unicode |-> [a |-> 1, w |-> 2, q |-> 1], cjk |-> [a |-> 1, w |-> 2, q |-> 2]]

\* A container, a wide text on its first row, and what is drawn over both rows.
MCParent == <<0, 1, 1>>
MCLayout == <<Rect(0, 0, 3, 2), Rect(0, 0, 3, 1), Rect(1, 0, 2, 2)>>
MCVariants ==
    << {Node(FALSE, TRUE, "plain", <<>>, <<>>)},
       {Node(FALSE, FALSE, "plain", t, <<>>) :
          t \in {<<Text(0, 0, <<"w">>)>>, <<Text(0, 0, <<"a", "w">>)>>}},
       {Node(FALSE, TRUE, "plain", <<>>, <<>>), Node(FALSE, TRUE, "plain", <<>>, <<Text(1, 0, <<"q">>)>>),
        Node(TRUE, FALSE, "plain", <<>>, <<>>)} >>
=============================================================================
