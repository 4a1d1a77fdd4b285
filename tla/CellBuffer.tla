------------------------------ MODULE CellBuffer -------------------------------
(***************************************************************************)
(* One row of Buffer (buffer.rs): the invariant-preserving writes of       *)
(* graphemes that are one or two cells wide, and empty cells.  A cell is   *)
(* the head of a grapheme (width > 0), a continuation of one (offset > 0), *)
(* or empty.  Hyperlinks go where the style goes and are left out.         *)
(***************************************************************************)
EXTENDS Integers

CONSTANTS Width,    \* cells of a row
          Ids,      \* GraphemeId
          Styles, Plain

ASSUME CellsAssumption == Width \in Nat /\ Ids \subseteq Nat /\ Plain \in Styles

Columns == 0..Width - 1
Cells == [id : Ids \cup {0}, width : 0..2, offset : 0..1, style : Styles]
Rows == [Columns -> Cells]

Empty(style) == [id |-> 0, width |-> 0, offset |-> 0, style |-> style]
HeadCell(id, width, style) == [id |-> id, width |-> width, offset |-> 0, style |-> style]
TailCell(id, style) == [id |-> id, width |-> 0, offset |-> 1, style |-> style]
Blank == [x \in Columns |-> Empty(Plain)]

IsEmpty(c) == c.width = 0 /\ c.offset = 0

\* Where the grapheme begins that the cell at x is part of.
Start(row, x) == x - row[x].offset

\* A continuation that its grapheme does not vouch for.
Orphan(row, x) ==
    /\ row[x].offset > 0
    /\ ~(/\ Start(row, x) \in Columns
         /\ row[Start(row, x)].width > 0
         /\ row[Start(row, x)].id = row[x].id)

\* Mutation: the head of a grapheme goes on its own.
ClearHeadAt(row, x) == [row EXCEPT ![x] = Empty(Plain)]

ClearSpanAt(row, x) ==
    LET head == row[Start(row, x)]
        Belongs(c) == IF c = Start(row, x) THEN row[c].width = head.width
                      ELSE row[c].id = head.id /\ row[c].offset = c - Start(row, x)
    IN  IF IsEmpty(row[x]) THEN row
        ELSE IF Orphan(row, x) THEN [row EXCEPT ![x] = Empty(Plain)]
        ELSE [c \in Columns |->
                IF c \in Start(row, x)..Start(row, x) + head.width - 1 /\ Belongs(c)
                THEN Empty(Plain) ELSE row[c]]

SetEmpty(row, x, style) == [ClearSpanAt(row, x) EXCEPT ![x] = Empty(style)]

SetGrapheme(row, x, id, width, style) ==
    LET cleared == IF width = 1 THEN ClearSpanAt(row, x)
                   ELSE ClearSpanAt(ClearSpanAt(row, x), x + 1)
    IN  [c \in Columns |-> IF c = x THEN HeadCell(id, width, style)
                           ELSE IF width = 2 /\ c = x + 1 THEN TailCell(id, style)
                           ELSE cleared[c]]
----------------------------------------------------------------------------
\* Every grapheme has all its cells, and every continuation its grapheme: what
\* FramePatch::validate demands of a run, and the terminal makes true anyhow.
Whole(row) ==
    \A x \in Columns :
        /\ row[x].width > 0 => row[x].offset = 0
        /\ row[x].width = 2 => /\ x + 1 \in Columns
                               /\ row[x + 1] = TailCell(row[x].id, row[x].style)
        /\ row[x].offset = 1 => /\ x - 1 \in Columns
                                /\ row[x - 1] = HeadCell(row[x].id, 2, row[x].style)
=============================================================================
