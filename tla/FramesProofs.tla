----------------------------- MODULE FramesProofs ------------------------------
(***************************************************************************)
(* For any tree of any nodes on a screen of any size: what the canvas does *)
(* to a frame, the ids of its graphemes, and the terminal that is given    *)
(* the differences of frames.                                              *)
(***************************************************************************)
EXTENDS Frames, SequenceTheorems, FiniteSetTheorems, WellFoundedInduction, TLAPS

LEMMA LeastExists ==
    ASSUME NEW S, S \subseteq Nat, S # {}
    PROVE  \E x \in S : \A y \in S : x <= y
<1> DEFINE Less == OpToRel(<, Nat)
<1>1. \E x \in S : \A y \in S : <<y, x>> \notin Less
  <2>1. IsWellFoundedOn(Less, Nat)
    BY NatLessThanWellFounded
  <2> QED BY <2>1, WFMin
<1>2. Less = {ss \in Nat \X Nat : ss[1] < ss[2]}
  BY DEF OpToRel
<1> HIDE DEF Less
<1>3. PICK x \in S : \A y \in S : <<y, x>> \notin Less
  BY <1>1
<1>4. ASSUME NEW y \in S PROVE x <= y
  <2>1. x \in Nat /\ y \in Nat /\ <<y, x>> \notin Less
    BY <1>3
  <2> QED BY <1>2, <2>1
<1> QED BY <1>3, <1>4

LEMMA Induction ==
    ASSUME NEW n \in Nat, NEW S, 0 \in S, \A m \in 0 .. n - 1 : m \in S => m + 1 \in S
    PROVE  \A m \in 0..n : m \in S
<1> DEFINE Rest == (0..n) \ S
<1> SUFFICES ASSUME Rest # {} PROVE FALSE
  OBVIOUS
<1>0. Rest \subseteq Nat
  OBVIOUS
<1>1. PICK m \in Rest : \A y \in Rest : m <= y
  <2> HIDE DEF Rest
  <2> QED BY <1>0, LeastExists
<1>2. m # 0 /\ m - 1 \in 0 .. n - 1 /\ m - 1 \notin Rest
  BY <1>1
<1>3. (m - 1) + 1 \in S
  BY <1>2
<1> QED BY <1>1, <1>3

--------------------------------------------------------------------------------
(* Iteration.  A step that keeps to a set is a function on it, and has a run. *)
Walk(r, n, c, F, X) ==
    r \in [0..n -> X] /\ r[0] = c /\ \A m \in 1..n : r[m] = F[m][r[m - 1]]

LEMMA WalkExists ==
    ASSUME NEW n \in Nat, NEW X, NEW c \in X, NEW F, \A m \in 1..n, d \in X : F[m][d] \in X
    PROVE  \E r : Walk(r, n, c, F, X)
<1> DEFINE S == {k \in 0..n : \E r : Walk(r, k, c, F, X)}
<1>1. 0 \in S
  <2> DEFINE r == [m \in 0..0 |-> c]
  <2>1. Walk(r, 0, c, F, X)
    BY DEF Walk
  <2> HIDE DEF r
  <2> QED BY <2>1
<1>2. ASSUME NEW m \in 0 .. n - 1, m \in S PROVE m + 1 \in S
  <2>1. PICK r : Walk(r, m, c, F, X)
    BY <1>2
  <2> DEFINE e == F[m + 1][r[m]]
             q == [k \in 0 .. m + 1 |-> IF k = m + 1 THEN e ELSE r[k]]
  <2>2. e \in X
    BY <2>1 DEF Walk
  <2> HIDE DEF e
  <2>3. q \in [0 .. m + 1 -> X] /\ q[0] = c
    BY <2>1, <2>2 DEF Walk
  <2>4. q[m + 1] = e /\ \A k \in 0..m : q[k] = r[k]
    OBVIOUS
  <2> HIDE DEF q
  <2>5. ASSUME NEW k \in 1..m + 1 PROVE q[k] = F[k][q[k - 1]]
    <3>1. CASE k = m + 1
      BY <2>4, <3>1 DEF e
    <3>2. CASE k \in 1..m
      <4>1. q[k] = r[k] /\ q[k - 1] = r[k - 1]
        BY <2>4, <3>2
      <4> QED BY <2>1, <3>2, <4>1 DEF Walk
    <3> QED BY <3>1, <3>2
  <2>6. Walk(q, m + 1, c, F, X)
    BY <2>3, <2>5 DEF Walk
  <2> QED BY <1>2, <2>6
<1>3. \A m \in 0..n : m \in S
  <2> HIDE DEF S
  <2> QED BY <1>1, <1>2, Induction
<1> QED BY <1>3

--------------------------------------------------------------------------------
(* Rows of cells.                                                          *)
\* A set of columns that no wide grapheme straddles, and a row without it.
Closed(row, S) == \A c \in Columns : row[c].width = 2 => (c \in S <=> c + 1 \in S)
Cleared(row, S) == [c \in Columns |-> IF c \in S THEN Empty(Plain) ELSE row[c]]

LEMMA EmptyCell ==
    ASSUME NEW style \in Styles
    PROVE  Empty(style) \in Cells /\ IsEmpty(Empty(style))
BY DEF Empty, Cells, IsEmpty

\* The halves of a wide grapheme.
LEMMA Halves ==
    ASSUME NEW row, Whole(row), NEW c \in Columns
    PROVE  /\ row[c].width = 2 => /\ c + 1 \in Columns /\ row[c + 1].id = row[c].id
                                  /\ row[c + 1].offset = 1 /\ row[c + 1].width = 0
           /\ row[c].offset = 1 => /\ c - 1 \in Columns /\ row[c - 1].id = row[c].id
                                   /\ row[c - 1].offset = 0 /\ row[c - 1].width = 2
<1>1. ASSUME row[c].width = 2
      PROVE  /\ c + 1 \in Columns /\ row[c + 1].id = row[c].id
             /\ row[c + 1].offset = 1 /\ row[c + 1].width = 0
  <2>1. c + 1 \in Columns /\ row[c + 1] = TailCell(row[c].id, row[c].style)
    BY <1>1 DEF Whole
  <2> QED BY <2>1 DEF TailCell
<1>2. ASSUME row[c].offset = 1
      PROVE  /\ c - 1 \in Columns /\ row[c - 1].id = row[c].id
             /\ row[c - 1].offset = 0 /\ row[c - 1].width = 2
  <2>1. c - 1 \in Columns /\ row[c - 1] = HeadCell(row[c].id, 2, row[c].style)
    BY <1>2 DEF Whole
  <2> QED BY <2>1 DEF HeadCell
<1> QED BY <1>1, <1>2

\* Clearing whole graphemes leaves whole graphemes.
LEMMA ClearedIsWhole ==
    ASSUME NEW row \in Rows, Whole(row), NEW S, Closed(row, S)
    PROVE  Cleared(row, S) \in Rows /\ Whole(Cleared(row, S))
<1> DEFINE r == Cleared(row, S)
<1>1. r \in Rows
  BY EmptyCell, CellsAssumption DEF Rows, Cleared
<1>2. \A c \in Columns : /\ c \in S => r[c] = Empty(Plain)
                         /\ c \notin S => r[c] = row[c]
  BY DEF Cleared
<1>3. \A c \in Columns : c - 1 \in Columns => (c - 1) + 1 = c
  BY DEF Columns
<1> HIDE DEF r
<1> SUFFICES ASSUME NEW x \in Columns
             PROVE  /\ r[x].width > 0 => r[x].offset = 0
                    /\ r[x].width = 2 => /\ x + 1 \in Columns
                                         /\ r[x + 1] = TailCell(r[x].id, r[x].style)
                    /\ r[x].offset = 1 => /\ x - 1 \in Columns
                                          /\ r[x - 1] = HeadCell(r[x].id, 2, r[x].style)
  BY <1>1 DEF Whole, r
<1>4. CASE x \in S
  BY <1>2, <1>4 DEF Empty
<1>5. CASE x \notin S
  <2>1. r[x] = row[x]
    BY <1>2, <1>5
  <2>2. row[x].width > 0 => row[x].offset = 0
    BY DEF Whole
  <2>3. ASSUME row[x].width = 2
        PROVE  x + 1 \in Columns /\ r[x + 1] = TailCell(row[x].id, row[x].style)
    <3>1. x + 1 \in Columns /\ row[x + 1] = TailCell(row[x].id, row[x].style)
      BY <2>3 DEF Whole
    <3>2. x + 1 \notin S
      BY <1>5, <2>3 DEF Closed
    <3> QED BY <1>2, <3>1, <3>2
  <2>4. ASSUME row[x].offset = 1
        PROVE  x - 1 \in Columns /\ r[x - 1] = HeadCell(row[x].id, 2, row[x].style)
    <3>1. x - 1 \in Columns /\ row[x - 1] = HeadCell(row[x].id, 2, row[x].style)
      BY <2>4 DEF Whole
    <3>2. row[x - 1].width = 2
      BY <3>1 DEF HeadCell
    <3>3. x - 1 \notin S
      BY <1>3, <1>5, <3>1, <3>2 DEF Closed
    <3> QED BY <1>2, <3>1, <3>3
  <2> QED BY <2>1, <2>2, <2>3, <2>4
<1> QED BY <1>4, <1>5

\* clear_span_at removes the grapheme at a column and nothing else.
LEMMA ClearSpanClears ==
    ASSUME NEW row \in Rows, Whole(row), NEW x \in Columns
    PROVE  \E S : /\ Closed(row, S) /\ ClearSpanAt(row, x) = Cleared(row, S)
                  /\ IsEmpty(Cleared(row, S)[x])
<1> DEFINE r == ClearSpanAt(row, x)
<1>0. /\ row \in [Columns -> Cells] /\ Columns \subseteq Int
      /\ \A c \in Columns : row[c].width \in 0..2 /\ row[c].offset \in 0..1
  BY CellsAssumption DEF Rows, Cells, Columns
<1>a. \A c \in Columns : row[c].width = 2 =>
         /\ c + 1 \in Columns /\ row[c + 1].id = row[c].id
         /\ row[c + 1].offset = 1 /\ row[c + 1].width = 0
  BY Halves
<1>1. CASE IsEmpty(row[x])
  <2>1. ClearSpanAt(row, x) = row
    BY <1>1 DEF ClearSpanAt
  <2>2. Cleared(row, {}) = row /\ Closed(row, {})
    BY <1>0 DEF Cleared, Closed
  <2> QED BY <1>1, <2>1, <2>2
<1>2. CASE row[x].offset = 1
  <2>1. /\ x - 1 \in Columns /\ row[x - 1] = HeadCell(row[x].id, 2, row[x].style)
        /\ Start(row, x) = x - 1
    BY <1>0, <1>2 DEF Whole, Start
  <2>2. row[x - 1].width = 2 /\ row[x - 1].id = row[x].id /\ row[x - 1].offset = 0
    BY <2>1 DEF HeadCell
  <2>3. ~IsEmpty(row[x]) /\ ~Orphan(row, x)
    BY <1>2, <2>1, <2>2 DEF IsEmpty, Orphan
  <2>4. ClearSpanAt(row, x) = Cleared(row, {x - 1, x})
    BY <1>0, <1>2, <2>1, <2>2, <2>3 DEF ClearSpanAt, Cleared
  <2>5. Closed(row, {x - 1, x})
    <3> SUFFICES ASSUME NEW c \in Columns, row[c].width = 2
                 PROVE  c \in {x - 1, x} <=> c + 1 \in {x - 1, x}
      BY DEF Closed
    <3>1. row[x].width # 2
      BY <1>2 DEF Whole
    <3>2. c + 1 # x - 1
      BY <1>a, <2>2
    <3> QED BY <1>0, <3>1, <3>2
  <2>6. IsEmpty(Cleared(row, {x - 1, x})[x])
    BY DEF Cleared, Empty, IsEmpty
  <2> QED BY <2>4, <2>5, <2>6
<1>3. CASE row[x].offset = 0 /\ row[x].width = 1
  <2>1. Start(row, x) = x /\ ~IsEmpty(row[x]) /\ ~Orphan(row, x)
    BY <1>0, <1>3 DEF Start, IsEmpty, Orphan
  <2>2. ClearSpanAt(row, x) = Cleared(row, {x})
    BY <1>0, <1>3, <2>1 DEF ClearSpanAt, Cleared
  <2>3. Closed(row, {x})
    BY <1>0, <1>a, <1>3 DEF Closed
  <2>4. IsEmpty(Cleared(row, {x})[x])
    BY DEF Cleared, Empty, IsEmpty
  <2> QED BY <2>2, <2>3, <2>4
<1>4. CASE row[x].offset = 0 /\ row[x].width = 2
  <2>1. Start(row, x) = x /\ ~IsEmpty(row[x]) /\ ~Orphan(row, x)
    BY <1>0, <1>4 DEF Start, IsEmpty, Orphan
  <2>2. /\ x + 1 \in Columns /\ row[x + 1].id = row[x].id /\ row[x + 1].offset = 1
    BY <1>a, <1>4
  <2>3. ClearSpanAt(row, x) = Cleared(row, {x, x + 1})
    BY <1>0, <1>4, <2>1, <2>2 DEF ClearSpanAt, Cleared
  <2>4. Closed(row, {x, x + 1})
    BY <1>0, <1>a, <1>4, <2>2 DEF Closed
  <2>5. IsEmpty(Cleared(row, {x, x + 1})[x])
    BY DEF Cleared, Empty, IsEmpty
  <2> QED BY <2>3, <2>4, <2>5
<1> QED BY <1>0, <1>1, <1>2, <1>3, <1>4 DEF IsEmpty
---------------------------------------------------------------------------
\* Writing into empty cells keeps the rest as it is.
LEMMA WriteNarrow ==
    ASSUME NEW r \in Rows, Whole(r), NEW x \in Columns, IsEmpty(r[x]), NEW cell \in Cells,
           cell.offset = 0, cell.width # 2
    PROVE  [r EXCEPT ![x] = cell] \in Rows /\ Whole([r EXCEPT ![x] = cell])
<1> DEFINE new == [r EXCEPT ![x] = cell]
<1>1. new \in Rows /\ new[x] = cell /\ \A c \in Columns : c # x => new[c] = r[c]
  BY DEF Rows
<1>2. \A c \in Columns : /\ r[c].width = 2 => c # x /\ c + 1 # x
                         /\ r[c].offset = 1 => c # x /\ c - 1 # x
  <2> SUFFICES ASSUME NEW c \in Columns
               PROVE  /\ r[c].width = 2 => c # x /\ c + 1 # x
                      /\ r[c].offset = 1 => c # x /\ c - 1 # x
    OBVIOUS
  <2>1. r[x].width = 0 /\ r[x].offset = 0
    BY DEF IsEmpty
  <2>2. r[c].width = 2 => r[c + 1].offset = 1
    BY Halves
  <2>3. r[c].offset = 1 => r[c - 1].width = 2
    BY Halves
  <2> QED BY <2>1, <2>2, <2>3
<1> HIDE DEF new
<1>3. Whole(new)
  <2> SUFFICES ASSUME NEW c \in Columns
               PROVE  /\ new[c].width > 0 => new[c].offset = 0
                      /\ new[c].width = 2 => /\ c + 1 \in Columns
                                             /\ new[c + 1] = TailCell(new[c].id, new[c].style)
                      /\ new[c].offset = 1 => /\ c - 1 \in Columns
                                              /\ new[c - 1] = HeadCell(new[c].id, 2, new[c].style)
    BY DEF Whole
  <2>1. CASE c = x
    BY <1>1, <2>1
  <2>2. CASE c # x
    BY <1>1, <1>2, <2>2 DEF Whole
  <2> QED BY <2>1, <2>2
<1> QED BY <1>1, <1>3 DEF new

\* set_empty keeps a row whole.
THEOREM SetEmptyKeepsWhole ==
    ASSUME NEW row \in Rows, Whole(row), NEW x \in Columns, NEW style \in Styles
    PROVE  SetEmpty(row, x, style) \in Rows /\ Whole(SetEmpty(row, x, style))
<1>1. PICK S : Closed(row, S) /\ ClearSpanAt(row, x) = Cleared(row, S) /\ IsEmpty(Cleared(row, S)[x])
  BY ClearSpanClears
<1>2. Cleared(row, S) \in Rows /\ Whole(Cleared(row, S))
  BY <1>1, ClearedIsWhole
<1>3. Empty(style) \in Cells /\ Empty(style).offset = 0 /\ Empty(style).width # 2
  BY EmptyCell DEF Empty
<1> QED BY <1>1, <1>2, <1>3, WriteNarrow DEF SetEmpty

\* set_grapheme keeps a row whole, also when the grapheme is drawn over halves of
\* two wide ones.
THEOREM SetGraphemeKeepsWhole ==
    ASSUME NEW row \in Rows, Whole(row), NEW x \in Columns, NEW id \in Ids,
           NEW width \in 1..2, NEW style \in Styles, x + width - 1 \in Columns
    PROVE  /\ SetGrapheme(row, x, id, width, style) \in Rows
           /\ Whole(SetGrapheme(row, x, id, width, style))
<1> DEFINE new == SetGrapheme(row, x, id, width, style)
<1>1. PICK S : Closed(row, S) /\ ClearSpanAt(row, x) = Cleared(row, S) /\ IsEmpty(Cleared(row, S)[x])
  BY ClearSpanClears
<1> DEFINE r == Cleared(row, S)
<1>2. r \in Rows /\ Whole(r)
  BY <1>1, ClearedIsWhole
<1>3. HeadCell(id, width, style) \in Cells /\ TailCell(id, style) \in Cells
  BY DEF HeadCell, TailCell, Cells
<1>4. CASE width = 1
  <2>1. new = [r EXCEPT ![x] = HeadCell(id, 1, style)]
    <3>1. new = [c \in Columns |-> IF c = x THEN HeadCell(id, 1, style) ELSE r[c]]
      BY <1>1, <1>4 DEF SetGrapheme
    <3>2. r \in [Columns -> Cells]
      BY <1>2 DEF Rows
    <3> HIDE DEF r, new
    <3> QED BY <3>1, <3>2
  <2>2. HeadCell(id, 1, style).offset = 0 /\ HeadCell(id, 1, style).width # 2
    BY DEF HeadCell
  <2> HIDE DEF r, new
  <2>3. new \in Rows /\ Whole(new)
    BY <1>1, <1>2, <1>3, <1>4, <2>1, <2>2, WriteNarrow DEF r
  <2> QED BY <2>3 DEF new
<1>5. CASE width = 2
  <2>1. x + 1 \in Columns /\ x \in Int /\ x + 1 # x
    BY <1>5, CellsAssumption DEF Columns
  <2> HIDE DEF r
  <2>2. PICK T : Closed(r, T) /\ ClearSpanAt(r, x + 1) = Cleared(r, T) /\ IsEmpty(Cleared(r, T)[x + 1])
    BY <1>2, <2>1, ClearSpanClears
  <2> DEFINE q == Cleared(r, T)
  <2>3. q \in Rows /\ Whole(q) /\ IsEmpty(q[x + 1])
    BY <1>2, <2>2, ClearedIsWhole
  <2>4. IsEmpty(q[x])
    BY <1>1 DEF r, Cleared, IsEmpty, Empty
  <2>5. new = [c \in Columns |-> IF c = x THEN HeadCell(id, 2, style)
                                 ELSE IF c = x + 1 THEN TailCell(id, style) ELSE q[c]]
    BY <1>1, <1>5, <2>2 DEF SetGrapheme, r
  <2> HIDE DEF q, new
  <2>6. new \in Rows
    BY <1>3, <1>5, <2>3, <2>5 DEF Rows
  <2>7. /\ new[x] = HeadCell(id, 2, style) /\ new[x + 1] = TailCell(id, style)
        /\ \A c \in Columns : c # x /\ c # x + 1 => new[c] = q[c]
    BY <2>1, <2>5
  <2>8. \A c \in Columns : /\ q[c].width = 2 => c \notin {x, x + 1} /\ c + 1 \notin {x, x + 1}
                           /\ q[c].offset = 1 => c \notin {x, x + 1} /\ c - 1 \notin {x, x + 1}
    <3> SUFFICES ASSUME NEW c \in Columns
                 PROVE  /\ q[c].width = 2 => c \notin {x, x + 1} /\ c + 1 \notin {x, x + 1}
                        /\ q[c].offset = 1 => c \notin {x, x + 1} /\ c - 1 \notin {x, x + 1}
      OBVIOUS
    <3>1. \A e \in {x, x + 1} : q[e].width = 0 /\ q[e].offset = 0
      BY <2>3, <2>4 DEF IsEmpty
    <3>2. q[c].width = 2 => q[c + 1].offset = 1
      BY <2>3, Halves
    <3>3. q[c].offset = 1 => q[c - 1].width = 2
      BY <2>3, Halves
    <3> QED BY <3>1, <3>2, <3>3
  <2>9. Whole(new)
    <3> SUFFICES ASSUME NEW c \in Columns
                 PROVE  /\ new[c].width > 0 => new[c].offset = 0
                        /\ new[c].width = 2 => /\ c + 1 \in Columns
                                               /\ new[c + 1] = TailCell(new[c].id, new[c].style)
                        /\ new[c].offset = 1 => /\ c - 1 \in Columns
                                                /\ new[c - 1] = HeadCell(new[c].id, 2, new[c].style)
      BY DEF Whole
    <3>1. CASE c = x
      BY <2>1, <2>7, <3>1 DEF HeadCell
    <3>2. CASE c = x + 1
      <4>1. new[c] = TailCell(id, style) /\ c - 1 = x
        BY <2>1, <2>7, <3>2
      <4> QED BY <2>7, <4>1 DEF TailCell
    <3>3. CASE c # x /\ c # x + 1
      BY <2>3, <2>7, <2>8, <3>3 DEF Whole
    <3> QED BY <3>1, <3>2, <3>3
  <2> QED BY <2>6, <2>9 DEF new
<1> QED BY <1>4, <1>5

\* It has only one.
LEMMA WalkOnly ==
    ASSUME NEW n \in Nat, NEW X, NEW c, NEW F, NEW r, Walk(r, n, c, F, X),
           NEW g, g[0] = c, \A m \in 1..n : g[m - 1] \in X => g[m] = F[m][g[m - 1]]
    PROVE  \A m \in 0..n : g[m] = r[m]
<1> DEFINE S == {m \in 0..n : g[m] = r[m]}
<1>1. 0 \in S
  BY DEF Walk
<1>2. ASSUME NEW m \in 0 .. n - 1, m \in S PROVE m + 1 \in S
  <2>1. m + 1 \in 1..n /\ (m + 1) - 1 = m /\ m \in 0..n
    OBVIOUS
  <2>2. r[m + 1] = F[m + 1][r[m]] /\ r[m] \in X
    BY <2>1 DEF Walk
  <2>3. g[m + 1] = F[m + 1][g[m]]
    BY <1>2, <2>1, <2>2
  <2> QED BY <1>2, <2>1, <2>2, <2>3
<1>3. \A m \in 0..n : m \in S
  <2> HIDE DEF S
  <2> QED BY <1>1, <1>2, Induction
<1> QED BY <1>3

\* The iterations of the model, one step after the other.
PickStep(d, m, scene, indices) ==
    IF m \in indices THEN Append(d, scene[m]) ELSE d

PickRun(g, n, X, scene, indices) ==
    /\ g \in [0..n -> X] /\ g[0] = <<>>
    /\ \A m \in 1..n : g[m] = PickStep(g[m - 1], m, scene, indices)
    /\ Pick(scene, indices) = g[n]

LEMMA PickWalks ==
    ASSUME NEW scene, NEW indices,
           NEW n \in Nat, n = Len(scene), NEW X, <<>> \in X,
           \A m \in 1..n, d \in X : PickStep(d, m, scene, indices) \in X
    PROVE  \E g : PickRun(g, n, X, scene, indices)
<1> DEFINE start == <<>>
           F == [m \in 1..n |-> [d \in X |-> PickStep(d, m, scene, indices)]]
           Run(g) == g = [m \in 0..n |-> IF m = 0 THEN start ELSE PickStep(g[m - 1], m, scene, indices)]
<1>1. \A m \in 1..n, d \in X : F[m][d] = PickStep(d, m, scene, indices)
  OBVIOUS
<1> HIDE DEF F
<1>0. start \in X
  OBVIOUS
<1> HIDE DEF start
<1>2. PICK r : Walk(r, n, start, F, X)
  <2>1. \A m \in 1..n, d \in X : F[m][d] \in X
    BY <1>1
  <2> QED BY <1>0, <2>1, WalkExists
<1>3. Run(r)
  BY <1>1, <1>2 DEF Walk
<1>4. PICK g : Run(g) /\ Pick(scene, indices) = g[n]
  BY <1>3 DEF start, Pick, Iterate, PickStep
<1>5. \A m \in 0..n : g[m] = IF m = 0 THEN start ELSE PickStep(g[m - 1], m, scene, indices)
  BY <1>4, Zenon
<1> HIDE DEF Run
<1>6. g[0] = start /\ \A m \in 1..n : g[m] = PickStep(g[m - 1], m, scene, indices)
  BY <1>5
<1>7. \A m \in 0..n : g[m] = r[m]
  <2>1. \A m \in 1..n : g[m - 1] \in X => g[m] = F[m][g[m - 1]]
    BY <1>1, <1>6
  <2> QED BY <1>2, <1>6, <2>1, WalkOnly, SMTT(30)
<1>8. \A m \in 0..n : g[m] \in X
  BY <1>2, <1>7 DEF Walk
<1>9. g \in [0..n -> X]
  BY <1>4, <1>8 DEF Run
<1> QED BY <1>4, <1>6, <1>9 DEF start, PickRun

TextStep(d, m, text, cx) ==
    <<DrawGrapheme(d[1], d[2], text[m], cx), Right(d[2], GlyphWidth[cx.policy][text[m]])>>

TextRun(g, n, X, c, at, text, cx) ==
    /\ g \in [0..n -> X] /\ g[0] = <<c, at>>
    /\ \A m \in 1..n : g[m] = TextStep(g[m - 1], m, text, cx)
    /\ DrawText(c, at, text, cx) = g[n][1]

LEMMA TextWalks ==
    ASSUME NEW c, NEW at, NEW text, NEW cx, NEW start, start = <<c, at>>,
           NEW n \in Nat, n = Len(text), NEW X, start \in X,
           \A m \in 1..n, d \in X : TextStep(d, m, text, cx) \in X
    PROVE  \E g : TextRun(g, n, X, c, at, text, cx)
<1> DEFINE F == [m \in 1..n |-> [d \in X |-> TextStep(d, m, text, cx)]]
           Run(g) == g = [m \in 0..n |-> IF m = 0 THEN start ELSE TextStep(g[m - 1], m, text, cx)]
<1>1. \A m \in 1..n, d \in X : F[m][d] = TextStep(d, m, text, cx)
  OBVIOUS
<1> HIDE DEF F
<1>2. PICK r : Walk(r, n, start, F, X)
  <2>1. \A m \in 1..n, d \in X : F[m][d] \in X
    BY <1>1
  <2> QED BY <2>1, WalkExists
<1>3. Run(r)
  BY <1>1, <1>2, SMTT(30) DEF Walk
<1>4. PICK g : Run(g) /\ DrawText(c, at, text, cx) = g[n][1]
  <2> DEFINE h == CHOOSE g : Run(g)
  <2>1. Run(h)
    BY <1>3, Zenon
  <2>2. DrawText(c, at, text, cx) = h[n][1]
    BY Zenon DEF DrawText, Iterate, TextStep
  <2> QED BY <2>1, <2>2, Zenon
<1>5. \A m \in 0..n : g[m] = IF m = 0 THEN start ELSE TextStep(g[m - 1], m, text, cx)
  BY <1>4, Zenon
<1> HIDE DEF Run
<1>6. g[0] = start /\ \A m \in 1..n : g[m] = TextStep(g[m - 1], m, text, cx)
  BY <1>5, SMTT(30)
<1>7. \A m \in 0..n : g[m] = r[m]
  <2>1. \A m \in 1..n : g[m - 1] \in X => g[m] = F[m][g[m - 1]]
    BY <1>1, <1>6
  <2> QED BY <1>2, <1>6, <2>1, WalkOnly, SMTT(30)
<1>8. \A m \in 0..n : g[m] \in X
  BY <1>2, <1>7 DEF Walk
<1>9. g \in [0..n -> X]
  BY <1>4, <1>8 DEF Run
<1> QED BY <1>4, <1>6, <1>9 DEF TextRun

FillStep(d, m, points, cx) ==
    IF Point(m) \in points \cap cx.clip /\ Point(m)[2] \in cx.lines
    THEN FillCell(d, Point(m), cx) ELSE d

FillRun(g, n, X, c, points, cx) ==
    /\ g \in [0..n -> X] /\ g[0] = c
    /\ \A m \in 1..n : g[m] = FillStep(g[m - 1], m, points, cx)
    /\ Fill(c, points, cx) = g[n]

LEMMA FillWalks ==
    ASSUME NEW c, NEW points, NEW cx,
           NEW n \in Nat, n = Width * Height, NEW X, c \in X,
           \A m \in 1..n, d \in X : FillStep(d, m, points, cx) \in X
    PROVE  \E g : FillRun(g, n, X, c, points, cx)
<1> DEFINE F == [m \in 1..n |-> [d \in X |-> FillStep(d, m, points, cx)]]
           Run(g) == g = [m \in 0..n |-> IF m = 0 THEN c ELSE FillStep(g[m - 1], m, points, cx)]
<1>1. \A m \in 1..n, d \in X : F[m][d] = FillStep(d, m, points, cx)
  OBVIOUS
<1> HIDE DEF F
<1>2. PICK r : Walk(r, n, c, F, X)
  <2>1. \A m \in 1..n, d \in X : F[m][d] \in X
    BY <1>1
  <2> QED BY <2>1, WalkExists
<1>3. Run(r)
  BY <1>1, <1>2 DEF Walk
<1>4. PICK g : Run(g) /\ Fill(c, points, cx) = g[n]
  BY <1>3 DEF Fill, Iterate, FillStep
<1>5. \A m \in 0..n : g[m] = IF m = 0 THEN c ELSE FillStep(g[m - 1], m, points, cx)
  BY <1>4, Zenon
<1> HIDE DEF Run
<1>6. g[0] = c /\ \A m \in 1..n : g[m] = FillStep(g[m - 1], m, points, cx)
  BY <1>5
<1>7. \A m \in 0..n : g[m] = r[m]
  <2>1. \A m \in 1..n : g[m - 1] \in X => g[m] = F[m][g[m - 1]]
    BY <1>1, <1>6
  <2> QED BY <1>2, <1>6, <2>1, WalkOnly, SMTT(30)
<1>8. \A m \in 0..n : g[m] \in X
  BY <1>2, <1>7 DEF Walk
<1>9. g \in [0..n -> X]
  BY <1>4, <1>8 DEF Run
<1> QED BY <1>4, <1>6, <1>9 DEF FillRun

DrawStep(d, m, drawings, cx) ==
    Draw(d, drawings[m], cx)

DrawRun(g, n, X, c, drawings, cx) ==
    /\ g \in [0..n -> X] /\ g[0] = c
    /\ \A m \in 1..n : g[m] = DrawStep(g[m - 1], m, drawings, cx)
    /\ DrawAll(c, drawings, cx) = g[n]

LEMMA DrawWalks ==
    ASSUME NEW c, NEW drawings, NEW cx,
           NEW n \in Nat, n = Len(drawings), NEW X, c \in X,
           \A m \in 1..n, d \in X : DrawStep(d, m, drawings, cx) \in X
    PROVE  \E g : DrawRun(g, n, X, c, drawings, cx)
<1> DEFINE F == [m \in 1..n |-> [d \in X |-> DrawStep(d, m, drawings, cx)]]
           Run(g) == g = [m \in 0..n |-> IF m = 0 THEN c ELSE DrawStep(g[m - 1], m, drawings, cx)]
<1>1. \A m \in 1..n, d \in X : F[m][d] = DrawStep(d, m, drawings, cx)
  OBVIOUS
<1> HIDE DEF F
<1>2. PICK r : Walk(r, n, c, F, X)
  <2>1. \A m \in 1..n, d \in X : F[m][d] \in X
    BY <1>1
  <2> QED BY <2>1, WalkExists
<1>3. Run(r)
  BY <1>1, <1>2 DEF Walk
<1>4. PICK g : Run(g) /\ DrawAll(c, drawings, cx) = g[n]
  BY <1>3 DEF DrawAll, Iterate, DrawStep
<1>5. \A m \in 0..n : g[m] = IF m = 0 THEN c ELSE DrawStep(g[m - 1], m, drawings, cx)
  BY <1>4, Zenon
<1> HIDE DEF Run
<1>6. g[0] = c /\ \A m \in 1..n : g[m] = DrawStep(g[m - 1], m, drawings, cx)
  BY <1>5
<1>7. \A m \in 0..n : g[m] = r[m]
  <2>1. \A m \in 1..n : g[m - 1] \in X => g[m] = F[m][g[m - 1]]
    BY <1>1, <1>6
  <2> QED BY <1>2, <1>6, <2>1, WalkOnly, SMTT(30)
<1>8. \A m \in 0..n : g[m] \in X
  BY <1>2, <1>7 DEF Walk
<1>9. g \in [0..n -> X]
  BY <1>4, <1>8 DEF Run
<1> QED BY <1>4, <1>6, <1>9 DEF DrawRun

PaintStep(d, m, v, focused, lines, p) ==
    PaintNode(d, m, v, focused, lines, p)

PaintRun(g, n, X, c, v, focused, lines, p) ==
    /\ g \in [0..n -> X] /\ g[0] = c
    /\ \A m \in 1..n : g[m] = PaintStep(g[m - 1], m, v, focused, lines, p)
    /\ PaintAll(c, v, focused, lines, p) = [g[n] EXCEPT !.scene = FinishRepaint(@)]

LEMMA PaintWalks ==
    ASSUME NEW c, NEW v, NEW focused, NEW lines, NEW p,
           NEW n \in Nat, n = N, NEW X, c \in X,
           \A m \in 1..n, d \in X : PaintStep(d, m, v, focused, lines, p) \in X
    PROVE  \E g : PaintRun(g, n, X, c, v, focused, lines, p)
<1> DEFINE F == [m \in 1..n |-> [d \in X |-> PaintStep(d, m, v, focused, lines, p)]]
           Run(g) == g = [m \in 0..n |-> IF m = 0 THEN c ELSE PaintStep(g[m - 1], m, v, focused, lines, p)]
<1>1. \A m \in 1..n, d \in X : F[m][d] = PaintStep(d, m, v, focused, lines, p)
  OBVIOUS
<1> HIDE DEF F
<1>2. PICK r : Walk(r, n, c, F, X)
  <2>1. \A m \in 1..n, d \in X : F[m][d] \in X
    BY <1>1
  <2> QED BY <2>1, WalkExists
<1>3. Run(r)
  BY <1>1, <1>2 DEF Walk
<1>4. PICK g : Run(g) /\ PaintAll(c, v, focused, lines, p) = [g[n] EXCEPT !.scene = FinishRepaint(@)]
  BY <1>3 DEF PaintAll, Iterate, PaintStep
<1>5. \A m \in 0..n : g[m] = IF m = 0 THEN c ELSE PaintStep(g[m - 1], m, v, focused, lines, p)
  BY <1>4, Zenon
<1> HIDE DEF Run
<1>6. g[0] = c /\ \A m \in 1..n : g[m] = PaintStep(g[m - 1], m, v, focused, lines, p)
  BY <1>5
<1>7. \A m \in 0..n : g[m] = r[m]
  <2>1. \A m \in 1..n : g[m - 1] \in X => g[m] = F[m][g[m - 1]]
    BY <1>1, <1>6
  <2> QED BY <1>2, <1>6, <2>1, WalkOnly, SMTT(30)
<1>8. \A m \in 0..n : g[m] \in X
  BY <1>2, <1>7 DEF Walk
<1>9. g \in [0..n -> X]
  BY <1>4, <1>8 DEF Run
<1> QED BY <1>4, <1>6, <1>9 DEF PaintRun

SpansStep(d, m, old, new) ==
    d \cup UNION {SpanIn(old, at) \cup SpanIn(new, at) : at \in {a \in d : a[1] = m - 1}}

SpansRun(g, n, X, c, old, new) ==
    /\ g \in [0..n -> X] /\ g[0] = c
    /\ \A m \in 1..n : g[m] = SpansStep(g[m - 1], m, old, new)
    /\ IncludeSpans(old, new, c) = g[n]

LEMMA SpansWalk ==
    ASSUME NEW c, NEW old, NEW new,
           NEW n \in Nat, n = Width, NEW X, c \in X,
           \A m \in 1..n, d \in X : SpansStep(d, m, old, new) \in X
    PROVE  \E g : SpansRun(g, n, X, c, old, new)
<1> DEFINE F == [m \in 1..n |-> [d \in X |-> SpansStep(d, m, old, new)]]
           Run(g) == g = [m \in 0..n |-> IF m = 0 THEN c ELSE SpansStep(g[m - 1], m, old, new)]
<1>1. \A m \in 1..n, d \in X : F[m][d] = SpansStep(d, m, old, new)
  OBVIOUS
<1> HIDE DEF F
<1>2. PICK r : Walk(r, n, c, F, X)
  <2>1. \A m \in 1..n, d \in X : F[m][d] \in X
    BY <1>1
  <2> QED BY <2>1, WalkExists
<1>3. Run(r)
  BY <1>1, <1>2 DEF Walk
<1>4. PICK g : Run(g) /\ IncludeSpans(old, new, c) = g[n]
  BY <1>3 DEF IncludeSpans, Iterate, SpansStep
<1>5. \A m \in 0..n : g[m] = IF m = 0 THEN c ELSE SpansStep(g[m - 1], m, old, new)
  BY <1>4, Zenon
<1> HIDE DEF Run
<1>6. g[0] = c /\ \A m \in 1..n : g[m] = SpansStep(g[m - 1], m, old, new)
  BY <1>5
<1>7. \A m \in 0..n : g[m] = r[m]
  <2>1. \A m \in 1..n : g[m - 1] \in X => g[m] = F[m][g[m - 1]]
    BY <1>1, <1>6
  <2> QED BY <1>2, <1>6, <2>1, WalkOnly, SMTT(30)
<1>8. \A m \in 0..n : g[m] \in X
  BY <1>2, <1>7 DEF Walk
<1>9. g \in [0..n -> X]
  BY <1>4, <1>8 DEF Run
<1> QED BY <1>4, <1>6, <1>9 DEF SpansRun

PrintStep(d, m, frame, at) ==
    IF Point(m) \in at /\ Cell(frame, Point(m)).offset = 0
    THEN Overprint(d, Point(m), Glyphs(frame, Point(m))) ELSE d

PrintRun(g, n, X, c, frame, at) ==
    /\ g \in [0..n -> X] /\ g[0] = c
    /\ \A m \in 1..n : g[m] = PrintStep(g[m - 1], m, frame, at)
    /\ Printed(c, frame, at) = g[n]

LEMMA PrintWalks ==
    ASSUME NEW c, NEW frame, NEW at,
           NEW n \in Nat, n = Width * Height, NEW X, c \in X,
           \A m \in 1..n, d \in X : PrintStep(d, m, frame, at) \in X
    PROVE  \E g : PrintRun(g, n, X, c, frame, at)
<1> DEFINE F == [m \in 1..n |-> [d \in X |-> PrintStep(d, m, frame, at)]]
           Run(g) == g = [m \in 0..n |-> IF m = 0 THEN c ELSE PrintStep(g[m - 1], m, frame, at)]
<1>1. \A m \in 1..n, d \in X : F[m][d] = PrintStep(d, m, frame, at)
  OBVIOUS
<1> HIDE DEF F
<1>2. PICK r : Walk(r, n, c, F, X)
  <2>1. \A m \in 1..n, d \in X : F[m][d] \in X
    BY <1>1
  <2> QED BY <2>1, WalkExists
<1>3. Run(r)
  BY <1>1, <1>2 DEF Walk
<1>4. PICK g : Run(g) /\ Printed(c, frame, at) = g[n]
  BY <1>3 DEF Printed, Iterate, PrintStep
<1>5. \A m \in 0..n : g[m] = IF m = 0 THEN c ELSE PrintStep(g[m - 1], m, frame, at)
  BY <1>4, Zenon
<1> HIDE DEF Run
<1>6. g[0] = c /\ \A m \in 1..n : g[m] = PrintStep(g[m - 1], m, frame, at)
  BY <1>5
<1>7. \A m \in 0..n : g[m] = r[m]
  <2>1. \A m \in 1..n : g[m - 1] \in X => g[m] = F[m][g[m - 1]]
    BY <1>1, <1>6
  <2> QED BY <1>2, <1>6, <2>1, WalkOnly, SMTT(30)
<1>8. \A m \in 0..n : g[m] \in X
  BY <1>2, <1>7 DEF Walk
<1>9. g \in [0..n -> X]
  BY <1>4, <1>8 DEF Run
<1> QED BY <1>4, <1>6, <1>9 DEF PrintRun

--------------------------------------------------------------------------------
(* Frames and canvases.                                                    *)
IdMaps == UNION {[texts -> Ids] : texts \in SUBSET Graphemes}
Occurrences == [p : [image : Seq(Pictures), at : SUBSET Points], stale : BOOLEAN, replayed : BOOLEAN]
FrameSet == [rows : [Lines -> Rows], hits : [Points -> 0..N], scene : Seq(Occurrences), ids : IdMaps]
Canvases == [rows : [Lines -> Rows], hits : [Points -> 0..N], scene : Seq(Occurrences), ids : IdMaps,
             next : 1..MaxId + 1, ok : BOOLEAN]

\* Ids that stand for one text each, and have been given out.
Given(ids, next) ==
    /\ \A t, u \in DOMAIN ids : ids[t] = ids[u] => t = u
    /\ \A t \in DOMAIN ids : ids[t] < next
\* Whole graphemes, which the ids know.
RowOK(row, ids) ==
    /\ row \in Rows /\ Whole(row)
    /\ \A x \in Columns : ~IsEmpty(row[x]) => \E t \in DOMAIN ids : ids[t] = row[x].id
Sound(frame, next) == Given(frame.ids, next) /\ \A y \in Lines : RowOK(frame.rows[y], frame.ids)

\* What the store was before is in it still, and the rest is new.
Keeps(ids, next, c) ==
    /\ next <= c.next
    /\ \A t \in DOMAIN ids : t \in DOMAIN c.ids /\ c.ids[t] = ids[t]
    /\ \A t \in DOMAIN c.ids : t \in DOMAIN ids \/ c.ids[t] >= next

\* The canvases that drawing leads to.
After(ids, next) == {c \in Canvases : Sound(c, c.next) /\ Keeps(ids, next, c)}

ContextOK(cx) == cx.clip \subseteq Points /\ cx.hit \in 0..N /\ cx.style \in Styles /\ cx.policy \in Policies

LEMMA Consts ==
    /\ Width \in Nat \ {0} /\ Height \in Nat \ {0} /\ Width * Height \in Nat /\ N \in Nat
    /\ MaxId \in Nat \ {0} /\ Ids = 1..MaxId /\ Plain \in Styles /\ FocusStyle \in Styles
    /\ \A p \in Policies, g \in Graphemes : GlyphWidth[p][g] \in 1..2
<1>1. /\ Width \in Nat \ {0} /\ Height \in Nat \ {0} /\ N \in Nat /\ MaxId \in Nat \ {0} /\ Ids = 1..MaxId
      /\ Plain \in Styles /\ FocusStyle \in Styles
      /\ \A p \in Policies, g \in Graphemes : GlyphWidth[p][g] \in 1..2
  BY FramesAssumption, CellsAssumption
<1>2. \A i, j \in Nat : i * j \in Nat
  OBVIOUS
<1> QED BY <1>1, <1>2

LEMMA PointParts ==
    ASSUME NEW at \in Points
    PROVE  /\ at = <<at[1], at[2]>> /\ at[1] \in Columns /\ at[2] \in Lines
           /\ at[1] \in Int /\ at[2] \in Int
BY Consts DEF Points, Columns, Lines

LEMMA IdMapIs ==
    ASSUME NEW ids \in IdMaps
    PROVE  DOMAIN ids \subseteq Graphemes /\ ids \in [DOMAIN ids -> Ids] /\ \A t \in DOMAIN ids : ids[t] \in Ids
BY DEF IdMaps

\* A row after a write: what was there, what was written, or nothing.
LEMMA ClearedCells ==
    ASSUME NEW row \in Rows, Whole(row), NEW x \in Columns
    PROVE  /\ ClearSpanAt(row, x) \in Rows /\ Whole(ClearSpanAt(row, x))
           /\ \A c \in Columns : ClearSpanAt(row, x)[c] \in {row[c], Empty(Plain)}
<1>1. PICK S : Closed(row, S) /\ ClearSpanAt(row, x) = Cleared(row, S) /\ IsEmpty(Cleared(row, S)[x])
  BY ClearSpanClears
<1>2. Cleared(row, S) \in Rows /\ Whole(Cleared(row, S))
  BY <1>1, ClearedIsWhole
<1>3. \A c \in Columns : Cleared(row, S)[c] \in {row[c], Empty(Plain)}
  BY DEF Cleared
<1> QED BY <1>1, <1>2, <1>3

LEMMA EmptyIsEmpty == \A style : IsEmpty(Empty(style))
BY DEF IsEmpty, Empty

LEMMA EmptyRowOK ==
    ASSUME NEW ids, NEW row, RowOK(row, ids), NEW x \in Columns, NEW style \in Styles
    PROVE  RowOK(SetEmpty(row, x, style), ids)
<1>1. row \in Rows /\ Whole(row) /\ \A c \in Columns : ~IsEmpty(row[c]) => \E t \in DOMAIN ids : ids[t] = row[c].id
  BY DEF RowOK
<1> DEFINE new == SetEmpty(row, x, style)
           cleared == ClearSpanAt(row, x)
<1>2. new \in Rows /\ Whole(new)
  BY <1>1, SetEmptyKeepsWhole
<1>3. cleared \in Rows /\ \A c \in Columns : cleared[c] \in {row[c], Empty(Plain)}
  BY <1>1, ClearedCells
<1>4. \A c \in Columns : new[c] \in {row[c], Empty(Plain), Empty(style)}
  <2>1. new = [cleared EXCEPT ![x] = Empty(style)]
    BY DEF SetEmpty
  <2>2. DOMAIN cleared = Columns
    BY <1>3 DEF Rows
  <2> HIDE DEF new, cleared
  <2> QED BY <1>3, <2>1, <2>2
<1> HIDE DEF new
<1>5. ASSUME NEW c \in Columns, ~IsEmpty(new[c]) PROVE \E t \in DOMAIN ids : ids[t] = new[c].id
  <2>1. new[c] = row[c]
    BY <1>4, <1>5, EmptyIsEmpty
  <2> QED BY <1>1, <1>5, <2>1
<1> QED BY <1>2, <1>5 DEF RowOK, new

LEMMA GraphemeRowOK ==
    ASSUME NEW ids, NEW row, RowOK(row, ids), NEW x \in Columns, NEW width \in 1..2,
           x + width - 1 \in Columns, NEW style \in Styles, NEW id \in Ids,
           \E t \in DOMAIN ids : ids[t] = id
    PROVE  RowOK(SetGrapheme(row, x, id, width, style), ids)
<1>1. row \in Rows /\ Whole(row) /\ \A c \in Columns : ~IsEmpty(row[c]) => \E t \in DOMAIN ids : ids[t] = row[c].id
  BY DEF RowOK
<1> DEFINE new == SetGrapheme(row, x, id, width, style)
           one == ClearSpanAt(row, x)
           two == ClearSpanAt(one, x + 1)
<1>2. new \in Rows /\ Whole(new)
  BY <1>1, SetGraphemeKeepsWhole
<1>3. one \in Rows /\ Whole(one) /\ \A c \in Columns : one[c] \in {row[c], Empty(Plain)}
  BY <1>1, ClearedCells
<1>4. width = 2 => \A c \in Columns : two[c] \in {row[c], Empty(Plain)}
  <2> SUFFICES ASSUME width = 2 PROVE \A c \in Columns : two[c] \in {row[c], Empty(Plain)}
    OBVIOUS
  <2>1. x + 1 \in Columns
    BY Consts DEF Columns
  <2> HIDE DEF one
  <2>2. \A c \in Columns : two[c] \in {one[c], Empty(Plain)}
    BY <1>3, <2>1, ClearedCells
  <2> QED BY <1>3, <2>2
<1>5. \A c \in Columns : \/ new[c] \in {row[c], Empty(Plain)}
                         \/ new[c] \in {HeadCell(id, width, style), TailCell(id, style)}
  <2>1. new = [c \in Columns |-> IF c = x THEN HeadCell(id, width, style)
                                 ELSE IF width = 2 /\ c = x + 1 THEN TailCell(id, style)
                                 ELSE IF width = 1 THEN one[c] ELSE two[c]]
    BY DEF SetGrapheme
  <2>2. width = 1 \/ width = 2
    OBVIOUS
  <2> HIDE DEF new, one, two
  <2> QED BY <1>3, <1>4, <2>1, <2>2
<1> HIDE DEF new
<1>6. ASSUME NEW c \in Columns, ~IsEmpty(new[c]) PROVE \E t \in DOMAIN ids : ids[t] = new[c].id
  <2>1. CASE new[c] = row[c]
    BY <1>1, <1>6, <2>1
  <2>2. CASE new[c] \in {HeadCell(id, width, style), TailCell(id, style)}
    BY <2>2 DEF HeadCell, TailCell
  <2> QED BY <1>5, <1>6, <2>1, <2>2, EmptyIsEmpty
<1> QED BY <1>2, <1>6 DEF RowOK, new

LEMMA CanvasIs ==
    ASSUME NEW c \in Canvases
    PROVE  /\ c = [rows |-> c.rows, hits |-> c.hits, scene |-> c.scene, ids |-> c.ids,
                   next |-> c.next, ok |-> c.ok]
           /\ c.rows \in [Lines -> Rows] /\ c.hits \in [Points -> 0..N] /\ c.scene \in Seq(Occurrences)
           /\ c.ids \in IdMaps /\ c.next \in 1..MaxId + 1 /\ c.ok \in BOOLEAN
BY DEF Canvases

\* Interning a text gives it the next id, once.
LEMMA InternedIds ==
    ASSUME NEW ids, NEW next \in Nat, NEW c \in After(ids, next), NEW text \in Graphemes
    PROVE  /\ Interned(c, text) \in After(ids, next)
           /\ Interned(c, text).ok => /\ text \in DOMAIN Interned(c, text).ids
                                      /\ Interned(c, text).ids[text] \in Ids
<1> DEFINE ext == [u \in DOMAIN c.ids \cup {text} |-> IF u = text THEN c.next ELSE c.ids[u]]
<1>1. c \in Canvases /\ Sound(c, c.next) /\ Keeps(ids, next, c)
  BY DEF After
<1>2. /\ c.ids \in IdMaps /\ c.next \in 1..MaxId + 1
      /\ DOMAIN c.ids \subseteq Graphemes /\ \A t \in DOMAIN c.ids : c.ids[t] \in Ids
  BY <1>1, CanvasIs, IdMapIs
<1>3. CASE text \in DOMAIN c.ids
  <2>1. Interned(c, text) = c
    BY <1>3 DEF Interned
  <2> QED BY <1>2, <1>3, <2>1
<1>4. CASE text \notin DOMAIN c.ids /\ c.next > MaxId
  <2>1. Interned(c, text) = [c EXCEPT !.ok = FALSE]
    BY <1>4 DEF Interned
  <2> DEFINE d == [c EXCEPT !.ok = FALSE]
  <2>2. /\ d \in Canvases /\ d.ok = FALSE /\ d.rows = c.rows /\ d.ids = c.ids /\ d.next = c.next
    BY <1>1 DEF Canvases
  <2> HIDE DEF d
  <2>3. d \in After(ids, next)
    BY <1>1, <2>2 DEF After, Sound, Keeps
  <2> QED BY <2>1, <2>2, <2>3 DEF d
<1>5. CASE text \notin DOMAIN c.ids /\ c.next <= MaxId
  <2>1. Interned(c, text) = [c EXCEPT !.ids = ext, !.next = c.next + 1]
    <3>1. ~(c.next > MaxId)
      BY <1>2, <1>5, Consts
    <3> QED BY <1>5, <3>1 DEF Interned
  <2>2. DOMAIN ext = {text} \cup DOMAIN c.ids /\ ext[text] = c.next /\ \A u \in DOMAIN c.ids : ext[u] = c.ids[u]
    BY <1>5
  <2>3. c.next \in Ids /\ c.next + 1 \in 1..MaxId + 1
    BY <1>2, <1>5, Consts
  <2>4. ext \in IdMaps
    <3>1. ext \in [{text} \cup DOMAIN c.ids -> Ids]
      BY <1>2, <2>3
    <3>2. {text} \cup DOMAIN c.ids \in SUBSET Graphemes
      BY <1>2
    <3> HIDE DEF ext
    <3> QED BY <3>1, <3>2 DEF IdMaps
  <2> HIDE DEF ext
  <2> DEFINE d == [c EXCEPT !.ids = ext, !.next = c.next + 1]
  <2>5. /\ d \in Canvases /\ d.rows = c.rows /\ d.ids = ext /\ d.next = c.next + 1
    BY <1>1, <2>3, <2>4 DEF Canvases
  <2> HIDE DEF d
  <2>6. Given(ext, c.next + 1)
    <3>1. \A t, u \in DOMAIN c.ids : c.ids[t] = c.ids[u] => t = u
      BY <1>1 DEF Sound, Given
    <3>2. \A t \in DOMAIN c.ids : c.ids[t] \in Int /\ c.ids[t] < c.next
      BY <1>1, <1>2, Consts DEF Sound, Given
    <3>3. \A t, u \in DOMAIN ext : ext[t] = ext[u] => t = u
      BY <1>2, <2>2, <3>1, <3>2
    <3>4. \A t \in DOMAIN ext : ext[t] < c.next + 1
      BY <1>2, <2>2, <3>2
    <3> QED BY <3>3, <3>4 DEF Given
  <2>7. ASSUME NEW y \in Lines PROVE RowOK(c.rows[y], ext)
    <3>1. RowOK(c.rows[y], c.ids)
      BY <1>1 DEF Sound
    <3> QED BY <2>2, <3>1 DEF RowOK
  <2>8. Keeps(ids, next, d)
    <3>1. /\ next <= c.next /\ \A t \in DOMAIN ids : t \in DOMAIN c.ids /\ c.ids[t] = ids[t]
          /\ \A t \in DOMAIN c.ids : t \in DOMAIN ids \/ c.ids[t] >= next
      BY <1>1 DEF Keeps
    <3>2. next <= d.next
      BY <1>2, <2>5, <3>1
    <3>3. \A t \in DOMAIN ids : t \in DOMAIN ext /\ ext[t] = ids[t]
      BY <2>2, <3>1
    <3>4. \A t \in DOMAIN ext : t \in DOMAIN ids \/ ext[t] >= next
      BY <1>2, <2>2, <3>1
    <3> QED BY <2>5, <3>2, <3>3, <3>4 DEF Keeps
  <2>9. d \in After(ids, next)
    BY <2>5, <2>6, <2>7, <2>8 DEF After, Sound
  <2> QED BY <2>1, <2>2, <2>3, <2>5, <2>9 DEF d
<1> QED BY <1>2, <1>3, <1>4, <1>5, Consts

LEMMA HitsTyped ==
    ASSUME NEW c, c.hits \in [Points -> 0..N], NEW points, NEW hit \in 0..N
    PROVE  Hits(c, points, hit) \in [Points -> 0..N]
<1>1. 0 \in 0..N /\ \A at \in Points : c.hits[at] \in 0..N
  BY Consts
<1> DEFINE cleared == UNION {SpanAt(c, at) : at \in points}
<1>2. Hits(c, points, hit) = [at \in Points |-> IF at \in points THEN hit
                                                ELSE IF at \in cleared THEN 0 ELSE c.hits[at]]
  BY DEF Hits
<1> HIDE DEF cleared
<1> QED BY <1>1, <1>2

\* A canvas after one of its rows was written.
LEMMA WrittenRow ==
    ASSUME NEW ids, NEW next \in Nat, NEW c \in After(ids, next), NEW y \in Lines, NEW row,
           RowOK(row, c.ids), NEW hits \in [Points -> 0..N]
    PROVE  [c EXCEPT !.rows[y] = row, !.hits = hits] \in After(ids, next)
<1>1. c \in Canvases /\ Sound(c, c.next) /\ Keeps(ids, next, c)
  BY DEF After
<1>2. c.rows \in [Lines -> Rows] /\ row \in Rows
  BY <1>1, CanvasIs DEF RowOK
<1> DEFINE rows == [c.rows EXCEPT ![y] = row]
           d == [c EXCEPT !.rows = rows, !.hits = hits]
<1>3. rows \in [Lines -> Rows] /\ \A z \in Lines : rows[z] = IF z = y THEN row ELSE c.rows[z]
  BY <1>2
<1>4. [c EXCEPT !.rows[y] = row, !.hits = hits] = d
  BY <1>1 DEF Canvases
<1> HIDE DEF rows
<1>5. d \in Canvases /\ d.rows = rows /\ d.ids = c.ids /\ d.next = c.next
  BY <1>1, <1>3 DEF Canvases
<1> HIDE DEF d
<1>6. Sound(d, d.next)
  BY <1>1, <1>3, <1>5 DEF Sound
<1>7. Keeps(ids, next, d)
  BY <1>1, <1>5 DEF Keeps
<1> QED BY <1>4, <1>5, <1>6, <1>7 DEF After

LEMMA DrawGraphemeKeeps ==
    ASSUME NEW ids, NEW next \in Nat, NEW c \in After(ids, next), NEW at \in Int \X Int,
           NEW text \in Graphemes, NEW cx, ContextOK(cx)
    PROVE  DrawGrapheme(c, at, text, cx) \in After(ids, next)
<1> DEFINE width == GlyphWidth[cx.policy][text]
           points == {Right(at, i) : i \in 0..width - 1}
           with == Interned(c, text)
           row == SetGrapheme(with.rows[at[2]], at[1], with.ids[text], width, cx.style)
           hits == Hits(c, points, cx.hit)
<1>1. CASE ~(points \subseteq cx.clip /\ at[2] \in cx.lines)
  BY <1>1 DEF DrawGrapheme
<1>2. CASE points \subseteq cx.clip /\ at[2] \in cx.lines /\ ~with.ok
  <2>1. DrawGrapheme(c, at, text, cx) = with
    BY <1>2 DEF DrawGrapheme
  <2> QED BY <2>1, InternedIds
<1>3. CASE points \subseteq cx.clip /\ at[2] \in cx.lines /\ with.ok
  <2>1. DrawGrapheme(c, at, text, cx) = [with EXCEPT !.rows[at[2]] = row, !.hits = hits]
    BY <1>3 DEF DrawGrapheme
  <2>2. with \in After(ids, next) /\ text \in DOMAIN with.ids /\ with.ids[text] \in Ids
    BY <1>3, InternedIds
  <2>3. width \in 1..2 /\ cx.style \in Styles /\ cx.hit \in 0..N /\ cx.clip \subseteq Points
    BY Consts DEF ContextOK
  <2>4. at[1] \in Columns /\ at[1] + width - 1 \in Columns /\ at[2] \in Lines
    <3>1. at[1] \in Int /\ at[2] \in Int
      OBVIOUS
    <3>2. 0 \in 0..width - 1 /\ width - 1 \in 0..width - 1
      BY <2>3
    <3>3. Right(at, 0) \in Points /\ Right(at, width - 1) \in Points
      BY <1>3, <2>3, <3>2
    <3> HIDE DEF width
    <3>4. /\ at[1] + 0 \in Columns /\ at[2] \in Lines /\ at[1] + (width - 1) \in Columns
      BY <3>3 DEF Right, Points
    <3> QED BY <2>3, <3>1, <3>4
  <2>5. RowOK(with.rows[at[2]], with.ids)
    BY <2>2, <2>4 DEF After, Sound
  <2>6. RowOK(row, with.ids)
    <3> HIDE DEF with, width
    <3> QED BY <2>2, <2>3, <2>4, <2>5, GraphemeRowOK
  <2>7. hits \in [Points -> 0..N]
    <3>1. c.hits \in [Points -> 0..N]
      BY CanvasIs DEF After
    <3> QED BY <2>3, <3>1, HitsTyped
  <2> HIDE DEF row, hits, with
  <2> DEFINE y == at[2]
  <2>8. y \in Lines
    BY <2>4
  <2> HIDE DEF y
  <2>9. [with EXCEPT !.rows[y] = row, !.hits = hits] \in After(ids, next)
    BY <2>2, <2>6, <2>7, <2>8, WrittenRow
  <2> QED BY <2>1, <2>9 DEF y
<1> QED BY <1>1, <1>2, <1>3

LEMMA DrawTextKeeps ==
    ASSUME NEW ids, NEW next \in Nat, NEW c \in After(ids, next), NEW at \in Int \X Int,
           NEW text \in Seq(Graphemes), NEW cx, ContextOK(cx)
    PROVE  DrawText(c, at, text, cx) \in After(ids, next)
<1> DEFINE n == Len(text)
           X == After(ids, next) \X (Int \X Int)
<1>1. n \in Nat /\ \A m \in 1..n : text[m] \in Graphemes
  BY ElementOfSeq, LenProperties
<1>2. ASSUME NEW m \in 1..n, NEW d \in X PROVE TextStep(d, m, text, cx) \in X
  <2>1. d[1] \in After(ids, next) /\ d[2] \in Int \X Int /\ text[m] \in Graphemes
    BY <1>1
  <2>2. DrawGrapheme(d[1], d[2], text[m], cx) \in After(ids, next)
    BY <2>1, DrawGraphemeKeeps
  <2>3. GlyphWidth[cx.policy][text[m]] \in 1..2
    BY <2>1, Consts DEF ContextOK
  <2>4. Right(d[2], GlyphWidth[cx.policy][text[m]]) \in Int \X Int
    BY <2>1, <2>3 DEF Right
  <2> QED BY <2>2, <2>4 DEF TextStep
<1> DEFINE start == <<c, at>>
<1>3. start \in X
  OBVIOUS
<1> HIDE DEF X
<1>4. PICK g : TextRun(g, n, X, c, at, text, cx)
  <2> DEFINE k == n
  <2>1. k \in Nat /\ k = Len(text) /\ \A m \in 1..k, d \in X : TextStep(d, m, text, cx) \in X
    BY <1>1, <1>2
  <2>2. start = <<c, at>>
    OBVIOUS
  <2> HIDE DEF start, k
  <2>3. \E g : TextRun(g, k, X, c, at, text, cx)
    BY <1>3, <2>1, <2>2, TextWalks
  <2> QED BY <2>3 DEF k
<1>5. g[n] \in X /\ DrawText(c, at, text, cx) = g[n][1]
  BY <1>1, <1>4 DEF TextRun
<1> QED BY <1>5 DEF X

LEMMA FillCellKeeps ==
    ASSUME NEW ids, NEW next \in Nat, NEW c \in After(ids, next), NEW at \in Points,
           NEW cx, ContextOK(cx)
    PROVE  FillCell(c, at, cx) \in After(ids, next)
<1> DEFINE y == at[2]
           row == SetEmpty(c.rows[y], at[1], cx.style)
           hits == Hits(c, {at}, cx.hit)
<1>1. y \in Lines /\ at[1] \in Columns /\ cx.style \in Styles /\ cx.hit \in 0..N
  BY PointParts DEF ContextOK
<1>2. RowOK(row, c.ids)
  <2>1. RowOK(c.rows[y], c.ids)
    BY <1>1 DEF After, Sound
  <2> HIDE DEF y
  <2> QED BY <1>1, <2>1, EmptyRowOK
<1>3. hits \in [Points -> 0..N]
  <2>1. c.hits \in [Points -> 0..N]
    BY CanvasIs DEF After
  <2> QED BY <1>1, <2>1, HitsTyped
<1>4. FillCell(c, at, cx) = [c EXCEPT !.rows[y] = row, !.hits = hits]
  BY DEF FillCell
<1> HIDE DEF y, row, hits
<1>5. [c EXCEPT !.rows[y] = row, !.hits = hits] \in After(ids, next)
  BY <1>1, <1>2, <1>3, WrittenRow
<1> QED BY <1>4, <1>5

LEMMA FillKeeps ==
    ASSUME NEW ids, NEW next \in Nat, NEW c \in After(ids, next), NEW points,
           NEW cx, ContextOK(cx)
    PROVE  Fill(c, points, cx) \in After(ids, next)
<1> DEFINE n == Width * Height
           X == After(ids, next)
<1>1. n \in Nat
  BY Consts
<1>2. ASSUME NEW m \in 1..n, NEW d \in X PROVE FillStep(d, m, points, cx) \in X
  <2>1. CASE Point(m) \in points \cap cx.clip /\ Point(m)[2] \in cx.lines
    <3>1. Point(m) \in Points
      BY <2>1 DEF ContextOK
    <3>2. FillCell(d, Point(m), cx) \in X
      BY <3>1, FillCellKeeps
    <3> QED BY <2>1, <3>2 DEF FillStep
  <2>2. CASE ~(Point(m) \in points \cap cx.clip /\ Point(m)[2] \in cx.lines)
    BY <2>2 DEF FillStep
  <2> QED BY <2>1, <2>2
<1> HIDE DEF X
<1>3. c \in X
  BY DEF X
<1> DEFINE k == n
<1>4. k \in Nat /\ k = Width * Height
  BY <1>1
<1> HIDE DEF k
<1>5. PICK g : FillRun(g, k, X, c, points, cx)
  <2>1. \A m \in 1..k, d \in X : FillStep(d, m, points, cx) \in X
    BY <1>2, <1>4
  <2> QED BY <1>3, <1>4, <2>1, FillWalks
<1>6. g[k] \in X /\ Fill(c, points, cx) = g[k]
  BY <1>4, <1>5 DEF FillRun
<1> QED BY <1>6 DEF X

--------------------------------------------------------------------------------
(* The scene stays a sequence of occurrences.                              *)
LEMMA GreatestExists ==
    ASSUME NEW n \in Nat, NEW S, S \subseteq 0..n, S # {}
    PROVE  Max(S) \in S /\ \A y \in S : y <= Max(S)
<1> DEFINE T == {n - x : x \in S}
<1>0. \A x \in S : x \in Nat /\ x <= n
  OBVIOUS
<1>1. T \subseteq Nat /\ T # {}
  <2>1. \A x \in S : n - x \in Nat
    BY <1>0
  <2> QED BY <2>1
<1> HIDE DEF T
<1>2. PICK t \in T : \A u \in T : t <= u
  BY <1>1, LeastExists
<1>3. PICK x \in S : t = n - x
  BY <1>2 DEF T
<1>4. ASSUME NEW y \in S PROVE x >= y
  <2>1. n - y \in T
    BY DEF T
  <2>2. t <= n - y
    BY <1>2, <2>1
  <2>3. n - x <= n - y
    BY <1>3, <2>2
  <2> QED BY <1>0, <2>3
<1>5. Max(S) \in S /\ \A y \in S : Max(S) >= y
  BY <1>4 DEF Max
<1> DEFINE m == Max(S)
<1>6. m \in S /\ \A y \in S : m >= y
  BY <1>5
<1> HIDE DEF m
<1>7. \A y \in S : y <= m
  BY <1>0, <1>6
<1> QED BY <1>6, <1>7 DEF m

LEMMA SmallestExists ==
    ASSUME NEW S, S \subseteq Nat, S # {}
    PROVE  Min(S) \in S /\ \A y \in S : Min(S) <= y
BY LeastExists DEF Min

Occurring(scene) == scene \in Seq(Occurrences)

LEMMA SceneParts ==
    ASSUME NEW scene, Occurring(scene)
    PROVE  /\ Len(scene) \in Nat /\ scene \in [1..Len(scene) -> Occurrences]
           /\ \A k \in 1..Len(scene) : scene[k] \in Occurrences
BY LenProperties, ElementOfSeq DEF Occurring

LEMMA OccurrenceIs ==
    ASSUME NEW e \in Occurrences, NEW b \in BOOLEAN
    PROVE  /\ Occurrence(e.p) \in Occurrences /\ [e EXCEPT !.replayed = b] \in Occurrences
           /\ e.p \in [image : Seq(Pictures), at : SUBSET Points] /\ e.stale \in BOOLEAN
           /\ \A d \in BOOLEAN : [e EXCEPT !.stale = d, !.replayed = b] \in Occurrences
BY DEF Occurrences, Occurrence

\* A sequence is the function of its elements.
LEMMA MakeScene ==
    ASSUME NEW n \in Nat, NEW f \in [1..n -> Occurrences]
    PROVE  Occurring(f) /\ Len(f) = n
BY SeqDef DEF Occurring

LEMMA Joined ==
    ASSUME NEW a, NEW b, Occurring(a), Occurring(b)
    PROVE  Occurring(a \o b)
BY ConcatProperties DEF Occurring

LEMMA OneOccurs ==
    ASSUME NEW e \in Occurrences
    PROVE  Occurring(<<e>>)
BY DEF Occurring

LEMMA PartOccurs ==
    ASSUME NEW scene, Occurring(scene), NEW m \in Int, NEW n \in Int, 1 <= m, n <= Len(scene)
    PROVE  Occurring(SubSeq(scene, m, n))
<1>1. \A i \in m..n : scene[i] \in Occurrences
  BY SceneParts
<1> QED BY <1>1, SubSeqProperties DEF Occurring

LEMMA PickOccurs ==
    ASSUME NEW scene, Occurring(scene), NEW indices
    PROVE  Occurring(Pick(scene, indices))
<1> DEFINE n == Len(scene)
           X == Seq(Occurrences)
<1>1. n \in Nat /\ <<>> \in X
  BY SceneParts, EmptySeq
<1>2. ASSUME NEW m \in 1..n, NEW d \in X PROVE PickStep(d, m, scene, indices) \in X
  <2>1. scene[m] \in Occurrences
    BY SceneParts
  <2>2. Append(d, scene[m]) \in X
    BY <2>1, AppendProperties
  <2> QED BY <2>2 DEF PickStep
<1>3. PICK g : PickRun(g, n, X, scene, indices)
  <2> HIDE DEF X
  <2> DEFINE k == n
  <2>1. k \in Nat /\ k = Len(scene) /\ \A m \in 1..k, d \in X : PickStep(d, m, scene, indices) \in X
    BY <1>1, <1>2
  <2> HIDE DEF k
  <2>2. \E g : PickRun(g, k, X, scene, indices)
    BY <1>1, <2>1, PickWalks
  <2> QED BY <2>2 DEF k
<1>4. g[n] \in X /\ Pick(scene, indices) = g[n]
  BY <1>1, <1>3 DEF PickRun
<1> QED BY <1>4 DEF Occurring

LEMMA LiveOccurs ==
    ASSUME NEW scene, Occurring(scene)
    PROVE  Occurring(Live(scene))
BY PickOccurs DEF Live

LEMMA FinishOccurs ==
    ASSUME NEW scene, Occurring(scene)
    PROVE  Occurring(FinishRepaint(scene))
<1> DEFINE live == Live(scene)
           f == [i \in 1..Len(live) |-> [live[i] EXCEPT !.replayed = FALSE]]
<1>1. Len(live) \in Nat /\ \A i \in 1..Len(live) : live[i] \in Occurrences
  BY LiveOccurs, SceneParts
<1> HIDE DEF live
<1>2. f \in [1..Len(live) -> Occurrences]
  BY <1>1, OccurrenceIs
<1> HIDE DEF f
<1>3. Occurring(f)
  BY <1>1, <1>2, MakeScene
<1> QED BY <1>3 DEF FinishRepaint, f, live

LEMMA MarkOccurs ==
    ASSUME NEW scene, Occurring(scene), NEW damage
    PROVE  Occurring(MarkDamaged(scene, damage))
<1> DEFINE marked == [i \in 1..Len(scene) |->
                        [scene[i] EXCEPT !.stale = @ \/ scene[i].p.at \cap damage # {},
                                         !.replayed = FALSE]]
<1>1. Len(scene) \in Nat /\ \A i \in 1..Len(scene) : scene[i] \in Occurrences
  BY SceneParts
<1>2. marked \in [1..Len(scene) -> Occurrences]
  <2> SUFFICES ASSUME NEW i \in 1..Len(scene)
               PROVE  [scene[i] EXCEPT !.stale = @ \/ scene[i].p.at \cap damage # {},
                                       !.replayed = FALSE] \in Occurrences
    OBVIOUS
  <2> DEFINE e == scene[i]
             d == e.stale \/ e.p.at \cap damage # {}
  <2>1. e \in Occurrences /\ d \in BOOLEAN
    BY <1>1
  <2>2. [scene[i] EXCEPT !.stale = @ \/ scene[i].p.at \cap damage # {}, !.replayed = FALSE]
        = [e EXCEPT !.stale = d, !.replayed = FALSE]
    OBVIOUS
  <2> HIDE DEF e, d
  <2>3. [e EXCEPT !.stale = d, !.replayed = FALSE] \in Occurrences
    BY <2>1, OccurrenceIs
  <2> QED BY <2>2, <2>3, SMTT(30)
<1> HIDE DEF marked
<1>3. Occurring(marked)
  BY <1>1, <1>2, MakeScene
<1> DEFINE untouched == {marked[i].p : i \in {j \in 1..Len(scene) : ~marked[j].stale}}
           kept == {i \in 1..Len(scene) : \/ ~marked[i].stale
                                          \/ \E u \in untouched : Overlap(marked[i].p, u)}
<1>4. MarkDamaged(scene, damage) =
        IF \A i \in 1..Len(scene) : marked[i].stale = scene[i].stale THEN scene
        ELSE Pick(marked, kept)
  BY DEF MarkDamaged, marked
<1> HIDE DEF kept
<1>5. Occurring(Pick(marked, kept))
  BY <1>3, PickOccurs
<1> QED BY <1>4, <1>5

OldPlace(scene, p) == SelectInSeq(scene, LAMBDA e : e.stale /\ e.p = p)

LEMMA PlaceInScene ==
    ASSUME NEW scene, Occurring(scene), NEW p
    PROVE  /\ Next0(scene, p) \in 1..Len(scene) + 1
           /\ OldPlace(scene, p) \in 0..Len(scene)
<1> DEFINE n == Len(scene)
           first == SelectInSeq(scene, LAMBDA e : e.stale)
           last == SelectLastInSeq(scene, LAMBDA e : e.replayed /\ ~e.stale /\ Overlap(e.p, p))
<1>1. n \in Nat
  BY SceneParts
<1>2. first \in 0..n
  <2> DEFINE I == {i \in 1..n : scene[i].stale}
  <2>1. first = IF I # {} THEN Min(I) ELSE 0
    BY DEF SelectInSeq
  <2>2. I \subseteq 1..n /\ I \subseteq Nat
    OBVIOUS
  <2>3. I # {} => Min(I) \in 1..n
    <3> HIDE DEF I
    <3> QED BY <2>2, SmallestExists
  <2> HIDE DEF first, I
  <2> QED BY <1>1, <2>1, <2>3
<1>3. last \in 0..n
  <2> DEFINE I == {i \in 1..n : scene[i].replayed /\ ~scene[i].stale /\ Overlap(scene[i].p, p)}
  <2>1. last = IF I # {} THEN Max(I) ELSE 0
    BY DEF SelectLastInSeq
  <2>2. I \subseteq 0..n
    OBVIOUS
  <2>3. I # {} => Max(I) \in 0..n
    <3> HIDE DEF I
    <3> QED BY <1>1, <2>2, GreatestExists
  <2> HIDE DEF last, I
  <2> QED BY <1>1, <2>1, <2>3
<1>4. OldPlace(scene, p) \in 0..n
  <2> DEFINE I == {i \in 1..n : scene[i].stale /\ scene[i].p = p}
             found == OldPlace(scene, p)
  <2>1. found = IF I # {} THEN Min(I) ELSE 0
    BY DEF SelectInSeq, OldPlace
  <2>2. I \subseteq 1..n /\ I \subseteq Nat
    OBVIOUS
  <2>3. I # {} => Min(I) \in 1..n
    <3> HIDE DEF I
    <3> QED BY <2>2, SmallestExists
  <2> HIDE DEF found, I
  <2>4. found \in 0..n
    BY <1>1, <2>1, <2>3
  <2> QED BY <2>4 DEF found
<1> DEFINE T == {last + 1, IF first = 0 THEN n + 1 ELSE first}
<1>5. T \subseteq 1..n + 1 /\ T # {} /\ T \subseteq 0..n + 1
  <2> HIDE DEF first, last
  <2> QED BY <1>1, <1>2, <1>3
<1>6. Next0(scene, p) = Max(T)
  BY DEF Next0
<1> HIDE DEF T
<1>7. n + 1 \in Nat
  BY <1>1
<1>8. Max(T) \in T
  <2> DEFINE k == n + 1
  <2>1. k \in Nat /\ T \subseteq 0..k
    BY <1>5, <1>7
  <2> HIDE DEF k
  <2> QED BY <1>5, <2>1, GreatestExists
<1> QED BY <1>4, <1>5, <1>6, <1>8

LEMMA LiftOccurs ==
    ASSUME NEW scene, Occurring(scene), NEW index \in 1..Len(scene), NEW next \in 1..Len(scene) + 1
    PROVE  Occurring(Lift(scene, index, next))
<1> DEFINE moving == Moving(scene, index, next)
           carried == Pick(scene, moving \ {index})
           a == SubSeq(scene, 1, index - 1)
           b == Pick(scene, (index..next - 1) \ moving)
           c == <<Occurrence(scene[index].p)>>
           d == [n \in 1..Len(carried) |-> [carried[n] EXCEPT !.replayed = FALSE]]
           e == SubSeq(scene, next, Len(scene))
<1>1. Len(scene) \in Nat /\ scene[index] \in Occurrences
  BY SceneParts
<1>2. Occurring(a) /\ Occurring(e)
  <2>1. /\ 1 \in Int /\ index - 1 \in Int /\ 1 <= 1 /\ index - 1 <= Len(scene)
        /\ next \in Int /\ Len(scene) \in Int /\ 1 <= next /\ Len(scene) <= Len(scene)
    BY <1>1
  <2> QED BY <2>1, PartOccurs
<1>3. Occurring(b)
  BY PickOccurs
<1>4. Occurring(c)
  BY <1>1, OccurrenceIs, OneOccurs
<1>5. Occurring(d)
  <2>1. Len(carried) \in Nat /\ \A n \in 1..Len(carried) : carried[n] \in Occurrences
    BY PickOccurs, SceneParts
  <2> HIDE DEF carried
  <2>2. d \in [1..Len(carried) -> Occurrences]
    BY <2>1, OccurrenceIs
  <2> HIDE DEF d
  <2> QED BY <2>1, <2>2, MakeScene
<1>6. Lift(scene, index, next) = a \o b \o c \o d \o e
  BY DEF Lift
<1> HIDE DEF a, b, c, d, e
<1>7. Occurring(a \o b) /\ Occurring(a \o b \o c)
  BY <1>2, <1>3, <1>4, Joined
<1>8. Occurring(a \o b \o c \o d)
  BY <1>5, <1>7, Joined
<1> QED BY <1>2, <1>6, <1>8, Joined

LEMMA PushOccurs ==
    ASSUME NEW scene, Occurring(scene), NEW p \in [image : Seq(Pictures), at : SUBSET Points]
    PROVE  Occurring(Push(scene, p))
<1> DEFINE n == Len(scene)
           index == OldPlace(scene, p)
           clean == {k \in 1..index - 1 : /\ ~scene[k].stale /\ ~scene[k].replayed
                                          /\ Overlap(scene[k].p, p)}
           base == Next0(scene, p)
           T == {base} \cup {k + 1 : k \in clean}
           next == Max(T)
           one == Occurrence(p)
<1>1. n \in Nat /\ base \in 1..n + 1 /\ index \in 0..n
  BY SceneParts, PlaceInScene
<1> DEFINE inserted == SubSeq(scene, 1, base - 1) \o <<one>> \o SubSeq(scene, base, n)
           replaced == SubSeq(scene, 1, next - 1) \o <<one>>
                         \o SubSeq(scene, next, index - 1) \o SubSeq(scene, index + 1, n)
<1>2. Push(scene, p) = IF index = 0 THEN inserted
                       ELSE IF index < next THEN Lift(scene, index, next) ELSE replaced
  BY DEF Push, InsertAt, OldPlace
<1> HIDE DEF index, base
<1>3. one \in Occurrences
  BY DEF Occurrence, Occurrences
<1>4. Occurring(<<one>>)
  BY <1>3, OneOccurs
<1>5. next \in 1..n + 1
  <2>1. T \subseteq 1..n + 1 /\ T # {}
    <3>1. \A k \in clean : k + 1 \in 1..n + 1
      BY <1>1
    <3> HIDE DEF clean
    <3> QED BY <1>1, <3>1
  <2> HIDE DEF T
  <2> DEFINE m == n + 1
  <2>2. m \in Nat /\ T \subseteq 0..m
    BY <1>1, <2>1
  <2> HIDE DEF m
  <2>3. Max(T) \in T
    BY <2>1, <2>2, GreatestExists
  <2> QED BY <2>1, <2>3
<1> HIDE DEF next, one, T
<1>6. Occurring(inserted)
  <2>1. /\ 1 \in Int /\ base - 1 \in Int /\ 1 <= 1 /\ base - 1 <= n
        /\ base \in Int /\ n \in Int /\ 1 <= base /\ n <= n
    BY <1>1
  <2>2. Occurring(SubSeq(scene, 1, base - 1)) /\ Occurring(SubSeq(scene, base, n))
    BY <2>1, PartOccurs
  <2> QED BY <1>4, <2>2, Joined
<1>7. CASE index # 0 /\ index < next
  <2>1. index \in 1..Len(scene) /\ next \in 1..Len(scene) + 1
    BY <1>1, <1>5, <1>7
  <2>2. Occurring(Lift(scene, index, next))
    BY <2>1, LiftOccurs
  <2> QED BY <1>2, <1>7, <2>2
<1>8. CASE index # 0 /\ ~(index < next)
  <2> DEFINE a == SubSeq(scene, 1, next - 1)
             b == SubSeq(scene, next, index - 1)
             c == SubSeq(scene, index + 1, n)
  <2>1. /\ 1 \in Int /\ next - 1 \in Int /\ next \in Int /\ index - 1 \in Int /\ index + 1 \in Int /\ n \in Int
        /\ 1 <= 1 /\ 1 <= next /\ 1 <= index + 1 /\ next - 1 <= n /\ index - 1 <= n /\ n <= n
    BY <1>1, <1>5
  <2>2. Occurring(a) /\ Occurring(b) /\ Occurring(c)
    BY <2>1, PartOccurs
  <2>3. replaced = a \o <<one>> \o b \o c
    OBVIOUS
  <2> HIDE DEF a, b, c
  <2>4. Occurring(a \o <<one>>)
    BY <1>4, <2>2, Joined
  <2>5. Occurring(a \o <<one>> \o b)
    BY <2>2, <2>4, Joined
  <2>6. Occurring(replaced)
    BY <2>2, <2>3, <2>5, Joined
  <2> QED BY <1>2, <1>8, <2>6
<1>9. CASE index = 0
  BY <1>2, <1>6, <1>9
<1> QED BY <1>7, <1>8, <1>9

--------------------------------------------------------------------------------
(* Drawing a node, and the tree.                                           *)
LEMMA OtherParts ==
    ASSUME NEW ids, NEW next, NEW c \in After(ids, next), NEW scene, Occurring(scene),
           NEW hits \in [Points -> 0..N]
    PROVE  /\ [c EXCEPT !.scene = scene, !.hits = hits] \in After(ids, next)
           /\ [c EXCEPT !.scene = scene] \in After(ids, next)
           /\ [c EXCEPT !.ok = FALSE] \in After(ids, next)
<1>1. c \in Canvases /\ Sound(c, c.next) /\ Keeps(ids, next, c)
  BY DEF After
<1>2. ASSUME NEW d \in Canvases, d.rows = c.rows, d.ids = c.ids, d.next = c.next
      PROVE  d \in After(ids, next)
  BY <1>1, <1>2 DEF After, Sound, Keeps
<1>3. /\ [c EXCEPT !.scene = scene, !.hits = hits] \in Canvases
      /\ [c EXCEPT !.scene = scene] \in Canvases /\ [c EXCEPT !.ok = FALSE] \in Canvases
  BY <1>1 DEF Canvases, Occurring
<1>4. ASSUME NEW d \in {[c EXCEPT !.scene = scene, !.hits = hits], [c EXCEPT !.scene = scene],
                        [c EXCEPT !.ok = FALSE]}
      PROVE  d.rows = c.rows /\ d.ids = c.ids /\ d.next = c.next
  BY <1>1 DEF Canvases
<1> QED BY <1>2, <1>3, <1>4

LEMMA DrawImageKeeps ==
    ASSUME NEW ids, NEW next, NEW c \in After(ids, next),
           NEW p \in [image : Seq(Pictures), at : SUBSET Points], NEW cx, ContextOK(cx)
    PROVE  DrawImage(c, p, cx) \in After(ids, next)
<1> DEFINE hits == [at \in Points |-> IF at \in p.at /\ at[2] \in cx.lines THEN cx.hit ELSE c.hits[at]]
           scene == Push(c.scene, p)
<1>1. c.hits \in [Points -> 0..N] /\ Occurring(c.scene)
  BY CanvasIs DEF After, Occurring
<1>2. hits \in [Points -> 0..N]
  BY <1>1 DEF ContextOK
<1>3. Occurring(scene)
  BY <1>1, PushOccurs
<1> DEFINE refused == [c EXCEPT !.ok = FALSE]
           drawn == [c EXCEPT !.scene = scene, !.hits = hits]
<1>4. \/ DrawImage(c, p, cx) = c
      \/ DrawImage(c, p, cx) = refused
      \/ DrawImage(c, p, cx) = drawn
  BY Zenon DEF DrawImage
<1> HIDE DEF hits, scene
<1>5. refused \in After(ids, next) /\ drawn \in After(ids, next)
  BY <1>2, <1>3, OtherParts
<1> QED BY <1>4, <1>5

LEMMA DrawKeeps ==
    ASSUME NEW ids, NEW next \in Nat, NEW c \in After(ids, next), NEW d \in Drawings,
           NEW cx, ContextOK(cx)
    PROVE  Draw(c, d, cx) \in After(ids, next)
<1>1. CASE ~c.ok
  BY <1>1 DEF Draw
<1>2. CASE c.ok /\ d.kind = "image"
  <2>1. d.what \in Seq(Pictures) /\ d.area \in SUBSET Points
    BY <1>2 DEF Drawings
  <2> DEFINE p == [image |-> d.what, at |-> d.area]
  <2>2. p \in [image : Seq(Pictures), at : SUBSET Points]
    BY <2>1
  <2>3. Draw(c, d, cx) = DrawImage(c, p, cx)
    BY <1>2 DEF Draw
  <2> HIDE DEF p
  <2> QED BY <2>2, <2>3, DrawImageKeeps
<1>3. CASE c.ok /\ d.kind # "image"
  <2>1. d.what \in Seq(Graphemes) /\ d.at \in Int \X Int
    BY <1>3 DEF Drawings
  <2>2. Draw(c, d, cx) = DrawText(c, d.at, d.what, cx)
    BY <1>3 DEF Draw
  <2> QED BY <2>1, <2>2, DrawTextKeeps
<1> QED BY <1>1, <1>2, <1>3

LEMMA DrawAllKeeps ==
    ASSUME NEW ids, NEW next \in Nat, NEW c \in After(ids, next), NEW drawings \in Seq(Drawings),
           NEW cx, ContextOK(cx)
    PROVE  DrawAll(c, drawings, cx) \in After(ids, next)
<1> DEFINE n == Len(drawings)
           X == After(ids, next)
<1>1. n \in Nat /\ \A m \in 1..n : drawings[m] \in Drawings
  BY ElementOfSeq, LenProperties
<1>2. ASSUME NEW m \in 1..n, NEW d \in X PROVE DrawStep(d, m, drawings, cx) \in X
  BY <1>1, DrawKeeps DEF DrawStep
<1>3. c \in X
  OBVIOUS
<1> HIDE DEF X
<1> DEFINE k == n
<1>4. k \in Nat /\ k = Len(drawings) /\ \A m \in 1..k, d \in X : DrawStep(d, m, drawings, cx) \in X
  BY <1>1, <1>2
<1> HIDE DEF k
<1>5. PICK g : DrawRun(g, k, X, c, drawings, cx)
  BY <1>3, <1>4, DrawWalks
<1>6. g[k] \in X /\ DrawAll(c, drawings, cx) = g[k]
  BY <1>4, <1>5 DEF DrawRun
<1> QED BY <1>6 DEF X

LEMMA ParentIsBefore == \A n \in Nodes : Parent[n] \in 0..n - 1 /\ (Parent[n] # 0 => Parent[n] \in Nodes)
<1>1. \A n \in Nodes : Parent[n] \in 0..n - 1
  BY FramesAssumption
<1> QED BY <1>1, Consts DEF Nodes

\* What the node above leads to, from the root down.
TreeOf(f, X, B, G) ==
    /\ f \in [Nodes -> X]
    /\ \A n \in Nodes : f[n] = IF Parent[n] = 0 THEN B[n] ELSE G[n][f[Parent[n]]]

LEMMA TreeExists ==
    ASSUME NEW X, NEW B, NEW G, \A n \in Nodes : B[n] \in X,
           \A n \in Nodes, x \in X : G[n][x] \in X
    PROVE  \E f : TreeOf(f, X, B, G)
<1> DEFINE Good(f, m) == /\ f \in [1..m -> X]
                         /\ \A n \in 1..m : f[n] = IF Parent[n] = 0 THEN B[n] ELSE G[n][f[Parent[n]]]
           S == {m \in 0..N : \E f : Good(f, m)}
<1>0. N \in Nat /\ Nodes = 1..N
  BY Consts DEF Nodes
<1>1. 0 \in S
  <2> DEFINE none == [n \in 1..0 |-> B[n]]
  <2>1. Good(none, 0)
    OBVIOUS
  <2>2. \E f : Good(f, 0)
    BY <2>1, Zenon
  <2> HIDE DEF Good
  <2> QED BY <1>0, <2>2
<1>2. ASSUME NEW m \in 0..N - 1, m \in S PROVE m + 1 \in S
  <2>1. PICK f : Good(f, m)
    BY <1>2
  <2> DEFINE k == m + 1
             e == IF Parent[k] = 0 THEN B[k] ELSE G[k][f[Parent[k]]]
             q == [n \in 1..k |-> IF n = k THEN e ELSE f[n]]
  <2>2. k \in Nodes /\ (Parent[k] # 0 => Parent[k] \in 1..m)
    <3>1. k \in Nodes /\ k - 1 = m /\ m \in Nat
      BY <1>0
    <3> HIDE DEF k
    <3> QED BY <3>1, ParentIsBefore
  <2>3. e \in X
    BY <2>1, <2>2
  <2> HIDE DEF e
  <2>4. q \in [1..k -> X] /\ q[k] = e /\ \A n \in 1..m : q[n] = f[n]
    BY <2>1, <2>3
  <2> HIDE DEF q
  <2>5. ASSUME NEW n \in 1..k PROVE q[n] = IF Parent[n] = 0 THEN B[n] ELSE G[n][q[Parent[n]]]
    <3>1. CASE n = k
      <4>1. Parent[k] # 0 => q[Parent[k]] = f[Parent[k]]
        BY <2>2, <2>4
      <4> QED BY <2>4, <3>1, <4>1 DEF e
    <3>2. CASE n \in 1..m
      <4>1. n \in Nodes /\ n \in Nat /\ m \in Nat
        BY <1>0
      <4>2. Parent[n] # 0 => Parent[n] \in 1..m
        BY <3>2, <4>1, ParentIsBefore
      <4>3. q[n] = f[n] /\ (Parent[n] # 0 => q[Parent[n]] = f[Parent[n]])
        BY <2>4, <3>2, <4>2
      <4> QED BY <2>1, <3>2, <4>3
    <3> QED BY <3>1, <3>2
  <2>6. Good(q, k)
    BY <2>4, <2>5
  <2> QED BY <1>0, <2>6
<1>3. \A m \in 0..N : m \in S
  <2> HIDE DEF S
  <2> QED BY <1>0, <1>1, <1>2, Induction
<1>4. PICK f : Good(f, N)
  BY <1>0, <1>3
<1> QED BY <1>0, <1>4 DEF TreeOf

LEMMA TreeTyped ==
    ASSUME NEW X, NEW f, \A n \in Nodes : Parent[n] = 0 \/ f[Parent[n]] \in X => f[n] \in X
    PROVE  \A n \in Nodes : f[n] \in X
<1> DEFINE S == {m \in 0..N : \A n \in 1..m : f[n] \in X}
<1>0. N \in Nat /\ Nodes = 1..N
  BY Consts DEF Nodes
<1>1. 0 \in S
  BY <1>0
<1>2. ASSUME NEW m \in 0..N - 1, m \in S PROVE m + 1 \in S
  <2>1. m + 1 \in Nodes /\ (m + 1) - 1 = m
    BY <1>0
  <2>2. Parent[m + 1] = 0 \/ Parent[m + 1] \in 1..m
    <3> DEFINE k == m + 1
    <3>1. k \in Nodes /\ k - 1 = m /\ m \in Nat
      BY <2>1
    <3> HIDE DEF k
    <3>2. Parent[k] = 0 \/ Parent[k] \in 1..m
      BY <3>1, ParentIsBefore
    <3> QED BY <3>2 DEF k
  <2>3. f[m + 1] \in X
    BY <1>2, <2>1, <2>2
  <2>4. \A n \in 1..m + 1 : f[n] \in X
    BY <1>2, <2>3
  <2> QED BY <1>0, <2>4
<1>3. \A m \in 0..N : m \in S
  <2> HIDE DEF S
  <2> QED BY <1>0, <1>1, <1>2, Induction
<1> QED BY <1>0, <1>3

LEMMA ClipIsOnScreen == \A n \in Nodes : Clip[n] \subseteq Points
<1> DEFINE X == SUBSET Points
           G == [n \in Nodes |-> [x \in X |-> Layout[n] \cap x]]
           Is(c) == c = [n \in Nodes |-> IF Parent[n] = 0 THEN Layout[n] ELSE Layout[n] \cap c[Parent[n]]]
<1>0. \A n \in Nodes : Layout[n] \in X
  BY FramesAssumption
<1>1. \A n \in Nodes, x \in X : G[n][x] = Layout[n] \cap x /\ G[n][x] \in X
  OBVIOUS
<1> HIDE DEF G
<1>2. PICK f : TreeOf(f, X, Layout, G)
  <2> HIDE DEF X
  <2> QED BY <1>0, <1>1, TreeExists
<1>3. Is(f)
  <2>1. \A n \in Nodes : f[n] = IF Parent[n] = 0 THEN Layout[n] ELSE Layout[n] \cap f[Parent[n]]
    BY <1>1, <1>2, ParentIsBefore DEF TreeOf
  <2> QED BY <1>2, <2>1 DEF TreeOf
<1>4. Is(Clip)
  <2> DEFINE h == CHOOSE c : Is(c)
  <2>1. Is(h)
    BY <1>3, Zenon
  <2>2. Clip = h
    BY Zenon DEF Clip
  <2> QED BY <2>1, <2>2, Zenon
<1> DEFINE c == Clip
<1> HIDE DEF c
<1>5. \A n \in Nodes : c[n] = IF Parent[n] = 0 THEN Layout[n] ELSE Layout[n] \cap c[Parent[n]]
  BY <1>4, Zenon DEF c
<1>6. \A n \in Nodes : c[n] \in X
  <2>1. \A n \in Nodes : c[n] \in X
    BY <1>0, <1>5
  <2> QED BY <2>1
<1> QED BY <1>6 DEF c

LEMMA StyleIsStyle ==
    ASSUME NEW v \in Views, NEW focused
    PROVE  \A n \in Nodes : Style(v, focused)[n] \in Styles
<1> DEFINE X == Styles
           Own(n) == IF focused = n THEN FocusStyle ELSE v[n].style
           B == [n \in Nodes |-> IF focused = n THEN FocusStyle
                                 ELSE IF v[n].style # Plain THEN v[n].style ELSE Plain]
           G == [n \in Nodes |-> [x \in X |-> IF focused = n THEN FocusStyle
                                              ELSE IF v[n].style # Plain THEN v[n].style ELSE x]]
           Is(c) == c = [n \in Nodes |-> IF focused = n THEN FocusStyle
                                         ELSE IF v[n].style # Plain THEN v[n].style
                                         ELSE IF Parent[n] = 0 THEN Plain ELSE c[Parent[n]]]
<1>0. /\ \A n \in Nodes : v[n].style \in X
      /\ FocusStyle \in X /\ Plain \in X
  BY Consts, FramesAssumption DEF Views
<1>1. /\ \A n \in Nodes : /\ B[n] = IF focused = n THEN FocusStyle
                                    ELSE IF v[n].style # Plain THEN v[n].style ELSE Plain
                          /\ B[n] \in X
      /\ \A n \in Nodes, x \in X : /\ G[n][x] = IF focused = n THEN FocusStyle
                                                ELSE IF v[n].style # Plain THEN v[n].style ELSE x
                                   /\ G[n][x] \in X
  BY <1>0
<1> HIDE DEF G, B
<1>2. PICK f : TreeOf(f, X, B, G)
  BY <1>1, TreeExists
<1>3. Is(f)
  <2>1. \A n \in Nodes : f[n] = IF focused = n THEN FocusStyle
                                ELSE IF v[n].style # Plain THEN v[n].style
                                ELSE IF Parent[n] = 0 THEN Plain ELSE f[Parent[n]]
    BY <1>1, <1>2, ParentIsBefore DEF TreeOf
  <2> QED BY <1>2, <2>1 DEF TreeOf
<1>4. Is(Style(v, focused))
  <2> DEFINE h == CHOOSE c : Is(c)
  <2>1. Is(h)
    BY <1>3, Zenon
  <2>2. Style(v, focused) = h
    BY Zenon DEF Style
  <2> QED BY <2>1, <2>2, Zenon
<1> DEFINE c == Style(v, focused)
<1> HIDE DEF c
<1>5. \A n \in Nodes : c[n] = IF focused = n THEN FocusStyle
                              ELSE IF v[n].style # Plain THEN v[n].style
                              ELSE IF Parent[n] = 0 THEN Plain ELSE c[Parent[n]]
  BY <1>4, Zenon DEF c
<1>6. \A n \in Nodes : Parent[n] = 0 \/ c[Parent[n]] \in X => c[n] \in X
  BY <1>0, <1>5
<1>7. \A n \in Nodes : c[n] \in X
  BY <1>6, TreeTyped
<1> QED BY <1>7 DEF c

LEMMA HitIsNode ==
    ASSUME NEW v
    PROVE  \A n \in Nodes : HitOf(v)[n] \in 0..N
<1> DEFINE X == 0..N
           B == [n \in Nodes |-> IF v[n].interactive THEN n ELSE 0]
           G == [n \in Nodes |-> [x \in X |-> IF v[n].interactive THEN n ELSE x]]
           Is(c) == c = [n \in Nodes |-> IF v[n].interactive THEN n
                                         ELSE IF Parent[n] = 0 THEN 0 ELSE c[Parent[n]]]
<1>0. 0 \in X /\ \A n \in Nodes : n \in X
  BY Consts DEF Nodes
<1> HIDE DEF X
<1>1. /\ \A n \in Nodes : /\ B[n] = IF v[n].interactive THEN n ELSE 0
                          /\ B[n] \in X
      /\ \A n \in Nodes, x \in X : /\ G[n][x] = IF v[n].interactive THEN n ELSE x
                                   /\ G[n][x] \in X
  BY <1>0
<1> HIDE DEF G, B
<1>2. PICK f : TreeOf(f, X, B, G)
  BY <1>1, TreeExists
<1>3. Is(f)
  <2>1. \A n \in Nodes : f[n] = IF v[n].interactive THEN n
                                ELSE IF Parent[n] = 0 THEN 0 ELSE f[Parent[n]]
    BY <1>1, <1>2, ParentIsBefore DEF TreeOf
  <2> QED BY <1>2, <2>1 DEF TreeOf
<1>4. Is(HitOf(v))
  <2> DEFINE h == CHOOSE c : Is(c)
  <2>1. Is(h)
    BY <1>3, Zenon
  <2>2. HitOf(v) = h
    BY Zenon DEF HitOf
  <2> QED BY <2>1, <2>2, Zenon
<1> DEFINE c == HitOf(v)
<1> HIDE DEF c
<1>5. \A n \in Nodes : c[n] = IF v[n].interactive THEN n
                              ELSE IF Parent[n] = 0 THEN 0 ELSE c[Parent[n]]
  BY <1>4, Zenon DEF c
<1>6. \A n \in Nodes : Parent[n] = 0 \/ c[Parent[n]] \in X => c[n] \in X
  BY <1>0, <1>5
<1>7. \A n \in Nodes : c[n] \in X
  BY <1>6, TreeTyped
<1> QED BY <1>7 DEF c, X

LEMMA ViewIs ==
    ASSUME NEW v \in Views, NEW n \in Nodes
    PROVE  v[n] \in Variants[n] /\ v[n].text \in Seq(Drawings) /\ v[n].paint \in Seq(Drawings)
<1>1. v[n] \in Variants[n]
  BY DEF Views
<1>2. \A e \in Variants[n] : e.text \in Seq(Drawings) /\ e.paint \in Seq(Drawings)
  BY FramesAssumption
<1> QED BY <1>1, <1>2

LEMMA PaintNodeKeeps ==
    ASSUME NEW ids, NEW next \in Nat, NEW c \in After(ids, next), NEW n \in Nodes,
           NEW v \in Views, NEW focused, NEW lines, NEW p \in Policies
    PROVE  PaintNode(c, n, v, focused, lines, p) \in After(ids, next)
<1> DEFINE cx == [clip |-> Clip[n], lines |-> lines, hit |-> HitOf(v)[n],
                  style |-> Style(v, focused)[n], policy |-> p]
           filled == IF v[n].fill THEN Fill(c, Layout[n], cx) ELSE c
           drawings == v[n].text \o v[n].paint
<1>1. ContextOK(cx)
  BY ClipIsOnScreen, StyleIsStyle, HitIsNode DEF ContextOK
<1>2. drawings \in Seq(Drawings)
  BY ViewIs, ConcatProperties
<1>3. PaintNode(c, n, v, focused, lines, p) = c
      \/ PaintNode(c, n, v, focused, lines, p) = DrawAll(filled, drawings, cx)
  BY DEF PaintNode
<1> HIDE DEF cx, drawings
<1>4. filled \in After(ids, next)
  BY <1>1, FillKeeps
<1> HIDE DEF filled
<1>5. DrawAll(filled, drawings, cx) \in After(ids, next)
  BY <1>1, <1>2, <1>4, DrawAllKeeps
<1> QED BY <1>3, <1>5

LEMMA PaintAllKeeps ==
    ASSUME NEW ids, NEW next \in Nat, NEW c \in After(ids, next),
           NEW v \in Views, NEW focused, NEW lines, NEW p \in Policies
    PROVE  PaintAll(c, v, focused, lines, p) \in After(ids, next)
<1> DEFINE X == After(ids, next)
<1>0. N \in Nat
  BY Consts
<1>1. \A m \in 1..N, d \in X : PaintStep(d, m, v, focused, lines, p) \in X
  BY PaintNodeKeeps DEF PaintStep, Nodes
<1>2. c \in X
  OBVIOUS
<1> HIDE DEF X
<1>3. PICK g : PaintRun(g, N, X, c, v, focused, lines, p)
  <2> DEFINE k == N
  <2>1. k \in Nat /\ k = N /\ \A m \in 1..k, d \in X : PaintStep(d, m, v, focused, lines, p) \in X
    BY <1>0, <1>1
  <2> HIDE DEF k
  <2>2. \E g : PaintRun(g, k, X, c, v, focused, lines, p)
    BY <1>2, <2>1, PaintWalks
  <2> QED BY <2>2 DEF k
<1>4. g[N] \in X /\ PaintAll(c, v, focused, lines, p) = [g[N] EXCEPT !.scene = FinishRepaint(@)]
  BY <1>0, <1>3 DEF PaintRun
<1> DEFINE d == g[N]
           scene == FinishRepaint(d.scene)
<1>5. d \in After(ids, next) /\ PaintAll(c, v, focused, lines, p) = [d EXCEPT !.scene = scene]
  BY <1>4 DEF X
<1> HIDE DEF d
<1>6. Occurring(d.scene) /\ d.hits \in [Points -> 0..N]
  BY <1>5, CanvasIs DEF After, Occurring
<1>7. Occurring(scene)
  BY <1>6, FinishOccurs
<1> HIDE DEF scene
<1>8. [d EXCEPT !.scene = scene] \in After(ids, next)
  BY <1>5, <1>6, <1>7, OtherParts
<1> QED BY <1>5, <1>8

LEMMA CanvasOK ==
    ASSUME NEW frame \in FrameSet, NEW next \in 1..MaxId + 1, Sound(frame, next)
    PROVE  Canvas(frame, next) \in After(frame.ids, next)
<1> DEFINE c == Canvas(frame, next)
<1>1. c \in Canvases
  BY DEF Canvas, Canvases, FrameSet
<1>2. c.rows = frame.rows /\ c.ids = frame.ids /\ c.next = next
  BY DEF Canvas
<1> HIDE DEF c
<1>3. next <= next
  BY Consts
<1>4. Sound(c, c.next) /\ Keeps(frame.ids, next, c)
  BY <1>2, <1>3 DEF Sound, Keeps
<1> QED BY <1>1, <1>4 DEF After, c

LEMMA BlankIs ==
    /\ Blank \in Rows /\ Whole(Blank) /\ \A x \in Columns : IsEmpty(Blank[x])
    /\ [BlankFrame EXCEPT !.ids = <<>>] = BlankFrame
<1>1. \A x \in Columns : Blank[x] = Empty(Plain)
  BY DEF Blank
<1>2. Blank \in Rows
  BY EmptyCell, Consts DEF Blank, Rows
<1>3. Whole(Blank)
  BY <1>1 DEF Whole, Empty
<1> QED BY <1>1, <1>2, <1>3, EmptyIsEmpty DEF BlankFrame

LEMMA BlankOK ==
    ASSUME NEW ids \in IdMaps, NEW next \in 1..MaxId + 1, Given(ids, next)
    PROVE  /\ [BlankFrame EXCEPT !.ids = ids] \in FrameSet
           /\ Sound([BlankFrame EXCEPT !.ids = ids], next)
           /\ [BlankFrame EXCEPT !.ids = ids].ids = ids
<1> DEFINE f == [BlankFrame EXCEPT !.ids = ids]
           rows == [y \in Lines |-> Blank]
           hits == [at \in Points |-> 0]
<1>1. rows \in [Lines -> Rows] /\ hits \in [Points -> 0..N] /\ <<>> \in Seq(Occurrences)
  BY BlankIs, Consts, EmptySeq
<1>2. f = [rows |-> rows, hits |-> hits, scene |-> <<>>, ids |-> ids]
  BY DEF BlankFrame
<1>3. \A y \in Lines : rows[y] = Blank
  OBVIOUS
<1> HIDE DEF rows, hits, f
<1>4. f \in FrameSet /\ f.ids = ids /\ f.rows = rows
  BY <1>1, <1>2 DEF FrameSet
<1>5. \A y \in Lines : RowOK(f.rows[y], ids)
  BY <1>3, <1>4, BlankIs DEF RowOK
<1> QED BY <1>4, <1>5 DEF Sound, f

LEMMA PaintFrameKeeps ==
    ASSUME NEW ids \in IdMaps, NEW next \in 1..MaxId + 1, Given(ids, next),
           NEW v \in Views, NEW focused, NEW p \in Policies
    PROVE  PaintFrame(ids, v, focused, p, next) \in After(ids, next)
<1> DEFINE f == [BlankFrame EXCEPT !.ids = ids]
           c == Canvas(f, next)
<1>1. f \in FrameSet /\ Sound(f, next) /\ f.ids = ids
  BY BlankOK
<1>2. PaintFrame(ids, v, focused, p, next) = PaintAll(c, v, focused, Lines, p)
  BY DEF PaintFrame
<1> HIDE DEF f
<1>3. c \in After(ids, next) /\ next \in Nat
  BY <1>1, CanvasOK, Consts
<1> HIDE DEF c
<1> QED BY <1>2, <1>3, PaintAllKeeps

LEMMA RepaintKeeps ==
    ASSUME NEW frame \in FrameSet, NEW next \in 1..MaxId + 1, Sound(frame, next),
           NEW v \in Views, NEW focused, NEW lines, NEW p \in Policies
    PROVE  RepaintDamagedRows(frame, v, focused, lines, p, next) \in After(frame.ids, next)
<1> DEFINE all == [clip |-> Points, lines |-> lines, hit |-> 0, style |-> Plain, policy |-> p]
           base == Canvas(frame, next)
           damage == {at \in Points : at[2] \in lines}
           scene == MarkDamaged(base.scene, damage)
           c == [base EXCEPT !.scene = scene]
           ids == frame.ids
<1>1. RepaintDamagedRows(frame, v, focused, lines, p, next)
      = PaintAll(Fill(c, Points, all), v, focused, lines, p)
  BY DEF RepaintDamagedRows
<1>2. ContextOK(all)
  BY Consts DEF ContextOK
<1>3. base \in After(ids, next) /\ next \in Nat
  BY CanvasOK, Consts
<1> HIDE DEF all, base, damage, ids
<1>4. Occurring(base.scene) /\ base.hits \in [Points -> 0..N]
  BY <1>3, CanvasIs DEF After, Occurring
<1>5. Occurring(scene)
  BY <1>4, MarkOccurs
<1> HIDE DEF scene
<1>6. c \in After(ids, next)
  BY <1>3, <1>4, <1>5, OtherParts
<1> HIDE DEF c
<1>7. Fill(c, Points, all) \in After(ids, next)
  BY <1>2, <1>3, <1>6, FillKeeps
<1>8. PaintAll(Fill(c, Points, all), v, focused, lines, p) \in After(ids, next)
  BY <1>3, <1>7, PaintAllKeeps
<1> QED BY <1>1, <1>8 DEF ids

--------------------------------------------------------------------------------
(* The difference of two frames.                                           *)
Framed(frame) ==
    /\ frame.rows \in [Lines -> Rows] /\ \A y \in Lines : Whole(frame.rows[y])
    /\ Occurring(frame.scene)

LEMMA CellIs ==
    ASSUME NEW frame, Framed(frame), NEW at \in Points
    PROVE  /\ Cell(frame, at) = frame.rows[at[2]][at[1]] /\ Cell(frame, at) \in Cells
           /\ Cell(frame, at).width \in 0..2 /\ Cell(frame, at).offset \in 0..1
           /\ Cell(frame, at).style \in Styles /\ Cell(frame, at).id \in Ids \cup {0}
<1>1. at[1] \in Columns /\ at[2] \in Lines
  BY PointParts
<1>2. frame.rows[at[2]] \in [Columns -> Cells]
  BY <1>1 DEF Framed, Rows
<1>3. Cell(frame, at) \in Cells
  BY <1>1, <1>2 DEF Cell
<1> QED BY <1>3 DEF Cell, Cells

\* The halves of a wide grapheme on the screen.
LEMMA HalvesOnScreen ==
    ASSUME NEW frame, Framed(frame), NEW at \in Points
    PROVE  /\ Cell(frame, at).width > 0 => Cell(frame, at).offset = 0
           /\ Cell(frame, at).width = 2 =>
                 /\ Right(at, 1) \in Points
                 /\ Cell(frame, Right(at, 1)) = TailCell(Cell(frame, at).id, Cell(frame, at).style)
           /\ Cell(frame, at).offset = 1 =>
                 /\ Right(at, -1) \in Points
                 /\ Cell(frame, Right(at, -1)) = HeadCell(Cell(frame, at).id, 2, Cell(frame, at).style)
<1> DEFINE x == at[1]
           y == at[2]
           row == frame.rows[y]
<1>1. x \in Columns /\ y \in Lines /\ Cell(frame, at) = row[x] /\ x \in Int
  BY PointParts, CellIs
<1>2. Whole(row)
  BY <1>1 DEF Framed
<1>3. Right(at, 1) = <<x + 1, y>> /\ Right(at, -1) = <<x - 1, y>>
  BY <1>1 DEF Right
<1>4. \A z \in Columns : <<z, y>> \in Points /\ Cell(frame, <<z, y>>) = row[z]
  BY <1>1 DEF Points, Cell
<1> HIDE DEF x, y, row
<1>5. row[x].width > 0 => row[x].offset = 0
  BY <1>1, <1>2 DEF Whole
<1>6. row[x].width = 2 => x + 1 \in Columns /\ row[x + 1] = TailCell(row[x].id, row[x].style)
  BY <1>1, <1>2 DEF Whole
<1>7. row[x].offset = 1 => x - 1 \in Columns /\ row[x - 1] = HeadCell(row[x].id, 2, row[x].style)
  BY <1>1, <1>2 DEF Whole
<1> QED BY <1>1, <1>3, <1>4, <1>5, <1>6, <1>7

\* The points of a span.
LEMMA SpanIs ==
    ASSUME NEW frame, Framed(frame), NEW at \in Points
    PROVE  /\ Cell(frame, at).width = 2 => SpanAt(frame, at) = {at, Right(at, 1)}
           /\ Cell(frame, at).offset = 1 => SpanAt(frame, at) = {Right(at, -1), at}
           /\ Cell(frame, at).width < 2 /\ Cell(frame, at).offset = 0 => SpanAt(frame, at) = {at}
<1> DEFINE x == at[1]
           y == at[2]
           c == Cell(frame, at)
           from == Start(frame.rows[y], x)
           w == Cell(frame, <<from, y>>).width
<1>1. at = <<x, y>> /\ x \in Int /\ c = frame.rows[y][x] /\ Right(at, 1) = <<x + 1, y>> /\ Right(at, -1) = <<x - 1, y>>
  BY PointParts, CellIs DEF Right
<1>2. SpanAt(frame, at) = IF IsEmpty(c) THEN {at} ELSE {<<z, y>> : z \in from..from + w - 1}
  BY DEF SpanAt
<1>3. c.width \in 0..2 /\ c.offset \in 0..1 /\ from = x - c.offset
  BY <1>1, CellIs DEF Start
<1>4. c.width > 0 => c.offset = 0
  BY HalvesOnScreen
<1>5. c.offset = 1 => w = 2
  BY <1>1, <1>3, HalvesOnScreen DEF HeadCell
<1>6. c.offset = 0 => from = x /\ w = c.width
  BY <1>1, <1>3
<1> HIDE DEF x, y, c, from, w
<1>7. c.width = 2 => SpanAt(frame, at) = {at, Right(at, 1)}
  <2> SUFFICES ASSUME c.width = 2 PROVE SpanAt(frame, at) = {at, Right(at, 1)}
    OBVIOUS
  <2>1. ~IsEmpty(c) /\ from = x /\ w = 2
    BY <1>4, <1>6 DEF IsEmpty
  <2>2. x .. x + 2 - 1 = {x, x + 1}
    BY <1>1
  <2>3. SpanAt(frame, at) = {<<z, y>> : z \in {x, x + 1}}
    BY <1>2, <2>1, <2>2
  <2> QED BY <1>1, <2>3
<1>8. c.offset = 1 => SpanAt(frame, at) = {Right(at, -1), at}
  <2> SUFFICES ASSUME c.offset = 1 PROVE SpanAt(frame, at) = {Right(at, -1), at}
    OBVIOUS
  <2>1. ~IsEmpty(c) /\ from = x - 1 /\ w = 2
    BY <1>3, <1>5 DEF IsEmpty
  <2>2. x - 1 .. (x - 1) + 2 - 1 = {x - 1, x}
    BY <1>1
  <2>3. SpanAt(frame, at) = {<<z, y>> : z \in {x - 1, x}}
    BY <1>2, <2>1, <2>2
  <2> QED BY <1>1, <2>3
<1>9. c.width < 2 /\ c.offset = 0 => SpanAt(frame, at) = {at}
  <2> SUFFICES ASSUME c.width < 2, c.offset = 0, ~IsEmpty(c) PROVE SpanAt(frame, at) = {at}
    BY <1>2
  <2>1. c.width = 1 /\ from = x /\ w = 1
    BY <1>3, <1>6 DEF IsEmpty
  <2>2. x .. x + 1 - 1 = {x}
    BY <1>1
  <2>3. SpanAt(frame, at) = {<<z, y>> : z \in {x}}
    BY <1>2, <2>1, <2>2
  <2> QED BY <1>1, <2>3
<1> QED BY <1>7, <1>8, <1>9 DEF c

LEMMA SpanPart ==
    ASSUME NEW frame, Framed(frame), NEW at \in Points, NEW b \in SpanIn(frame, at)
    PROVE  /\ b \in Points
           /\ \/ b = at
              \/ b[1] = at[1] + 1
              \/ /\ b[1] = at[1] - 1 /\ Right(b, 1) = at /\ Cell(frame, b).width = 2
<1>1. CASE Cell(frame, at).width = 2
  <2>1. b = at \/ b = Right(at, 1)
    BY <1>1, SpanIs DEF SpanIn
  <2>2. Right(at, 1) \in Points /\ Right(at, 1)[1] = at[1] + 1
    BY <1>1, HalvesOnScreen DEF Right
  <2> QED BY <2>1, <2>2
<1>2. CASE Cell(frame, at).offset = 1
  <2>1. b = at \/ b = Right(at, -1)
    BY <1>2, SpanIs DEF SpanIn
  <2>2. Right(at, -1) \in Points /\ Cell(frame, Right(at, -1)).width = 2
    BY <1>2, HalvesOnScreen DEF HeadCell
  <2>3. Right(at, -1)[1] = at[1] - 1 /\ Right(Right(at, -1), 1) = at
    BY PointParts DEF Right
  <2> QED BY <2>1, <2>2, <2>3
<1>3. CASE Cell(frame, at).width < 2 /\ Cell(frame, at).offset = 0
  BY <1>3, SpanIs DEF SpanIn
<1> QED BY <1>1, <1>2, <1>3, CellIs

LEMMA SpanWhole ==
    ASSUME NEW frame, Framed(frame), NEW at \in Points
    PROVE  /\ Cell(frame, at).width = 2 => Right(at, 1) \in SpanIn(frame, at)
           /\ Cell(frame, at).offset = 1 => Right(at, -1) \in SpanIn(frame, at)
BY SpanIs DEF SpanIn, IsEmpty

\* A set of points that cuts no grapheme of the frame at this point.
WholeAt(frame, at, points) ==
    /\ Cell(frame, at).width = 2 => Right(at, 1) \in points
    /\ Cell(frame, at).offset = 1 => Right(at, -1) \in points

\* One pass from left to right is enough to keep the graphemes of the new frame whole,
\* given that both frames are whole: what it adds behind itself is the head of an old
\* grapheme, which is a head in the new frame as well or was different to begin with.
THEOREM SpansAreWhole ==
    ASSUME NEW old, NEW new, Framed(old), Framed(new), NEW changed, changed \subseteq Points,
           \A at \in Points : Cell(old, at) # Cell(new, at) => at \in changed
    PROVE  /\ changed \subseteq IncludeSpans(old, new, changed)
           /\ IncludeSpans(old, new, changed) \subseteq Points
           /\ \A at \in IncludeSpans(old, new, changed) :
                 WholeAt(new, at, IncludeSpans(old, new, changed))
<1> DEFINE X == SUBSET Points
<1>0. Width \in Nat
  BY Consts
<1>1. ASSUME NEW m \in 1..Width, NEW d \in X
      PROVE  SpansStep(d, m, old, new) \in X
  <2>1. \A at \in d : SpanIn(old, at) \subseteq Points /\ SpanIn(new, at) \subseteq Points
    BY SpanPart
  <2> QED BY <2>1 DEF SpansStep
<1>2. changed \in X
  OBVIOUS
<1>3. PICK g : SpansRun(g, Width, X, changed, old, new)
  <2> HIDE DEF X
  <2> DEFINE k == Width
  <2>1. k \in Nat /\ k = Width /\ \A m \in 1..k, d \in X : SpansStep(d, m, old, new) \in X
    BY <1>0, <1>1
  <2> HIDE DEF k
  <2>2. \E g : SpansRun(g, k, X, changed, old, new)
    BY <1>2, <2>1, SpansWalk
  <2> QED BY <2>2 DEF k
<1>4. /\ g \in [0..Width -> X] /\ g[0] = changed /\ IncludeSpans(old, new, changed) = g[Width]
      /\ \A m \in 1..Width : g[m] = SpansStep(g[m - 1], m, old, new)
  BY <1>3 DEF SpansRun
<1> DEFINE S == {m \in 0..Width : /\ changed \subseteq g[m]
                                  /\ \A at \in g[m] : at[1] < m => WholeAt(new, at, g[m])}
<1>5. 0 \in S
  <2>1. \A at \in g[0] : ~(at[1] < 0)
    BY <1>4, PointParts, Consts DEF Columns
  <2> QED BY <1>0, <1>4, <2>1
<1>6. ASSUME NEW m \in 0..Width - 1, m \in S PROVE m + 1 \in S
  <2> DEFINE k == m + 1
             d == g[m]
             e == g[k]
  <2>1. k \in 1..Width /\ k - 1 = m /\ m \in 0..Width /\ m \in Int
    BY <1>0
  <2>2. d \subseteq Points /\ e \subseteq Points
    BY <1>4, <2>1
  <2>3. e = SpansStep(d, k, old, new)
    BY <1>4, <2>1
  <2>4. changed \subseteq d /\ \A at \in d : at[1] < m => WholeAt(new, at, d)
    BY <1>6
  <2> HIDE DEF d, e, k
  <2>5. /\ d \subseteq e
        /\ \A at \in d : at[1] = m => SpanIn(new, at) \subseteq e
        /\ \A b \in e : b \in d \/ \E at \in d : at[1] = m /\ (b \in SpanIn(old, at) \/ b \in SpanIn(new, at))
    BY <2>1, <2>3 DEF SpansStep
  <2>6. ASSUME NEW at \in e, at[1] < k PROVE WholeAt(new, at, e)
    <3>1. at \in Points /\ at[1] \in Int
      BY <2>2, PointParts
    <3>2. CASE at \in d /\ at[1] < m
      BY <2>4, <2>5, <3>2 DEF WholeAt
    <3>3. CASE at \in d /\ at[1] = m
      <4>1. SpanIn(new, at) \subseteq e
        BY <2>5, <3>3
      <4> QED BY <3>1, <4>1, SpanWhole DEF WholeAt
    <3>4. CASE at \notin d
      <4>1. PICK b \in d : b[1] = m /\ (at \in SpanIn(old, b) \/ at \in SpanIn(new, b))
        BY <2>5, <3>4
      <4>2. b \in Points /\ b \in e /\ b # at
        BY <2>2, <2>5, <3>4, <4>1
      <4>3. ~(at[1] = b[1] + 1)
        BY <2>1, <2>6, <3>1, <4>1 DEF k
      <4>4. Right(at, 1) = b /\ (Cell(old, at).width = 2 \/ Cell(new, at).width = 2)
        BY <4>1, <4>2, <4>3, SpanPart
      <4>5. Cell(old, at) = Cell(new, at)
        BY <2>4, <3>1, <3>4
      <4>6. Cell(new, at).width = 2 /\ Cell(new, at).offset = 0
        BY <3>1, <4>4, <4>5, HalvesOnScreen
      <4> QED BY <4>2, <4>4, <4>6 DEF WholeAt
    <3>5. at[1] < m \/ at[1] = m
      BY <2>1, <2>6, <3>1 DEF k
    <3> QED BY <3>2, <3>3, <3>4, <3>5
  <2>7. changed \subseteq e
    BY <2>4, <2>5
  <2>8. k \in 0..Width
    BY <2>1
  <2>9. k \in S
    BY <2>6, <2>7, <2>8 DEF e
  <2> QED BY <2>9 DEF k
<1>7. \A m \in 0..Width : m \in S
  <2> HIDE DEF S
  <2> QED BY <1>0, <1>5, <1>6, Induction
<1>8. Width \in S /\ g[Width] \subseteq Points
  BY <1>0, <1>4, <1>7
<1>9. \A at \in g[Width] : at[1] < Width
  BY <1>0, <1>8, PointParts DEF Columns
<1> QED BY <1>4, <1>8, <1>9

\* What the terminal may rely on in a patch.
PatchCovers(patch, old, new, full) ==
    /\ patch.full = full /\ patch.images = (full \/ ImagesDiffer(old, new))
    /\ patch.cells \subseteq Points /\ PatchIsWhole(new, patch)
    /\ \A at \in Points : at \in patch.cells \/ (~full /\ Cell(old, at) = Cell(new, at))
    /\ patch.images => Coverage(old.scene) \cup Coverage(new.scene) \subseteq patch.cells

LEMMA CoverageIsOnScreen ==
    ASSUME NEW scene, Occurring(scene)
    PROVE  Coverage(scene) \subseteq Points
<1>1. \A i \in 1..Len(scene) : scene[i].p.at \subseteq Points
  BY SceneParts DEF Occurrences
<1> QED BY <1>1 DEF Coverage

LEMMA DiffCovers ==
    ASSUME NEW old, NEW new, Framed(old), Framed(new), NEW full \in BOOLEAN
    PROVE  PatchCovers(Diff(old, new, full), old, new, full)
<1> DEFINE differing == {at \in Points : Cell(old, at) # Cell(new, at)}
           both == Coverage(old.scene) \cup Coverage(new.scene)
           covered == IF ImagesDiffer(old, new) THEN both ELSE {}
           changed == differing \cup covered
           spans == IncludeSpans(old, new, changed)
           cells == IF full THEN Points ELSE spans
           images == full \/ ImagesDiffer(old, new)
           patch == [full |-> full, cells |-> cells, images |-> images]
<1>1. both \subseteq Points
  BY CoverageIsOnScreen DEF Framed
<1>2. changed \subseteq Points /\ \A at \in Points : Cell(old, at) # Cell(new, at) => at \in changed
  BY <1>1
<1> HIDE DEF both
<1>3. /\ changed \subseteq spans /\ spans \subseteq Points
      /\ \A at \in spans : WholeAt(new, at, spans)
  <2> HIDE DEF changed
  <2> QED BY <1>2, SpansAreWhole
<1>4. Diff(old, new, full) = patch
  BY DEF Diff, both
<1>5. ImagesDiffer(old, new) => both \subseteq changed
  OBVIOUS
<1> HIDE DEF changed, spans
<1>6. cells \subseteq Points /\ (images => both \subseteq cells)
  BY <1>1, <1>3, <1>5
<1>7. \A at \in cells : WholeAt(new, at, cells)
  BY <1>3, HalvesOnScreen DEF WholeAt
<1>8. \A at \in Points : at \in cells \/ (~full /\ Cell(old, at) = Cell(new, at))
  BY <1>2, <1>3
<1> HIDE DEF cells, images
<1>9. PatchIsWhole(new, patch)
  BY <1>7 DEF PatchIsWhole, WholeAt
<1> QED BY <1>4, <1>6, <1>8, <1>9 DEF PatchCovers, both, images

--------------------------------------------------------------------------------
(* The terminal.                                                           *)
LEMMA Division ==
    ASSUME NEW w \in Nat \ {0}, NEW y \in Nat, NEW x \in 0..w - 1
    PROVE  (y * w + x) % w = x /\ (y * w + x) \div w = y
<1> DEFINE a == y * w + x
           q == a \div w
           r == a % w
<1>1. a \in Nat
  <2>1. y * w \in Nat
    OBVIOUS
  <2> DEFINE p == y * w
  <2>2. p \in Nat
    BY <2>1
  <2> HIDE DEF p
  <2>3. p + x \in Nat
    BY <2>2
  <2> QED BY <2>3 DEF p
<1>2. q \in Int /\ r \in 0..w - 1 /\ a = w * q + r
  <2> HIDE DEF a
  <2> QED BY <1>1
<1> HIDE DEF q, r
<1>3. w * (y - q) = r - x
  BY <1>2
<1>4. y = q
  <2>1. y - q > 0 => w * (y - q) >= w
    BY <1>2
  <2>2. y - q < 0 => w * (y - q) <= -w
    BY <1>2
  <2> QED BY <1>2, <1>3, <2>1, <2>2
<1> QED BY <1>2, <1>3, <1>4 DEF q, r

LEMMA PointReached ==
    ASSUME NEW at \in Points
    PROVE  \E m \in 1..Width * Height : Point(m) = at
<1> DEFINE x == at[1]
           y == at[2]
           m == y * Width + x + 1
<1>1. Width \in Nat \ {0} /\ Height \in Nat \ {0} /\ x \in 0..Width - 1 /\ y \in 0..Height - 1 /\ at = <<x, y>>
  BY Consts, PointParts DEF Columns, Lines
<1> HIDE DEF x, y
<1>2. (m - 1) % Width = x /\ (m - 1) \div Width = y
  <2>1. m - 1 = y * Width + x
    BY <1>1
  <2> HIDE DEF m
  <2>2. y \in Nat
    BY <1>1
  <2> QED BY <1>1, <2>1, <2>2, Division
<1>3. m \in 1..Width * Height
  <2> DEFINE d == Height - 1 - y
  <2>1. d \in Nat /\ y \in Nat /\ Height = y + 1 + d
    BY <1>1
  <2> HIDE DEF d
  <2>2. Width * Height = y * Width + Width + d * Width
    BY <1>1, <2>1
  <2>3. d * Width \in Nat /\ y * Width \in Nat /\ Width * Height \in Nat
    BY <1>1, <2>1
  <2> DEFINE p == d * Width
             q == y * Width
             t == Width * Height
  <2>4. p \in Nat /\ q \in Nat /\ t \in Nat /\ t = q + Width + p /\ m = q + x + 1
    BY <2>2, <2>3
  <2> HIDE DEF p, q, t, m
  <2>5. m \in 1..t
    BY <1>1, <2>4
  <2> QED BY <2>5 DEF t
<1> QED BY <1>1, <1>2, <1>3 DEF Point

\* What a cell of the frame looks like on the terminal.
Want(frame, at) ==
    LET c == Cell(frame, at)
    IN  IF IsEmpty(c) THEN <<" ", "lone", c.style>>
        ELSE <<TextOf(frame.ids, c.id),
               IF c.offset = 1 THEN "tail" ELSE IF c.width = 2 THEN "head" ELSE "lone", c.style>>

LEMMA WantIs ==
    ASSUME NEW frame, Framed(frame), NEW at \in Points
    PROVE  /\ Want(frame, at)[2] = "head" => Cell(frame, at).width = 2
           /\ Want(frame, at)[2] = "tail" => Cell(frame, at).offset = 1
BY CellIs DEF Want

LEMMA GlyphsAre ==
    ASSUME NEW frame, Framed(frame), NEW at \in Points, Cell(frame, at).offset = 0
    PROVE  /\ Len(Glyphs(frame, at)) = IF Cell(frame, at).width = 2 THEN 2 ELSE 1
           /\ Glyphs(frame, at)[1] = Want(frame, at)
           /\ Cell(frame, at).width = 2 => Glyphs(frame, at)[2] = Want(frame, Right(at, 1))
<1> DEFINE c == Cell(frame, at)
           text == TextOf(frame.ids, c.id)
           head == <<text, "head", c.style>>
           tail == <<text, "tail", c.style>>
           lone == <<text, "lone", c.style>>
           space == <<" ", "lone", c.style>>
<1>0. c.width \in 0..2 /\ c.offset = 0
  BY CellIs
<1>1. /\ c.width = 2 => Glyphs(frame, at) = <<head, tail>>
      /\ c.width = 1 => Glyphs(frame, at) = <<lone>>
      /\ c.width = 0 => Glyphs(frame, at) = <<space>>
  <2>1. Glyphs(frame, at) = CASE c.width = 2 -> <<head, tail>>
                              [] c.width = 1 -> <<lone>>
                              [] IsEmpty(c)  -> <<space>>
                              [] OTHER -> <<>>
    BY DEF Glyphs
  <2>2. c.width = 0 => IsEmpty(c)
    BY <1>0 DEF IsEmpty
  <2>3. c.width > 0 => ~IsEmpty(c)
    BY <1>0 DEF IsEmpty
  <2> HIDE DEF c, head, tail, lone, space
  <2> QED BY <1>0, <2>1, <2>2, <2>3
<1>2. /\ c.width = 2 => Want(frame, at) = head
      /\ c.width = 1 => Want(frame, at) = lone
      /\ c.width = 0 => Want(frame, at) = space
  <2>1. Want(frame, at) = IF IsEmpty(c) THEN space
                          ELSE <<text, IF c.offset = 1 THEN "tail" ELSE IF c.width = 2 THEN "head" ELSE "lone",
                                 c.style>>
    BY Zenon DEF Want
  <2>2. c.width = 2 => ~IsEmpty(c) /\ c.offset # 1
    BY <1>0 DEF IsEmpty
  <2>3. c.width = 1 => ~IsEmpty(c) /\ c.offset # 1
    BY <1>0 DEF IsEmpty
  <2>4. c.width = 0 => IsEmpty(c)
    BY <1>0 DEF IsEmpty
  <2> HIDE DEF c, text
  <2>5. CASE c.width = 2
    <3>1. Want(frame, at) = <<text, "head", c.style>>
      BY <2>1, <2>2, <2>5
    <3> QED BY <2>5, <3>1
  <2>6. CASE c.width = 1
    <3>1. Want(frame, at) = <<text, "lone", c.style>>
      BY <2>1, <2>3, <2>6
    <3> QED BY <2>6, <3>1
  <2>7. CASE c.width = 0
    <3>1. IsEmpty(c)
      BY <2>4, <2>7
    <3>2. Want(frame, at) = space
      BY <2>1, <3>1, Zenon
    <3> HIDE DEF head, lone, space
    <3> QED BY <2>7, <3>2
  <2> HIDE DEF head, lone, space
  <2> QED BY <1>0, <2>5, <2>6, <2>7
<1>3. c.width = 2 => Want(frame, Right(at, 1)) = tail
  <2> SUFFICES ASSUME c.width = 2 PROVE Want(frame, Right(at, 1)) = tail
    OBVIOUS
  <2>1. Cell(frame, Right(at, 1)) = TailCell(c.id, c.style)
    BY HalvesOnScreen
  <2> DEFINE e == Cell(frame, Right(at, 1))
  <2>2. e.id = c.id /\ e.style = c.style /\ e.offset = 1 /\ ~IsEmpty(e)
    BY <2>1 DEF TailCell, IsEmpty
  <2>3. Want(frame, Right(at, 1)) = <<TextOf(frame.ids, e.id), "tail", e.style>>
    <3> HIDE DEF c
    <3> QED BY <2>2 DEF Want
  <2> QED BY <2>2, <2>3
<1> HIDE DEF head, tail, lone, space
<1>4. /\ Len(<<head, tail>>) = 2 /\ <<head, tail>>[1] = head /\ <<head, tail>>[2] = tail
      /\ Len(<<lone>>) = 1 /\ <<lone>>[1] = lone /\ Len(<<space>>) = 1 /\ <<space>>[1] = space
  OBVIOUS
<1> QED BY <1>0, <1>1, <1>2, <1>3, <1>4

\* The first point of the grapheme at a point.
Begin(frame, at) == IF Cell(frame, at).offset = 1 THEN Right(at, -1) ELSE at

LEMMA BeginIs ==
    ASSUME NEW frame, Framed(frame), NEW at \in Points
    PROVE  /\ Begin(frame, at) \in Points /\ Cell(frame, Begin(frame, at)).offset = 0
           /\ \/ at = Begin(frame, at)
              \/ at = Right(Begin(frame, at), 1) /\ Cell(frame, Begin(frame, at)).width = 2
<1>1. CASE Cell(frame, at).offset = 1
  <2>1. Right(at, -1) \in Points /\ Cell(frame, Right(at, -1)) = HeadCell(Cell(frame, at).id, 2, Cell(frame, at).style)
    BY <1>1, HalvesOnScreen
  <2>2. Right(Right(at, -1), 1) = at
    BY PointParts DEF Right
  <2> QED BY <1>1, <2>1, <2>2 DEF Begin, HeadCell
<1>2. CASE Cell(frame, at).offset = 0
  BY <1>2 DEF Begin
<1> QED BY <1>1, <1>2, CellIs

\* Printing a whole grapheme spoils nothing that is right on the screen, and makes its
\* own cells right.
LEMMA OverprintIsRight ==
    ASSUME NEW frame, Framed(frame), NEW at \in Points, Cell(frame, at).offset = 0, NEW cells
    PROVE  /\ \A a \in Points : cells[a] = Want(frame, a) =>
                 Overprint(cells, at, Glyphs(frame, at))[a] = Want(frame, a)
           /\ \A a \in Points : Begin(frame, a) = at =>
                 Overprint(cells, at, Glyphs(frame, at))[a] = Want(frame, a)
           /\ \A a \in Points : \/ Overprint(cells, at, Glyphs(frame, at))[a] = Want(frame, a)
                                \/ Overprint(cells, at, Glyphs(frame, at))[a] = <<"?", "lone", Plain>>
                                \/ Overprint(cells, at, Glyphs(frame, at))[a] = cells[a]
<1> DEFINE glyphs == Glyphs(frame, at)
           width == Len(glyphs)
           Torn(a) == \/ cells[a][2] = "head" /\ a = Right(at, -1)
                      \/ cells[a][2] = "tail" /\ a = Right(at, width)
           Now(a) == IF a[2] = at[2] /\ a[1] \in at[1]..at[1] + width - 1
                        THEN glyphs[a[1] - at[1] + 1]
                        ELSE IF Torn(a) THEN <<"?", "lone", Plain>> ELSE cells[a]
<1>1. /\ width = IF Cell(frame, at).width = 2 THEN 2 ELSE 1
      /\ glyphs[1] = Want(frame, at)
      /\ Cell(frame, at).width = 2 => glyphs[2] = Want(frame, Right(at, 1))
  BY GlyphsAre
<1>2. \A a \in Points : Overprint(cells, at, glyphs)[a] = Now(a)
  BY DEF Overprint
<1> HIDE DEF glyphs
<1>3. at[1] \in Int /\ at = <<at[1], at[2]>>
  BY PointParts
<1>4. ASSUME NEW a \in Points, a[2] = at[2], a[1] \in at[1]..at[1] + width - 1
      PROVE  Now(a) = Want(frame, a)
  <2>1. a = <<a[1], a[2]>> /\ a[1] \in Int
    BY PointParts
  <2>2. CASE a[1] = at[1]
    <3>1. a = at /\ a[1] - at[1] + 1 = 1
      BY <1>3, <1>4, <2>1, <2>2
    <3> QED BY <1>1, <1>4, <3>1
  <2>3. CASE a[1] # at[1]
    <3>1. Cell(frame, at).width = 2 /\ a[1] = at[1] + 1
      BY <1>1, <1>3, <1>4, <2>1, <2>3
    <3>2. a = Right(at, 1) /\ a[1] - at[1] + 1 = 2
      BY <1>3, <1>4, <2>1, <3>1 DEF Right
    <3> QED BY <1>1, <1>4, <3>1, <3>2
  <2> QED BY <2>2, <2>3
<1>5. ASSUME NEW a \in Points, cells[a] = Want(frame, a), Torn(a),
             ~(a[2] = at[2] /\ a[1] \in at[1]..at[1] + width - 1)
      PROVE  FALSE
  <2>1. CASE cells[a][2] = "head" /\ a = Right(at, -1)
    <3>1. Cell(frame, a).width = 2
      BY <1>5, <2>1, WantIs
    <3>2. Cell(frame, Right(a, 1)).offset = 1
      BY <3>1, HalvesOnScreen DEF TailCell
    <3>3. Right(a, 1) = at
      BY <1>3, <2>1 DEF Right
    <3> QED BY <3>2, <3>3
  <2>2. CASE cells[a][2] = "tail" /\ a = Right(at, width)
    <3>1. Cell(frame, a).offset = 1
      BY <1>5, <2>2, WantIs
    <3>2. Right(a, -1) \in Points /\ Cell(frame, Right(a, -1)).width = 2 /\ Cell(frame, Right(a, -1)).offset = 0
      BY <3>1, HalvesOnScreen DEF HeadCell
    <3>3. CASE Cell(frame, at).width = 2
      <4>1. Right(a, -1) = Right(at, 1)
        BY <1>1, <1>3, <2>2, <3>3 DEF Right
      <4>2. Cell(frame, Right(at, 1)).offset = 1
        BY <3>3, HalvesOnScreen DEF TailCell
      <4> QED BY <3>2, <4>1, <4>2
    <3>4. CASE Cell(frame, at).width # 2
      <4>1. Right(a, -1) = at
        BY <1>1, <1>3, <2>2, <3>4 DEF Right
      <4> QED BY <3>2, <3>4, <4>1
    <3> QED BY <3>3, <3>4
  <2> QED BY <1>5, <2>1, <2>2
<1>6. ASSUME NEW a \in Points, Begin(frame, a) = at
      PROVE  a[2] = at[2] /\ a[1] \in at[1]..at[1] + width - 1
  <2>1. a = at \/ (a = Right(at, 1) /\ Cell(frame, at).width = 2)
    BY <1>6, BeginIs
  <2> QED BY <1>1, <1>3, <2>1 DEF Right
<1>7. \A a \in Points : cells[a] = Want(frame, a) => Now(a) = Want(frame, a)
  <2> HIDE DEF Torn
  <2> QED BY <1>4, <1>5
<1>8. \A a \in Points : Begin(frame, a) = at => Now(a) = Want(frame, a)
  BY <1>4, <1>6
<1>9. ASSUME NEW a \in Points
      PROVE  Now(a) = Want(frame, a) \/ Now(a) = <<"?", "lone", Plain>> \/ Now(a) = cells[a]
  <2> HIDE DEF Torn
  <2>1. CASE a[2] = at[2] /\ a[1] \in at[1]..at[1] + width - 1
    BY <1>4, <2>1
  <2>2. CASE ~(a[2] = at[2] /\ a[1] \in at[1]..at[1] + width - 1)
    BY <2>2, Zenon
  <2> QED BY <2>1, <2>2
<1> HIDE DEF Now
<1> QED BY <1>2, <1>7, <1>8, <1>9 DEF glyphs

LEMMA PrintedIsRight ==
    ASSUME NEW frame, Framed(frame), NEW at, at \subseteq Points, \A a \in at : WholeAt(frame, a, at),
           NEW V, NEW cells \in [Points -> V], \A a \in Points \ at : cells[a] = Want(frame, a)
    PROVE  /\ \A a \in Points : Printed(cells, frame, at)[a] = Want(frame, a)
           /\ Printed(cells, frame, at) = [a \in Points |-> Want(frame, a)]
<1> DEFINE n == Width * Height
           odd == <<"?", "lone", Plain>>
           W == V \cup {Want(frame, a) : a \in Points} \cup {odd}
           X == [Points -> W]
<1>0. n \in Nat
  BY Consts
<1> HIDE DEF n
<1>1. ASSUME NEW m, NEW d \in X PROVE PrintStep(d, m, frame, at) \in X
  <2> DEFINE k == Point(m)
             e == Overprint(d, k, Glyphs(frame, k))
  <2>1. CASE k \in at /\ Cell(frame, k).offset = 0
    <3>1. k \in Points
      BY <2>1
    <3>2. \A a \in Points : e[a] = Want(frame, a) \/ e[a] = odd \/ e[a] = d[a]
      <4> HIDE DEF k
      <4> QED BY <2>1, <3>1, OverprintIsRight
    <3>3. e = [a \in Points |-> e[a]]
      BY DEF Overprint
    <3>4. PrintStep(d, m, frame, at) = e
      BY <2>1 DEF PrintStep
    <3>5. \A a \in Points : Want(frame, a) \in W /\ odd \in W /\ d[a] \in W
      OBVIOUS
    <3> HIDE DEF e, W, odd
    <3>6. \A a \in Points : e[a] \in W
      BY <3>2, <3>5
    <3> QED BY <3>3, <3>4, <3>6
  <2>2. CASE ~(k \in at /\ Cell(frame, k).offset = 0)
    BY <2>2 DEF PrintStep
  <2> QED BY <2>1, <2>2
<1>2. cells \in X
  OBVIOUS
<1> HIDE DEF X
<1>3. PICK g : PrintRun(g, n, X, cells, frame, at)
  <2>1. n = Width * Height /\ \A m \in 1..n, d \in X : PrintStep(d, m, frame, at) \in X
    BY <1>1 DEF n
  <2> QED BY <1>0, <1>2, <2>1, PrintWalks
<1>4. /\ g \in [0..n -> X] /\ g[0] = cells /\ Printed(cells, frame, at) = g[n]
      /\ \A m \in 1..n : g[m] = PrintStep(g[m - 1], m, frame, at)
  BY <1>3 DEF PrintRun
<1> DEFINE Done(a, m) == a \notin at \/ \E k \in 1..m : Point(k) = Begin(frame, a)
           S == {m \in 0..n : \A a \in Points : Done(a, m) => g[m][a] = Want(frame, a)}
<1>5. 0 \in S
  BY <1>0, <1>4
<1>6. ASSUME NEW m \in 0..n - 1, m \in S PROVE m + 1 \in S
  <2> DEFINE j == m + 1
             d == g[m]
             k == Point(j)
             e == Overprint(d, k, Glyphs(frame, k))
  <2>1. j \in 1..n /\ j - 1 = m /\ j \in 0..n /\ m \in 0..n
    BY <1>0
  <2>2. g[j] = PrintStep(d, j, frame, at)
    BY <1>4, <2>1
  <2>3. \A a \in Points : Done(a, m) => d[a] = Want(frame, a)
    BY <1>6
  <2>4. ASSUME NEW a \in Points, Done(a, j) PROVE Done(a, m) \/ (a \in at /\ k = Begin(frame, a))
    <3>1. a \in at => \E i \in 1..j : Point(i) = Begin(frame, a)
      BY <2>4
    <3>2. \A i \in 1..j : i \in 1..m \/ i = j
      BY <2>1
    <3> QED BY <3>1, <3>2
  <2> HIDE DEF Done, d, e, k, j
  <2>5. CASE k \in at /\ Cell(frame, k).offset = 0
    <3>1. g[j] = e
      BY <2>2, <2>5 DEF PrintStep, e, k
    <3>2. /\ \A a \in Points : d[a] = Want(frame, a) => e[a] = Want(frame, a)
          /\ \A a \in Points : Begin(frame, a) = k => e[a] = Want(frame, a)
      <4>1. k \in Points
        BY <2>5
      <4> QED BY <2>5, <4>1, OverprintIsRight DEF e
    <3>3. \A a \in Points : Done(a, j) => e[a] = Want(frame, a)
      BY <2>3, <2>4, <3>2
    <3> QED BY <2>1, <3>1, <3>3 DEF j
  <2>6. CASE ~(k \in at /\ Cell(frame, k).offset = 0)
    <3>1. g[j] = d
      BY <2>2, <2>6 DEF PrintStep, k
    <3>2. \A a \in Points : ~(a \in at /\ k = Begin(frame, a))
      <4> SUFFICES ASSUME NEW a \in at, a \in Points, k = Begin(frame, a) PROVE FALSE
        OBVIOUS
      <4>1. Cell(frame, k).offset = 0
        BY BeginIs
      <4>2. WholeAt(frame, a, at)
        OBVIOUS
      <4>3. k \in at
        BY <4>2, CellIs DEF WholeAt, Begin
      <4> QED BY <2>6, <4>1, <4>3
    <3>3. \A a \in Points : Done(a, j) => d[a] = Want(frame, a)
      BY <2>3, <2>4, <3>2
    <3> QED BY <2>1, <3>1, <3>3 DEF j
  <2> QED BY <2>5, <2>6
<1>7. \A m \in 0..n : m \in S
  <2> HIDE DEF S
  <2> QED BY <1>0, <1>5, <1>6, Induction
<1>8. \A a \in Points : Done(a, n)
  <2>1. \A a \in Points : Begin(frame, a) \in Points
    BY BeginIs
  <2> QED BY <2>1, PointReached DEF n
<1>9. \A a \in Points : g[n][a] = Want(frame, a)
  BY <1>0, <1>7, <1>8
<1>10. g[n] = [a \in Points |-> g[n][a]]
  BY <1>0, <1>4 DEF X
<1> QED BY <1>4, <1>9, <1>10

\* The terminal shows a frame, cell by cell.
Shown(t, frame) ==
    /\ \A a \in Points : t.cells[a] = Want(frame, a)
    /\ t.tiles = {} /\ t.placed = Placements(frame.scene)
TermOK(t) ==
    /\ t.cells = [a \in Points |-> t.cells[a]] /\ t.tiles \subseteq Points
    /\ \A i \in 1..Len(t.placed) : t.placed[i].at \subseteq Points

LEMMA ShownShows ==
    ASSUME NEW frame, Framed(frame), NEW t, Shown(t, frame)
    PROVE  Shows(t, frame)
<1>1. ASSUME NEW at \in Points, Cell(frame, at).offset = 0, NEW i \in 1..Len(Glyphs(frame, at))
      PROVE  t.cells[Right(at, i - 1)] = Glyphs(frame, at)[i]
  <2>1. /\ Len(Glyphs(frame, at)) = IF Cell(frame, at).width = 2 THEN 2 ELSE 1
        /\ Glyphs(frame, at)[1] = Want(frame, at)
        /\ Cell(frame, at).width = 2 => Glyphs(frame, at)[2] = Want(frame, Right(at, 1))
    BY <1>1, GlyphsAre
  <2>2. Right(at, 0) = at
    BY PointParts DEF Right
  <2>3. CASE i = 1
    BY <2>1, <2>2, <2>3 DEF Shown
  <2>4. CASE i = 2
    <3>1. Cell(frame, at).width = 2 /\ i - 1 = 1
      BY <2>1, <2>4
    <3>2. Right(at, 1) \in Points
      BY <3>1, HalvesOnScreen
    <3> QED BY <2>1, <2>4, <3>1, <3>2 DEF Shown
  <2>5. i = 1 \/ i = 2
    BY <2>1
  <2> QED BY <2>3, <2>4, <2>5
<1> QED BY <1>1 DEF Shows, Shown

LEMMA PlacementsAre ==
    ASSUME NEW scene, Occurring(scene)
    PROVE  /\ Len(Placements(scene)) = Len(scene)
           /\ \A i \in 1..Len(scene) : Placements(scene)[i] = scene[i].p
           /\ \A i \in 1..Len(Placements(scene)) : Placements(scene)[i].at \subseteq Points
           /\ UNION {Placements(scene)[i].at : i \in 1..Len(Placements(scene))} = Coverage(scene)
<1> DEFINE n == Len(scene)
           f == [i \in 1..n |-> scene[i].p]
           P == [image : Seq(Pictures), at : SUBSET Points]
<1>1. n \in Nat /\ \A i \in 1..n : scene[i].p \in P
  BY SceneParts, OccurrenceIs
<1>2. f \in [1..n -> P] /\ \A i \in 1..n : f[i] = scene[i].p
  BY <1>1
<1> HIDE DEF f
<1>3. Len(f) = n
  <2> DEFINE k == n
  <2>1. k \in Nat /\ f \in [1..k -> P]
    BY <1>1, <1>2
  <2> HIDE DEF k, P
  <2>2. Len(f) = k
    BY <2>1
  <2> QED BY <2>2 DEF k
<1>4. \A i \in 1..n : f[i].at \subseteq Points
  BY <1>1, <1>2
<1>5. UNION {f[i].at : i \in 1..n} = UNION {scene[i].p.at : i \in 1..n}
  BY <1>2
<1>6. Placements(scene) = f
  BY DEF Placements, f
<1> QED BY <1>2, <1>3, <1>4, <1>5, <1>6 DEF Coverage

\* Nothing that is printed is left out: every point of the patch is in a span.
LEMMA PatchIsPrinted ==
    ASSUME NEW frame, Framed(frame), NEW at, at \subseteq Points, \A a \in at : WholeAt(frame, a, at)
    PROVE  at \subseteq UNION {SpanAt(frame, a) : a \in {c \in at : Cell(frame, c).offset = 0}}
<1> SUFFICES ASSUME NEW a \in at
             PROVE  \E c \in at : Cell(frame, c).offset = 0 /\ a \in SpanAt(frame, c)
  OBVIOUS
<1>1. a \in Points
  OBVIOUS
<1> DEFINE c == Begin(frame, a)
<1>2. /\ c \in Points /\ Cell(frame, c).offset = 0
      /\ a = c \/ (a = Right(c, 1) /\ Cell(frame, c).width = 2)
  BY <1>1, BeginIs
<1>3. c \in at
  BY <1>1, CellIs DEF WholeAt, Begin
<1> HIDE DEF c
<1>4. a \in SpanAt(frame, c)
  BY <1>2, SpanIs, CellIs
<1> QED BY <1>2, <1>3, <1>4

\* What a patch leaves on the terminal: the frame it was cut for, if the frame it was
\* cut from was there or the patch is a full one.
LEMMA ShowIsRight ==
    ASSUME NEW old, NEW frame, Framed(old), Framed(frame), NEW full \in BOOLEAN,
           NEW patch, PatchCovers(patch, old, frame, full),
           \A a \in Points : Cell(old, a) = Cell(frame, a) => Want(old, a) = Want(frame, a),
           NEW t, TermOK(t), full \/ Shown(t, old)
    PROVE  LET u == Show(t, frame, patch) IN Shown(u, frame) /\ TermOK(u)
<1> DEFINE blank == <<" ", "lone", Plain>>
           cleared == IF full THEN [at \in Points |-> blank] ELSE t.cells
           cells == patch.cells
           spans == UNION {SpanAt(frame, a) : a \in {c \in cells : Cell(frame, c).offset = 0}}
           left == IF patch.images THEN t.tiles \cup UNION {t.placed[i].at : i \in 1..Len(t.placed)}
                   ELSE t.tiles
           placed == IF patch.images THEN Placements(frame.scene) ELSE t.placed
           printed == Printed(cleared, frame, cells)
           u == Show(t, frame, patch)
<1>1. /\ patch.full = full /\ patch.images = (full \/ ImagesDiffer(old, frame))
      /\ cells \subseteq Points /\ PatchIsWhole(frame, patch)
      /\ \A at \in Points : at \in cells \/ (~full /\ Cell(old, at) = Cell(frame, at))
      /\ patch.images => Coverage(old.scene) \cup Coverage(frame.scene) \subseteq cells
  BY DEF PatchCovers
<1>2. u = [cells |-> printed, tiles |-> left \ spans, placed |-> placed]
  BY <1>1, Zenon DEF Show
<1>3. \A a \in cells : WholeAt(frame, a, cells)
  BY <1>1 DEF PatchIsWhole, WholeAt
<1> HIDE DEF cells
<1>4. cells \subseteq spans
  BY <1>1, <1>3, PatchIsPrinted
<1>5. \A a \in Points : printed[a] = Want(frame, a) /\ printed = [b \in Points |-> Want(frame, b)]
  <2> DEFINE V == {blank} \cup {t.cells[a] : a \in Points}
  <2>1. cleared \in [Points -> V]
    BY DEF TermOK
  <2>2. \A a \in Points \ cells : cleared[a] = Want(frame, a)
    <3> SUFFICES ASSUME NEW a \in Points, a \notin cells PROVE cleared[a] = Want(frame, a)
      OBVIOUS
    <3>1. ~full /\ Cell(old, a) = Cell(frame, a)
      BY <1>1
    <3> QED BY <3>1 DEF Shown
  <2> HIDE DEF V, cleared
  <2>3. /\ \A a \in Points : Printed(cleared, frame, cells)[a] = Want(frame, a)
        /\ Printed(cleared, frame, cells) = [a \in Points |-> Want(frame, a)]
    BY <1>1, <1>3, <2>1, <2>2, PrintedIsRight, SMTT(30)
  <2> QED BY <2>3 DEF cleared
<1>6. left \subseteq spans
  <2>1. CASE full
    <3>1. left \subseteq Points
      BY DEF TermOK
    <3>2. Points \subseteq cells
      BY <1>1, <2>1
    <3> QED BY <1>4, <3>1, <3>2
  <2>2. CASE ~full /\ patch.images
    <3>1. t.tiles = {} /\ t.placed = Placements(old.scene)
      BY <2>2 DEF Shown
    <3>2. UNION {t.placed[i].at : i \in 1..Len(t.placed)} = Coverage(old.scene)
      BY <3>1, PlacementsAre DEF Framed
    <3> QED BY <1>1, <1>4, <2>2, <3>1, <3>2
  <2>3. CASE ~full /\ ~patch.images
    BY <2>3 DEF Shown
  <2> QED BY <2>1, <2>2, <2>3
<1>7. placed = Placements(frame.scene)
  <2>1. CASE ~patch.images
    <3>1. ~full /\ Placements(old.scene) = Placements(frame.scene)
      BY <1>1, <2>1 DEF ImagesDiffer
    <3> QED BY <2>1, <3>1 DEF Shown
  <2> QED BY <2>1
<1> HIDE DEF printed, left, spans, placed, u
<1>8. u.cells = printed /\ u.tiles = {} /\ u.placed = Placements(frame.scene)
  BY <1>2, <1>6, <1>7
<1>9. Shown(u, frame)
  BY <1>5, <1>8 DEF Shown
<1>10. TermOK(u)
  <2>1. printed = [a \in Points |-> printed[a]]
    <3> DEFINE f == [b \in Points |-> Want(frame, b)]
    <3>1. f = [a \in Points |-> f[a]]
      OBVIOUS
    <3>2. Points = {} \/ printed = f
      BY <1>5
    <3>3. Points # {}
      <4>1. <<0, 0>> \in Points
        BY Consts DEF Points, Columns, Lines
      <4> QED BY <4>1
    <3> QED BY <3>1, <3>2, <3>3
  <2>2. \A i \in 1..Len(u.placed) : u.placed[i].at \subseteq Points
    BY <1>8, PlacementsAre DEF Framed
  <2> QED BY <1>8, <2>1, <2>2 DEF TermOK
<1> QED BY <1>9, <1>10 DEF u

--------------------------------------------------------------------------------
(* The ids of graphemes.                                                   *)
LEMMA TextIs ==
    ASSUME NEW ids, NEW next, Given(ids, next), NEW t \in DOMAIN ids
    PROVE  TextOf(ids, ids[t]) = t
BY DEF TextOf, Given

\* ids with more in it, or less.
Extends(more, ids) == \A t \in DOMAIN ids : t \in DOMAIN more /\ more[t] = ids[t]

LEMMA SoundIsFramed ==
    ASSUME NEW frame, frame.rows \in [Lines -> Rows], frame.scene \in Seq(Occurrences),
           NEW next, Sound(frame, next)
    PROVE  Framed(frame)
BY DEF Sound, RowOK, Framed, Occurring

LEMMA KnownCell ==
    ASSUME NEW frame, NEW next, Sound(frame, next), NEW at \in Points, ~IsEmpty(Cell(frame, at))
    PROVE  \E t \in DOMAIN frame.ids : frame.ids[t] = Cell(frame, at).id
<1>1. at[1] \in Columns /\ at[2] \in Lines
  BY PointParts
<1>2. RowOK(frame.rows[at[2]], frame.ids)
  BY <1>1 DEF Sound
<1> QED BY <1>1, <1>2 DEF RowOK, Cell

LEMMA SameWant ==
    ASSUME NEW old, NEW new, NEW n1, NEW n2, Sound(old, n1), Sound(new, n2),
           Extends(new.ids, old.ids), NEW at \in Points, Cell(old, at) = Cell(new, at)
    PROVE  Want(old, at) = Want(new, at)
<1> DEFINE c == Cell(old, at)
<1>1. CASE IsEmpty(c)
  BY <1>1 DEF Want
<1>2. CASE ~IsEmpty(c)
  <2>1. PICK t \in DOMAIN old.ids : old.ids[t] = c.id
    BY <1>2, KnownCell
  <2>2. t \in DOMAIN new.ids /\ new.ids[t] = c.id
    BY <2>1 DEF Extends
  <2>3. TextOf(old.ids, c.id) = t
    BY <2>1, TextIs DEF Sound
  <2>4. TextOf(new.ids, c.id) = t
    BY <2>2, TextIs DEF Sound
  <2>5. TextOf(old.ids, c.id) = TextOf(new.ids, c.id)
    BY <2>3, <2>4
  <2> QED BY <1>2, <2>5 DEF Want
<1> QED BY <1>1, <1>2

LEMMA RetainedOK ==
    ASSUME NEW frame \in FrameSet, NEW next, Sound(frame, next)
    PROVE  /\ Retained(frame) \in FrameSet /\ Sound(Retained(frame), next)
           /\ Retained(frame).rows = frame.rows /\ Retained(frame).scene = frame.scene
           /\ Extends(frame.ids, Retained(frame).ids)
<1> DEFINE used == {Cell(frame, at).id : at \in Points}
           texts == {text \in DOMAIN frame.ids : frame.ids[text] \in used}
           ids == [text \in texts |-> frame.ids[text]]
           f == [frame EXCEPT !.ids = ids]
<1>1. frame.ids \in IdMaps /\ DOMAIN frame.ids \subseteq Graphemes /\ \A t \in DOMAIN frame.ids : frame.ids[t] \in Ids
  BY IdMapIs DEF FrameSet
<1>2. texts \subseteq DOMAIN frame.ids
  OBVIOUS
<1>3. DOMAIN ids = texts /\ \A t \in texts : ids[t] = frame.ids[t]
  OBVIOUS
<1>4. ids \in IdMaps
  <2>1. texts \in SUBSET Graphemes
    BY <1>1
  <2>2. ids \in [texts -> Ids]
    BY <1>1
  <2> HIDE DEF ids, texts
  <2> QED BY <2>1, <2>2 DEF IdMaps
<1>5. Retained(frame) = f
  BY DEF Retained
<1>6. \A t \in DOMAIN frame.ids, at \in Points : frame.ids[t] = Cell(frame, at).id => t \in texts
  OBVIOUS
<1> HIDE DEF ids, texts
<1>7. f \in FrameSet /\ f.rows = frame.rows /\ f.scene = frame.scene /\ f.ids = ids
  BY <1>4 DEF FrameSet
<1> HIDE DEF f
<1>8. Extends(frame.ids, ids)
  BY <1>2, <1>3 DEF Extends
<1>9. Given(ids, next)
  BY <1>2, <1>3 DEF Sound, Given
<1>10. ASSUME NEW y \in Lines PROVE RowOK(frame.rows[y], ids)
  <2>1. RowOK(frame.rows[y], frame.ids)
    BY DEF Sound
  <2>2. ASSUME NEW x \in Columns, ~IsEmpty(frame.rows[y][x])
        PROVE  \E t \in DOMAIN ids : ids[t] = frame.rows[y][x].id
    <3>1. <<x, y>> \in Points /\ Cell(frame, <<x, y>>) = frame.rows[y][x]
      BY DEF Points, Cell
    <3>2. PICK t \in DOMAIN frame.ids : frame.ids[t] = frame.rows[y][x].id
      BY <2>1, <2>2 DEF RowOK
    <3>3. t \in texts
      BY <1>6, <3>1, <3>2
    <3> QED BY <1>3, <3>2, <3>3
  <2> QED BY <2>1, <2>2 DEF RowOK
<1>11. Sound(f, next)
  BY <1>7, <1>9, <1>10 DEF Sound
<1> QED BY <1>5, <1>7, <1>8, <1>11

\* A later id makes a frame no less sound.
LEMMA StillSound ==
    ASSUME NEW frame, NEW next \in Int, NEW later \in Int, next <= later, Sound(frame, next),
           frame.ids \in IdMaps
    PROVE  Sound(frame, later)
<1>1. \A t \in DOMAIN frame.ids : frame.ids[t] \in Int /\ frame.ids[t] < next
  BY IdMapIs, Consts DEF Sound, Given
<1>2. Given(frame.ids, later)
  BY <1>1 DEF Sound, Given
<1> QED BY <1>2 DEF Sound

\* What was sent agrees with a store.
Agree(pairs, ids) == \A a \in pairs, t \in DOMAIN ids : a[1] = ids[t] => a[2] = t

LEMMA ResolveIs ==
    ASSUME NEW frame, NEW next, Framed(frame), Sound(frame, next), NEW cells, cells \subseteq Points,
           NEW a \in Resolve(frame, cells)
    PROVE  \E t \in DOMAIN frame.ids : a[1] = frame.ids[t] /\ a[2] = t
<1>1. PICK at \in cells : /\ Cell(frame, at).width > 0
                          /\ a = <<Cell(frame, at).id, TextOf(frame.ids, Cell(frame, at).id)>>
  BY DEF Resolve
<1>2. ~IsEmpty(Cell(frame, at)) /\ at \in Points
  BY <1>1, CellIs DEF IsEmpty
<1>3. PICK t \in DOMAIN frame.ids : frame.ids[t] = Cell(frame, at).id
  BY <1>2, KnownCell
<1>4. TextOf(frame.ids, Cell(frame, at).id) = t
  BY <1>3, TextIs DEF Sound
<1> QED BY <1>1, <1>3, <1>4

--------------------------------------------------------------------------------
(* The invariant.  A prepared frame extends the store of the committed     *)
(* one, knows what was sent, and comes with a patch that covers what       *)
(* differs; ids are below the next one; the terminal shows the committed   *)
(* frame unless a full repaint is due.                                     *)
PreparedOK ==
    /\ prep.frame \in FrameSet /\ Sound(prep.frame, nextId)
    /\ Extends(prep.frame.ids, ren.frame.ids) /\ Agree(sent, prep.frame.ids)
    /\ PatchCovers(prep.patch, ren.frame, prep.frame, ren.force)
    /\ prep.view \in Views /\ prep.focus \in Focusable \cup {0}

FramesInv ==
    /\ view \in Views /\ focus \in Focusable \cup {0} /\ policy \in Policies /\ nextId \in 1..MaxId + 1
    /\ ren \in [frame : FrameSet, force : BOOLEAN] /\ Sound(ren.frame, nextId)
    /\ prep # NoFrame => PreparedOK
    /\ \A a \in sent : a[1] \in Int /\ a[1] < nextId
    /\ Agree(sent, ren.frame.ids) /\ IdsKeepMeaning
    /\ TermOK(term) /\ (~ren.force => Shown(term, ren.frame))

LEMMA FrameIs ==
    ASSUME NEW frame \in FrameSet, NEW next, Sound(frame, next)
    PROVE  /\ frame.rows \in [Lines -> Rows] /\ frame.scene \in Seq(Occurrences) /\ frame.ids \in IdMaps
           /\ frame.hits \in [Points -> 0..N] /\ Framed(frame)
<1>1. /\ frame.rows \in [Lines -> Rows] /\ frame.scene \in Seq(Occurrences) /\ frame.ids \in IdMaps
      /\ frame.hits \in [Points -> 0..N]
  BY DEF FrameSet
<1> QED BY <1>1, SoundIsFramed

LEMMA InitOK == Init => FramesInv
<1> SUFFICES ASSUME Init PROVE FramesInv
  OBVIOUS
<1> DEFINE none == <<>>
<1>1. none \in IdMaps /\ Given(none, 1) /\ DOMAIN none = {}
  <2>1. DOMAIN none = {}
    OBVIOUS
  <2>2. none \in [{} -> Ids]
    OBVIOUS
  <2> HIDE DEF none
  <2> QED BY <2>1, <2>2 DEF IdMaps, Given
<1>2. [BlankFrame EXCEPT !.ids = none] = BlankFrame
  BY BlankIs
<1>3. 1 \in 1..MaxId + 1
  BY Consts
<1>4. BlankFrame \in FrameSet /\ Sound(BlankFrame, 1) /\ BlankFrame.ids = none
  <2> HIDE DEF none
  <2> QED BY <1>1, <1>2, <1>3, BlankOK
<1>5. ren = [frame |-> BlankFrame, force |-> TRUE]
  BY DEF Init
<1> HIDE DEF none
<1>6. ren \in [frame : FrameSet, force : BOOLEAN] /\ Sound(ren.frame, nextId) /\ ren.force = TRUE
      /\ ren.frame.ids = none
  BY <1>4, <1>5 DEF Init
<1>7. TermOK(term)
  <2>1. Garbage.cells = [a \in Points |-> Garbage.cells[a]]
    BY DEF Garbage
  <2>2. Garbage.tiles \subseteq Points /\ 1..Len(Garbage.placed) = {}
    BY DEF Garbage
  <2> QED BY <2>1, <2>2 DEF TermOK, Init
<1>8. Agree(sent, none) /\ IdsKeepMeaning /\ \A a \in sent : a[1] \in Int /\ a[1] < nextId
  BY DEF Init, Agree, IdsKeepMeaning
<1>9. nextId \in 1..MaxId + 1
  BY <1>3 DEF Init
<1> QED BY <1>6, <1>7, <1>8, <1>9 DEF Init, FramesInv

LEMMA PaintedKeeps ==
    ASSUME FramesInv, NEW v \in Views, NEW f
    PROVE  Painted(v, f) \in After(ren.frame.ids, nextId)
<1> DEFINE ids == ren.frame.ids
           damage == Staged(v, f).damage
<1>1. /\ ren.frame \in FrameSet /\ Sound(ren.frame, nextId) /\ nextId \in 1..MaxId + 1 /\ policy \in Policies
      /\ ids \in IdMaps /\ Given(ids, nextId)
  BY FrameIs DEF FramesInv, Sound
<1>2. \/ Painted(v, f) = Canvas(ren.frame, nextId)
      \/ Painted(v, f) = RepaintDamagedRows(ren.frame, v, f, damage, policy, nextId)
      \/ Painted(v, f) = PaintFrame(ids, v, f, policy, nextId)
  <2>1. CASE matches /\ Staged(v, f).pending = "none"
    BY <2>1 DEF Painted
  <2>2. CASE matches /\ Staged(v, f).pending = "paint"
    BY <2>2 DEF Painted
  <2>3. CASE ~(matches /\ Staged(v, f).pending = "none") /\ ~(matches /\ Staged(v, f).pending = "paint")
    BY <2>3 DEF Painted
  <2> QED BY <2>1, <2>2, <2>3
<1> HIDE DEF ids, damage
<1>3. Canvas(ren.frame, nextId) \in After(ids, nextId)
  BY <1>1, CanvasOK DEF ids
<1>4. RepaintDamagedRows(ren.frame, v, f, damage, policy, nextId) \in After(ids, nextId)
  BY <1>1, RepaintKeeps DEF ids
<1>5. PaintFrame(ids, v, f, policy, nextId) \in After(ids, nextId)
  BY <1>1, PaintFrameKeeps
<1> QED BY <1>2, <1>3, <1>4, <1>5 DEF ids

LEMMA SameCovers ==
    ASSUME NEW patch, NEW old, NEW new, NEW full, NEW f, PatchCovers(patch, old, new, full),
           f.rows = new.rows, f.scene = new.scene
    PROVE  PatchCovers(patch, old, f, full)
<1>1. \A at : Cell(f, at) = Cell(new, at)
  BY DEF Cell
<1>2. PatchIsWhole(new, patch) => PatchIsWhole(f, patch)
  BY <1>1 DEF PatchIsWhole
<1>3. ImagesDiffer(old, f) = ImagesDiffer(old, new)
  BY DEF ImagesDiffer
<1> QED BY <1>1, <1>2, <1>3 DEF PatchCovers

LEMMA PrepareKeeps ==
    ASSUME FramesInv, NEW v \in Views, NEW f \in Focusable \cup {0}, Prepare(v, f)
    PROVE  FramesInv'
<1> DEFINE c == Painted(v, f)
           frame == [rows |-> c.rows, hits |-> c.hits, scene |-> c.scene, ids |-> c.ids]
           patch == Diff(ren.frame, c, ren.force)
           made == [frame |-> frame, patch |-> patch, view |-> v, focus |-> f, change |-> Staged(v, f).change]
<1>1. c \in After(ren.frame.ids, nextId)
  BY PaintedKeeps
<1>2. /\ nextId' = c.next /\ prep' = (IF ~c.ok THEN NoFrame ELSE made)
      /\ view' = view /\ focus' = focus /\ policy' = policy /\ ren' = ren /\ term' = term /\ sent' = sent
  BY DEF Prepare, tree
<1>3. /\ ren.frame \in FrameSet /\ ren.force \in BOOLEAN /\ Framed(ren.frame) /\ ren.frame.ids \in IdMaps
      /\ Sound(ren.frame, nextId) /\ nextId \in Int
  BY FrameIs, Consts DEF FramesInv
<1> HIDE DEF c
<1>4. c \in Canvases /\ Sound(c, c.next) /\ Keeps(ren.frame.ids, nextId, c)
  BY <1>1 DEF After
<1>5. /\ c.rows \in [Lines -> Rows] /\ c.hits \in [Points -> 0..N] /\ c.scene \in Seq(Occurrences)
      /\ c.ids \in IdMaps /\ c.next \in 1..MaxId + 1 /\ c.next \in Int /\ nextId <= c.next
  BY <1>4, CanvasIs, Consts DEF Keeps
<1>6. Framed(c)
  BY <1>4, <1>5, SoundIsFramed
<1>7. frame \in FrameSet /\ frame.rows = c.rows /\ frame.scene = c.scene /\ frame.ids = c.ids
  BY <1>5 DEF FrameSet
<1>8. PatchCovers(patch, ren.frame, c, ren.force)
  BY <1>3, <1>6, DiffCovers
<1> HIDE DEF frame, patch
<1>9. PatchCovers(patch, ren.frame, frame, ren.force)
  BY <1>7, <1>8, SameCovers
<1>10. Sound(frame, c.next)
  BY <1>4, <1>7 DEF Sound
<1>11. Extends(frame.ids, ren.frame.ids)
  BY <1>4, <1>7 DEF Keeps, Extends
<1>12. Agree(sent, frame.ids)
  <2> SUFFICES ASSUME NEW a \in sent, NEW t \in DOMAIN c.ids, a[1] = c.ids[t] PROVE a[2] = t
    BY <1>7 DEF Agree
  <2>1. a[1] \in Int /\ a[1] < nextId
    BY DEF FramesInv
  <2>2. t \in DOMAIN ren.frame.ids
    BY <1>3, <1>4, <2>1 DEF Keeps
  <2>3. c.ids[t] = ren.frame.ids[t]
    BY <1>4, <2>2 DEF Keeps
  <2> QED BY <2>2, <2>3 DEF FramesInv, Agree
<1>13. prep' # NoFrame => PreparedOK'
  <2> SUFFICES ASSUME prep' # NoFrame PROVE PreparedOK'
    OBVIOUS
  <2>1. prep' = made
    BY <1>2
  <2>2. prep'.frame = frame /\ prep'.patch = patch /\ prep'.view = v /\ prep'.focus = f
    BY <2>1
  <2> QED BY <1>2, <1>7, <1>9, <1>10, <1>11, <1>12, <2>2 DEF PreparedOK
<1>14. Sound(ren.frame, c.next)
  BY <1>3, <1>5, StillSound
<1>15. \A a \in sent : a[1] \in Int /\ a[1] < c.next
  BY <1>3, <1>5 DEF FramesInv
<1>16. Agree(sent', ren'.frame.ids) /\ IdsKeepMeaning' /\ TermOK(term') /\ (~ren'.force => Shown(term', ren'.frame))
  BY <1>2 DEF FramesInv, IdsKeepMeaning
<1> QED BY <1>2, <1>5, <1>13, <1>14, <1>15, <1>16 DEF FramesInv

\* What a patch sends agrees with the store of its frame, with what was sent before,
\* and with the committed store, which that of the frame extends.
LEMMA SendsKeep ==
    ASSUME FramesInv, PreparedOK, NEW pairs, pairs = sent \cup Resolve(prep.frame, prep.patch.cells)
    PROVE  /\ \A a \in pairs : a[1] \in Int /\ a[1] < nextId
           /\ Agree(pairs, prep.frame.ids) /\ Agree(pairs, ren.frame.ids)
           /\ \A a, b \in pairs : a[1] = b[1] => a[2] = b[2]
<1> DEFINE ids == prep.frame.ids
           new == Resolve(prep.frame, prep.patch.cells)
<1>1. /\ Sound(prep.frame, nextId) /\ Framed(prep.frame) /\ ids \in IdMaps /\ prep.patch.cells \subseteq Points
      /\ Extends(ids, ren.frame.ids) /\ Agree(sent, ids) /\ Given(ids, nextId)
  BY FrameIs DEF PreparedOK, PatchCovers, Sound
<1>2. \A t \in DOMAIN ids : ids[t] \in Int /\ ids[t] < nextId
  BY <1>1, IdMapIs, Consts DEF Given
<1>3. \A t, u \in DOMAIN ids : ids[t] = ids[u] => t = u
  BY <1>1 DEF Given
<1>4. \A a \in new : \E t \in DOMAIN ids : a[1] = ids[t] /\ a[2] = t
  BY <1>1, ResolveIs
<1> HIDE DEF ids, new
<1>5. Agree(pairs, ids)
  <2> SUFFICES ASSUME NEW a \in pairs, NEW t \in DOMAIN ids, a[1] = ids[t] PROVE a[2] = t
    BY DEF Agree
  <2>1. CASE a \in sent
    BY <1>1, <2>1 DEF Agree
  <2>2. CASE a \in new
    BY <1>3, <1>4, <2>2
  <2> QED BY <2>1, <2>2 DEF new
<1>6. Agree(pairs, ren.frame.ids)
  <2> SUFFICES ASSUME NEW a \in pairs, NEW t \in DOMAIN ren.frame.ids, a[1] = ren.frame.ids[t] PROVE a[2] = t
    BY DEF Agree
  <2>1. t \in DOMAIN ids /\ ids[t] = ren.frame.ids[t]
    BY <1>1 DEF Extends
  <2> QED BY <1>5, <2>1 DEF Agree
<1>7. \A a \in pairs : a[1] \in Int /\ a[1] < nextId
  <2>1. \A a \in sent : a[1] \in Int /\ a[1] < nextId
    BY DEF FramesInv
  <2>2. \A a \in new : a[1] \in Int /\ a[1] < nextId
    BY <1>2, <1>4
  <2> QED BY <2>1, <2>2 DEF new
<1>8. ASSUME NEW a \in pairs, NEW b \in pairs, a[1] = b[1] PROVE a[2] = b[2]
  <2>1. CASE a \in sent /\ b \in sent
    BY <1>8, <2>1 DEF FramesInv, IdsKeepMeaning
  <2>2. CASE a \in new
    <3>1. PICK t \in DOMAIN ids : a[1] = ids[t] /\ a[2] = t
      BY <1>4, <2>2
    <3> QED BY <1>5, <1>8, <3>1 DEF Agree
  <2>3. CASE b \in new
    <3>1. PICK t \in DOMAIN ids : b[1] = ids[t] /\ b[2] = t
      BY <1>4, <2>3
    <3> QED BY <1>5, <1>8, <3>1 DEF Agree
  <2> QED BY <2>1, <2>2, <2>3 DEF new
<1> QED BY <1>5, <1>6, <1>7, <1>8 DEF ids

LEMMA CommitKeeps ==
    ASSUME FramesInv, Commit
    PROVE  FramesInv'
<1> DEFINE old == ren.frame
           frame == prep.frame
           kept == Retained(prep.frame)
           pairs == sent \cup Resolve(prep.frame, prep.patch.cells)
<1>1. /\ prep # NoFrame /\ prep' = NoFrame /\ policy' = policy /\ nextId' = nextId /\ sent' = pairs
      /\ term' = Show(term, frame, prep.patch) /\ ren' = [frame |-> kept, force |-> FALSE]
      /\ view' = prep.view /\ focus' = prep.focus
  BY DEF Commit, Settles, Sends
<1>2. PreparedOK
  BY <1>1 DEF FramesInv
<1>3. /\ frame \in FrameSet /\ Sound(frame, nextId) /\ Framed(frame) /\ Extends(frame.ids, old.ids)
      /\ old \in FrameSet /\ Sound(old, nextId) /\ Framed(old) /\ ren.force \in BOOLEAN
  BY <1>2, FrameIs DEF FramesInv, PreparedOK
<1>4. /\ kept \in FrameSet /\ Sound(kept, nextId) /\ kept.rows = frame.rows /\ kept.scene = frame.scene
      /\ Extends(frame.ids, kept.ids)
  BY <1>3, RetainedOK
<1>5. /\ \A a \in pairs : a[1] \in Int /\ a[1] < nextId
      /\ Agree(pairs, frame.ids) /\ \A a, b \in pairs : a[1] = b[1] => a[2] = b[2]
  BY <1>2, SendsKeep
<1>6. Agree(pairs, kept.ids)
  BY <1>4, <1>5 DEF Agree, Extends
<1>7. Shown(Show(term, frame, prep.patch), frame) /\ TermOK(Show(term, frame, prep.patch))
  <2>1. \A a \in Points : Cell(old, a) = Cell(frame, a) => Want(old, a) = Want(frame, a)
    BY <1>3, SameWant
  <2>2. TermOK(term) /\ (ren.force \/ Shown(term, old))
    BY DEF FramesInv
  <2>3. PatchCovers(prep.patch, old, frame, ren.force)
    BY <1>2 DEF PreparedOK
  <2> DEFINE patch == prep.patch
             full == ren.force
             t == term
  <2> HIDE DEF old, frame, patch, full, t
  <2> QED BY <1>3, <2>1, <2>2, <2>3, ShowIsRight DEF patch, full, t
<1> HIDE DEF kept, frame, old, pairs
<1>8. Shown(term', kept)
  <2>1. \A a \in Points : Cell(kept, a) = Cell(frame, a)
    BY <1>4 DEF Cell
  <2>2. \A a \in Points : Want(kept, a) = Want(frame, a)
    BY <1>3, <1>4, <2>1, SameWant
  <2> QED BY <1>1, <1>4, <1>7, <2>2 DEF Shown
<1>9. ren'.frame = kept /\ ren' \in [frame : FrameSet, force : BOOLEAN]
  BY <1>1, <1>4
<1>10. view' \in Views /\ focus' \in Focusable \cup {0} /\ policy' \in Policies /\ nextId' \in 1..MaxId + 1
  BY <1>1, <1>2 DEF FramesInv, PreparedOK
<1>11. IdsKeepMeaning'
  BY <1>1, <1>5 DEF IdsKeepMeaning
<1>12. Shown(term', ren'.frame) /\ TermOK(term') /\ Agree(sent', ren'.frame.ids) /\ Sound(ren'.frame, nextId')
  BY <1>1, <1>4, <1>6, <1>7, <1>8, <1>9
<1>13. \A a \in sent' : a[1] \in Int /\ a[1] < nextId'
  BY <1>1, <1>5
<1> QED BY <1>1, <1>9, <1>10, <1>11, <1>12, <1>13 DEF FramesInv

LEMMA UncertainKeeps ==
    ASSUME FramesInv, DiscardUncertain
    PROVE  FramesInv'
<1> DEFINE pairs == sent \cup Resolve(prep.frame, prep.patch.cells)
<1>1. /\ prep # NoFrame /\ prep' = NoFrame /\ policy' = policy /\ nextId' = nextId /\ sent' = pairs
      /\ term' = Garbage /\ ren' = [ren EXCEPT !.force = TRUE] /\ view' = view /\ focus' = focus
  BY DEF DiscardUncertain, Settles, Sends, Forces, tree
<1>2. PreparedOK /\ ren \in [frame : FrameSet, force : BOOLEAN]
  BY <1>1 DEF FramesInv
<1>3. /\ \A a \in pairs : a[1] \in Int /\ a[1] < nextId
      /\ Agree(pairs, ren.frame.ids) /\ \A a, b \in pairs : a[1] = b[1] => a[2] = b[2]
  BY <1>2, SendsKeep
<1> HIDE DEF pairs
<1>4. ren'.frame = ren.frame /\ ren'.force = TRUE /\ ren' \in [frame : FrameSet, force : BOOLEAN]
  BY <1>1, <1>2
<1>5. TermOK(term')
  <2>1. Garbage.cells = [a \in Points |-> Garbage.cells[a]]
    BY DEF Garbage
  <2>2. Garbage.tiles \subseteq Points /\ 1..Len(Garbage.placed) = {}
    BY DEF Garbage
  <2> QED BY <1>1, <2>1, <2>2 DEF TermOK
<1>6. IdsKeepMeaning'
  BY <1>1, <1>3 DEF IdsKeepMeaning
<1> QED BY <1>1, <1>3, <1>4, <1>5, <1>6 DEF FramesInv

\* The other actions leave the frames and the terminal alone, or only ask for a full
\* repaint while nothing is prepared.
LEMMA OthersKeep ==
    ASSUME FramesInv, nextId' = nextId, term' = term, sent' = sent, view' = view,
           focus' \in Focusable \cup {0}, policy' \in Policies,
           \/ prep' = NoFrame /\ ren' = ren
           \/ prep' = NoFrame /\ ren' = [ren EXCEPT !.force = TRUE]
           \/ prep' = prep /\ ren' = ren
    PROVE  FramesInv'
<1>1. ren \in [frame : FrameSet, force : BOOLEAN]
  BY DEF FramesInv
<1>2. ren'.frame = ren.frame /\ ren' \in [frame : FrameSet, force : BOOLEAN] /\ (ren'.force = ren.force \/ ren'.force = TRUE)
  BY <1>1
<1>3. ~ren'.force => Shown(term', ren'.frame)
  BY <1>2 DEF FramesInv
<1>4. prep' # NoFrame => PreparedOK'
  BY <1>2 DEF FramesInv, PreparedOK
<1> QED BY <1>2, <1>3, <1>4 DEF FramesInv, IdsKeepMeaning

\* The invariant holds in every reachable state, whatever the tree, the screen and
\* the number of frames.
THEOREM FramesInvariant == Spec => []FramesInv
<1>1. Init => FramesInv
  BY InitOK
<1>2. ASSUME FramesInv, [Next]_vars PROVE FramesInv'
  <2>0. FramesInv /\ focus \in Focusable \cup {0} /\ policy \in Policies
    BY <1>2 DEF FramesInv
  <2>1. ASSUME NEW v \in Views, NEW f \in Focusable \cup {0}, Prepare(v, f) PROVE FramesInv'
    BY <2>0, <2>1, PrepareKeeps
  <2>2. CASE Commit
    BY <1>2, <2>2, CommitKeeps
  <2>3. CASE Discard
    <3>1. /\ nextId' = nextId /\ term' = term /\ sent' = sent /\ view' = view /\ focus' = focus /\ policy' = policy
          /\ prep' = NoFrame /\ ren' = ren
      BY <2>3 DEF Discard, Settles, tree
    <3> QED BY <1>2, <2>0, <3>1, OthersKeep
  <2>4. CASE DiscardUncertain
    BY <1>2, <2>4, UncertainKeeps
  <2>5. CASE Invalidate
    <3>1. /\ nextId' = nextId /\ term' = term /\ sent' = sent /\ view' = view /\ focus' = focus /\ policy' = policy
          /\ prep' = NoFrame /\ ren' = [ren EXCEPT !.force = TRUE]
      BY <2>5 DEF Invalidate, Forces, tree
    <3> QED BY <1>2, <2>0, <3>1, OthersKeep
  <2>6. ASSUME NEW p \in Policies, SetWidthPolicy(p) PROVE FramesInv'
    <3>1. /\ nextId' = nextId /\ term' = term /\ sent' = sent /\ view' = view /\ focus' = focus /\ policy' = p
          /\ prep' = NoFrame /\ ren' = [ren EXCEPT !.force = TRUE]
      BY <2>6 DEF SetWidthPolicy, Forces, tree
    <3> QED BY <1>2, <2>0, <3>1, OthersKeep
  <2>7. ASSUME NEW f \in Focusable \cup {0}, FocusNode(f) PROVE FramesInv'
    <3>1. /\ nextId' = nextId /\ term' = term /\ sent' = sent /\ view' = view /\ focus' = f /\ policy' = policy
          /\ prep' = prep /\ ren' = ren
      BY <2>7 DEF FocusNode
    <3> QED BY <1>2, <2>0, <3>1, OthersKeep
  <2>8. CASE DeliverFocus \/ UNCHANGED vars
    <3>1. /\ nextId' = nextId /\ term' = term /\ sent' = sent /\ view' = view /\ focus' = focus /\ policy' = policy
          /\ prep' = prep /\ ren' = ren
      BY <2>8 DEF DeliverFocus, vars, tree
    <3> QED BY <1>2, <2>0, <3>1, OthersKeep
  <2> QED BY <1>2, <2>1, <2>2, <2>3, <2>4, <2>5, <2>6, <2>7, <2>8 DEF Next
<1> QED BY <1>1, <1>2, PTL DEF Spec

LEMMA SoundIsOK ==
    ASSUME NEW frame, Framed(frame), Sound(frame, nextId)
    PROVE  FrameOK(frame)
<1>1. \A at \in Points : ~IsEmpty(Cell(frame, at)) =>
        \E text \in DOMAIN frame.ids : frame.ids[text] = Cell(frame, at).id
  BY KnownCell
<1> QED BY <1>1 DEF FrameOK, Framed, Sound, Given

\* Committed and prepared frames hold whole graphemes that their store knows, under
\* ids that were given out, and a patch cuts no grapheme: what FramePatch::validate
\* asks of every patch holds by construction of the canvas and of diff_frame.
THEOREM FramesTyped == Spec => []TypeOK
<1>1. FramesInv => TypeOK
  <2> SUFFICES ASSUME FramesInv PROVE TypeOK
    OBVIOUS
  <2>1. FrameOK(ren.frame)
    BY FrameIs, SoundIsOK DEF FramesInv
  <2>2. ASSUME prep # NoFrame PROVE FrameOK(prep.frame) /\ PatchIsWhole(prep.frame, prep.patch)
    <3>1. PreparedOK
      BY <2>2 DEF FramesInv
    <3> QED BY <3>1, FrameIs, SoundIsOK DEF PreparedOK, PatchCovers
  <2> QED BY <2>1, <2>2 DEF TypeOK, FramesInv
<1> QED BY <1>1, FramesInvariant, PTL

\* No id in the stream of patches ever stands for two texts, through commits, frames
\* that are discarded, and ids that the store forgets.
THEOREM IdsNeverChange == Spec => []IdsKeepMeaning
<1>1. FramesInv => IdsKeepMeaning
  BY DEF FramesInv
<1> QED BY <1>1, FramesInvariant, PTL

\* Unless a full repaint is due, the terminal shows exactly the committed frame, though
\* only differences were ever printed: no half of a wide grapheme survives, nothing
\* under a changed image is stale, and no tile of a deleted image is left.
THEOREM TerminalShowsTheFrame == Spec => []ScreenShowsFrame
<1>1. FramesInv => ScreenShowsFrame
  <2> SUFFICES ASSUME FramesInv, ~ren.force PROVE Shows(term, ren.frame)
    BY DEF ScreenShowsFrame
  <2>1. Shown(term, ren.frame) /\ Framed(ren.frame)
    BY FrameIs DEF FramesInv
  <2> QED BY <2>1, ShownShows
<1> QED BY <1>1, FramesInvariant, PTL
================================================================================
