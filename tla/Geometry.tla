------------------------------- MODULE Geometry -------------------------------
(***************************************************************************)
(* Rectangles of terminal cells in arborui-core: signed 32-bit origins,    *)
(* unsigned 16-bit sizes, arithmetic that saturates or is widened first.   *)
(* Every clip of the painter is an intersection of such rectangles, so the *)
(* facts below are what it means that nothing is painted outside a clip    *)
(* and nothing inside it is left out, up to the limits of the coordinates. *)
(***************************************************************************)
EXTENDS Integers

CONSTANTS MinCoord, MaxCoord,  \* the limits of a coordinate: i32
          MaxLength            \* the limit of a width or height: u16

IntegerLimits ==
    MinCoord \in Int /\ MaxCoord \in Int /\ MinCoord <= MaxCoord /\ MaxLength \in Nat

Coords == MinCoord..MaxCoord
Lengths == 0..MaxLength

Positions == [x : Coords, y : Coords]
Rects == [x : Coords, y : Coords, width : Lengths, height : Lengths]
Insets == [top : Lengths, right : Lengths, bottom : Lengths, left : Lengths]

Lesser(a, b) == IF a < b THEN a ELSE b
Greater(a, b) == IF a > b THEN a ELSE b

Saturated(value) == Greater(MinCoord, Lesser(value, MaxCoord))
\* The cast of a wider integer to the type of a length.
AsLength(value) == value % (MaxLength + 1)

HasNoCell(r) == r.width = 0 \/ r.height = 0

\* Half-open, and computed in 64 bits: it does not saturate.
Contains(r, p) ==
    /\ p.x >= r.x /\ p.x < r.x + r.width
    /\ p.y >= r.y /\ p.y < r.y + r.height

Left(r, other) == Greater(r.x, other.x)
Top(r, other) == Greater(r.y, other.y)
Right(r, other) == Lesser(r.x + r.width, other.x + other.width)
Bottom(r, other) == Lesser(r.y + r.height, other.y + other.height)

\* Whether `intersection' has anything to return, and what it returns then.
Intersects(r, other) == Left(r, other) < Right(r, other) /\ Top(r, other) < Bottom(r, other)

Intersection(r, other) ==
    [x |-> Saturated(Left(r, other)), y |-> Saturated(Top(r, other)),
     width |-> AsLength(Right(r, other) - Left(r, other)),
     height |-> AsLength(Bottom(r, other) - Top(r, other))]

\* The region left after applying insets that may be larger than it.
Inner(r, insets) ==
    LET left == Lesser(insets.left, r.width)
        right == Lesser(insets.right, r.width - left)
        top == Lesser(insets.top, r.height)
        bottom == Lesser(insets.bottom, r.height - top)
    IN  [x |-> Saturated(r.x + left), y |-> Saturated(r.y + top),
         width |-> r.width - left - right, height |-> r.height - top - bottom]
================================================================================
