------------------------------ MODULE TextBuffer ------------------------------
(***************************************************************************)
(* The single-line text input buffer of arborui-text: its text, its cursor *)
(* and the anchor of its selection, under every editing command.           *)
(*                                                                         *)
(* Offsets count characters (the code counts bytes, and never cuts one).   *)
(* Which offsets begin an extended grapheme is up to the Unicode tables:   *)
(* the operator Starts, of which only Segmentation is assumed.  Joining    *)
(* two texts may join graphemes, so that an offset that was a boundary in  *)
(* each of them is none in the result.                                     *)
(***************************************************************************)
EXTENDS Integers, Sequences

CONSTANTS Chars,       \* all characters
          Controls,    \* is_control or is_line_break
          Tab, Space,
          Starts(_),   \* grapheme_indices: where the graphemes of a text begin
          Inputs       \* what `new' and `insert' are given

VARIABLES text, cursor,
          anchor       \* an offset, or NoAnchor

textVars == <<text, cursor, anchor>>

NoAnchor == -1
Printable == Chars \ Controls

\* A text of at least one character begins with a grapheme, and none is empty.
Segmentation ==
    \A t \in Seq(Printable) : /\ Starts(t) \subseteq 0 .. Len(t) - 1
                              /\ t # <<>> => 0 \in Starts(t)

LeastOf(S) == CHOOSE x \in S : \A y \in S : x <= y
GreatestOf(S) == CHOOSE x \in S : \A y \in S : x >= y

\* boundary_before and boundary_after give back the offset itself where the
\* code gives None: there is nothing before or behind it then.
BoundaryBefore(t, offset) ==
    LET before == {b \in Starts(t) : b < offset}
    IN  IF before = {} THEN offset ELSE GreatestOf(before)

BoundaryAfter(t, offset) ==
    LET after == {b \in Starts(t) : b > offset}
    IN  IF after # {} THEN LeastOf(after) ELSE IF offset < Len(t) THEN Len(t) ELSE offset

BoundaryAtOrAfter(t, offset) ==
    LET behind == {b \in Starts(t) : b >= offset}
    IN  IF behind = {} THEN Len(t) ELSE LeastOf(behind)

\* sanitize_single_line: the characters of `raw' that are kept, in their order;
\* a tab is kept as a space.  There is exactly one such text.
Kept(raw) == {i \in DOMAIN raw : raw[i] = Tab \/ raw[i] \notin Controls}
Shown(char) == IF char = Tab THEN Space ELSE char

Sanitized(raw) ==
    {t \in UNION {[1..n -> Printable] : n \in 0..Len(raw)} :
        \E at \in [DOMAIN t -> Kept(raw)] :
            /\ \A j, k \in DOMAIN t : j < k => at[j] < at[k]
            /\ \A i \in Kept(raw) : \E k \in DOMAIN t : at[k] = i
            /\ \A k \in DOMAIN t : t[k] = Shown(raw[at[k]])}

TextInit ==
    /\ \E raw \in Inputs : text \in Sanitized(raw)
    /\ cursor = Len(text)
    /\ anchor = NoAnchor
--------------------------------------------------------------------------------
\* selection: none while its two ends meet.
Selected == anchor # NoAnchor /\ anchor # cursor
SelectionStart == IF Selected /\ anchor < cursor THEN anchor ELSE cursor
SelectionEnd == IF Selected /\ anchor > cursor THEN anchor ELSE cursor

\* replace_range, and the cursor on the first boundary from `requested' on.
Replace(start, end, inserted) ==
    LET result == SubSeq(text, 1, start) \o inserted \o SubSeq(text, end + 1, Len(text))
    IN  /\ text' = result
        /\ cursor' = BoundaryAtOrAfter(result, start + Len(inserted))
        /\ anchor' = NoAnchor

Insert(raw) ==
    \E inserted \in Sanitized(raw) :
        IF inserted = <<>> /\ ~Selected THEN UNCHANGED textVars
        ELSE Replace(SelectionStart, SelectionEnd, inserted)

DeleteRange(start, end) == Replace(start, end, <<>>)

Backspace ==
    IF Selected THEN DeleteRange(SelectionStart, SelectionEnd)
    ELSE LET start == BoundaryBefore(text, cursor)
         IN  IF start = cursor THEN UNCHANGED textVars ELSE DeleteRange(start, cursor)

Delete ==
    IF Selected THEN DeleteRange(SelectionStart, SelectionEnd)
    ELSE LET end == BoundaryAfter(text, cursor)
         IN  IF end = cursor THEN UNCHANGED textVars ELSE DeleteRange(cursor, end)

Destination(movement, extend) ==
    CASE movement = "Left" /\ ~extend /\ Selected -> SelectionStart
      [] movement = "Right" /\ ~extend /\ Selected -> SelectionEnd
      [] movement = "Left" /\ (extend \/ ~Selected) -> BoundaryBefore(text, cursor)
      [] movement = "Right" /\ (extend \/ ~Selected) -> BoundaryAfter(text, cursor)
      [] movement = "Home" -> 0
      [] movement = "End" -> Len(text)

MoveCursor(movement, extend) ==
    /\ cursor' = Destination(movement, extend)
    /\ anchor' = IF ~extend THEN NoAnchor ELSE IF anchor = NoAnchor THEN cursor ELSE anchor
    /\ UNCHANGED text

SelectAll ==
    /\ anchor' = 0 /\ cursor' = Len(text)
    /\ UNCHANGED text

TextNext ==
    \/ \E raw \in Inputs : Insert(raw)
    \/ Backspace \/ Delete \/ SelectAll
    \/ \E movement \in {"Left", "Right", "Home", "End"}, extend \in BOOLEAN :
          MoveCursor(movement, extend)

TextSpec == TextInit /\ [][TextNext]_textVars
--------------------------------------------------------------------------------
Boundaries(t) == Starts(t) \union {Len(t)}

\* "every exposed endpoint is guaranteed to be an extended-grapheme boundary":
\* also after an edit that joins the graphemes on its two sides.
EndpointsOnBoundaries ==
    /\ cursor \in Boundaries(text)
    /\ anchor # NoAnchor => anchor \in Boundaries(text)

\* The buffer holds a single line without control characters.
SingleLine == text \in Seq(Printable)

\* Backspace and Delete take something away, unless there is nothing on that
\* side of the cursor; what they leave alone stays.
DeletionsShrink ==
    [][/\ Backspace => Len(text') < Len(text) \/ (cursor = 0 /\ UNCHANGED textVars)
       /\ Delete => Len(text') < Len(text) \/ (cursor = Len(text) /\ UNCHANGED textVars)]_textVars
================================================================================
