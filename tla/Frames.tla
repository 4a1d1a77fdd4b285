-------------------------------- MODULE Frames ---------------------------------
(***************************************************************************)
(* The way of a frame from the UI tree to the terminal: UiTree::prepare    *)
(* paints the tree through a Canvas over a buffer of cells, a hit map, an  *)
(* image scene and a store of graphemes (tree.rs, canvas.rs, hit.rs,       *)
(* grapheme_store.rs), the Renderer cuts the difference to the committed   *)
(* frame into a patch (frame.rs), and the terminal prints it.              *)
(*                                                                         *)
(* The nodes 1..N of the tree are in the order in which they are painted;  *)
(* their geometry is fixed, so that a change of content is a matter of     *)
(* painting, and one of text goes through the layout.  Content boxes are   *)
(* the layout boxes.  Rectangles are sets of points <<x, y>>, positions    *)
(* are absolute.  Line breaks and the cursor are left out.                 *)
(***************************************************************************)
EXTENDS CellBuffer, ImageScene

CONSTANTS N, Parent, Layout,  \* the nodes; Parent[n] < n, and 0 for the root
          Variants,            \* what each node may be
          Focusable,          \* \subseteq 1..N
          Height,             \* rows of the viewport
          Policies,           \* WidthPolicy
          Graphemes, GlyphWidth,  \* the texts of a cell, and their width under a policy
          Pictures,           \* what an image shows
          FocusStyle

Nodes == 1..N
Lines == 0..Height - 1
Points == Columns \X Lines
MaxId == Max(Ids)

\* What a node draws: a text from a point on, or an image in an area.
Drawings == [kind : {"text"}, at : Int \X Int, area : SUBSET Points, what : Seq(Graphemes)]
       \cup [kind : {"image"}, at : Int \X Int, area : SUBSET Points, what : Seq(Pictures)]

ASSUME FramesAssumption ==
    /\ Width \in Nat \ {0} /\ Height \in Nat \ {0} /\ N \in Nat
    /\ MaxId \in Nat \ {0} /\ Ids = 1..MaxId
    /\ \A n \in Nodes : Parent[n] \in 0..n - 1 /\ Layout[n] \subseteq Points
    /\ \A n \in Nodes : \A e \in Variants[n] :
          /\ e.fill \in BOOLEAN /\ e.interactive \in BOOLEAN /\ e.style \in Styles
          /\ e.text \in Seq(Drawings) /\ e.paint \in Seq(Drawings)
    /\ Focusable \subseteq Nodes /\ FocusStyle \in Styles
    /\ \A p \in Policies, g \in Graphemes : GlyphWidth[p][g] \in 1..2

VARIABLES
    view,      \* the elements the committed tree was reconciled with
    focus, change,    \* the focused node (0: none), and pending_focus_change
    invalid,   \* nodes whose invalidation is Paint
    matches,   \* renderer_state = Some(renderer.state_id())
    policy,
    ren,       \* Renderer: the committed frame, and force (force_full_repaint)
    nextId,    \* the next grapheme id, shared by all clones of the store
    prep,      \* the prepared frame, until it is committed or discarded
    term,      \* the terminal
    sent       \* history: what the ids in patches stood for
tree == <<view, focus, change, invalid>>
vars == <<tree, matches, policy, ren, nextId, prep, term, sent>>

NoFrame == [size |-> 0]
NoChange == <<0, 0>>
BlankFrame == [rows |-> [y \in Lines |-> Blank], hits |-> [at \in Points |-> 0],
               scene |-> <<>>, ids |-> <<>>]
Garbage == [cells |-> [at \in Points |-> <<"?", "lone", Plain>>], tiles |-> Points, placed |-> <<>>]
Views == {v \in [Nodes -> UNION {Variants[n] : n \in Nodes}] : \A n \in Nodes : v[n] \in Variants[n]}

Init ==
    /\ view \in Views /\ focus = 0 /\ change = NoChange /\ invalid = {}
    /\ matches = FALSE /\ policy \in Policies
    /\ ren = [frame |-> BlankFrame, force |-> TRUE]
    /\ nextId = 1 /\ prep = NoFrame /\ term = Garbage /\ sent = {}
----------------------------------------------------------------------------
(* Canvas.  A context is the clip, the rows that are not masked, the hit   *)
(* identity, the style and the width policy.                               *)

Cell(frame, at) == frame.rows[at[2]][at[1]]
\* The points in reading order.
Point(i) == <<(i - 1) % Width, (i - 1) \div Width>>
Right(at, by) == <<at[1] + by, at[2]>>

\* The cells of the grapheme at a point, or the point alone.
SpanAt(frame, at) ==
    LET c == Cell(frame, at)
        from == Start(frame.rows[at[2]], at[1])
    IN  IF IsEmpty(c) THEN {at}
        ELSE {<<x, at[2]>> : x \in from..from + Cell(frame, <<from, at[2]>>).width - 1}

\* clear_hit_span_at and mark_hit_span.
Hits(frame, points, hit) ==
    LET cleared == UNION {SpanAt(frame, at) : at \in points}
    IN  [at \in Points |-> IF at \in points THEN hit
                           ELSE IF at \in cleared THEN 0 ELSE frame.hits[at]]

Interned(c, text) ==
    IF text \in DOMAIN c.ids THEN c
    ELSE IF c.next > MaxId THEN [c EXCEPT !.ok = FALSE]
    ELSE [c EXCEPT !.ids = [t \in DOMAIN @ \cup {text} |-> IF t = text THEN c.next ELSE @[t]],
                   !.next = @ + 1]

DrawGrapheme(c, at, text, cx) ==
    LET width == GlyphWidth[cx.policy][text]
        points == {Right(at, i) : i \in 0..width - 1}
        with == Interned(c, text)
    IN  IF ~(points \subseteq cx.clip /\ at[2] \in cx.lines) THEN c
        ELSE IF ~with.ok THEN with
        ELSE [with EXCEPT
                !.rows[at[2]] = SetGrapheme(@, at[1], with.ids[text], width, cx.style),
                !.hits = Hits(c, points, cx.hit)]

DrawText(c, at, text, cx) ==
    Iterate(LAMBDA s, i : <<DrawGrapheme(s[1], s[2], text[i], cx),
                            Right(s[2], GlyphWidth[cx.policy][text[i]])>>,
            <<c, at>>, Len(text))[1]

FillCell(c, at, cx) ==
    [c EXCEPT !.rows[at[2]] = SetEmpty(@, at[1], cx.style), !.hits = Hits(c, {at}, cx.hit)]
Fill(c, points, cx) ==
    Iterate(LAMBDA d, i : IF Point(i) \in points \cap cx.clip /\ Point(i)[2] \in cx.lines
                          THEN FillCell(d, Point(i), cx) ELSE d,
            c, Width * Height)

DrawImage(c, p, cx) ==
    LET drawn == p.at \subseteq cx.clip /\ \E at \in p.at : at[2] \in cx.lines
    IN  IF ~drawn THEN c
        ELSE IF ~Admits(c.scene, p) THEN [c EXCEPT !.ok = FALSE]
        ELSE [c EXCEPT !.scene = Push(@, p),
                       !.hits = [at \in Points |-> IF at \in p.at /\ at[2] \in cx.lines
                                                   THEN cx.hit ELSE @[at]]]

Draw(c, d, cx) ==
    IF ~c.ok THEN c
    ELSE IF d.kind = "image" THEN DrawImage(c, [image |-> d.what, at |-> d.area], cx)
    ELSE DrawText(c, d.at, d.what, cx)
DrawAll(c, drawings, cx) == Iterate(LAMBDA d, i : Draw(d, drawings[i], cx), c, Len(drawings))
----------------------------------------------------------------------------
(* Painting the tree                                                       *)

\* A function of the nodes above: the clip, the style and the hit of a node.
Clip == LET clip[n \in Nodes] == IF Parent[n] = 0 THEN Layout[n] ELSE Layout[n] \cap clip[Parent[n]]
        IN  clip

Style(v, focused) ==
    LET style[n \in Nodes] ==
            IF focused = n THEN FocusStyle
            ELSE IF v[n].style # Plain THEN v[n].style
            ELSE IF Parent[n] = 0 THEN Plain ELSE style[Parent[n]]
    IN  style

HitOf(v) ==
    LET hit[n \in Nodes] == IF v[n].interactive THEN n
                            ELSE IF Parent[n] = 0 THEN 0 ELSE hit[Parent[n]]
    IN  hit

LinesOf(points) == {at[2] : at \in points}

PaintNode(c, n, v, focused, lines, p) ==
    LET cx == [clip |-> Clip[n], lines |-> lines, hit |-> HitOf(v)[n],
               style |-> Style(v, focused)[n], policy |-> p]
        filled == IF v[n].fill THEN Fill(c, Layout[n], cx) ELSE c
    IN  IF LinesOf(Clip[n]) \cap lines = {} THEN c
        ELSE DrawAll(filled, v[n].text \o v[n].paint, cx)

PaintAll(c, v, focused, lines, p) ==
    LET painted == Iterate(LAMBDA d, n : PaintNode(d, n, v, focused, lines, p), c, N)
    IN  [painted EXCEPT !.scene = FinishRepaint(@)]

\* Mutation: ids that no frame holds are given out again.
CanvasOverFreeIds(frame, next) ==
    [rows |-> frame.rows, hits |-> frame.hits, scene |-> frame.scene, ids |-> frame.ids,
     next |-> Max({frame.ids[text] : text \in DOMAIN frame.ids} \cup {0}) + 1, ok |-> TRUE]

Canvas(frame, next) ==
    [rows |-> frame.rows, hits |-> frame.hits, scene |-> frame.scene, ids |-> frame.ids,
     next |-> next, ok |-> TRUE]

PaintFrame(ids, v, focused, p, next) ==
    PaintAll(Canvas([BlankFrame EXCEPT !.ids = ids], next), v, focused, Lines, p)

\* Mutation: what was in the damaged rows is painted over, not cleared.
RepaintOver(frame, v, focused, lines, p, next) ==
    LET c == [Canvas(frame, next) EXCEPT
                !.scene = MarkDamaged(@, {at \in Points : at[2] \in lines})]
    IN  PaintAll(c, v, focused, lines, p)

RepaintDamagedRows(frame, v, focused, lines, p, next) ==
    LET all == [clip |-> Points, lines |-> lines, hit |-> 0, style |-> Plain, policy |-> p]
        c == [Canvas(frame, next) EXCEPT
                !.scene = MarkDamaged(@, {at \in Points : at[2] \in lines})]
    IN  PaintAll(Fill(c, Points, all), v, focused, lines, p)

\* damaged_rows: of the nodes to be painted again, and of a change of focus.
DamagedRows(nodes, moved) ==
    UNION {LinesOf(Layout[n]) : n \in nodes \cup ({moved[1], moved[2]} \ {0})}
----------------------------------------------------------------------------
(* Renderer::diff_frame                                                    *)

Coverage(scene) == UNION {scene[i].p.at : i \in 1..Len(scene)}
SpanIn(frame, at) == IF IsEmpty(Cell(frame, at)) THEN {} ELSE SpanAt(frame, at)

\* Mutation: graphemes are not kept whole.
IncludeNothing(old, new, changed) == changed

\* One pass from left to right.
IncludeSpans(old, new, changed) ==
    Iterate(LAMBDA ch, i : ch \cup UNION {SpanIn(old, at) \cup SpanIn(new, at) :
                                          at \in {a \in ch : a[1] = i - 1}},
            changed, Width)

ImagesDiffer(old, new) == Placements(old.scene) # Placements(new.scene)

Diff(old, new, full) ==
    LET differing == {at \in Points : Cell(old, at) # Cell(new, at)}
        covered == IF ImagesDiffer(old, new) THEN Coverage(old.scene) \cup Coverage(new.scene) ELSE {}
    IN  [full |-> full,
         cells |-> IF full THEN Points ELSE IncludeSpans(old, new, differing \cup covered),
         images |-> full \/ ImagesDiffer(old, new)]

TextOf(ids, id) == CHOOSE text \in DOMAIN ids : ids[text] = id
Resolve(frame, cells) ==
    {<<Cell(frame, at).id, TextOf(frame.ids, Cell(frame, at).id)>> :
        at \in {a \in cells : Cell(frame, a).width > 0}}

\* FramePatch::validate: a run holds whole graphemes.
PatchIsWhole(frame, patch) ==
    \A at \in patch.cells :
        /\ Cell(frame, at).width = 2 => Right(at, 1) \in patch.cells
        /\ Cell(frame, at).offset = 1 => Right(at, -1) \in patch.cells
----------------------------------------------------------------------------
(* The terminal.  A wide grapheme of which one half is printed over loses  *)
(* the other; a deleted image leaves its tiles in the cells.               *)

Overprint(cells, at, glyphs) ==
    LET width == Len(glyphs)
        Torn(a) == \/ cells[a][2] = "head" /\ a = Right(at, -1)
                   \/ cells[a][2] = "tail" /\ a = Right(at, width)
    IN  [a \in Points |-> IF a[2] = at[2] /\ a[1] \in at[1]..at[1] + width - 1
                          THEN glyphs[a[1] - at[1] + 1]
                          ELSE IF Torn(a) THEN <<"?", "lone", Plain>> ELSE cells[a]]

Glyphs(frame, at) ==
    LET c == Cell(frame, at)
        text == TextOf(frame.ids, c.id)
    IN  CASE c.width = 2 -> << <<text, "head", c.style>>, <<text, "tail", c.style>> >>
          [] c.width = 1 -> << <<text, "lone", c.style>> >>
          [] IsEmpty(c)  -> << <<" ", "lone", c.style>> >>
          [] OTHER -> <<>>

\* Cells::write_patch_body, in reading order; continuations print nothing.
Printed(cells, frame, at) ==
    Iterate(LAMBDA cs, i : IF Point(i) \in at /\ Cell(frame, Point(i)).offset = 0
                           THEN Overprint(cs, Point(i), Glyphs(frame, Point(i))) ELSE cs,
            cells, Width * Height)

Show(t, frame, patch) ==
    LET cleared == IF patch.full THEN [at \in Points |-> <<" ", "lone", Plain>>] ELSE t.cells
        printed == UNION {SpanAt(frame, a) : a \in {c \in patch.cells : Cell(frame, c).offset = 0}}
        left == IF patch.images THEN t.tiles \cup UNION {t.placed[i].at : i \in 1..Len(t.placed)}
                ELSE t.tiles
    IN  [cells |-> Printed(cleared, frame, patch.cells),
         tiles |-> left \ printed,
         placed |-> IF patch.images THEN Placements(frame.scene) ELSE t.placed]

Shows(t, frame) ==
    /\ \A at \in Points : Cell(frame, at).offset = 0 =>
          \A i \in 1..Len(Glyphs(frame, at)) : t.cells[Right(at, i - 1)] = Glyphs(frame, at)[i]
    /\ t.tiles = {} /\ t.placed = Placements(frame.scene)
----------------------------------------------------------------------------
(* UiTree and Renderer                                                     *)

Moved(before, to) ==
    LET combined == IF before = NoChange THEN <<focus, to>> ELSE <<before[1], to>>
    IN  IF focus = to THEN before
        ELSE IF combined[1] = combined[2] THEN NoChange ELSE combined

\* prepare_with_layout_mode.  The staged tree may move the focus itself.
Staged(v, f) ==
    LET nodes == invalid \cup {n \in Nodes : v[n] # view[n]}
                   \cup (IF f = focus THEN {} ELSE {f, focus} \ {0})
        layout == \E n \in Nodes : v[n].text # view[n].text
    IN  [pending |-> IF layout THEN "layout" ELSE IF nodes # {} THEN "paint" ELSE "none",
         damage |-> DamagedRows(nodes, Moved(change, f)), change |-> Moved(change, f)]

Painted(v, f) ==
    LET staged == Staged(v, f)
    IN  CASE matches /\ staged.pending = "none" -> Canvas(ren.frame, nextId)
          [] matches /\ staged.pending = "paint" ->
                RepaintDamagedRows(ren.frame, v, f, staged.damage, policy, nextId)
          [] OTHER -> PaintFrame(ren.frame.ids, v, f, policy, nextId)

Prepare(v, f) ==
    /\ prep = NoFrame
    /\ LET c == Painted(v, f)
       IN  /\ nextId' = c.next
           /\ prep' = IF ~c.ok THEN NoFrame
                      ELSE [frame |-> [rows |-> c.rows, hits |-> c.hits, scene |-> c.scene, ids |-> c.ids],
                            patch |-> Diff(ren.frame, c, ren.force),
                            view |-> v, focus |-> f, change |-> Staged(v, f).change]
    /\ UNCHANGED <<tree, matches, policy, ren, term, sent>>

\* The store forgets what the frame does not show.
Retained(frame) ==
    LET used == {Cell(frame, at).id : at \in Points}
        texts == {text \in DOMAIN frame.ids : frame.ids[text] \in used}
    IN  [frame EXCEPT !.ids = [text \in texts |-> @[text]]]

\* Ready for the next frame: nothing is prepared.
Settles == prep # NoFrame /\ prep' = NoFrame /\ UNCHANGED <<policy, nextId>>
Sends == sent' = sent \cup Resolve(prep.frame, prep.patch.cells)

Commit ==
    /\ Settles /\ Sends
    /\ term' = Show(term, prep.frame, prep.patch)
    /\ ren' = [frame |-> Retained(prep.frame), force |-> FALSE]
    /\ view' = prep.view /\ focus' = prep.focus /\ change' = prep.change
    /\ invalid' = {} /\ matches' = TRUE

Discard ==
    /\ Settles
    /\ UNCHANGED <<tree, matches, ren, term, sent>>

\* Mutation: the next frame is diffed with the committed one after all.
ForcesNothing == ren' = ren /\ matches' = FALSE

Forces == ren' = [ren EXCEPT !.force = TRUE] /\ matches' = FALSE

DiscardUncertain ==
    /\ Settles /\ Sends /\ Forces
    /\ term' = Garbage
    /\ UNCHANGED tree

Invalidate ==
    /\ prep = NoFrame /\ Forces
    /\ UNCHANGED <<tree, policy, nextId, prep, term, sent>>

SetWidthPolicy(p) ==
    /\ prep = NoFrame /\ p # policy /\ policy' = p /\ Forces
    /\ UNCHANGED <<tree, nextId, prep, term, sent>>

FocusNode(f) ==
    /\ prep = NoFrame /\ f # focus
    /\ focus' = f /\ change' = Moved(change, f)
    /\ invalid' = invalid \cup ({f, focus} \ {0})
    /\ UNCHANGED <<view, matches, policy, ren, nextId, prep, term, sent>>

DeliverFocus ==
    /\ prep = NoFrame /\ change # NoChange /\ change' = NoChange
    /\ UNCHANGED <<view, focus, invalid, matches, policy, ren, nextId, prep, term, sent>>

Next ==
    \/ \E v \in Views, f \in Focusable \cup {0} : Prepare(v, f)
    \/ Commit \/ Discard \/ DiscardUncertain \/ Invalidate
    \/ \E p \in Policies : SetWidthPolicy(p)
    \/ \E f \in Focusable \cup {0} : FocusNode(f)
    \/ DeliverFocus

Spec == Init /\ [][Next]_vars
----------------------------------------------------------------------------
(* Properties                                                              *)

FrameOK(frame) ==
    /\ \A y \in Lines : Whole(frame.rows[y])
    /\ \A at \in Points : ~IsEmpty(Cell(frame, at)) =>
          \E text \in DOMAIN frame.ids : frame.ids[text] = Cell(frame, at).id
    /\ \A text \in DOMAIN frame.ids : frame.ids[text] < nextId

\* Every cell of a frame that is part of a grapheme is part of a whole one, which
\* the frame's store knows.
TypeOK ==
    /\ view \in Views /\ focus \in Focusable \cup {0} /\ nextId \in 1..MaxId + 1
    /\ FrameOK(ren.frame)
    /\ prep # NoFrame => FrameOK(prep.frame) /\ PatchIsWhole(prep.frame, prep.patch)

Seen(frame) ==
    [at \in Points |-> LET c == Cell(frame, at)
                       IN  IF IsEmpty(c) THEN <<"", 0, 0, c.style>>
                           ELSE <<TextOf(frame.ids, c.id), c.width, c.offset, c.style>>]

\* The frame that repaints only the damaged rows of the committed one is the
\* frame that paints everything: the same cells, the same hit map, the same
\* images stacked in the same order (prepare and prepare_full, tree.rs).
RepaintIsFull ==
    prep # NoFrame =>
        LET full == PaintFrame(prep.frame.ids, prep.view, prep.focus, policy, nextId)
        IN  full.ok =>
            /\ Seen(prep.frame) = Seen(full) /\ prep.frame.hits = full.hits
            /\ SameStacking(Placements(prep.frame.scene), Placements(full.scene))

\* Unless a full repaint is due, the terminal shows the committed frame, whose
\* patches printed only what had changed; no half of a wide grapheme and no tile
\* of a deleted image is left on it.
ScreenShowsFrame == ~ren.force => Shows(term, ren.frame)

\* An id in the stream of patches never changes its meaning, though frames that
\* carried new ids are discarded and ids fall out of the store.
IdsKeepMeaning == \A a, b \in sent : a[1] = b[1] => a[2] = b[2]
=============================================================================
