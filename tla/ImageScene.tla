------------------------------ MODULE ImageScene -------------------------------
(***************************************************************************)
(* ImageScene (image.rs): the native images of a frame, in the order in    *)
(* which they are stacked, and their selective repaint.  The images that a *)
(* damaged row may have changed go stale; those that are drawn again take  *)
(* their old place, and the ones still stale at the end are removed.       *)
(* An occurrence in a scene is a placement with its two marks; the place   *)
(* of a placement is the set of the cells it covers.  One row mask is in   *)
(* force at a time, as in the UI tree, hence one replay scope.             *)
(***************************************************************************)
EXTENDS Loops, SequencesExt

CONSTANTS MaxPlacements,  \* MAX_IMAGE_PLACEMENTS
          MaxSources      \* MAX_IMAGE_SCENE_BYTES, with images of one size

Overlap(p, q) == p.at \cap q.at # {}
Occurrence(p) == [p |-> p, stale |-> FALSE, replayed |-> TRUE]
Placements(scene) == [i \in 1..Len(scene) |-> scene[i].p]
Live(scene) == Pick(scene, {i \in 1..Len(scene) : ~scene[i].stale})

\* push_with_limits counts what is not stale, and rejects before it changes anything.
Admits(scene, p) ==
    /\ Len(Live(scene)) < MaxPlacements
    /\ LET sources == {e.p.image : e \in {Live(scene)[i] : i \in 1..Len(Live(scene))}}
       IN  Cardinality(sources \cup {p.image}) <= MaxSources

\* The place of a new occurrence: at the first stale one, but above whatever was
\* replayed before it and overlaps it.
Next0(scene, p) ==
    LET stale == SelectInSeq(scene, LAMBDA e : e.stale)
        below == SelectLastInSeq(scene, LAMBDA e : e.replayed /\ ~e.stale /\ Overlap(e.p, p))
    IN  Max({below + 1, IF stale = 0 THEN Len(scene) + 1 ELSE stale})

\* The old occurrence of p moves up, with everything on top of it that is not
\* replayed yet, on top of that, and so on.
Moving(scene, index, next) ==
    Iterate(LAMBDA moving, i :
                LET k == index + i
                IN  IF /\ scene[k].stale \/ ~scene[k].replayed
                       /\ \E m \in moving : Overlap(scene[m].p, scene[k].p)
                    THEN moving \cup {k} ELSE moving,
            {index}, next - 1 - index)

Lift(scene, index, next) ==
    LET moving == Moving(scene, index, next)
        carried == Pick(scene, moving \ {index})
    IN  SubSeq(scene, 1, index - 1) \o Pick(scene, (index..next - 1) \ moving)
          \o <<Occurrence(scene[index].p)>>
          \o [n \in 1..Len(carried) |-> [carried[n] EXCEPT !.replayed = FALSE]]
          \o SubSeq(scene, next, Len(scene))

Push(scene, p) ==
    LET index == SelectInSeq(scene, LAMBDA e : e.stale /\ e.p = p)
        clean == {k \in 1..index - 1 : /\ ~scene[k].stale /\ ~scene[k].replayed
                                       /\ Overlap(scene[k].p, p)}
        next == Max({Next0(scene, p)} \cup {k + 1 : k \in clean})
    IN  IF index = 0 THEN InsertAt(scene, Next0(scene, p), Occurrence(p))
        ELSE IF index < next THEN Lift(scene, index, next)
        ELSE SubSeq(scene, 1, next - 1) \o <<Occurrence(p)>>
               \o SubSeq(scene, next, index - 1) \o SubSeq(scene, index + 1, Len(scene))

\* Mutation: what the damage touches is removed at once.
RemoveDamaged(scene, damage) ==
    Pick([i \in 1..Len(scene) |-> [scene[i] EXCEPT !.replayed = FALSE]],
         {i \in 1..Len(scene) : scene[i].p.at \cap damage = {}})

\* mark_damaged.  A stale occurrence tells the order of the untouched ones it
\* overlaps; without any it is dropped at once.
MarkDamaged(scene, damage) ==
    LET marked == [i \in 1..Len(scene) |->
                     [scene[i] EXCEPT !.stale = @ \/ scene[i].p.at \cap damage # {},
                                      !.replayed = FALSE]]
        untouched == {marked[i].p : i \in {j \in 1..Len(scene) : ~marked[j].stale}}
    IN  IF \A i \in 1..Len(scene) : marked[i].stale = scene[i].stale THEN scene
        ELSE Pick(marked, {i \in 1..Len(scene) :
                              \/ ~marked[i].stale
                              \/ \E u \in untouched : Overlap(marked[i].p, u)})

FinishRepaint(scene) ==
    [i \in 1..Len(Live(scene)) |-> [Live(scene)[i] EXCEPT !.replayed = FALSE]]

\* Only the order of overlapping images can be seen.
SameStacking(a, b) ==
    LET all == {a[i] : i \in 1..Len(a)} \cup {b[i] : i \in 1..Len(b)}
    IN  \A p, q \in all : Overlap(p, q) =>
            SelectSeq(a, LAMBDA e : e \in {p, q}) = SelectSeq(b, LAMBDA e : e \in {p, q})
=============================================================================
