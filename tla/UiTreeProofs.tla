----------------------------- MODULE UiTreeProofs -----------------------------
(***************************************************************************)
(* For any views of any slots, any points and buttons: the focus of the    *)
(* committed tree is legal, its events pair up, each scope keeps its focus *)
(* over frames, orphaned presses are consumed, and the hover is current.   *)
(* Then, for any integers, stores and texts, the data below: clips are     *)
(* exact, ids are never used twice, and cursors stay on boundaries.        *)
(***************************************************************************)
EXTENDS UiTree, Geometry, LayoutTree, TextBuffer, Integers, FiniteSetTheorems, SequenceTheorems,
        WellFoundedInduction, TLAPS

Ids == Slots \X Nat
IdsOrNone == Ids \cup {None}

FocusMap(f) ==
    /\ DOMAIN f \subseteq Ids
    /\ \A i \in DOMAIN f : f[i] \in Ids
    /\ f = [i \in DOMAIN f |-> f[i]]

IsTree(t) ==
    t = [view |-> t.view, born |-> t.born, shown |-> t.shown,
         activeScope |-> t.activeScope, focusedBy |-> t.focusedBy, pending |-> t.pending,
         captured |-> t.captured, suppressed |-> t.suppressed, hovered |-> t.hovered,
         lastPointer |-> t.lastPointer]

\* The fields of a tree, in the middle of a step as well.
Shaped(t) ==
    /\ IsTree(t)
    /\ t.view \in Views \cup {NoView} /\ t.shown \subseteq Present(t.view)
    /\ t.born \in [Slots -> Nat]
    /\ {t.activeScope, t.captured, t.hovered} \subseteq IdsOrNone
    /\ FocusMap(t.focusedBy)
    /\ t.pending = [previous |-> t.pending.previous, current |-> t.pending.current]
    /\ t.suppressed \subseteq Buttons

\* The node that was last told that it has the focus.
Origin(t) == IF t.pending = NoChange THEN Focused(t) ELSE t.pending.previous

\* A change to be delivered ends at the focused node, and begins elsewhere.
PendingOK(t) ==
    t.pending # NoChange => t.pending.current = Focused(t) /\ t.pending.previous # Focused(t)

\* Foci of visible scopes, on visible nodes.
Foci(t) ==
    \A i \in DOMAIN t.focusedBy :
        {i, t.focusedBy[i]} \subseteq Alive(t) /\ {i[1], t.focusedBy[i][1]} \subseteq t.shown

\* FocusIsLegal, of any tree.
Legal(t) ==
    t.view # NoView /\ t.shown # {} =>
        LET scope == Deepest(ScopesOf(t) \intersect t.shown)
        IN  /\ t.activeScope = Node(t, scope)
            /\ IF Focused(t) = None THEN Candidates(t, scope) = {}
               ELSE Focused(t)[1] \in Candidates(t, scope)

\* A tree outside of prepare.
Settled(t) ==
    /\ Shaped(t) /\ t.shown = t.view.visible
    /\ {t.activeScope, t.captured, t.hovered} \subseteq Alive(t) \cup {None}
    /\ Foci(t) /\ Legal(t)
    /\ t.lastPointer \subseteq Points /\ \A p, q \in t.lastPointer : p = q

CommittedOK ==
    /\ Settled(tree) /\ tree.born \in [Slots -> 0..MaxBorn]
    /\ Origin(tree) \in Alive(tree) \cup {None} /\ PendingOK(tree)

HeldOK ==
    /\ held \in [Buttons -> {"up", "down", "orphan"}]
    /\ \A b \in Buttons : /\ held[b] = "orphan" => b \in tree.suppressed
                          /\ held[b] = "down" => b \notin tree.suppressed

Inv == CommittedOK /\ FocusEventsPair /\ HeldOK /\ OrphansAreConsumed /\ HoverIsCurrent
--------------------------------------------------------------------------------
(* Slots, paths and the choices among them.                                *)

LEMMA Places ==
    /\ N \in Nat /\ Slots \subseteq 0..N /\ Slots \subseteq Nat /\ 1 \in Slots
    /\ \A s \in Slots \ {1} : Parent[s] \in Slots /\ Parent[s] < s
<1>1. N \in Nat \ {0}
  BY ViewAssumption
<1>2. \A s \in Slots : Parent[s] \in Slots \cup {0} /\ Parent[s] < s /\ (Parent[s] = 0 => s = 1)
  BY ViewAssumption
<1> QED BY <1>1, <1>2 DEF Slots

\* A set of naturals that is not empty has a least member.
LEMMA LeastExists ==
    ASSUME NEW S, S \subseteq Nat, S # {}
    PROVE  \E x \in S : \A y \in S : x <= y
<1> DEFINE Less == OpToRel(<, Nat)
<1>1. \E x \in S : \A y \in S : <<y, x>> \notin Less
  <2>1. IsWellFoundedOn(Less, Nat)
    BY NatLessThanWellFounded
  <2> QED BY <2>1, WFMin
<1>2. Less = {ss \in Nat \X Nat : ss[1] < ss[2]}
  BY DEF OpToRel
<1> HIDE DEF Less
<1>3. PICK x \in S : \A y \in S : <<y, x>> \notin Less
  BY <1>1
<1>4. ASSUME NEW y \in S PROVE x <= y
  <2>1. x \in Nat /\ y \in Nat /\ <<y, x>> \notin Less
    BY <1>3
  <2> QED BY <1>2, <2>1
<1> QED BY <1>3, <1>4

\* One that is bounded from above has a greatest one.
LEMMA GreatestExists ==
    ASSUME NEW n \in Nat, NEW S, S \subseteq 0..n, S # {}
    PROVE  \E x \in S : \A y \in S : y <= x
<1> DEFINE mirror == {n - x : x \in S}
<1>1. mirror \subseteq Nat /\ mirror # {}
  <2>1. \A x \in S : n - x \in Nat
    OBVIOUS
  <2> QED BY <2>1
<1>2. PICK m \in mirror : \A y \in mirror : m <= y
  BY <1>1, LeastExists
<1>3. PICK x \in S : m = n - x
  BY <1>2
<1>4. \A y \in S : y <= x
  BY <1>2, <1>3
<1> QED BY <1>4

LEMMA FirstIsIn == ASSUME NEW S \in SUBSET Slots, S # {} PROVE First(S) \in S
<1>1. \E x \in S : \A y \in S : x <= y
  BY LeastExists, Places
<1> QED BY <1>1 DEF First

LEMMA LastIsIn == ASSUME NEW S \in SUBSET Slots, S # {} PROVE Last(S) \in S
<1>1. \E x \in S : \A y \in S : y <= x
  BY GreatestExists, Places
<1> QED BY <1>1, Places DEF Last

\* A path holds its slot and the root, and its length is a number.
LEMMA Paths ==
    ASSUME NEW s \in Slots
    PROVE  /\ Path[s] \subseteq Slots /\ s \in Path[s] /\ 1 \in Path[s]
           /\ Depth(s) \in 0..N
<1>1. Path[s] \subseteq Slots /\ s \in Path[s]
  BY DEF Path
<1>2. ASSUME NEW upward \in SUBSET Slots, s \in upward, \A x \in upward \ {1} : Parent[x] \in upward
      PROVE  1 \in upward
  <2>1. PICK m \in upward : \A y \in upward : m <= y
    BY <1>2, LeastExists, Places
  <2>2. CASE m # 1
    <3>1. Parent[m] \in upward /\ Parent[m] < m /\ Parent[m] \in Nat /\ m \in Nat
      BY <1>2, <2>1, <2>2, Places
    <3>2. m <= Parent[m]
      BY <2>1, <3>1
    <3> QED BY <3>1, <3>2
  <2> QED BY <2>1, <2>2
<1>3. 1 \in Slots
  BY Places
<1>4. 1 \in Path[s]
  BY <1>2, <1>3 DEF Path
<1>5. Depth(s) \in 0..N
  <2>1. IsFiniteSet(Slots) /\ Cardinality(Slots) = N
    <3>1. 1 \in Int /\ N \in Int /\ N >= 1
      BY ViewAssumption
    <3>2. Cardinality(1..N) = IF 1 > N THEN 0 ELSE N - 1 + 1
      BY <3>1, FS_Interval
    <3>3. IsFiniteSet(1..N)
      BY <3>1, FS_Interval
    <3> QED BY <3>1, <3>2, <3>3 DEF Slots
  <2>2. IsFiniteSet(Path[s]) /\ Cardinality(Path[s]) <= Cardinality(Slots)
    BY <1>1, <2>1, FS_Subset
  <2>3. Cardinality(Path[s]) \in Nat
    BY <2>2, FS_CardinalityType
  <2> QED BY <2>1, <2>2, <2>3 DEF Depth
<1> QED BY <1>1, <1>4, <1>5

LEMMA DeepestIsIn == ASSUME NEW S \in SUBSET Slots, S # {} PROVE Deepest(S) \in S
<1> DEFINE depths == {Depth(s) : s \in S}
<1>1. \A s \in S : Depth(s) \in 0..N
  BY Paths
<1>2. PICK d \in depths : \A e \in depths : e <= d
  <2>1. depths \subseteq 0..N /\ depths # {}
    BY <1>1
  <2> QED BY <2>1, GreatestExists, Places
<1> DEFINE deep == {s \in S : Depth(s) = d}
<1>3. PICK s \in deep : \A o \in deep : o <= s
  <2>1. deep \subseteq 0..N /\ deep # {}
    BY <1>2, Places
  <2> QED BY <2>1, GreatestExists, Places
<1>4. s \in S /\ Depth(s) = d
  BY <1>3
<1>5. ASSUME NEW o \in S \ {s} PROVE Depth(o) < Depth(s) \/ (Depth(o) = Depth(s) /\ o < s)
  <2>1. Depth(o) <= d /\ Depth(o) \in 0..N /\ d \in 0..N
    BY <1>1, <1>2, <1>4
  <2>2. Depth(o) = d => o <= s
    BY <1>3
  <2>3. o \in Nat /\ s \in Nat /\ o # s
    BY <1>4, <1>5, Places
  <2> QED BY <1>4, <2>1, <2>2, <2>3
<1>6. \E x \in S : \A o \in S \ {x} : Depth(o) < Depth(x) \/ (Depth(o) = Depth(x) /\ o < x)
  BY <1>4, <1>5
<1> QED BY <1>6 DEF Deepest
--------------------------------------------------------------------------------
(* Operations on trees.                                                    *)

SameNodes(t, u) == u.view = t.view /\ u.born = t.born /\ u.shown = t.shown
SameFocus(t, u) ==
    u.activeScope = t.activeScope /\ u.focusedBy = t.focusedBy /\ u.pending = t.pending
SamePointer(t, u) ==
    /\ u.captured = t.captured /\ u.suppressed = t.suppressed
    /\ u.hovered = t.hovered /\ u.lastPointer = t.lastPointer

LEMMA NoneIsNoId == None \notin Ids /\ None[1] = 0 /\ \A i \in Ids : i[1] \in Slots /\ i[1] # 0
BY Places DEF None, Ids, Slots

LEMMA ViewFields ==
    ASSUME NEW v \in Views \cup {NoView}
    PROVE  /\ v \in View
           /\ v.visible \subseteq Present(v) /\ Present(v) \subseteq Slots
           /\ v.focusable \subseteq Slots /\ v.scope \subseteq Slots /\ v.modal \subseteq Slots
           /\ v.key \in [Slots -> Nat]
           /\ \A p \in Points : v.hit[p] \in v.visible \cup {0}
<1>1. NoView \in View
  BY DEF NoView, View
<1>2. NoView.visible = {} /\ \A p \in Points : NoView.hit[p] = 0
  BY DEF NoView
<1>3. v \in View
  BY <1>1, ViewAssumption
<1>4. v.visible \subseteq Present(v) /\ \A p \in Points : v.hit[p] \in v.visible \cup {0}
  BY <1>2, ViewAssumption
<1> QED BY <1>3, <1>4 DEF View, Present

LEMMA ShapedFields ==
    ASSUME NEW t, Shaped(t)
    PROVE  /\ Present(t.view) \subseteq Slots /\ t.shown \subseteq Slots
           /\ \A s \in Slots : Node(t, s) \in Ids /\ Node(t, s) # None
           /\ Alive(t) \subseteq Ids
           /\ \A i \in Ids : i \in Alive(t) <=> i[1] \in Present(t.view) /\ i[2] = t.born[i[1]]
           /\ \A s \in Slots : Node(t, s) \in Alive(t) <=> s \in Present(t.view)
           /\ \A s \in Slots : Node(t, s)[1] = s
           /\ Focused(t) \in IdsOrNone
           /\ \A i \in Alive(t) : Node(t, i[1]) = i
<1>1. Present(t.view) \subseteq Slots /\ t.shown \subseteq Slots
  BY ViewFields DEF Shaped
<1>2. \A s \in Slots : Node(t, s) = <<s, t.born[s]>> /\ t.born[s] \in Nat /\ s # 0
  BY Places DEF Slots, Node, Shaped
<1>3. \A i \in Ids : i = <<i[1], i[2]>> /\ i[1] \in Slots
  BY DEF Ids
<1>4. \A i \in Ids : i \in Alive(t) <=> i[1] \in Present(t.view) /\ i[2] = t.born[i[1]]
  BY <1>1, <1>2, <1>3 DEF Alive
<1>5. Focused(t) \in IdsOrNone
  BY DEF Focused, Shaped, FocusMap, IdsOrNone
<1>6. \A s \in Slots : Node(t, s) \in Ids
  BY <1>2 DEF Ids
<1>7. Alive(t) \subseteq Ids
  BY <1>1, <1>6 DEF Alive
<1>8. \A s \in Slots : Node(t, s)[1] = s /\ Node(t, s)[2] = t.born[s]
  BY <1>2
<1>9. \A s \in Slots : Node(t, s) \in Alive(t) <=> s \in Present(t.view)
  BY <1>4, <1>6, <1>8
<1>10. \A i \in Alive(t) : Node(t, i[1]) = i
  BY <1>2, <1>3, <1>4, <1>7
<1> QED BY <1>1, <1>4, <1>5, <1>6, <1>7, <1>8, <1>9, <1>10, NoneIsNoId

\* What depends on the view and the nodes alone.
LEMMA SameNodesSame ==
    ASSUME NEW t, NEW u, SameNodes(t, u)
    PROVE  /\ Alive(u) = Alive(t) /\ ScopesOf(u) = ScopesOf(t)
           /\ \A s : Node(u, s) = Node(t, s) /\ Candidates(u, s) = Candidates(t, s)
           /\ ActiveModal(u) = ActiveModal(t)
           /\ \A at : Pointed(u, at) = Pointed(t, at)
BY DEF SameNodes, Alive, ScopesOf, Node, Candidates, ScopeFor, ActiveModal, Pointed, PointerTarget,
   Under

\* record_focus_change: the changes on the way combine into one from the node last
\* told to the one that has the focus now.
LEMMA RecordKeeps ==
    ASSUME NEW t, Shaped(t), NEW from \in IdsOrNone, NEW to \in IdsOrNone, Focused(t) = to,
           t.pending # NoChange => t.pending.current = from /\ t.pending.previous # from
    PROVE  LET r == Record(t, from, to)
           IN  /\ Shaped(r) /\ SameNodes(t, r) /\ SamePointer(t, r)
               /\ r.activeScope = t.activeScope /\ r.focusedBy = t.focusedBy
               /\ Focused(r) = to /\ PendingOK(r)
               /\ Origin(r) = IF t.pending = NoChange THEN from ELSE t.pending.previous
<1> DEFINE r == Record(t, from, to)
           origin == IF t.pending = NoChange THEN from ELSE t.pending.previous
           pending == IF from = to THEN t.pending
                      ELSE IF origin = to THEN NoChange ELSE [previous |-> origin, current |-> to]
<1>1. r = [t EXCEPT !.pending = pending]
  BY DEF Record, Shaped, IsTree
<1>2. /\ r.view = t.view /\ r.born = t.born /\ r.shown = t.shown
      /\ r.activeScope = t.activeScope /\ r.focusedBy = t.focusedBy /\ r.pending = pending
      /\ r.captured = t.captured /\ r.suppressed = t.suppressed
      /\ r.hovered = t.hovered /\ r.lastPointer = t.lastPointer
      /\ IsTree(r)
  BY <1>1 DEF Shaped, IsTree
<1>3. pending = [previous |-> pending.previous, current |-> pending.current]
  BY DEF NoChange, Shaped
<1>4. Shaped(r) /\ SameNodes(t, r) /\ SamePointer(t, r)
  BY <1>2, <1>3 DEF Shaped, SameNodes, SamePointer
<1>5. Focused(r) = to
  BY <1>2 DEF Focused
<1>6. /\ pending = NoChange => origin = to
      /\ pending # NoChange => pending.previous = origin /\ pending.current = to /\ origin # to
  BY DEF NoChange
<1> HIDE DEF r, pending
<1>7. PendingOK(r) /\ Origin(r) = origin
  BY <1>2, <1>5, <1>6 DEF PendingOK, Origin
<1> QED BY <1>2, <1>4, <1>5, <1>7 DEF r

ActiveScopes(t) == ScopesOf(t) \intersect t.shown
DeepestScope(t) == IF ActiveScopes(t) = {} THEN None ELSE Node(t, Deepest(ActiveScopes(t)))
\* The scopes that keep their focused node.
Keeping(t) == {i \in DOMAIN t.focusedBy :
                    /\ i \in Alive(t) /\ i[1] \in ActiveScopes(t)
                    /\ t.focusedBy[i] \in Alive(t)
                    /\ t.focusedBy[i][1] \in Candidates(t, i[1])}

\* FocusManager::sync keeps what it says, and tells whoever loses the focus.
LEMMA SyncKeeps ==
    ASSUME NEW t, Shaped(t), PendingOK(t)
    PROVE  LET s == Sync(t)
           IN  /\ Shaped(s) /\ SameNodes(t, s) /\ SamePointer(t, s)
               /\ PendingOK(s) /\ Origin(s) = Origin(t)
               /\ s.activeScope = DeepestScope(t)
               /\ s.focusedBy = [i \in Keeping(t) |-> t.focusedBy[i]]
<1> DEFINE s == Sync(t)
           active == DeepestScope(t)
           kept == Keeping(t)
           foci == [i \in kept |-> t.focusedBy[i]]
           opened == [t EXCEPT !.activeScope = active]
           u == [t EXCEPT !.activeScope = active, !.focusedBy = foci]
           to == IF active \in kept THEN t.focusedBy[active] ELSE None
<1>1. s = Record(u, Focused(t), to)
  BY DEF Sync, DeepestScope, ActiveScopes, Keeping
<1> HIDE DEF active, kept, foci
<1>2. /\ u.view = t.view /\ u.born = t.born /\ u.shown = t.shown
      /\ u.activeScope = active /\ u.focusedBy = foci
      /\ u.pending = t.pending /\ u.captured = t.captured /\ u.suppressed = t.suppressed
      /\ u.hovered = t.hovered /\ u.lastPointer = t.lastPointer
      /\ IsTree(u)
  <2>1. u = [opened EXCEPT !.focusedBy = foci]
    OBVIOUS
  <2>2. /\ opened.view = t.view /\ opened.born = t.born /\ opened.shown = t.shown
        /\ opened.activeScope = active /\ opened.focusedBy = t.focusedBy
        /\ opened.pending = t.pending /\ opened.captured = t.captured
        /\ opened.suppressed = t.suppressed
        /\ opened.hovered = t.hovered /\ opened.lastPointer = t.lastPointer
        /\ IsTree(opened)
    BY DEF Shaped, IsTree
  <2> HIDE DEF opened, u
  <2> QED BY <2>1, <2>2 DEF IsTree
<1>3. active \in IdsOrNone
  <2>1. ActiveScopes(t) \in SUBSET Slots
    BY ShapedFields DEF ActiveScopes
  <2>2. ActiveScopes(t) # {} => Deepest(ActiveScopes(t)) \in Slots
    BY <2>1, DeepestIsIn
  <2> QED BY <2>2, ShapedFields DEF active, DeepestScope, IdsOrNone
<1>4. kept \subseteq DOMAIN t.focusedBy
  BY DEF kept, Keeping
<1>5. FocusMap(u.focusedBy) /\ to \in IdsOrNone
  BY <1>2, <1>4 DEF foci, FocusMap, Shaped, IdsOrNone
<1>6. Focused(u) = to
  BY <1>2 DEF Focused, foci
<1> HIDE DEF u
<1>7. Shaped(u) /\ SameNodes(t, u) /\ SamePointer(t, u)
  BY <1>2, <1>3, <1>5 DEF Shaped, SameNodes, SamePointer
<1>8. Focused(t) \in IdsOrNone
  BY ShapedFields
<1>9. u.pending # NoChange => u.pending.current = Focused(t) /\ u.pending.previous # Focused(t)
  BY <1>2 DEF PendingOK
<1> HIDE DEF to
<1>10. /\ Shaped(s) /\ SameNodes(u, s) /\ SamePointer(u, s) /\ PendingOK(s)
       /\ s.activeScope = u.activeScope /\ s.focusedBy = u.focusedBy
       /\ Origin(s) = IF u.pending = NoChange THEN Focused(t) ELSE u.pending.previous
  BY <1>1, <1>5, <1>6, <1>7, <1>8, <1>9, RecordKeeps
<1>11. Origin(s) = Origin(t)
  BY <1>2, <1>10 DEF Origin
<1> QED BY <1>2, <1>7, <1>10, <1>11 DEF SameNodes, SamePointer, active, kept, foci

\* The focus of the active scope may have moved, to a node that can have it.
Moved(t, u) ==
    /\ Shaped(u) /\ SameNodes(t, u) /\ SamePointer(t, u)
    /\ u.activeScope = t.activeScope
    /\ PendingOK(u) /\ Origin(u) = Origin(t)
    /\ \/ u.focusedBy = t.focusedBy
       \/ /\ t.activeScope # None
          /\ DOMAIN u.focusedBy = DOMAIN t.focusedBy \cup {t.activeScope}
          /\ \A i \in DOMAIN t.focusedBy \ {t.activeScope} : u.focusedBy[i] = t.focusedBy[i]
          /\ \E s \in Candidates(t, t.activeScope[1]) :
                 u.focusedBy[t.activeScope] = Node(t, s)

LEMMA StaysMoved == ASSUME NEW t, Shaped(t), PendingOK(t) PROVE Moved(t, t)
BY DEF Moved, SameNodes, SamePointer

LEMMA MovedAgain ==
    ASSUME NEW t, NEW u, NEW w, Moved(t, u), Moved(u, w) PROVE Moved(t, w)
<1>1. /\ Shaped(w) /\ SameNodes(t, w) /\ SamePointer(t, w) /\ w.activeScope = t.activeScope
      /\ PendingOK(w) /\ Origin(w) = Origin(t)
  BY DEF Moved, SameNodes, SamePointer
<1>2. \A s : Node(u, s) = Node(t, s) /\ Candidates(u, s) = Candidates(t, s)
  BY SameNodesSame DEF Moved
<1>3. CASE w.focusedBy = u.focusedBy
  BY <1>1, <1>3 DEF Moved
<1>4. CASE w.focusedBy # u.focusedBy
  <2>1. /\ t.activeScope # None
        /\ DOMAIN w.focusedBy = DOMAIN u.focusedBy \cup {t.activeScope}
        /\ \A i \in DOMAIN u.focusedBy \ {t.activeScope} : w.focusedBy[i] = u.focusedBy[i]
        /\ \E s \in Candidates(t, t.activeScope[1]) : w.focusedBy[t.activeScope] = Node(t, s)
    BY <1>2, <1>4 DEF Moved
  <2>2. /\ DOMAIN u.focusedBy \cup {t.activeScope} = DOMAIN t.focusedBy \cup {t.activeScope}
        /\ \A i \in DOMAIN t.focusedBy \ {t.activeScope} : u.focusedBy[i] = t.focusedBy[i]
    BY DEF Moved
  <2> QED BY <1>1, <2>1, <2>2 DEF Moved
<1> QED BY <1>3, <1>4

LEMMA SetFocusMoves ==
    ASSUME NEW t, Shaped(t), PendingOK(t), t.activeScope # None,
           NEW s \in Candidates(t, t.activeScope[1])
    PROVE  Moved(t, SetFocus(t, s)) /\ Focused(SetFocus(t, s)) = Node(t, s)
<1> DEFINE active == t.activeScope
           foci == [i \in DOMAIN t.focusedBy \cup {active} |->
                       IF i = active THEN Node(t, s) ELSE t.focusedBy[i]]
           u == [t EXCEPT !.focusedBy = foci]
           r == SetFocus(t, s)
<1>1. r = Record(u, Focused(t), Node(t, s))
  BY DEF SetFocus, Shaped, IsTree
<1>2. /\ u.view = t.view /\ u.born = t.born /\ u.shown = t.shown
      /\ u.activeScope = active /\ u.focusedBy = foci
      /\ u.pending = t.pending /\ u.captured = t.captured /\ u.suppressed = t.suppressed
      /\ u.hovered = t.hovered /\ u.lastPointer = t.lastPointer
      /\ IsTree(u)
  BY DEF Shaped, IsTree
<1>3. s \in Slots /\ Node(t, s) \in Ids /\ active \in Ids
  <2>1. s \in Slots
    BY ShapedFields DEF Candidates
  <2> QED BY <2>1, ShapedFields DEF Shaped, IdsOrNone
<1>4. FocusMap(foci)
  BY <1>3 DEF FocusMap, Shaped
<1>5. Focused(u) = Node(t, s)
  BY <1>2 DEF Focused
<1>6. /\ DOMAIN foci = DOMAIN t.focusedBy \cup {active}
      /\ \A i \in DOMAIN t.focusedBy \ {active} : foci[i] = t.focusedBy[i]
      /\ foci[active] = Node(t, s)
  OBVIOUS
<1> HIDE DEF u, foci
<1>7. Shaped(u) /\ SameNodes(t, u) /\ SamePointer(t, u)
  BY <1>2, <1>3, <1>4 DEF Shaped, SameNodes, SamePointer
<1>8. Focused(t) \in IdsOrNone /\ Node(t, s) \in IdsOrNone
  BY <1>3, ShapedFields DEF IdsOrNone
<1>9. u.pending # NoChange => u.pending.current = Focused(t) /\ u.pending.previous # Focused(t)
  BY <1>2 DEF PendingOK
<1>10. /\ Shaped(r) /\ SameNodes(u, r) /\ SamePointer(u, r) /\ PendingOK(r)
       /\ r.activeScope = u.activeScope /\ r.focusedBy = u.focusedBy
       /\ Origin(r) = IF u.pending = NoChange THEN Focused(t) ELSE u.pending.previous
       /\ Focused(r) = Node(t, s)
  BY <1>1, <1>5, <1>7, <1>8, <1>9, RecordKeeps
<1>11. Origin(r) = Origin(t)
  BY <1>2, <1>10 DEF Origin
<1>12. SameNodes(t, r) /\ SamePointer(t, r) /\ r.activeScope = t.activeScope /\ r.focusedBy = foci
  BY <1>2, <1>7, <1>10 DEF SameNodes, SamePointer
<1> QED BY <1>6, <1>10, <1>11, <1>12 DEF Moved

LEMMA FocusMoves ==
    ASSUME NEW t, Shaped(t), PendingOK(t), NEW s PROVE Moved(t, Focus(t, s))
<1>1. CASE t.activeScope # None /\ s \in Candidates(t, t.activeScope[1])
  BY <1>1, SetFocusMoves DEF Focus
<1>2. CASE ~(t.activeScope # None /\ s \in Candidates(t, t.activeScope[1]))
  BY <1>2, StaysMoved DEF Focus
<1> QED BY <1>1, <1>2

LEMMA RequestedMoves ==
    ASSUME NEW t, Shaped(t), PendingOK(t), NEW s PROVE Moved(t, Requested(t, s))
BY FocusMoves, StaysMoved DEF Requested

LEMMA CandidatesAreSlots ==
    ASSUME NEW t, Shaped(t), NEW scope PROVE Candidates(t, scope) \in SUBSET Slots
BY ShapedFields DEF Candidates

LEMMA RepairMoves ==
    ASSUME NEW t, Shaped(t), PendingOK(t) PROVE Moved(t, Repair(t))
<1> DEFINE all == Candidates(t, t.activeScope[1])
<1>1. CASE t.activeScope = None \/ Focused(t) # None \/ all = {}
  BY <1>1, StaysMoved DEF Repair
<1>2. CASE ~(t.activeScope = None \/ Focused(t) # None \/ all = {})
  <2>1. First(all) \in all
    BY <1>2, CandidatesAreSlots, FirstIsIn
  <2> QED BY <1>2, <2>1, SetFocusMoves DEF Repair
<1> QED BY <1>1, <1>2

\* FocusManager::repair leaves a scope without focus only if nothing in it can have it.
LEMMA RepairGivesFocus ==
    ASSUME NEW t, Shaped(t), PendingOK(t), t.activeScope # None
    PROVE  Focused(Repair(t)) = None => Candidates(t, t.activeScope[1]) = {}
<1> DEFINE all == Candidates(t, t.activeScope[1])
           r == Repair(t)
<1>1. CASE Focused(t) # None \/ all = {}
  BY <1>1 DEF Repair
<1>2. CASE ~(Focused(t) # None \/ all = {})
  <2>1. First(all) \in all
    BY <1>2, CandidatesAreSlots, FirstIsIn
  <2>2. Focused(r) = Node(t, First(all))
    BY <1>2, <2>1, SetFocusMoves DEF Repair
  <2>3. First(all) \in Slots
    BY <2>1, CandidatesAreSlots
  <2>4. Node(t, First(all)) # None
    BY <2>3, ShapedFields
  <2> QED BY <2>2, <2>4
<1> QED BY <1>1, <1>2

\* and changes nothing when the scope has focus.
LEMMA RepairKeeps == ASSUME NEW t, Focused(t) # None PROVE Repair(t) = t
BY DEF Repair

LEMMA TraverseMoves ==
    ASSUME NEW t, Shaped(t), PendingOK(t), NEW reverse PROVE Moved(t, Traverse(t, reverse))
<1> DEFINE all == IF t.activeScope = None THEN {} ELSE Candidates(t, t.activeScope[1])
           at == Focused(t)[1]
           after == {s \in all : s > at}
           before == {s \in all : s < at}
<1>1. all \in SUBSET Slots /\ after \in SUBSET Slots /\ before \in SUBSET Slots
  BY CandidatesAreSlots
<1>2. CASE all = {}
  BY <1>2, StaysMoved DEF Traverse
<1>3. CASE all # {}
  <2>1. First(all) \in all /\ Last(all) \in all
    BY <1>1, <1>3, FirstIsIn, LastIsIn
  <2>2. (before # {} => Last(before) \in all) /\ (after # {} => First(after) \in all)
    BY <1>1, FirstIsIn, LastIsIn
  <2>3. t.activeScope # None /\ \A s \in all : Moved(t, SetFocus(t, s))
    BY <1>3, SetFocusMoves
  <2>4. PICK s \in all : Traverse(t, reverse) = SetFocus(t, s)
    BY <1>3, <2>1, <2>2 DEF Traverse
  <2> QED BY <2>3, <2>4
<1> QED BY <1>2, <1>3
--------------------------------------------------------------------------------
(* The pointer's side of a frame.                                          *)

\* The capture stays, or the rest of every press is suppressed.
CaptureKept(t, u) ==
    \/ u.captured = t.captured /\ u.suppressed = t.suppressed
    \/ t.captured # None /\ u.captured = None /\ u.suppressed = Buttons

Repaired(t, u) ==
    /\ Shaped(u) /\ SameNodes(t, u) /\ SameFocus(t, u)
    /\ CaptureKept(t, u) /\ u.lastPointer = t.lastPointer

LEMMA CancelCaptureRepairs ==
    ASSUME NEW t, Shaped(t), t.captured # None
    PROVE  LET u == CancelCapture(t)
           IN  Repaired(t, u) /\ u.captured = None /\ u.hovered = t.hovered
<1> DEFINE u == CancelCapture(t)
           w == [t EXCEPT !.captured = None]
<1>1. u = [w EXCEPT !.suppressed = Buttons]
  BY DEF CancelCapture
<1>2. /\ w.view = t.view /\ w.born = t.born /\ w.shown = t.shown
      /\ w.activeScope = t.activeScope /\ w.focusedBy = t.focusedBy
      /\ w.pending = t.pending /\ w.captured = None /\ w.suppressed = t.suppressed
      /\ w.hovered = t.hovered /\ w.lastPointer = t.lastPointer
      /\ IsTree(w)
  BY DEF Shaped, IsTree
<1> HIDE DEF w, u
<1>3. /\ u.view = t.view /\ u.born = t.born /\ u.shown = t.shown
      /\ u.activeScope = t.activeScope /\ u.focusedBy = t.focusedBy
      /\ u.pending = t.pending /\ u.captured = None /\ u.suppressed = Buttons
      /\ u.hovered = t.hovered /\ u.lastPointer = t.lastPointer
      /\ IsTree(u)
  BY <1>1, <1>2 DEF IsTree
<1>4. Shaped(u)
  BY <1>3 DEF Shaped, IdsOrNone
<1> QED BY <1>3, <1>4 DEF Repaired, SameNodes, SameFocus, CaptureKept, u

LEMMA StaysRepaired == ASSUME NEW t, Shaped(t) PROVE Repaired(t, t)
BY DEF Repaired, SameNodes, SameFocus, CaptureKept

LEMMA RepairedAgain ==
    ASSUME NEW t, NEW u, NEW w, Repaired(t, u), Repaired(u, w) PROVE Repaired(t, w)
BY DEF Repaired, SameNodes, SameFocus, CaptureKept

LEMMA ModalityRepairs ==
    ASSUME NEW t, Shaped(t)
    PROVE  LET u == RepairModality(t)
           IN  Repaired(t, u) /\ u.captured \in {t.captured, None} /\ u.hovered = t.hovered
<1>1. CASE t.captured = None \/ Under(t, t.captured[1])
  BY <1>1, StaysRepaired DEF RepairModality
<1>2. CASE ~(t.captured = None \/ Under(t, t.captured[1]))
  BY <1>2, CancelCaptureRepairs DEF RepairModality
<1> QED BY <1>1, <1>2

LEMMA RemovedRepairs ==
    ASSUME NEW t, Shaped(t)
    PROVE  LET u == RepairRemoved(t)
           IN  Repaired(t, u) /\ {u.captured, u.hovered} \subseteq Alive(u) \cup {None}
<1> DEFINE hovered == IF t.hovered \in Alive(t) THEN t.hovered ELSE None
           w == [t EXCEPT !.hovered = hovered]
           u == RepairRemoved(t)
<1>1. u = IF t.captured = None \/ t.captured \in Alive(t) THEN w ELSE CancelCapture(w)
  BY DEF RepairRemoved, Shaped, IsTree
<1>2. /\ w.view = t.view /\ w.born = t.born /\ w.shown = t.shown
      /\ w.activeScope = t.activeScope /\ w.focusedBy = t.focusedBy
      /\ w.pending = t.pending /\ w.captured = t.captured /\ w.suppressed = t.suppressed
      /\ w.hovered = hovered /\ w.lastPointer = t.lastPointer
      /\ IsTree(w)
  BY DEF Shaped, IsTree
<1> HIDE DEF w, u
<1>3. Shaped(w) /\ Repaired(t, w)
  BY <1>2 DEF Shaped, IdsOrNone, Repaired, SameNodes, SameFocus, CaptureKept
<1>4. CASE t.captured = None \/ t.captured \in Alive(t)
  <2>1. Alive(w) = Alive(t)
    BY <1>3, SameNodesSame DEF Repaired
  <2> QED BY <1>1, <1>2, <1>3, <1>4, <2>1 DEF u
<1>5. CASE ~(t.captured = None \/ t.captured \in Alive(t))
  <2>1. Repaired(w, u) /\ u.captured = None /\ u.hovered = hovered
    BY <1>1, <1>2, <1>3, <1>5, CancelCaptureRepairs
  <2>2. Repaired(t, u)
    BY <1>3, <2>1, RepairedAgain
  <2>3. Alive(u) = Alive(t)
    BY <2>2, SameNodesSame DEF Repaired
  <2> QED BY <2>1, <2>2, <2>3 DEF u
<1> QED BY <1>4, <1>5
--------------------------------------------------------------------------------
(* Frames.                                                                 *)

\* What is visible hangs together, so the root is, and is a scope that is open.
LEMMA RootIsVisible ==
    ASSUME NEW t, Shaped(t), t.shown = t.view.visible, t.shown # {}
    PROVE  1 \in ActiveScopes(t)
<1>1. t.view \in Views
  BY DEF Shaped, NoView
<1>2. /\ 1 \in Present(t.view) /\ t.shown \subseteq Slots
      /\ \A s \in t.shown \ {1} : Parent[s] \in t.shown
  BY <1>1, ViewAssumption, ShapedFields
<1>3. PICK m \in t.shown : \A o \in t.shown : m <= o
  BY <1>2, LeastExists, Places
<1>4. CASE m # 1
  <2>1. m \in Slots \ {1} /\ Parent[m] \in t.shown
    BY <1>2, <1>3, <1>4
  <2>2. Parent[m] < m /\ m \in Nat /\ Parent[m] \in Nat
    BY <2>1, Places
  <2>3. m <= Parent[m]
    BY <1>3, <2>1
  <2> QED BY <2>2, <2>3
<1>5. CASE m = 1
  BY <1>2, <1>3, <1>5 DEF ActiveScopes, ScopesOf
<1> QED BY <1>4, <1>5

Reused(t, v) == {s \in Slots : \A a \in Path[s] : v.key[a] # 0 /\ v.key[a] = t.view.key[a]}
Reborn(t, v) == [s \in Slots |-> IF s \in Present(v) \ Reused(t, v) THEN t.born[s] + 1 ELSE t.born[s]]
\* The tree with the new view, and nothing repaired yet.
Viewed(t, v) == [t EXCEPT !.view = v, !.shown = @ \intersect Reused(t, v), !.born = Reborn(t, v)]

LEMMA ViewedFields ==
    ASSUME NEW t, Shaped(t), PendingOK(t), NEW v \in Views
    PROVE  LET u == Viewed(t, v)
           IN  /\ Shaped(u) /\ SameFocus(t, u) /\ SamePointer(t, u)
               /\ PendingOK(u) /\ Origin(u) = Origin(t)
               /\ u.view = v /\ u.shown = t.shown \intersect Reused(t, v) /\ u.born = Reborn(t, v)
<1> DEFINE u == Viewed(t, v)
           u1 == [t EXCEPT !.view = v]
           shown == t.shown \intersect Reused(t, v)
           born == Reborn(t, v)
           u2 == [u1 EXCEPT !.shown = shown]
<1>1. /\ u1.view = v /\ u1.born = t.born /\ u1.shown = t.shown
      /\ u1.activeScope = t.activeScope /\ u1.focusedBy = t.focusedBy
      /\ u1.pending = t.pending /\ u1.captured = t.captured /\ u1.suppressed = t.suppressed
      /\ u1.hovered = t.hovered /\ u1.lastPointer = t.lastPointer /\ IsTree(u1)
  BY DEF Shaped, IsTree
<1>2. u = [u2 EXCEPT !.born = born]
  BY DEF Viewed, Shaped, IsTree
<1> HIDE DEF u1, shown, born
<1>3. /\ u2.view = v /\ u2.born = t.born /\ u2.shown = shown
      /\ u2.activeScope = t.activeScope /\ u2.focusedBy = t.focusedBy
      /\ u2.pending = t.pending /\ u2.captured = t.captured /\ u2.suppressed = t.suppressed
      /\ u2.hovered = t.hovered /\ u2.lastPointer = t.lastPointer /\ IsTree(u2)
  BY <1>1 DEF IsTree
<1> HIDE DEF u2, u
<1>4. /\ u.view = v /\ u.born = born /\ u.shown = shown
      /\ u.activeScope = t.activeScope /\ u.focusedBy = t.focusedBy
      /\ u.pending = t.pending /\ u.captured = t.captured /\ u.suppressed = t.suppressed
      /\ u.hovered = t.hovered /\ u.lastPointer = t.lastPointer /\ IsTree(u)
  BY <1>2, <1>3 DEF IsTree
<1>5. shown \subseteq Present(v)
  BY Paths DEF shown, Reused, Present
<1>6. born \in [Slots -> Nat]
  BY DEF born, Reborn, Shaped
<1>7. Shaped(u) /\ SameFocus(t, u) /\ SamePointer(t, u)
  BY <1>4, <1>5, <1>6 DEF Shaped, SameFocus, SamePointer
<1>8. Focused(u) = Focused(t)
  BY <1>4 DEF Focused
<1>9. PendingOK(u) /\ Origin(u) = Origin(t)
  BY <1>4, <1>8 DEF PendingOK, Origin
<1> QED BY <1>4, <1>7, <1>9 DEF u, shown, born

\* The repairs of interaction state leave what the focus has recorded.
LEMMA RepairedFocus ==
    ASSUME NEW t, NEW u, Repaired(t, u), PendingOK(t)
    PROVE  PendingOK(u) /\ Origin(u) = Origin(t) /\ Focused(u) = Focused(t)
BY DEF Repaired, SameFocus, PendingOK, Origin, Focused

LEMMA CaptureKeptAgain ==
    ASSUME NEW t, NEW u, NEW w, CaptureKept(t, u), CaptureKept(u, w) PROVE CaptureKept(t, w)
BY DEF CaptureKept

LEMMA Reconciled ==
    ASSUME NEW t, Shaped(t), PendingOK(t), NEW v \in Views
    PROVE  LET r == Reconcile(t, v)
               u == Viewed(t, v)
           IN  /\ Shaped(r) /\ SameNodes(u, r) /\ PendingOK(r) /\ Origin(r) = Origin(t)
               /\ r.focusedBy = [i \in Keeping(u) |-> t.focusedBy[i]]
               /\ CaptureKept(t, r) /\ r.lastPointer = t.lastPointer
<1> DEFINE u == Viewed(t, v)
           s == Sync(u)
           w == RepairRemoved(s)
           r == RepairModality(w)
<1>1. Reconcile(t, v) = r
  BY DEF Reconcile, Viewed, Reused, Reborn
<1>2. /\ Shaped(u) /\ SameFocus(t, u) /\ SamePointer(t, u) /\ PendingOK(u) /\ Origin(u) = Origin(t)
  BY ViewedFields
<1> HIDE DEF u
<1>3. /\ Shaped(s) /\ SameNodes(u, s) /\ SamePointer(u, s) /\ PendingOK(s) /\ Origin(s) = Origin(u)
      /\ s.focusedBy = [i \in Keeping(u) |-> u.focusedBy[i]]
  BY <1>2, SyncKeeps
<1> HIDE DEF s
<1>4. Repaired(s, w)
  BY <1>3, RemovedRepairs
<1>5. Repaired(w, r)
  BY <1>4, ModalityRepairs DEF Repaired
<1> HIDE DEF w, r
<1>6. Repaired(s, r)
  BY <1>4, <1>5, RepairedAgain
<1>7. PendingOK(r) /\ Origin(r) = Origin(s)
  BY <1>3, <1>6, RepairedFocus
<1>8. r.focusedBy = [i \in Keeping(u) |-> t.focusedBy[i]]
  BY <1>2, <1>3, <1>6 DEF Repaired, SameFocus
<1>9. CaptureKept(t, r) /\ r.lastPointer = t.lastPointer
  BY <1>2, <1>3, <1>6 DEF SamePointer, Repaired, CaptureKept
<1>10. Shaped(r) /\ SameNodes(u, r)
  BY <1>3, <1>6 DEF Repaired, SameNodes
<1> QED BY <1>1, <1>2, <1>3, <1>7, <1>8, <1>9, <1>10 DEF u

\* The tree once laid out: what the view makes visible is shown.
LaidOut(t, v) == [Reconcile(t, v) EXCEPT !.shown = v.visible]

LEMMA LaidOutFields ==
    ASSUME NEW t, Shaped(t), PendingOK(t), NEW v \in Views
    PROVE  LET l == LaidOut(t, v)
               u == Viewed(t, v)
           IN  /\ Shaped(l) /\ l.view = v /\ l.shown = v.visible /\ l.born = Reborn(t, v)
               /\ PendingOK(l) /\ Origin(l) = Origin(t)
               /\ l.focusedBy = [i \in Keeping(u) |-> t.focusedBy[i]]
               /\ CaptureKept(t, l) /\ l.lastPointer = t.lastPointer
<1> DEFINE r == Reconcile(t, v)
           l == LaidOut(t, v)
           u == Viewed(t, v)
<1>1. /\ Shaped(r) /\ SameNodes(u, r) /\ PendingOK(r) /\ Origin(r) = Origin(t)
      /\ r.focusedBy = [i \in Keeping(u) |-> t.focusedBy[i]]
      /\ CaptureKept(t, r) /\ r.lastPointer = t.lastPointer
  BY Reconciled
<1>2. r.view = v /\ r.born = Reborn(t, v)
  BY <1>1, ViewedFields DEF SameNodes
<1> HIDE DEF r, u
<1>3. /\ l.view = v /\ l.born = r.born /\ l.shown = v.visible
      /\ l.activeScope = r.activeScope /\ l.focusedBy = r.focusedBy
      /\ l.pending = r.pending /\ l.captured = r.captured /\ l.suppressed = r.suppressed
      /\ l.hovered = r.hovered /\ l.lastPointer = r.lastPointer /\ IsTree(l)
  BY <1>1, <1>2 DEF Shaped, IsTree, LaidOut, r
<1> HIDE DEF l
<1>4. Shaped(l)
  BY <1>1, <1>2, <1>3, ViewFields DEF Shaped
<1>5. Focused(l) = Focused(r)
  BY <1>3 DEF Focused
<1>6. PendingOK(l) /\ Origin(l) = Origin(r) /\ CaptureKept(t, l)
  BY <1>1, <1>3, <1>5 DEF PendingOK, Origin, CaptureKept
<1> QED BY <1>1, <1>2, <1>3, <1>4, <1>6 DEF l, u

\* The scope that is active once the scopes are synchronized.
LEMMA DeepestScopeIsAlive ==
    ASSUME NEW t, Shaped(t), t.shown = t.view.visible
    PROVE  /\ t.shown = {} => DeepestScope(t) = None
           /\ t.shown # {} =>
                LET scope == Deepest(ActiveScopes(t))
                IN  scope \in ActiveScopes(t) /\ DeepestScope(t) = Node(t, scope)
           /\ DeepestScope(t) # None => DeepestScope(t) \in Alive(t) /\ DeepestScope(t)[1] \in t.shown
<1>1. ActiveScopes(t) \in SUBSET Slots /\ ActiveScopes(t) \subseteq t.shown
  BY ShapedFields DEF ActiveScopes
<1>2. CASE t.shown = {}
  BY <1>1, <1>2 DEF DeepestScope
<1>3. CASE t.shown # {}
  <2>1. ActiveScopes(t) # {}
    BY <1>3, RootIsVisible
  <2> DEFINE scope == Deepest(ActiveScopes(t))
  <2>2. scope \in ActiveScopes(t)
    BY <1>1, <2>1, DeepestIsIn
  <2>3. DeepestScope(t) = Node(t, scope)
    BY <2>1 DEF DeepestScope
  <2> HIDE DEF scope
  <2>4. scope \in Slots /\ scope \in t.shown /\ scope \in Present(t.view)
    BY <1>1, <2>2 DEF Shaped
  <2>5. DeepestScope(t) \in Alive(t) /\ DeepestScope(t)[1] \in t.shown
    BY <2>3, <2>4, ShapedFields
  <2> QED BY <1>3, <2>2, <2>3, <2>5 DEF scope
<1> QED BY <1>2, <1>3

\* What Moved says of a tree whose foci and whose focus are legal.
LEMMA MovedIsLegal ==
    ASSUME NEW t, NEW u, Shaped(t), Moved(t, u), Foci(t), t.shown = t.view.visible,
           t.activeScope \in Alive(t) \cup {None},
           t.activeScope # None => t.activeScope[1] \in t.shown
    PROVE  /\ Foci(u)
           /\ Focused(u) # Focused(t) =>
                  t.activeScope # None /\ Focused(u)[1] \in Candidates(t, t.activeScope[1])
<1>1. CASE u.focusedBy = t.focusedBy
  <2>1. Focused(u) = Focused(t)
    BY <1>1 DEF Focused, Moved
  <2>2. Alive(u) = Alive(t) /\ u.shown = t.shown
    BY SameNodesSame DEF Moved, SameNodes
  <2> QED BY <1>1, <2>1, <2>2 DEF Foci
<1>2. CASE u.focusedBy # t.focusedBy
  <2> DEFINE active == t.activeScope
  <2>1. /\ active # None /\ u.activeScope = active
        /\ DOMAIN u.focusedBy = DOMAIN t.focusedBy \cup {active}
        /\ \A i \in DOMAIN t.focusedBy \ {active} : u.focusedBy[i] = t.focusedBy[i]
        /\ \E s \in Candidates(t, active[1]) : u.focusedBy[active] = Node(t, s)
    BY <1>2 DEF Moved
  <2>2. PICK s \in Candidates(t, active[1]) : u.focusedBy[active] = Node(t, s)
    BY <2>1
  <2>3. s \in t.shown /\ s \in Present(t.view) /\ s \in Slots
    BY <2>2, ShapedFields DEF Candidates, Shaped
  <2>4. Node(t, s) \in Alive(t) /\ Node(t, s)[1] = s
    BY <2>3, ShapedFields
  <2>5. Alive(u) = Alive(t) /\ u.shown = t.shown
    BY SameNodesSame DEF Moved, SameNodes
  <2>6. Focused(u) = Node(t, s)
    BY <2>1, <2>2 DEF Focused
  <2>7. active \in Alive(t) /\ active[1] \in t.shown
    BY <2>1
  <2>8. Foci(u)
    <3> SUFFICES ASSUME NEW i \in DOMAIN u.focusedBy
                 PROVE  /\ {i, u.focusedBy[i]} \subseteq Alive(t)
                        /\ {i[1], u.focusedBy[i][1]} \subseteq t.shown
      BY <2>5 DEF Foci
    <3>1. CASE i = active
      BY <2>2, <2>3, <2>4, <2>7, <3>1
    <3>2. CASE i # active
      BY <2>1, <3>2 DEF Foci
    <3> QED BY <3>1, <3>2
  <2> QED BY <2>1, <2>2, <2>4, <2>6, <2>8
<1> QED BY <1>1, <1>2

\* The focus after both resolutions, before the pointer's side is repaired.
LEMMA FocusResolved ==
    ASSUME NEW t, Shaped(t), PendingOK(t), t.shown = t.view.visible
    PROVE  LET u == Repair(Sync(t))
           IN  /\ Shaped(u) /\ SameNodes(t, u) /\ SamePointer(t, u)
               /\ PendingOK(u) /\ Origin(u) = Origin(t)
               /\ Foci(u) /\ Legal(u) /\ u.activeScope \in Alive(t) \cup {None}
               /\ \A i \in Keeping(t) : i \in DOMAIN u.focusedBy /\ u.focusedBy[i] = t.focusedBy[i]
<1> DEFINE s == Sync(t)
           u == Repair(s)
           kept == Keeping(t)
           scope == Deepest(ActiveScopes(t))
<1>1. /\ Shaped(s) /\ SameNodes(t, s) /\ SamePointer(t, s) /\ PendingOK(s) /\ Origin(s) = Origin(t)
      /\ s.activeScope = DeepestScope(t)
      /\ s.focusedBy = [i \in kept |-> t.focusedBy[i]]
  BY SyncKeeps
<1> HIDE DEF s
<1>2. Moved(s, u)
  BY <1>1, RepairMoves
<1>3. s.activeScope # None => (Focused(u) = None => Candidates(s, s.activeScope[1]) = {})
  BY <1>1, RepairGivesFocus
<1>4. Focused(s) # None => u = s
  BY RepairKeeps
<1> HIDE DEF u
<1>5. /\ Alive(s) = Alive(t) /\ s.shown = t.shown /\ s.view = t.view
      /\ \A o : Node(s, o) = Node(t, o) /\ Candidates(s, o) = Candidates(t, o)
  BY <1>1, SameNodesSame DEF SameNodes
<1>6. /\ Alive(u) = Alive(t) /\ u.shown = t.shown /\ u.view = t.view
      /\ ScopesOf(u) = ScopesOf(t)
      /\ \A o : Node(u, o) = Node(t, o) /\ Candidates(u, o) = Candidates(t, o)
      /\ u.activeScope = s.activeScope /\ SameNodes(t, u)
  <2>1. SameNodes(t, u) /\ u.activeScope = s.activeScope
    BY <1>1, <1>2 DEF Moved, SameNodes
  <2> QED BY <2>1, SameNodesSame DEF SameNodes
<1>7. /\ t.shown = {} => s.activeScope = None
      /\ t.shown # {} => s.activeScope = Node(t, scope) /\ scope \in ActiveScopes(t)
      /\ s.activeScope # None => s.activeScope \in Alive(t) /\ s.activeScope[1] \in t.shown
  BY <1>1, DeepestScopeIsAlive
<1>8. Foci(s)
  <2> SUFFICES ASSUME NEW i \in kept
               PROVE  {i, t.focusedBy[i]} \subseteq Alive(t)
                      /\ {i[1], t.focusedBy[i][1]} \subseteq t.shown
    BY <1>1, <1>5 DEF Foci
  <2> QED BY DEF Keeping, ActiveScopes, Candidates
<1>9. /\ Foci(u)
      /\ Focused(u) # Focused(s) =>
            s.activeScope # None /\ Focused(u)[1] \in Candidates(s, s.activeScope[1])
  BY <1>1, <1>2, <1>5, <1>7, <1>8, MovedIsLegal
<1>10. Legal(u)
  <2> SUFFICES ASSUME t.shown # {}
               PROVE  /\ u.activeScope = Node(t, scope)
                      /\ IF Focused(u) = None THEN Candidates(t, scope) = {}
                         ELSE Focused(u)[1] \in Candidates(t, scope)
    BY <1>6 DEF Legal, ActiveScopes
  <2>1. s.activeScope = Node(t, scope) /\ scope \in Slots
    BY <1>7, ShapedFields DEF ActiveScopes
  <2>2. s.activeScope # None /\ s.activeScope[1] = scope
    BY <2>1, ShapedFields
  <2>3. CASE Focused(u) = None
    BY <1>3, <1>5, <1>6, <2>1, <2>2, <2>3
  <2>4. CASE Focused(u) # None /\ Focused(u) # Focused(s)
    BY <1>5, <1>6, <1>9, <2>1, <2>2, <2>4
  <2>5. CASE Focused(u) # None /\ Focused(u) = Focused(s)
    <3>1. s.activeScope \in kept /\ Focused(u) = t.focusedBy[s.activeScope]
      BY <1>1, <2>5 DEF Focused
    <3>2. Focused(u)[1] \in Candidates(t, scope)
      BY <2>2, <3>1 DEF Keeping
    <3> QED BY <1>6, <2>1, <2>5, <3>2
  <2> QED BY <2>3, <2>4, <2>5
<1>11. ASSUME NEW i \in kept PROVE i \in DOMAIN u.focusedBy /\ u.focusedBy[i] = t.focusedBy[i]
  <2>1. i \in DOMAIN s.focusedBy /\ s.focusedBy[i] = t.focusedBy[i] /\ t.focusedBy[i] \in Ids
    BY <1>1 DEF Keeping, Shaped, FocusMap
  <2>2. CASE i = s.activeScope
    <3>1. Focused(s) # None
      BY <2>1, <2>2, NoneIsNoId DEF Focused
    <3> QED BY <1>4, <2>1, <3>1
  <2>3. CASE i # s.activeScope
    BY <1>2, <2>1, <2>3 DEF Moved
  <2> QED BY <2>2, <2>3
<1>12. Shaped(u) /\ SamePointer(t, u) /\ PendingOK(u) /\ Origin(u) = Origin(t)
  BY <1>1, <1>2 DEF Moved, SamePointer
<1> QED BY <1>6, <1>7, <1>9, <1>10, <1>11, <1>12 DEF u, s

\* The repairs of the pointer's side leave foci and their legality alone.
LEMMA RepairedIsLegal ==
    ASSUME NEW t, NEW u, Repaired(t, u)
    PROVE  (Foci(t) => Foci(u)) /\ (Legal(t) => Legal(u)) /\ Alive(u) = Alive(t)
<1>1. SameNodes(t, u) /\ u.activeScope = t.activeScope /\ u.focusedBy = t.focusedBy
  BY DEF Repaired, SameFocus
<1>2. /\ Alive(u) = Alive(t) /\ ScopesOf(u) = ScopesOf(t)
      /\ \A s : Node(u, s) = Node(t, s) /\ Candidates(u, s) = Candidates(t, s)
  BY <1>1, SameNodesSame
<1>3. Focused(u) = Focused(t)
  BY <1>1 DEF Focused
<1>4. u.view = t.view /\ u.shown = t.shown
  BY <1>1 DEF SameNodes
<1>5. Foci(t) => Foci(u)
  BY <1>1, <1>2, <1>4 DEF Foci
<1>6. Legal(t) => Legal(u)
  BY <1>1, <1>2, <1>3, <1>4 DEF Legal
<1> QED BY <1>2, <1>5, <1>6

\* A prepared tree is settled, whatever the tree was that it is a copy of.
LEMMA StagedIsSettled ==
    ASSUME NEW t, Shaped(t), PendingOK(t), NEW v \in Views,
           t.lastPointer \subseteq Points, \A p, q \in t.lastPointer : p = q
    PROVE  LET x == Staged(t, v)
               l == LaidOut(t, v)
           IN  /\ Settled(x) /\ SameNodes(l, x) /\ PendingOK(x) /\ Origin(x) = Origin(t)
               /\ CaptureKept(t, x) /\ x.lastPointer = t.lastPointer
               /\ \A i \in Keeping(l) : i \in DOMAIN x.focusedBy /\ x.focusedBy[i] = l.focusedBy[i]
<1> DEFINE l == LaidOut(t, v)
           u == Repair(Sync(l))
           w == RepairRemoved(u)
           x == RepairModality(w)
<1>1. Staged(t, v) = x
  BY DEF Staged, LaidOut
<1>2. /\ Shaped(l) /\ l.view = v /\ l.shown = v.visible
      /\ PendingOK(l) /\ Origin(l) = Origin(t)
      /\ CaptureKept(t, l) /\ l.lastPointer = t.lastPointer
  BY LaidOutFields
<1> HIDE DEF l
<1>3. /\ Shaped(u) /\ SameNodes(l, u) /\ SamePointer(l, u)
      /\ PendingOK(u) /\ Origin(u) = Origin(l)
      /\ Foci(u) /\ Legal(u) /\ u.activeScope \in Alive(l) \cup {None}
      /\ \A i \in Keeping(l) : i \in DOMAIN u.focusedBy /\ u.focusedBy[i] = l.focusedBy[i]
  BY <1>2, FocusResolved
<1> HIDE DEF u
<1>4. Repaired(u, w) /\ {w.captured, w.hovered} \subseteq Alive(w) \cup {None}
  BY <1>3, RemovedRepairs
<1> HIDE DEF w
<1>5. Repaired(w, x) /\ x.captured \in {w.captured, None} /\ x.hovered = w.hovered
  BY <1>4, ModalityRepairs DEF Repaired
<1> HIDE DEF x
<1>6. Repaired(u, x)
  BY <1>4, <1>5, RepairedAgain
<1>7. /\ Foci(x) /\ Legal(x) /\ Alive(x) = Alive(u) /\ Alive(x) = Alive(w)
      /\ PendingOK(x) /\ Origin(x) = Origin(u)
  BY <1>3, <1>5, <1>6, RepairedIsLegal, RepairedFocus
<1>8. Alive(u) = Alive(l)
  BY <1>3, SameNodesSame
<1>9. {x.activeScope, x.captured, x.hovered} \subseteq Alive(x) \cup {None}
  BY <1>3, <1>4, <1>5, <1>6, <1>7, <1>8, ZenonT(40) DEF Repaired, SameFocus
<1>10. SameNodes(l, x) /\ x.focusedBy = u.focusedBy
  BY <1>3, <1>6 DEF Repaired, SameNodes, SameFocus
<1>11. x.lastPointer = t.lastPointer /\ CaptureKept(t, x)
  <2>1. CaptureKept(t, u)
    BY <1>2, <1>3 DEF CaptureKept, SamePointer
  <2>2. CaptureKept(u, x) /\ x.lastPointer = u.lastPointer
    BY <1>6 DEF Repaired
  <2>3. x.lastPointer = t.lastPointer
    BY <1>2, <1>3, <2>2 DEF SamePointer
  <2> QED BY <2>1, <2>2, <2>3, CaptureKeptAgain
<1>12. Shaped(x) /\ x.shown = x.view.visible
  BY <1>2, <1>6, <1>10 DEF Repaired, SameNodes
<1>13. Settled(x)
  BY <1>7, <1>9, <1>11, <1>12 DEF Settled
<1> QED BY <1>1, <1>2, <1>3, <1>7, <1>10, <1>11, <1>13 DEF l

\* A focus that survives the frame, in a scope that does: reconcile keeps it, and
\* so does the resolution with the new layout.
LEMMA StagedKeepsFocus ==
    ASSUME NEW t, Settled(t), PendingOK(t), NEW v \in Views,
           NEW i \in DOMAIN t.focusedBy,
           {i, t.focusedBy[i]} \subseteq Alive(Staged(t, v)),
           {i[1], t.focusedBy[i][1]} \subseteq v.visible,
           t.focusedBy[i][1] \in Candidates(Staged(t, v), i[1])
    PROVE  LET x == Staged(t, v) IN i \in DOMAIN x.focusedBy /\ x.focusedBy[i] = t.focusedBy[i]
<1> DEFINE u == Viewed(t, v)
           l == LaidOut(t, v)
           x == Staged(t, v)
           n == t.focusedBy[i]
<1>1. /\ Shaped(t) /\ i \in Alive(t) /\ n \in Alive(t) /\ i \in Ids /\ n \in Ids
      /\ i[1] \in t.shown /\ n[1] \in t.shown
  <2>1. /\ Shaped(t) /\ i \in Alive(t) /\ n \in Alive(t) /\ i[1] \in t.shown /\ n[1] \in t.shown
    BY DEF Settled, Foci
  <2> QED BY <2>1, ShapedFields
<1>2. /\ Shaped(u) /\ u.view = v /\ u.shown = t.shown \intersect Reused(t, v)
      /\ u.born = Reborn(t, v) /\ u.focusedBy = t.focusedBy
  BY <1>1, ViewedFields DEF SameFocus
<1>3. /\ Shaped(l) /\ l.view = v /\ l.shown = v.visible /\ l.born = Reborn(t, v)
      /\ l.focusedBy = [j \in Keeping(u) |-> t.focusedBy[j]]
  BY <1>1, LaidOutFields
<1>4. /\ Shaped(x) /\ SameNodes(l, x)
      /\ \A j \in Keeping(l) : j \in DOMAIN x.focusedBy /\ x.focusedBy[j] = l.focusedBy[j]
  BY <1>1, StagedIsSettled DEF Settled
<1> HIDE DEF u, l, x
<1>5. Alive(x) = Alive(l) /\ \A s : Candidates(x, s) = Candidates(l, s)
  BY <1>4, SameNodesSame
<1>6. Alive(l) = Alive(u)
  BY <1>2, <1>3 DEF Alive, Node
<1>7. ASSUME NEW j \in Ids, j \in Alive(t), j \in Alive(u) PROVE j[1] \in Reused(t, v)
  <2>1. /\ j[1] \in Slots /\ j[2] = t.born[j[1]] /\ j[1] \in Present(v)
        /\ j[2] = Reborn(t, v)[j[1]]
    BY <1>1, <1>2, <1>7, ShapedFields DEF Ids
  <2>2. t.born[j[1]] \in Nat
    BY <1>1, <2>1 DEF Shaped
  <2>3. Reborn(t, v)[j[1]] = IF j[1] \in Present(v) \ Reused(t, v)
                            THEN t.born[j[1]] + 1 ELSE t.born[j[1]]
    BY <2>1 DEF Reborn
  <2> QED BY <2>1, <2>2, <2>3
<1>8. i \in Alive(u) /\ n \in Alive(u)
  BY <1>5, <1>6 DEF x
<1>9. i[1] \in u.shown /\ n[1] \in u.shown
  BY <1>1, <1>2, <1>7, <1>8
<1>10. /\ n[1] \in v.focusable /\ ScopeFor(l, n[1]) = i[1]
  BY <1>3, <1>5 DEF Candidates, x
<1>11. \A s : ScopeFor(u, s) = ScopeFor(l, s)
  BY <1>2, <1>3 DEF ScopeFor, ScopesOf
<1>12. n[1] \in Candidates(u, i[1]) /\ n[1] \in Candidates(l, i[1])
  BY <1>2, <1>3, <1>9, <1>10, <1>11 DEF Candidates
<1>13. i[1] \in ScopesOf(l) /\ ScopesOf(u) = ScopesOf(l)
  <2>1. n[1] \in Slots /\ 1 \in Path[n[1]] /\ Path[n[1]] \subseteq Slots
    BY <1>1, NoneIsNoId, Paths
  <2>2. 1 \in ScopesOf(l)
    BY <1>3, ViewAssumption DEF ScopesOf
  <2>3. ScopeFor(l, n[1]) \in Path[n[1]] \intersect ScopesOf(l)
    BY <2>1, <2>2, DeepestIsIn DEF ScopeFor
  <2> QED BY <1>2, <1>3, <1>10, <2>3 DEF ScopesOf
<1>14. i \in Keeping(u)
  BY <1>2, <1>8, <1>9, <1>12, <1>13 DEF Keeping, ActiveScopes
<1>15. i \in Keeping(l)
  BY <1>3, <1>6, <1>8, <1>12, <1>13, <1>14 DEF Keeping, ActiveScopes
<1> QED BY <1>3, <1>4, <1>14, <1>15 DEF x
--------------------------------------------------------------------------------
(* Events and the end of a step.                                           *)

LEMMA NoneIsDead == ASSUME NEW t, Shaped(t) PROVE None \notin Alive(t)
BY ShapedFields, NoneIsNoId

LEMMA PointedIsShown ==
    ASSUME NEW t, Shaped(t), t.shown = t.view.visible,
           NEW at, at \subseteq Points
    PROVE  Node(t, Pointed(t, at)) \in Alive(t) \cup {None}
<1> DEFINE hit == IF at = {} THEN 0 ELSE t.view.hit[CHOOSE p \in at : TRUE]
<1>1. hit \in t.shown \cup {0}
  BY ViewFields DEF Shaped
<1>2. ActiveModal(t) \in t.shown \cup {0}
  <2>1. t.view.modal \intersect t.shown \in SUBSET Slots
    BY ShapedFields
  <2> QED BY <2>1, DeepestIsIn DEF ActiveModal
<1>3. Pointed(t, at) = PointerTarget(t, hit)
  BY DEF Pointed
<1> HIDE DEF hit
<1>4. Pointed(t, at) \in t.shown \cup {0}
  BY <1>1, <1>2, <1>3 DEF PointerTarget
<1>5. Node(t, 0) = None
  BY DEF Node
<1> QED BY <1>4, <1>5, ShapedFields DEF Shaped

\* What a handler or a refresh of the hover does to a tree at the end of a step.
Ended(t, h, c) == [t EXCEPT !.pending = NoChange, !.hovered = h, !.captured = c]

LEMMA EndedSettles ==
    ASSUME NEW t, Settled(t), NEW h \in Alive(t) \cup {None}, NEW c \in Alive(t) \cup {None}
    PROVE  LET w == Ended(t, h, c)
           IN  /\ Settled(w) /\ SameNodes(t, w) /\ w.focusedBy = t.focusedBy
               /\ Focused(w) = Focused(t) /\ w.pending = NoChange
               /\ w.hovered = h /\ w.suppressed = t.suppressed /\ w.lastPointer = t.lastPointer
<1> DEFINE w1 == [t EXCEPT !.pending = NoChange]
           w2 == [w1 EXCEPT !.hovered = h]
           w == Ended(t, h, c)
<1>1. w = [w2 EXCEPT !.captured = c]
  BY DEF Ended
<1>2. /\ w1.view = t.view /\ w1.born = t.born /\ w1.shown = t.shown
      /\ w1.activeScope = t.activeScope /\ w1.focusedBy = t.focusedBy
      /\ w1.pending = NoChange /\ w1.suppressed = t.suppressed
      /\ w1.lastPointer = t.lastPointer /\ IsTree(w1)
  BY DEF Settled, Shaped, IsTree
<1> HIDE DEF w1
<1>3. /\ w2.view = t.view /\ w2.born = t.born /\ w2.shown = t.shown
      /\ w2.activeScope = t.activeScope /\ w2.focusedBy = t.focusedBy
      /\ w2.pending = NoChange /\ w2.suppressed = t.suppressed
      /\ w2.hovered = h /\ w2.lastPointer = t.lastPointer /\ IsTree(w2)
  BY <1>2 DEF IsTree
<1> HIDE DEF w2, w
<1>4. /\ w.view = t.view /\ w.born = t.born /\ w.shown = t.shown
      /\ w.activeScope = t.activeScope /\ w.focusedBy = t.focusedBy
      /\ w.pending = NoChange /\ w.suppressed = t.suppressed /\ w.captured = c
      /\ w.hovered = h /\ w.lastPointer = t.lastPointer /\ IsTree(w)
  BY <1>1, <1>3 DEF IsTree
<1>5. SameNodes(t, w) /\ Focused(w) = Focused(t)
  BY <1>4 DEF SameNodes, Focused
<1>6. /\ Alive(w) = Alive(t) /\ ScopesOf(w) = ScopesOf(t)
      /\ \A s : Node(w, s) = Node(t, s) /\ Candidates(w, s) = Candidates(t, s)
  BY <1>5, SameNodesSame
<1>7. NoChange = [previous |-> NoChange.previous, current |-> NoChange.current]
  BY DEF NoChange
<1>8. Shaped(w)
  <2>1. Shaped(t) /\ Alive(t) \subseteq Ids
    BY ShapedFields DEF Settled
  <2> QED BY <1>4, <1>7, <2>1 DEF Shaped, IdsOrNone
<1>9. Foci(w) /\ Legal(w)
  BY <1>4, <1>5, <1>6, ZenonT(40) DEF Settled, Foci, Legal
<1>10. Settled(w)
  BY <1>4, <1>6, <1>8, <1>9 DEF Settled
<1> QED BY <1>4, <1>5, <1>10 DEF w

\* A focus that moved while handlers ran is still legal.
LEMMA MovedSettles ==
    ASSUME NEW t, NEW u, Settled(t), Moved(t, u) PROVE Settled(u)
<1>1. Shaped(t)
  BY DEF Settled
<1>2. /\ Shaped(u) /\ SameNodes(t, u) /\ SamePointer(t, u) /\ u.activeScope = t.activeScope
      /\ u.view = t.view /\ u.shown = t.shown
  BY DEF Moved, SameNodes
<1>3. /\ Alive(u) = Alive(t) /\ ScopesOf(u) = ScopesOf(t)
      /\ \A s : Node(u, s) = Node(t, s) /\ Candidates(u, s) = Candidates(t, s)
  BY <1>2, SameNodesSame
<1>4. CASE t.view = NoView \/ t.shown = {}
  <2>1. t.shown = {}
    BY <1>4 DEF Settled, NoView
  <2>2. u.focusedBy = t.focusedBy
    BY <2>1 DEF Moved, Candidates
  <2>3. Foci(u)
    BY <1>2, <1>3, <2>2 DEF Settled, Foci
  <2>4. Legal(u)
    BY <1>2, <2>1 DEF Legal
  <2> QED BY <1>2, <1>3, <2>3, <2>4 DEF Settled, SamePointer
<1>5. CASE t.view # NoView /\ t.shown # {}
  <2> DEFINE scope == Deepest(ScopesOf(t) \intersect t.shown)
  <2>1. /\ t.activeScope = Node(t, scope)
        /\ IF Focused(t) = None THEN Candidates(t, scope) = {}
           ELSE Focused(t)[1] \in Candidates(t, scope)
    BY <1>5 DEF Settled, Legal
  <2>2. scope \in t.shown /\ scope \in Slots
    <3>1. 1 \in ActiveScopes(t)
      BY <1>1, <1>5, RootIsVisible DEF Settled
    <3>2. ActiveScopes(t) \in SUBSET Slots
      BY <1>1, ShapedFields DEF ActiveScopes
    <3>3. scope \in ActiveScopes(t)
      BY <3>1, <3>2, DeepestIsIn DEF ActiveScopes
    <3> QED BY <3>2, <3>3 DEF ActiveScopes
  <2> HIDE DEF scope
  <2>3. t.activeScope[1] = scope /\ t.activeScope # None
    BY <1>1, <2>1, <2>2, ShapedFields
  <2>4. /\ Foci(u)
        /\ Focused(u) # Focused(t) => Focused(u)[1] \in Candidates(t, scope)
    BY <1>1, <2>2, <2>3, MovedIsLegal DEF Settled
  <2>5. ASSUME Focused(u) = None, Focused(t) # None PROVE FALSE
    <3>1. Focused(u)[1] \in Slots /\ Focused(u)[1] = 0
      BY <1>1, <2>4, <2>5, CandidatesAreSlots, NoneIsNoId
    <3> QED BY <3>1, Places DEF Slots
  <2>6. IF Focused(u) = None THEN Candidates(t, scope) = {}
        ELSE Focused(u)[1] \in Candidates(t, scope)
    BY <2>1, <2>4, <2>5
  <2>7. Legal(u)
    BY <1>2, <1>3, <2>1, <2>6 DEF Legal, scope
  <2> QED BY <1>2, <1>3, <2>4, <2>7 DEF Settled, SamePointer
<1> QED BY <1>4, <1>5

LEMMA CommittedFields ==
    ASSUME CommittedOK
    PROVE  /\ Settled(tree) /\ Shaped(tree) /\ PendingOK(tree)
           /\ None \notin Alive(tree) /\ Origin(tree) \in Alive(tree) \cup {None}
BY NoneIsDead DEF CommittedOK, Settled

\* The end of a frame or of a dispatch commits a settled tree, and tells the nodes.
LEMMA EndsCommitted ==
    ASSUME CommittedOK, FocusEventsPair,
           NEW t, Settled(t), t.born \in [Slots -> 0..MaxBorn],
           NEW h \in Alive(t) \cup {None}, NEW c \in Alive(t) \cup {None}, NEW change,
           change = IF Origin(tree) = Focused(t) THEN NoChange
                    ELSE [previous |-> Origin(tree), current |-> Focused(t)],
           tree' = Ended(t, h, c), Deliver(change, Alive(t)),
           h = Node(t, Pointed(t, t.lastPointer)) \/ t.view = NoView
    PROVE  /\ CommittedOK' /\ FocusEventsPair' /\ HoverIsCurrent'
           /\ tree'.suppressed = t.suppressed /\ tree'.view = t.view
<1>1. /\ Settled(tree') /\ SameNodes(t, tree') /\ tree'.focusedBy = t.focusedBy
      /\ Focused(tree') = Focused(t) /\ tree'.pending = NoChange
      /\ tree'.hovered = h /\ tree'.suppressed = t.suppressed /\ tree'.lastPointer = t.lastPointer
  BY EndedSettles
<1>2. /\ Alive(tree') = Alive(t) /\ \A s : Node(tree', s) = Node(t, s)
      /\ \A at : Pointed(tree', at) = Pointed(t, at)
  BY <1>1, SameNodesSame
<1>3. Shaped(t) /\ None \notin Alive(t)
  BY NoneIsDead DEF Settled
<1>4. told = {Origin(tree)} \intersect Alive(tree)
  BY DEF FocusEventsPair, Origin
\* FocusLost and FocusGained: whoever was told last hears of the loss, if it lives.
<1>5. told' = {Focused(t)} \intersect Alive(t)
  <2> DEFINE from == Origin(tree)
             to == Focused(t)
             before == Alive(tree)
             after == Alive(t)
  <2>1. /\ None \notin after /\ told = {from} \intersect before /\ from \in before \cup {None}
        /\ change = IF from = to THEN NoChange ELSE [previous |-> from, current |-> to]
        /\ Deliver(change, after)
    BY <1>3, <1>4, CommittedFields
  <2> HIDE DEF from, to, before, after
  <2>2. told' = {to} \intersect after
    <3>1. CASE from = to
      BY <2>1, <3>1 DEF Deliver
    <3>2. CASE from # to
      <4>1. change # NoChange /\ change.previous = from /\ change.current = to
        BY <2>1, <3>2 DEF NoChange
      <4> QED BY <2>1, <4>1 DEF Deliver
    <3> QED BY <3>1, <3>2
  <2> QED BY <2>2 DEF to, after
<1>6. Origin(tree') = Focused(t)
  BY <1>1 DEF Origin
<1>7. FocusEventsPair'
  BY <1>1, <1>2, <1>5 DEF FocusEventsPair
<1>8. Focused(t) \in Alive(t) \cup {None}
  BY DEF Focused, Settled, Foci
<1>9. CommittedOK'
  BY <1>1, <1>2, <1>6, <1>8 DEF CommittedOK, PendingOK, SameNodes
<1>10. HoverIsCurrent'
  BY <1>1, <1>2 DEF HoverIsCurrent, SameNodes
<1> QED BY <1>1, <1>7, <1>9, <1>10 DEF SameNodes

LEMMA FrameKeeps ==
    ASSUME Inv, NEW v \in Views, Frame(v)
    PROVE  /\ CommittedOK' /\ FocusEventsPair' /\ HeldOK' /\ OrphansAreConsumed' /\ HoverIsCurrent'
           /\ tree'.focusedBy = Staged(tree, v).focusedBy /\ SameNodes(Staged(tree, v), tree')
           /\ tree'.view = v
<1> DEFINE x == Staged(tree, v)
           h == HoverAfterCommit(x)
           cancelled == tree.captured # None /\ x.captured = None
<1>1. /\ Settled(tree) /\ Shaped(tree) /\ PendingOK(tree)
      /\ tree.lastPointer \subseteq Points /\ \A p, q \in tree.lastPointer : p = q
  BY CommittedFields DEF Inv, Settled
<1>2. /\ Settled(x) /\ SameNodes(LaidOut(tree, v), x) /\ PendingOK(x) /\ Origin(x) = Origin(tree)
      /\ CaptureKept(tree, x) /\ x.lastPointer = tree.lastPointer
  BY <1>1, StagedIsSettled
<1>3. x.view = v
  BY <1>1, <1>2, LaidOutFields DEF SameNodes
<1>4. PICK c \in CaptureChoices(x, FocusMoved(x.pending) \union HoverMoved(x, h)) :
           tree' = Ended(x, h, c)
  BY DEF Frame, Ended
<1>5. /\ \A s \in Slots : x.born[s] <= MaxBorn
      /\ Deliver(x.pending, Alive(x))
      /\ held' = [b \in Buttons |-> IF cancelled /\ held[b] = "down" THEN "orphan" ELSE held[b]]
      /\ outcome' = NoOutcome
  BY DEF Frame
<1> HIDE DEF x
<1>6. Shaped(x) /\ x.born \in [Slots -> 0..MaxBorn]
  <2>1. Shaped(x) /\ x.born \in [Slots -> Nat] /\ MaxBorn \in Nat
    BY <1>2, ViewAssumption DEF Settled, Shaped
  <2>2. \A s \in Slots : x.born[s] \in 0..MaxBorn
    BY <1>5, <2>1
  <2> QED BY <2>1, <2>2
<1>7. c \in Alive(x) \cup {None}
  BY <1>2, <1>4 DEF CaptureChoices, Settled
<1>8. h = Node(x, Pointed(x, x.lastPointer)) /\ h \in Alive(x) \cup {None}
  BY <1>2, <1>6, PointedIsShown DEF HoverAfterCommit, Settled
<1>9. x.pending = IF Origin(tree) = Focused(x) THEN NoChange
                  ELSE [previous |-> Origin(tree), current |-> Focused(x)]
  BY <1>2, <1>6 DEF PendingOK, Origin, Shaped
<1> HIDE DEF h
<1>10. /\ CommittedOK' /\ FocusEventsPair' /\ HoverIsCurrent' /\ tree'.suppressed = x.suppressed
  BY <1>2, <1>4, <1>5, <1>6, <1>7, <1>8, <1>9, EndsCommitted DEF Inv
<1>11. HeldOK'
  <2>1. HeldOK
    BY DEF Inv
  <2>2. CASE x.captured = tree.captured /\ x.suppressed = tree.suppressed
    <3>1. held' = held
      BY <1>5, <2>1, <2>2 DEF HeldOK
    <3> QED BY <1>10, <2>1, <2>2, <3>1 DEF HeldOK
  <2>3. CASE cancelled /\ x.suppressed = Buttons
    BY <1>5, <1>10, <2>1, <2>3 DEF HeldOK
  <2> QED BY <1>2, <2>2, <2>3 DEF CaptureKept
<1>12. OrphansAreConsumed'
  BY <1>5 DEF OrphansAreConsumed, NoOutcome
<1>13. tree'.focusedBy = x.focusedBy /\ SameNodes(x, tree')
  BY <1>2, <1>4, <1>7, <1>8, EndedSettles
<1> QED BY <1>3, <1>10, <1>11, <1>12, <1>13 DEF x, SameNodes

\* The end of dispatch, of a tree whose focus has moved.
LEMMA DispatchEnds ==
    ASSUME Inv, NEW t, NEW u, NEW route, NEW at, at \subseteq Points,
           Settled(t), PendingOK(t), SameNodes(tree, t), Origin(t) = Origin(tree),
           t.hovered = tree.hovered,
           t.lastPointer = IF at = {} THEN tree.lastPointer ELSE at,
           Moved(t, u), EndDispatch(u, route, at)
    PROVE  /\ CommittedOK' /\ FocusEventsPair' /\ HoverIsCurrent'
           /\ tree'.suppressed = t.suppressed /\ tree'.view = tree.view
<1> DEFINE origin == IF tree.pending = NoChange THEN Focused(tree) ELSE tree.pending.previous
           change == IF origin = Focused(u) THEN NoChange
                     ELSE [previous |-> origin, current |-> Focused(u)]
           h == IF at = {} THEN u.hovered ELSE Node(u, Pointed(u, at))
           handlers == {Node(u, s) : s \in route} \union FocusMoved(change) \union HoverMoved(u, h)
<1>1. Settled(u) /\ Shaped(u)
  <2>1. Settled(u)
    BY MovedSettles
  <2> QED BY <2>1 DEF Settled
<1>2. /\ SameNodes(tree, u) /\ u.suppressed = t.suppressed /\ u.hovered = tree.hovered
      /\ u.lastPointer = t.lastPointer
  BY DEF Moved, SameNodes, SamePointer
<1>3. PICK c \in CaptureChoices(u, handlers) : tree' = Ended(u, h, c)
  BY DEF EndDispatch, Ended
<1>4. Deliver(change, Alive(u))
  BY DEF EndDispatch
<1>5. u.born \in [Slots -> 0..MaxBorn]
  BY <1>2 DEF Inv, CommittedOK, SameNodes
<1>6. c \in Alive(u) \cup {None}
  BY <1>1, <1>3 DEF CaptureChoices, Settled
<1>7. h \in Alive(u) \cup {None}
  BY <1>1, PointedIsShown DEF Settled
<1>8. h = Node(u, Pointed(u, u.lastPointer)) \/ u.view = NoView
  <2>1. CASE at = {}
    <3>1. h = tree.hovered /\ u.lastPointer = tree.lastPointer /\ u.view = tree.view
      BY <1>2, <2>1 DEF SameNodes
    <3>2. u.view = NoView \/ tree.hovered = Node(tree, Pointed(tree, tree.lastPointer))
      BY <3>1 DEF Inv, HoverIsCurrent
    <3>3. Node(u, Pointed(u, u.lastPointer)) = Node(tree, Pointed(tree, tree.lastPointer))
      BY <1>2, <3>1, SameNodesSame
    <3> QED BY <3>1, <3>2, <3>3
  <2>2. CASE at # {}
    BY <1>2, <2>2
  <2> QED BY <2>1, <2>2
<1>9. origin = Origin(tree)
  BY DEF Origin
<1> HIDE DEF h, origin
<1>10. /\ CommittedOK' /\ FocusEventsPair' /\ HoverIsCurrent'
       /\ tree'.suppressed = u.suppressed /\ tree'.view = u.view
  BY <1>1, <1>3, <1>4, <1>5, <1>6, <1>7, <1>8, <1>9, EndsCommitted DEF Inv
<1> QED BY <1>2, <1>10 DEF SameNodes

\* A pointer event first moves the pointer, and ends what suppression it ends.
Pressed(t, p, released) == [t EXCEPT !.lastPointer = {p}, !.suppressed = @ \ released]

LEMMA PressedSettles ==
    ASSUME NEW t, Settled(t), PendingOK(t), NEW p \in Points, NEW released
    PROVE  LET u == Pressed(t, p, released)
           IN  /\ Settled(u) /\ SameNodes(t, u) /\ SameFocus(t, u)
               /\ PendingOK(u) /\ Origin(u) = Origin(t)
               /\ u.hovered = t.hovered /\ u.captured = t.captured
               /\ u.lastPointer = {p} /\ u.suppressed = t.suppressed \ released
<1> DEFINE w == [t EXCEPT !.lastPointer = {p}]
           u == Pressed(t, p, released)
<1>1. /\ w.view = t.view /\ w.born = t.born /\ w.shown = t.shown
      /\ w.activeScope = t.activeScope /\ w.focusedBy = t.focusedBy
      /\ w.pending = t.pending /\ w.captured = t.captured /\ w.suppressed = t.suppressed
      /\ w.hovered = t.hovered /\ w.lastPointer = {p} /\ IsTree(w)
  BY SMTT(30) DEF Settled, Shaped, IsTree
<1>2. u = [w EXCEPT !.suppressed = t.suppressed \ released]
  BY DEF Pressed, Settled, Shaped, IsTree
<1> HIDE DEF w, u
<1>3. /\ u.view = t.view /\ u.born = t.born /\ u.shown = t.shown
      /\ u.activeScope = t.activeScope /\ u.focusedBy = t.focusedBy
      /\ u.pending = t.pending /\ u.captured = t.captured
      /\ u.suppressed = t.suppressed \ released
      /\ u.hovered = t.hovered /\ u.lastPointer = {p} /\ IsTree(u)
  BY <1>1, <1>2 DEF IsTree
<1>4. SameNodes(t, u) /\ SameFocus(t, u) /\ Focused(u) = Focused(t)
  BY <1>3 DEF SameNodes, SameFocus, Focused
<1>5. /\ Alive(u) = Alive(t) /\ ScopesOf(u) = ScopesOf(t)
      /\ \A s : Node(u, s) = Node(t, s) /\ Candidates(u, s) = Candidates(t, s)
  BY <1>4, SameNodesSame
<1>6. Shaped(u)
  BY <1>3 DEF Settled, Shaped
<1>7. Foci(u) /\ Legal(u)
  BY <1>3, <1>4, <1>5, ZenonT(40) DEF Settled, Foci, Legal
<1>8. Settled(u)
  BY <1>3, <1>5, <1>6, <1>7 DEF Settled
<1>9. PendingOK(u) /\ Origin(u) = Origin(t)
  BY <1>3, <1>4 DEF PendingOK, Origin
<1> QED BY <1>3, <1>4, <1>8, <1>9 DEF u

LEMMA KeyKeeps ==
    ASSUME Inv, NEW reverse, NEW prevented, NEW request, DispatchKey(reverse, prevented, request)
    PROVE  Inv' /\ tree'.view = tree.view
<1>1. Settled(tree) /\ Shaped(tree) /\ PendingOK(tree)
  BY CommittedFields DEF Inv
<1> DEFINE t == IF prevented THEN tree ELSE Traverse(tree, reverse)
           u == Requested(t, request)
<1>2. Moved(tree, t)
  BY <1>1, TraverseMoves, StaysMoved
<1>3. PICK route : EndDispatch(u, route, {})
  BY DEF DispatchKey
<1> HIDE DEF t
<1>4. Moved(t, u)
  BY <1>2, RequestedMoves DEF Moved
<1> HIDE DEF u
<1>5. Moved(tree, u)
  BY <1>2, <1>4, MovedAgain
<1>6. /\ CommittedOK' /\ FocusEventsPair' /\ HoverIsCurrent'
      /\ tree'.suppressed = tree.suppressed /\ tree'.view = tree.view
  BY <1>1, <1>3, <1>5, DispatchEnds DEF SameNodes
<1>7. held' = held /\ outcome' = NoOutcome
  BY DEF DispatchKey
<1>8. HeldOK' /\ OrphansAreConsumed'
  BY <1>6, <1>7 DEF Inv, HeldOK, OrphansAreConsumed, NoOutcome
<1> QED BY <1>6, <1>8 DEF Inv

LEMMA RouteKeeps ==
    ASSUME Inv, NEW kind, NEW s, NEW p \in Points, NEW released, NEW prevented, NEW request,
           Route(kind, s, p, released, prevented, request)
    PROVE  /\ CommittedOK' /\ FocusEventsPair' /\ HoverIsCurrent'
           /\ tree'.suppressed = tree.suppressed \ released /\ tree'.view = tree.view
<1>1. Settled(tree) /\ PendingOK(tree)
  BY CommittedFields DEF Inv
<1> DEFINE target == IF PointerTarget(tree, s) = 0 THEN 1 ELSE PointerTarget(tree, s)
           t == Pressed(tree, p, released)
           u == IF prevented \/ kind # "down" THEN t
                ELSE Requested(t, NearestFocusable(t, target))
           w == Requested(u, request)
<1>2. EndDispatch(w, Path[target], {p})
  BY DEF Route, Pressed
<1>3. /\ Settled(t) /\ SameNodes(tree, t) /\ PendingOK(t) /\ Origin(t) = Origin(tree)
      /\ t.hovered = tree.hovered /\ t.lastPointer = {p}
      /\ t.suppressed = tree.suppressed \ released
  BY <1>1, PressedSettles
<1> HIDE DEF t, target
<1>4. Moved(t, u)
  BY <1>3, RequestedMoves, StaysMoved DEF Settled
<1> HIDE DEF u
<1>5. Moved(u, w)
  BY <1>4, RequestedMoves DEF Moved
<1> HIDE DEF w
<1>6. Moved(t, w)
  BY <1>4, <1>5, MovedAgain
<1> DEFINE at == {p}
           route == Path[target]
<1>7. at \subseteq Points /\ at # {} /\ t.lastPointer = at /\ EndDispatch(w, route, at)
  BY <1>2, <1>3
<1> HIDE DEF at, route
<1> QED BY <1>3, <1>6, <1>7, DispatchEnds

LEMMA PointerKeeps ==
    ASSUME Inv, NEW kind \in {"down", "drag", "up"}, NEW b \in Buttons, NEW p \in Points,
           NEW prevented, NEW request, DispatchPointer(kind, b, p, prevented, request)
    PROVE  Inv' /\ tree'.view = tree.view
<1>1. PICK s : Route(kind, s, p, Released(kind, b), prevented, request)
  BY DEF DispatchPointer
<1>2. /\ ~Suppressed(kind, b) /\ ((kind = "down") <=> (held[b] = "up"))
      /\ held' = [held EXCEPT ![b] = IF kind = "drag" THEN @ ELSE kind]
      /\ outcome' = IF kind = "down" THEN NoOutcome ELSE [press |-> held[b], routed |-> TRUE]
  BY DEF DispatchPointer
<1>3. /\ CommittedOK' /\ FocusEventsPair' /\ HoverIsCurrent'
      /\ tree'.suppressed = tree.suppressed \ Released(kind, b) /\ tree'.view = tree.view
  BY <1>1, RouteKeeps
<1>4. HeldOK
  BY DEF Inv
<1>5. OrphansAreConsumed'
  <2>1. kind # "down" => b \notin tree.suppressed
    BY <1>2 DEF Suppressed
  <2>2. kind # "down" => held[b] # "orphan"
    BY <1>4, <2>1 DEF HeldOK
  <2> QED BY <1>2, <2>2 DEF OrphansAreConsumed, NoOutcome
<1>6. HeldOK'
  <2>1. held' \in [Buttons -> {"up", "down", "orphan"}]
    BY <1>2, <1>4 DEF HeldOK
  <2>2. ASSUME NEW o \in Buttons
        PROVE  /\ held'[o] = "orphan" => o \in tree'.suppressed
               /\ held'[o] = "down" => o \notin tree'.suppressed
    <3>1. CASE o # b
      BY <1>2, <1>3, <1>4, <3>1 DEF HeldOK, Released
    <3>2. CASE o = b /\ kind = "down"
      BY <1>2, <1>3, <1>4, <3>2 DEF HeldOK, Released
    <3>3. CASE o = b /\ kind = "drag"
      BY <1>2, <1>3, <1>4, <3>3 DEF HeldOK, Released
    <3>4. CASE o = b /\ kind = "up"
      BY <1>2, <1>4, <3>4 DEF HeldOK
    <3> QED BY <3>1, <3>2, <3>3, <3>4
  <2> QED BY <2>1, <2>2 DEF HeldOK
<1> QED BY <1>3, <1>5, <1>6 DEF Inv

LEMMA MoveKeeps ==
    ASSUME Inv, NEW p \in Points, NEW request, DispatchMove(p, request)
    PROVE  Inv' /\ tree'.view = tree.view
<1>1. /\ Route("move", tree.view.hit[p], p, {}, TRUE, request)
      /\ outcome' = NoOutcome /\ held' = held
  BY DEF DispatchMove
<1>2. /\ CommittedOK' /\ FocusEventsPair' /\ HoverIsCurrent' /\ tree'.view = tree.view
      /\ tree'.suppressed = tree.suppressed
  <2> DEFINE prevented == TRUE
             released == {}
             kind == "move"
             s == tree.view.hit[p]
  <2>1. Route(kind, s, p, released, prevented, request)
    BY <1>1
  <2> HIDE DEF prevented, released, kind, s
  <2>2. /\ CommittedOK' /\ FocusEventsPair' /\ HoverIsCurrent' /\ tree'.view = tree.view
        /\ tree'.suppressed = tree.suppressed \ released
    BY <2>1, RouteKeeps
  <2> QED BY <2>2 DEF released
<1>3. HeldOK' /\ OrphansAreConsumed'
  BY <1>1, <1>2 DEF Inv, HeldOK, OrphansAreConsumed, NoOutcome
<1> QED BY <1>2, <1>3 DEF Inv

\* A suppressed event still moves the pointer, and the hover with it.
LEMMA SuppressedKeeps ==
    ASSUME Inv, NEW kind \in {"drag", "up"}, NEW b \in Buttons, NEW p \in Points,
           DispatchSuppressed(kind, b, p)
    PROVE  Inv' /\ tree'.view = tree.view
<1> DEFINE released == IF kind = "up" THEN {b} ELSE {}
           h == Node(tree, Pointed(tree, {p}))
           t == Pressed(tree, p, released)
           w1 == [t EXCEPT !.hovered = h]
<1>1. Settled(tree) /\ Shaped(tree) /\ PendingOK(tree) /\ HeldOK
  BY CommittedFields DEF Inv
<1>2. PICK c \in CaptureChoices(tree, HoverMoved(tree, h)) :
           tree' = [tree EXCEPT !.lastPointer = {p}, !.hovered = h, !.captured = c,
                                !.suppressed = IF kind = "up" THEN @ \ {b} ELSE @]
  BY DEF DispatchSuppressed, Consume
<1>3. /\ b \in tree.suppressed /\ told' = told
      /\ held' = (IF kind = "up" THEN [held EXCEPT ![b] = "up"] ELSE held)
      /\ outcome' = [press |-> held[b], routed |-> FALSE]
  BY DEF DispatchSuppressed, Consume, Suppressed
<1>4. /\ Settled(t) /\ SameNodes(tree, t) /\ SameFocus(tree, t) /\ t.lastPointer = {p}
      /\ t.suppressed = tree.suppressed \ released
  BY <1>1, PressedSettles
<1>5. /\ tree'.view = tree.view /\ tree'.born = tree.born /\ tree'.shown = tree.shown
      /\ tree'.activeScope = tree.activeScope /\ tree'.focusedBy = tree.focusedBy
      /\ tree'.pending = tree.pending /\ tree'.lastPointer = {p}
      /\ tree'.hovered = h /\ tree'.captured = c /\ tree'.suppressed = tree.suppressed \ released
      /\ IsTree(tree')
  BY <1>1, <1>2 DEF Shaped, IsTree
<1>6. /\ SameNodes(tree, tree') /\ Focused(tree') = Focused(tree)
      /\ Origin(tree') = Origin(tree)
  BY <1>5 DEF SameNodes, Focused, Origin
<1>7. /\ Alive(tree') = Alive(tree) /\ ScopesOf(tree') = ScopesOf(tree)
      /\ \A s : Node(tree', s) = Node(tree, s) /\ Candidates(tree', s) = Candidates(tree, s)
      /\ \A at : Pointed(tree', at) = Pointed(tree, at)
  BY <1>6, SameNodesSame
<1>8. c \in Alive(tree) \cup {None} /\ h \in Alive(tree) \cup {None}
  <2>1. h \in Alive(tree) \cup {None}
    <3> DEFINE at == {p}
    <3>1. at \subseteq Points /\ h = Node(tree, Pointed(tree, at))
      OBVIOUS
    <3> HIDE DEF at, h
    <3> QED BY <1>1, <3>1, PointedIsShown DEF Settled
  <2> QED BY <1>1, <1>2, <2>1 DEF CaptureChoices, Settled
<1>9. h = Node(tree', Pointed(tree', tree'.lastPointer))
  BY <1>5, <1>7
<1> HIDE DEF h, t
<1>10. Shaped(tree') /\ Foci(tree') /\ Legal(tree') /\ PendingOK(tree')
  <2>1. Alive(tree) \subseteq Ids
    BY <1>1, ShapedFields
  <2>2. Shaped(tree')
    BY <1>1, <1>5, <1>8, <2>1 DEF Shaped, IdsOrNone
  <2> DEFINE w == tree'
  <2>3. /\ w.focusedBy = tree.focusedBy /\ w.shown = tree.shown /\ w.view = tree.view
        /\ w.activeScope = tree.activeScope /\ Focused(w) = Focused(tree)
        /\ Alive(w) = Alive(tree) /\ ScopesOf(w) = ScopesOf(tree)
        /\ \A s : Node(w, s) = Node(tree, s) /\ Candidates(w, s) = Candidates(tree, s)
    BY <1>5, <1>6, <1>7
  <2> HIDE DEF w
  <2>4. Foci(w) /\ Legal(w)
    <3>1. Foci(w)
      BY <1>1, <2>3 DEF Settled, Foci
    <3>2. Legal(w)
      BY <1>1, <2>3 DEF Settled, Legal
    <3> QED BY <3>1, <3>2
  <2> QED BY <1>1, <1>5, <1>6, <2>2, <2>4 DEF PendingOK, w
<1>11. CommittedOK'
  <2>1. Settled(tree')
    BY <1>1, <1>5, <1>7, <1>8, <1>10 DEF Settled
  <2> QED BY <1>5, <1>6, <1>7, <1>10, <2>1 DEF Inv, CommittedOK
<1>12. FocusEventsPair'
  BY <1>3, <1>5, <1>6, <1>7 DEF Inv, FocusEventsPair
<1>13. HoverIsCurrent'
  BY <1>5, <1>9 DEF HoverIsCurrent
<1>14. OrphansAreConsumed'
  BY <1>1, <1>3 DEF HeldOK, OrphansAreConsumed
<1>15. HeldOK'
  BY <1>1, <1>3, <1>5 DEF HeldOK
<1> QED BY <1>5, <1>11, <1>12, <1>13, <1>14, <1>15 DEF Inv

LEMMA FocusNodeKeeps ==
    ASSUME Inv, NEW s, FocusNode(s) PROVE Inv' /\ tree'.view = tree.view
<1>1. Settled(tree) /\ Shaped(tree) /\ PendingOK(tree)
  BY CommittedFields DEF Inv
<1>2. tree' = Focus(tree, s) /\ told' = told /\ held' = held /\ outcome' = NoOutcome
  BY DEF FocusNode
<1>3. Moved(tree, tree')
  BY <1>1, <1>2, FocusMoves
<1>4. Settled(tree')
  BY <1>1, <1>3, MovedSettles
<1>5. /\ SameNodes(tree, tree') /\ SamePointer(tree, tree')
      /\ PendingOK(tree') /\ Origin(tree') = Origin(tree)
  BY <1>3 DEF Moved
<1>6. /\ Alive(tree') = Alive(tree) /\ \A o : Node(tree', o) = Node(tree, o)
      /\ \A at : Pointed(tree', at) = Pointed(tree, at)
  BY <1>5, SameNodesSame
<1>7. CommittedOK'
  BY <1>4, <1>5, <1>6 DEF Inv, CommittedOK, SameNodes
<1>8. FocusEventsPair'
  BY <1>2, <1>5, <1>6 DEF Inv, FocusEventsPair, Origin
<1>9. HeldOK' /\ OrphansAreConsumed'
  BY <1>2, <1>5 DEF Inv, HeldOK, OrphansAreConsumed, SamePointer, NoOutcome
<1>10. HoverIsCurrent' /\ tree'.view = tree.view
  BY <1>5, <1>6 DEF Inv, HoverIsCurrent, SamePointer, SameNodes
<1> QED BY <1>7, <1>8, <1>9, <1>10 DEF Inv
--------------------------------------------------------------------------------
(* The invariant of the committed tree.                                    *)

LEMMA InitInv == ASSUME Init PROVE Inv
<1>1. /\ tree.view = NoView /\ tree.born = [s \in Slots |-> 0] /\ tree.shown = {}
      /\ tree.activeScope = None /\ tree.focusedBy = <<>> /\ tree.pending = NoChange
      /\ tree.captured = None /\ tree.suppressed = {} /\ tree.hovered = None
      /\ tree.lastPointer = {} /\ IsTree(tree)
      /\ told = {} /\ held = [b \in Buttons |-> "up"] /\ outcome = NoOutcome
  BY DEF Init, NewTree, IsTree
<1>2. NoView.visible = {}
  BY DEF NoView
<1>3. FocusMap(<<>>)
  BY DEF FocusMap
<1>4. NoChange = [previous |-> NoChange.previous, current |-> NoChange.current]
  BY DEF NoChange
<1>5. Shaped(tree)
  BY <1>1, <1>3, <1>4 DEF Shaped, IdsOrNone
<1>6. Focused(tree) = None
  BY <1>1 DEF Focused
<1>7. Foci(tree) /\ Legal(tree)
  BY <1>1 DEF Foci, Legal
<1>8. Origin(tree) = None /\ PendingOK(tree)
  BY <1>1, <1>6 DEF Origin, PendingOK
<1>9. tree.born \in [Slots -> 0..MaxBorn]
  BY <1>1, ViewAssumption
<1>10. CommittedOK
  BY <1>1, <1>2, <1>5, <1>7, <1>8, <1>9 DEF CommittedOK, Settled
<1>11. FocusEventsPair
  BY <1>1, <1>5, <1>6, NoneIsDead DEF FocusEventsPair
<1>12. HeldOK /\ OrphansAreConsumed /\ HoverIsCurrent
  BY <1>1 DEF HeldOK, OrphansAreConsumed, HoverIsCurrent, NoOutcome
<1> QED BY <1>10, <1>11, <1>12 DEF Inv

\* One step per action; only a frame changes the view.
LEMMA NextInv ==
    ASSUME Inv, [Next]_vars
    PROVE  Inv' /\ (tree'.view = tree.view \/ \E v \in Views : Frame(v))
<1>1. ASSUME NEW v \in Views, Frame(v) PROVE Inv'
  BY <1>1, FrameKeeps DEF Inv
<1>2. ASSUME UNCHANGED vars PROVE Inv' /\ tree'.view = tree.view
  <2>1. tree' = tree /\ held' = held /\ told' = told /\ outcome' = outcome
    BY <1>2 DEF vars
  <2> QED BY <2>1 DEF Inv, CommittedOK, FocusEventsPair, HeldOK, OrphansAreConsumed, HoverIsCurrent
<1> QED BY <1>1, <1>2, FocusNodeKeeps, SuppressedKeeps, MoveKeeps, KeyKeeps, PointerKeeps DEF Next

LEMMA Invariance == Spec => []Inv
<1>1. Init => Inv
  BY InitInv
<1>2. Inv /\ [Next]_vars => Inv'
  BY NextInv
<1> QED BY <1>1, <1>2, PTL DEF Spec

LEMMA InvGives == ASSUME Inv PROVE TypeOK /\ FocusIsLegal
<1>1. CommittedOK /\ HeldOK /\ FocusEventsPair
  BY DEF Inv
<1>2. Settled(tree) /\ Shaped(tree)
  BY <1>1 DEF CommittedOK, Settled
<1>3. told \subseteq Alive(tree)
  BY <1>1 DEF FocusEventsPair
<1>4. TypeOK
  BY <1>1, <1>2, <1>3 DEF TypeOK, CommittedOK, Settled, Shaped, Foci, HeldOK
<1> QED BY <1>2, <1>4 DEF Settled, Legal, FocusIsLegal

\* Every node the interaction state names is alive.
THEOREM TypeCorrect == Spec => []TypeOK
<1>1. Inv => TypeOK
  BY InvGives
<1> QED BY <1>1, Invariance, PTL

\* The committed tree's active scope is the deepest that is open, its focus can have
\* it, and it has one if any node can.
THEOREM FocusLegal == Spec => []FocusIsLegal
<1>1. Inv => FocusIsLegal
  BY InvGives
<1> QED BY <1>1, Invariance, PTL

\* Whoever is told FocusGained is told FocusLost before another one gains it, over
\* focus changes that combine before they are delivered and nodes that die.
THEOREM FocusEventsPaired == Spec => []FocusEventsPair
<1>1. Inv => FocusEventsPair
  BY DEF Inv
<1> QED BY <1>1, Invariance, PTL

\* Once its capture is taken away, no event of a press is routed; any other press is.
THEOREM OrphansConsumed == Spec => []OrphansAreConsumed
<1>1. Inv => OrphansAreConsumed
  BY DEF Inv
<1> QED BY <1>1, Invariance, PTL

\* The hover is what the committed hit map and modality give for the pointer.
THEOREM HoverCurrent == Spec => []HoverIsCurrent
<1>1. Inv => HoverIsCurrent
  BY DEF Inv
<1> QED BY <1>1, Invariance, PTL

\* A scope keeps its focused node over a frame that leaves both alive, visible and
\* eligible: neither reconcile's resolution nor the one with the new layout, nor the
\* repair of the active scope, takes it away.
THEOREM ScopesKept == Spec => ScopesKeepFocus
<1>1. ASSUME Inv, [Next]_vars, NEW i \in DOMAIN tree.focusedBy, NEW n, n = tree.focusedBy[i],
             tree'.view # tree.view, {i, n} \subseteq Alive(tree'),
             {i[1], n[1]} \subseteq tree'.shown, n[1] \in Candidates(tree', i[1])
      PROVE  i \in DOMAIN tree'.focusedBy /\ tree'.focusedBy[i] = n
  <2>1. PICK v \in Views : Frame(v)
    BY <1>1, NextInv
  <2> DEFINE x == Staged(tree, v)
  <2>2. tree'.focusedBy = x.focusedBy /\ SameNodes(x, tree') /\ tree'.view = v
    BY <1>1, <2>1, FrameKeeps
  <2>3. Settled(tree) /\ PendingOK(tree)
    BY <1>1, CommittedFields DEF Inv
  <2>4. Settled(x)
    BY <2>3, StagedIsSettled DEF Settled
  <2>5. /\ Alive(tree') = Alive(x) /\ Candidates(tree', i[1]) = Candidates(x, i[1])
        /\ tree'.shown = v.visible
    <3> DEFINE w == tree'
    <3>1. SameNodes(x, w)
      BY <2>2
    <3> HIDE DEF w, x
    <3>2. /\ Alive(w) = Alive(x) /\ \A s : Candidates(w, s) = Candidates(x, s)
          /\ w.view = x.view /\ w.shown = x.shown
      BY <3>1, SameNodesSame DEF SameNodes
    <3>3. w.view = v
      BY <2>2 DEF w
    <3>4. w.shown = v.visible
      BY <2>4, <3>2, <3>3 DEF Settled
    <3> QED BY <3>2, <3>4 DEF w
  <2>6. i \in DOMAIN x.focusedBy /\ x.focusedBy[i] = tree.focusedBy[i]
    BY <1>1, <2>3, <2>5, StagedKeepsFocus
  <2> QED BY <1>1, <2>2, <2>6
<1>2. ASSUME Inv, [Next]_vars
      PROVE  [\A i \in DOMAIN tree.focusedBy :
                LET n == tree.focusedBy[i]
                IN  tree'.view # tree.view /\ {i, n} \subseteq Alive(tree')
                       /\ {i[1], n[1]} \subseteq tree'.shown /\ n[1] \in Candidates(tree', i[1])
                    => i \in DOMAIN tree'.focusedBy /\ tree'.focusedBy[i] = n]_vars
  BY <1>1, <1>2
<1> QED BY <1>2, Invariance, PTL DEF Spec, ScopesKeepFocus

--------------------------------------------------------------------------------
(* Rectangles.                                                             *)
USE DEF IntegerLimits

\* What Intersection computes on one axis needs neither saturation nor a cast.
LEMMA AxisIntersection ==
    ASSUME IntegerLimits, NEW a \in Coords, NEW b \in Coords, NEW m \in Lengths, NEW n \in Lengths,
           Greater(a, b) < Lesser(a + m, b + n)
    PROVE  /\ Saturated(Greater(a, b)) = Greater(a, b) /\ Greater(a, b) \in Coords
           /\ AsLength(Lesser(a + m, b + n) - Greater(a, b)) = Lesser(a + m, b + n) - Greater(a, b)
           /\ Lesser(a + m, b + n) - Greater(a, b) \in Lengths
<1>1. Greater(a, b) \in Coords /\ Saturated(Greater(a, b)) = Greater(a, b)
  BY DEF Greater, Lesser, Saturated, Coords
<1>2. Lesser(a + m, b + n) - Greater(a, b) \in Lengths
  BY DEF Greater, Lesser, Coords, Lengths
<1>3. \A v \in Lengths : AsLength(v) = v
  BY DEF AsLength, Lengths
<1> QED BY <1>1, <1>2, <1>3

\* A cell is in the intersection of two rectangles exactly if it is in both, and
\* the intersection is a rectangle whose origin and size fit their types: the
\* narrowing casts of Rect::intersection never lose anything.
THEOREM IntersectionIsExact ==
    ASSUME IntegerLimits, NEW r \in Rects, NEW other \in Rects
    PROVE  /\ ~Intersects(r, other) =>
                \A p \in Positions : ~(Contains(r, p) /\ Contains(other, p))
           /\ Intersects(r, other) =>
                /\ Intersection(r, other) \in Rects /\ ~HasNoCell(Intersection(r, other))
                /\ \A p \in Positions : Contains(Intersection(r, other), p)
                                        <=> Contains(r, p) /\ Contains(other, p)
<1> DEFINE left == Left(r, other)
           top == Top(r, other)
           right == Right(r, other)
           bottom == Bottom(r, other)
           both == [x |-> left, y |-> top, width |-> right - left, height |-> bottom - top]
<1> USE DEF Left, Top, Right, Bottom
<1>1. /\ r.x \in Coords /\ r.y \in Coords /\ r.width \in Lengths /\ r.height \in Lengths
      /\ other.x \in Coords /\ other.y \in Coords
      /\ other.width \in Lengths /\ other.height \in Lengths
  BY DEF Rects
<1>2. left \in Int /\ right \in Int /\ top \in Int /\ bottom \in Int
  BY <1>1 DEF Coords, Lengths, Greater, Lesser
<1>3. ASSUME NEW p \in Positions
      PROVE  Contains(r, p) /\ Contains(other, p) <=>
                p.x >= left /\ p.x < right /\ p.y >= top /\ p.y < bottom
  BY <1>1 DEF Contains, Positions, Coords, Lengths, Greater, Lesser
<1>4. ASSUME ~Intersects(r, other), NEW p \in Positions
      PROVE  ~(Contains(r, p) /\ Contains(other, p))
  <2>1. left >= right \/ top >= bottom
    BY <1>2, <1>4 DEF Intersects
  <2>2. p.x \in Int /\ p.y \in Int
    BY DEF Positions, Coords
  <2> HIDE DEF left, right, top, bottom
  <2> QED BY <1>2, <1>3, <2>1, <2>2
<1>5. ASSUME Intersects(r, other)
      PROVE  /\ Intersection(r, other) \in Rects /\ ~HasNoCell(Intersection(r, other))
             /\ \A p \in Positions : Contains(Intersection(r, other), p)
                                     <=> Contains(r, p) /\ Contains(other, p)
  <2>1. left < right /\ top < bottom
    BY <1>5 DEF Intersects
  <2>2. /\ left \in Coords /\ right - left \in Lengths /\ Saturated(left) = left
        /\ AsLength(right - left) = right - left
    BY <1>1, <2>1, AxisIntersection
  <2>3. /\ top \in Coords /\ bottom - top \in Lengths /\ Saturated(top) = top
        /\ AsLength(bottom - top) = bottom - top
    BY <1>1, <2>1, AxisIntersection
  <2>4. Intersection(r, other) = both
    BY <2>2, <2>3 DEF Intersection
  <2> HIDE DEF left, right, top, bottom
  <2>5. both \in Rects /\ ~HasNoCell(both)
    BY <1>2, <2>1, <2>2, <2>3 DEF Rects, HasNoCell
  <2>6. ASSUME NEW p \in Positions
        PROVE  Contains(both, p) <=> Contains(r, p) /\ Contains(other, p)
    BY <1>2, <1>3 DEF Contains
  <2> QED BY <2>4, <2>5, <2>6
<1> QED BY <1>4, <1>5

\* The inner region of a rectangle is a rectangle and never reaches outside of it,
\* however large the insets are and also where the origin saturates (Rect::inner).
THEOREM InnerStaysInside ==
    ASSUME IntegerLimits, NEW r \in Rects, NEW insets \in Insets
    PROVE  /\ Inner(r, insets) \in Rects
           /\ \A p \in Positions : Contains(Inner(r, insets), p) => Contains(r, p)
<1> DEFINE left == Lesser(insets.left, r.width)
           right == Lesser(insets.right, r.width - left)
           top == Lesser(insets.top, r.height)
           bottom == Lesser(insets.bottom, r.height - top)
<1>1. /\ r.x \in Coords /\ r.y \in Coords /\ r.width \in Lengths /\ r.height \in Lengths
      /\ insets.left \in Lengths /\ insets.right \in Lengths
      /\ insets.top \in Lengths /\ insets.bottom \in Lengths
  BY DEF Rects, Insets
<1>2. /\ left \in 0..r.width /\ r.width - left - right \in 0..r.width - left
      /\ top \in 0..r.height /\ r.height - top - bottom \in 0..r.height - top
  <2>1. \A a, b \in Nat : Lesser(a, b) \in 0..b
    BY DEF Lesser
  <2>2. /\ insets.left \in Nat /\ insets.right \in Nat /\ insets.top \in Nat
        /\ insets.bottom \in Nat /\ r.width \in Nat /\ r.height \in Nat
    BY <1>1 DEF Lengths
  <2>3. left \in 0..r.width /\ top \in 0..r.height
    BY <2>1, <2>2
  <2> HIDE DEF left, top
  <2>4. r.width - left \in Nat /\ r.height - top \in Nat
    BY <2>2, <2>3
  <2>5. right \in 0..r.width - left /\ bottom \in 0..r.height - top
    BY <2>1, <2>2, <2>4
  <2> HIDE DEF right, bottom
  <2> QED BY <2>2, <2>3, <2>4, <2>5
<1>3. /\ Saturated(r.x + left) \in r.x..r.x + left
      /\ Saturated(r.x + left) \in Coords
      /\ Saturated(r.y + top) \in r.y..r.y + top
      /\ Saturated(r.y + top) \in Coords
  BY <1>1, <1>2 DEF Saturated, Lesser, Greater, Coords, Lengths
<1> DEFINE in == [x |-> Saturated(r.x + left), y |-> Saturated(r.y + top),
                  width |-> r.width - left - right, height |-> r.height - top - bottom]
<1>4. Inner(r, insets) = in
  BY DEF Inner
<1> HIDE DEF left, right, top, bottom
<1>5. in \in Rects
  BY <1>1, <1>2, <1>3 DEF Rects, Lengths
<1>6. ASSUME NEW p \in Positions, Contains(in, p) PROVE Contains(r, p)
  BY <1>1, <1>2, <1>3, <1>6 DEF Contains, Positions, Coords, Lengths
<1> QED BY <1>4, <1>5, <1>6

--------------------------------------------------------------------------------
(* The store of layout nodes, over any sequence of calls.                  *)
CONSTANT Nodes

VARIABLES store, removed

StoreInit == store = EmptyStore /\ removed = {}

CallInsert(node) ==
    /\ store' = InsertNode(store, node)
    /\ UNCHANGED removed

CallRemove(id) ==
    /\ store' = RemoveId(store, id)
    /\ removed' = removed \cup ({id} \cap Live(store))

CallChange(id, node) ==
    /\ store' = SetNode(store, id, node)
    /\ UNCHANGED removed

StoreNext ==
    \/ \E node \in Nodes \ {NoNode} : CallInsert(node)
    \/ \E id \in Live(store) : CallRemove(id)
    \/ \E id \in Live(store), node \in Nodes \ {NoNode} : CallChange(id, node)

StoreSpec == StoreInit /\ [][StoreNext]_<<store, removed>>

--------------------------------------------------------------------------------

Stores(S) == [generation : Seq(0..MaxGeneration), node : Seq(S \cup {NoNode}), free : Seq(Nat)]

FreeOK(s) ==
    /\ \A k \in 1..Len(s.free) : s.free[k] \in 1..Len(s.node) /\ s.node[s.free[k]] = NoNode
    /\ \A j, k \in 1..Len(s.free) : s.free[j] = s.free[k] => j = k

\* A removed id is of an earlier generation of its slot, or the slot is empty for ever.
Gone(s, id) ==
    /\ id \in Nat \X Nat
    /\ id[1] \in 1..Len(s.node)
    /\ \/ id[2] < s.generation[id[1]]
       \/ /\ id[2] = s.generation[id[1]]
          /\ s.node[id[1]] = NoNode
          /\ \A k \in 1..Len(s.free) : s.free[k] # id[1]

StoreOK(S, s) == s \in Stores(S) /\ Len(s.generation) = Len(s.node) /\ FreeOK(s)

StoreInv == StoreOK(Nodes, store) /\ \A id \in removed : Gone(store, id)

LEMMA Element == ASSUME NEW S, NEW q \in Seq(S), NEW i \in 1..Len(q) PROVE q[i] \in S
OBVIOUS

LEMMA LiveIds ==
    ASSUME NEW S, NEW s, StoreOK(S, s), NEW id
    PROVE  id \in Live(s) <=> \E i \in 1..Len(s.node) : id = <<i, s.generation[i]>> /\ s.node[i] # NoNode
BY DEF Live, IdAt, StoreOK, Stores

LEMMA GoneIsUnknown ==
    ASSUME NEW S, NEW s, StoreOK(S, s), NEW id, Gone(s, id)
    PROVE  id \notin Live(s)
<1> SUFFICES ASSUME NEW i \in 1..Len(s.node), id = <<i, s.generation[i]>>, s.node[i] # NoNode
             PROVE  FALSE
  BY LiveIds
<1>1. id[1] = i /\ id[2] = s.generation[i]
  OBVIOUS
<1>2. s.generation[i] \in Nat
  BY GenerationAssumption DEF StoreOK, Stores
<1> QED BY <1>1, <1>2 DEF Gone

\* What a sequence is after one element of it is replaced, its last one taken, or one appended.
LEMMA ReplacedIs ==
    ASSUME NEW S, NEW q \in Seq(S), NEW i \in 1..Len(q), NEW x \in S, NEW r, r = [q EXCEPT ![i] = x]
    PROVE  r \in Seq(S) /\ Len(r) = Len(q)
OBVIOUS

LEMMA FrontIs ==
    ASSUME NEW S, NEW q \in Seq(S), NEW n \in Nat \ {0}, n = Len(q), NEW r, r = SubSeq(q, 1, n - 1)
    PROVE  r \in Seq(S) /\ Len(r) = n - 1 /\ \A k \in 1..n - 1 : r[k] = q[k]
<1>1. n - 1 \in 0..Len(q)
  OBVIOUS
<1> QED BY <1>1

LEMMA AppendedIs ==
    ASSUME NEW S, NEW q \in Seq(S), NEW x \in S, NEW r, r = Append(q, x)
    PROVE  /\ r \in Seq(S) /\ Len(r) = Len(q) + 1
           /\ \A k \in 1..Len(q) : r[k] = q[k]
           /\ r[Len(q) + 1] = x
OBVIOUS

LEMMA StoreInsertKeeps ==
    ASSUME NEW S, NEW s, StoreOK(S, s), NEW node \in S \ {NoNode}
    PROVE  /\ StoreOK(S, InsertNode(s, node))
           /\ \A id : Gone(s, id) => Gone(InsertNode(s, node), id)
<1> DEFINE t == InsertNode(s, node)
<1>1. CASE s.free = <<>>
  <2>1. t = [generation |-> Append(s.generation, 0), node |-> Append(s.node, node), free |-> <<>>]
    BY <1>1 DEF InsertNode
  <2>2. 0 \in 0..MaxGeneration
    BY GenerationAssumption
  <2>3. StoreOK(S, t)
    BY <2>1, <2>2 DEF StoreOK, Stores, FreeOK
  <2>4. ASSUME NEW id, Gone(s, id) PROVE Gone(t, id)
    BY <2>1, <2>4 DEF Gone, StoreOK, Stores
  <2> QED BY <2>3, <2>4
<1>2. CASE s.free # <<>>
  <2> DEFINE n == Len(s.free)
             i == s.free[n]
  <2>1. n \in Nat \ {0}
    BY <1>2 DEF StoreOK, Stores
  <2>2. i \in 1..Len(s.node)
    BY <2>1 DEF StoreOK, FreeOK
  <2>3. /\ t.generation = s.generation
        /\ t.node = [s.node EXCEPT ![i] = node]
        /\ t.free = SubSeq(s.free, 1, n - 1)
        /\ t = [generation |-> t.generation, node |-> t.node, free |-> t.free]
    BY <1>2 DEF InsertNode, StoreOK, Stores
  <2>4. /\ t.node \in Seq(S \cup {NoNode}) /\ Len(t.node) = Len(s.node)
        /\ t.free \in Seq(Nat) /\ Len(t.free) = n - 1
        /\ \A k \in 1..n - 1 : t.free[k] = s.free[k]
    <3>1. t.node \in Seq(S \cup {NoNode}) /\ Len(t.node) = Len(s.node)
      <4>1. s.node \in Seq(S \cup {NoNode}) /\ node \in S
        BY DEF StoreOK, Stores
      <4> QED BY <2>2, <2>3, <4>1, ReplacedIs
    <3> HIDE DEF i, t
    <3>2. s.free \in Seq(Nat) /\ n \in Nat \ {0} /\ n = Len(s.free)
      BY <2>1 DEF StoreOK, Stores
    <3>3. /\ t.free \in Seq(Nat) /\ Len(t.free) = n - 1
          /\ \A k \in 1..n - 1 : t.free[k] = s.free[k]
      BY <2>3, <3>2, FrontIs, SMTT(30)
    <3> QED BY <3>1, <3>3
  <2>5. \A k \in 1..n - 1 : s.free[k] # i
    <3>1. \A j, k \in 1..Len(s.free) : s.free[j] = s.free[k] => j = k
      BY DEF StoreOK, FreeOK
    <3>2. ASSUME NEW k \in 1..n - 1 PROVE s.free[k] # s.free[n]
      <4>1. n \in 1..Len(s.free) /\ k \in 1..Len(s.free) /\ k # n
        BY <2>1
      <4> QED BY <3>1, <4>1, Zenon
    <3> QED BY <3>2
  <2>6. \A j \in 1..Len(s.node) : t.node[j] = IF j = i THEN node ELSE s.node[j]
    <3>1. s.node \in Seq(S \cup {NoNode})
      BY DEF StoreOK, Stores
    <3> HIDE DEF i, t
    <3> QED BY <2>2, <2>3, <3>1, SMTT(30)
  <2>7. t \in Stores(S) /\ Len(t.generation) = Len(t.node)
    BY <2>3, <2>4 DEF StoreOK, Stores
  <2> HIDE DEF t, i
  <2>8. FreeOK(t)
    <3>1. \A k \in 1..n - 1 : k \in 1..Len(s.free) /\ t.free[k] = s.free[k] /\ s.free[k] # i
      <4>1. \A k \in 1..n - 1 : k \in 1..Len(s.free)
        BY <2>1 DEF n
      <4> QED BY <2>4, <2>5, <4>1
    <3>2. /\ \A k \in 1..Len(s.free) : s.free[k] \in 1..Len(s.node) /\ s.node[s.free[k]] = NoNode
          /\ \A j, k \in 1..Len(s.free) : s.free[j] = s.free[k] => j = k
      BY DEF StoreOK, FreeOK
    <3>3. ASSUME NEW k \in 1..n - 1 PROVE t.free[k] \in 1..Len(t.node) /\ t.node[t.free[k]] = NoNode
      <4>1. /\ s.free[k] \in 1..Len(s.node) /\ s.node[s.free[k]] = NoNode
            /\ t.free[k] = s.free[k] /\ s.free[k] # i
        BY <3>1, <3>2
      <4>2. Len(t.node) = Len(s.node)
        BY <2>4
      <4> QED BY <2>6, <4>1, <4>2
    <3>4. \A j, k \in 1..n - 1 : t.free[j] = t.free[k] => j = k
      BY <3>1, <3>2
    <3> QED BY <2>4, <3>3, <3>4 DEF FreeOK
  <2>9. ASSUME NEW id, Gone(s, id) PROVE Gone(t, id)
    <3>1. CASE id[2] < s.generation[id[1]]
      BY <2>3, <2>4, <2>9, <3>1 DEF Gone
    <3>2. CASE id[1] # i
      BY <2>1, <2>3, <2>4, <2>6, <2>9, <3>2 DEF Gone
    <3>3. CASE id[1] = i /\ ~(id[2] < s.generation[id[1]])
      BY <2>1, <2>9, <3>3 DEF Gone, i
    <3> QED BY <3>1, <3>2, <3>3
  <2> QED BY <2>7, <2>8, <2>9 DEF StoreOK, t
<1> QED BY <1>1, <1>2

LEMMA InsertedIdIsNew ==
    ASSUME NEW S, NEW s, StoreOK(S, s), NEW id, Gone(s, id) \/ id \in Live(s)
    PROVE  id # NextId(s)
<1>1. CASE s.free = <<>>
  <2>1. NextId(s) = <<Len(s.node) + 1, 0>>
    BY <1>1 DEF NextId
  <2>2. Len(s.node) \in Nat /\ Len(s.node) + 1 \notin 1..Len(s.node)
    BY DEF StoreOK, Stores
  <2>3. ASSUME Gone(s, id), id = <<Len(s.node) + 1, 0>> PROVE FALSE
    <3>1. id[1] = Len(s.node) + 1
      BY <2>3
    <3> QED BY <2>2, <2>3, <3>1 DEF Gone
  <2>4. ASSUME id \in Live(s), id = <<Len(s.node) + 1, 0>> PROVE FALSE
    <3>1. PICK i \in 1..Len(s.node) : id = <<i, s.generation[i]>>
      BY <2>4, LiveIds
    <3> QED BY <2>2, <2>4, <3>1
  <2> QED BY <2>1, <2>3, <2>4
<1>2. CASE s.free # <<>>
  <2> DEFINE i == s.free[Len(s.free)]
  <2>1. NextId(s) = <<i, s.generation[i]>>
    BY <1>2 DEF NextId, IdAt
  <2>2. Len(s.free) \in 1..Len(s.free) /\ i \in 1..Len(s.node) /\ s.node[i] = NoNode
    BY <1>2 DEF StoreOK, Stores, FreeOK
  <2>3. s.generation[i] \in Nat
    BY <2>2, GenerationAssumption DEF StoreOK, Stores
  <2> HIDE DEF i
  <2>4. ASSUME Gone(s, id), id = <<i, s.generation[i]>> PROVE FALSE
    <3>1. id[1] = i /\ id[2] = s.generation[i]
      BY <2>4
    <3> QED BY <2>2, <2>3, <2>4, <3>1 DEF Gone, i
  <2>5. ASSUME id \in Live(s), id = <<i, s.generation[i]>> PROVE FALSE
    BY <2>2, <2>5, LiveIds
  <2> QED BY <2>1, <2>4, <2>5
<1> QED BY <1>1, <1>2

LEMMA RemovingKeeps ==
    ASSUME NEW S, NEW s, StoreOK(S, s), NEW id \in Live(s)
    PROVE  /\ StoreOK(S, RemoveId(s, id))
           /\ Gone(RemoveId(s, id), id)
           /\ \A old : Gone(s, old) => Gone(RemoveId(s, id), old)
<1> DEFINE t == RemoveId(s, id)
<1>1. PICK i \in 1..Len(s.node) : id = <<i, s.generation[i]>> /\ s.node[i] # NoNode
  BY LiveIds
<1>2. id[1] = i /\ id[2] = s.generation[i] /\ s.generation[i] \in 0..MaxGeneration
  <2>1. id[1] = i /\ id[2] = s.generation[i]
    BY <1>1
  <2>2. s.generation \in Seq(0..MaxGeneration) /\ i \in 1..Len(s.generation)
    BY <1>1 DEF StoreOK, Stores
  <2>3. s.generation[i] \in 0..MaxGeneration
    BY <2>2, Element
  <2> QED BY <2>1, <2>3
<1>3. \A k \in 1..Len(s.free) : s.free[k] # i
  BY <1>1 DEF StoreOK, FreeOK
<1>4. /\ t.node = [s.node EXCEPT ![i] = NoNode]
      /\ t.node \in Seq(S \cup {NoNode}) /\ Len(t.node) = Len(s.node)
      /\ \A j \in 1..Len(s.node) : t.node[j] = IF j = i THEN NoNode ELSE s.node[j]
  BY <1>2 DEF RemoveId, StoreOK, Stores
<1>5. CASE s.generation[i] < MaxGeneration
  <2>1. t = [generation |-> [s.generation EXCEPT ![i] = @ + 1], node |-> t.node,
             free |-> Append(s.free, i)]
    BY <1>2, <1>4, <1>5 DEF RemoveId
  <2>2. /\ t.generation \in Seq(0..MaxGeneration) /\ Len(t.generation) = Len(s.generation)
        /\ \A j \in 1..Len(s.node) : t.generation[j] = IF j = i THEN s.generation[i] + 1
                                                       ELSE s.generation[j]
    <3>1. t.generation = [s.generation EXCEPT ![i] = s.generation[i] + 1]
      BY <2>1
    <3>2. s.generation[i] + 1 \in 0..MaxGeneration
      BY <1>2, <1>5, GenerationAssumption
    <3>3. s.generation \in Seq(0..MaxGeneration) /\ i \in 1..Len(s.generation)
      BY <1>1 DEF StoreOK, Stores
    <3>4. Len(s.generation) = Len(s.node)
      BY DEF StoreOK
    <3> HIDE DEF t
    <3> QED BY <3>1, <3>2, <3>3, <3>4
  <2>3. /\ t.free \in Seq(Nat) /\ Len(t.free) = Len(s.free) + 1
        /\ \A k \in 1..Len(s.free) : t.free[k] = s.free[k]
        /\ t.free[Len(s.free) + 1] = i
    <3>1. t.free = Append(s.free, i)
      BY <2>1
    <3>2. s.free \in Seq(Nat) /\ i \in Nat
      BY DEF StoreOK, Stores
    <3> HIDE DEF t
    <3> QED BY <3>1, <3>2, AppendedIs
  <2>4. t \in Stores(S)
    BY <1>4, <2>1, <2>2, <2>3 DEF Stores
  <2> HIDE DEF t
  <2>5. FreeOK(t)
    <3>1. Len(s.free) \in Nat /\ 1..Len(t.free) = 1..Len(s.free) \cup {Len(s.free) + 1}
      BY <2>3 DEF StoreOK, Stores
    <3>2. /\ \A k \in 1..Len(s.free) : s.free[k] \in 1..Len(s.node) /\ s.node[s.free[k]] = NoNode
          /\ \A j, k \in 1..Len(s.free) : s.free[j] = s.free[k] => j = k
      BY DEF StoreOK, FreeOK
    <3> DEFINE m == Len(s.free)
    <3>3. /\ \A k \in 1..m : t.free[k] \in 1..Len(t.node) /\ t.node[t.free[k]] = NoNode /\ t.free[k] # i
          /\ t.free[m + 1] = i /\ i \in 1..Len(t.node) /\ t.node[i] = NoNode
      <4>1. i \in 1..Len(s.node) /\ Len(t.node) = Len(s.node) /\ t.node[i] = NoNode /\ t.free[m + 1] = i
        BY <1>1, <1>4, <2>3
      <4>2. \A j \in 1..Len(s.node) : s.node[j] = NoNode => t.node[j] = NoNode
        BY <1>4
      <4>3. \A k \in 1..m : t.free[k] = s.free[k] /\ s.free[k] # i
        BY <1>3, <2>3
      <4> HIDE DEF m
      <4>4. \A k \in 1..m : s.free[k] \in 1..Len(s.node) /\ s.node[s.free[k]] = NoNode
        BY <3>2 DEF m
      <4> QED BY <4>1, <4>2, <4>3, <4>4
    <3>4. \A j, k \in 1..m : t.free[j] = t.free[k] => j = k
      BY <2>3, <3>2
    <3> HIDE DEF m
    <3>5. 1..Len(t.free) = 1..m \cup {m + 1}
      BY <3>1 DEF m
    <3>6. \A k \in 1..Len(t.free) : t.free[k] \in 1..Len(t.node) /\ t.node[t.free[k]] = NoNode
      BY <3>3, <3>5
    <3>7. \A j, k \in 1..Len(t.free) : t.free[j] = t.free[k] => j = k
      BY <3>3, <3>4, <3>5
    <3> QED BY <3>6, <3>7 DEF FreeOK
  <2>6. Gone(t, id)
    BY <1>1, <1>2, <1>4, <2>2 DEF Gone
  <2>7. ASSUME NEW old, Gone(s, old) PROVE Gone(t, old)
    <3>1. Len(s.free) \in Nat /\ 1..Len(t.free) = 1..Len(s.free) \cup {Len(s.free) + 1}
      BY <2>3 DEF StoreOK, Stores
    <3>2. old \in Nat \X Nat /\ old[1] \in 1..Len(t.node)
      BY <1>4, <2>7 DEF Gone
    <3>3. CASE old[1] = i
      <4>1. old[2] <= s.generation[i]
        BY <1>2, <2>7, <3>2, <3>3 DEF Gone
      <4>2. t.generation[i] = s.generation[i] + 1
        BY <2>2
      <4> QED BY <1>2, <3>2, <3>3, <4>1, <4>2 DEF Gone
    <3>4. CASE old[1] # i
      <4>1. /\ old[1] \in 1..Len(s.node)
            /\ t.generation[old[1]] = s.generation[old[1]] /\ t.node[old[1]] = s.node[old[1]]
        BY <1>4, <2>2, <2>7, <3>4 DEF Gone
      <4>2. (\A k \in 1..Len(s.free) : s.free[k] # old[1])
                => \A k \in 1..Len(t.free) : t.free[k] # old[1]
        BY <2>3, <3>1, <3>4
      <4> QED BY <2>7, <3>2, <4>1, <4>2 DEF Gone
    <3> QED BY <3>3, <3>4
  <2> QED BY <1>4, <2>2, <2>4, <2>5, <2>6, <2>7 DEF StoreOK, t
<1>6. CASE s.generation[i] = MaxGeneration
  <2>1. t = [s EXCEPT !.node[i] = NoNode] /\ t.generation = s.generation /\ t.free = s.free
    BY <1>2, <1>6 DEF RemoveId, StoreOK, Stores
  <2>2. t \in Stores(S)
    BY <1>4, <2>1 DEF StoreOK, Stores
  <2> HIDE DEF t
  <2>3. FreeOK(t)
    BY <1>3, <1>4, <2>1 DEF FreeOK, StoreOK
  <2>4. Gone(t, id)
    BY <1>1, <1>2, <1>3, <1>4, <2>1 DEF Gone
  <2>5. ASSUME NEW old, Gone(s, old) PROVE Gone(t, old)
    BY <1>4, <2>1, <2>5 DEF Gone
  <2> QED BY <1>4, <2>1, <2>2, <2>3, <2>4, <2>5 DEF StoreOK, t
<1>7. s.generation[i] < MaxGeneration \/ s.generation[i] = MaxGeneration
  BY <1>2, GenerationAssumption
<1> QED BY <1>5, <1>6, <1>7

LEMMA ChangeKeeps ==
    ASSUME NEW S, NEW s, StoreOK(S, s), NEW id \in Live(s), NEW node \in S \ {NoNode}
    PROVE  /\ StoreOK(S, SetNode(s, id, node))
           /\ \A old : Gone(s, old) => Gone(SetNode(s, id, node), old)
<1> DEFINE t == SetNode(s, id, node)
<1>1. PICK i \in 1..Len(s.node) : id = <<i, s.generation[i]>> /\ s.node[i] # NoNode
  BY LiveIds
<1>2. /\ t.generation = s.generation /\ t.free = s.free /\ t \in Stores(S)
      /\ Len(t.node) = Len(s.node)
      /\ \A j \in 1..Len(s.node) : t.node[j] = IF j = i THEN node ELSE s.node[j]
  <2>1. id[1] = i
    BY <1>1
  <2>2. t = [s EXCEPT !.node[i] = node]
    BY <2>1 DEF SetNode
  <2>3. /\ t = [generation |-> s.generation, node |-> t.node, free |-> s.free]
        /\ t.node = [s.node EXCEPT ![i] = node]
    BY <2>2 DEF StoreOK, Stores
  <2>4. /\ t.node \in Seq(S \cup {NoNode}) /\ Len(t.node) = Len(s.node)
        /\ \A j \in 1..Len(s.node) : t.node[j] = IF j = i THEN node ELSE s.node[j]
    BY <2>3 DEF StoreOK, Stores
  <2> HIDE DEF t
  <2> QED BY <2>3, <2>4, SMTT(30) DEF StoreOK, Stores
<1> HIDE DEF t
<1>3. FreeOK(t)
  BY <1>1, <1>2, ZenonT(40) DEF FreeOK, StoreOK
<1>4. ASSUME NEW old, Gone(s, old) PROVE Gone(t, old)
  BY <1>1, <1>2, <1>4 DEF Gone
<1> QED BY <1>2, <1>3, <1>4 DEF StoreOK, t

LEMMA StoreInvHolds == StoreSpec => []StoreInv
<1>1. StoreInit => StoreInv
  BY DEF StoreInit, StoreInv, EmptyStore, StoreOK, Stores, FreeOK
<1>2. StoreInv /\ [StoreNext]_<<store, removed>> => StoreInv'
  <2> SUFFICES ASSUME StoreInv, [StoreNext]_<<store, removed>> PROVE StoreInv'
    OBVIOUS
  <2>1. ASSUME NEW node \in Nodes \ {NoNode}, CallInsert(node) PROVE StoreInv'
    BY <2>1, StoreInsertKeeps DEF StoreInv, CallInsert
  <2>2. ASSUME NEW id \in Live(store), CallRemove(id) PROVE StoreInv'
    BY <2>2, RemovingKeeps DEF StoreInv, CallRemove
  <2>3. ASSUME NEW id \in Live(store), NEW node \in Nodes \ {NoNode}, CallChange(id, node)
        PROVE  StoreInv'
    BY <2>3, ChangeKeeps DEF StoreInv, CallChange
  <2>4. CASE UNCHANGED <<store, removed>>
    BY <2>4 DEF StoreInv
  <2> QED BY <2>1, <2>2, <2>3, <2>4 DEF StoreNext
<1> QED BY <1>1, <1>2, PTL DEF StoreSpec

\* After any sequence of insertions, changes and removals, no removed id names a node: an id
\* that a caller kept answers UnknownNode for ever (NodeStore::get).
THEOREM RemovedIdsStayUnknown == StoreSpec => [](removed \cap Live(store) = {})
<1>1. StoreInv => removed \cap Live(store) = {}
  BY GoneIsUnknown DEF StoreInv
<1> QED BY <1>1, StoreInvHolds, PTL

\* The id that the next insertion hands out has never been in use.
THEOREM InsertedIdsAreNew == StoreSpec => [](NextId(store) \notin removed \cup Live(store))
<1>1. StoreInv => NextId(store) \notin removed \cup Live(store)
  BY InsertedIdIsNew DEF StoreInv
<1> QED BY <1>1, StoreInvHolds, PTL

--------------------------------------------------------------------------------
(* The text buffer, for every segmentation into graphemes.                 *)
\* A set of naturals that is not empty has a least member.
LEMMA LeastOfIs ==
    ASSUME NEW S, S \subseteq Nat, S # {}
    PROVE  LeastOf(S) \in S /\ \A y \in S : LeastOf(S) <= y
<1> DEFINE Less == OpToRel(<, Nat)
<1>1. \E x \in S : \A y \in S : <<y, x>> \notin Less
  <2>1. IsWellFoundedOn(Less, Nat)
    BY NatLessThanWellFounded
  <2> QED BY <2>1, WFMin
<1>2. Less = {ss \in Nat \X Nat : ss[1] < ss[2]}
  BY DEF OpToRel
<1> HIDE DEF Less
<1>3. PICK x \in S : \A y \in S : <<y, x>> \notin Less
  BY <1>1
<1>4. ASSUME NEW y \in S PROVE x <= y
  <2>1. x \in Nat /\ y \in Nat /\ <<y, x>> \notin Less
    BY <1>3
  <2>2. ~(y < x)
    BY <1>2, <2>1
  <2> QED BY <2>1, <2>2
<1> QED BY <1>3, <1>4 DEF LeastOf

\* One that is bounded from above has a greatest one.
LEMMA GreatestOfIs ==
    ASSUME NEW n \in Nat, NEW S, S \subseteq 0..n, S # {}
    PROVE  GreatestOf(S) \in S /\ \A y \in S : GreatestOf(S) >= y
<1> DEFINE mirror == {n - x : x \in S}
<1>1. mirror \subseteq Nat /\ mirror # {}
  <2>1. \A x \in S : n - x \in Nat
    OBVIOUS
  <2> QED BY <2>1
<1>2. PICK m \in mirror : \A y \in mirror : m <= y
  BY <1>1, LeastOfIs
<1>3. PICK x \in S : m = n - x
  BY <1>2
<1>4. \A y \in S : x >= y
  BY <1>2, <1>3
<1> QED BY <1>3, <1>4 DEF GreatestOf
--------------------------------------------------------------------------------
\* What the three boundary functions find, from a boundary or from anywhere.
LEMMA Before ==
    ASSUME Segmentation, NEW t \in Seq(Printable), NEW offset \in 0..Len(t)
    PROVE  /\ BoundaryBefore(t, offset) \in Starts(t) \union {offset}
           /\ BoundaryBefore(t, offset) \in 0..offset
           /\ BoundaryBefore(t, offset) = offset => offset = 0
<1> DEFINE before == {b \in Starts(t) : b < offset}
<1>1. Len(t) \in Nat /\ Starts(t) \subseteq 0 .. Len(t) - 1
  BY DEF Segmentation
<1>2. CASE before = {}
  <2>1. offset = 0
    <3> SUFFICES ASSUME offset # 0 PROVE FALSE
      OBVIOUS
    <3>1. t # <<>>
      BY <1>1
    <3>2. 0 \in before
      BY <3>1 DEF Segmentation
    <3> QED BY <1>2, <3>2
  <2> QED BY <1>2, <2>1 DEF BoundaryBefore
<1>3. CASE before # {}
  <2>1. before \subseteq 0..Len(t)
    BY <1>1
  <2>2. GreatestOf(before) \in before
    BY <1>1, <1>3, <2>1, GreatestOfIs
  <2> QED BY <1>1, <1>3, <2>2 DEF BoundaryBefore
<1> QED BY <1>2, <1>3

LEMMA After ==
    ASSUME Segmentation, NEW t \in Seq(Printable), NEW offset \in 0..Len(t)
    PROVE  /\ BoundaryAfter(t, offset) \in Boundaries(t)
           /\ BoundaryAfter(t, offset) \in offset..Len(t)
           /\ BoundaryAfter(t, offset) = offset => offset = Len(t)
<1> DEFINE after == {b \in Starts(t) : b > offset}
<1>1. Len(t) \in Nat /\ Starts(t) \subseteq 0 .. Len(t) - 1
  BY DEF Segmentation
<1>2. CASE after = {}
  BY <1>1, <1>2 DEF BoundaryAfter, Boundaries
<1>3. CASE after # {}
  <2>0. after \subseteq Nat
    BY <1>1
  <2>1. LeastOf(after) \in after
    BY <2>0, <1>3, LeastOfIs
  <2> QED BY <1>1, <1>3, <2>1 DEF BoundaryAfter, Boundaries
<1> QED BY <1>2, <1>3

LEMMA AtOrAfter ==
    ASSUME Segmentation, NEW t \in Seq(Printable), NEW offset \in Nat
    PROVE  BoundaryAtOrAfter(t, offset) \in Boundaries(t)
<1> DEFINE behind == {b \in Starts(t) : b >= offset}
<1>1. Starts(t) \subseteq Nat
  BY DEF Segmentation
<1>2. CASE behind = {}
  BY <1>2 DEF BoundaryAtOrAfter, Boundaries
<1>3. CASE behind # {}
  <2>1. LeastOf(behind) \in behind
    BY <1>1, <1>3, LeastOfIs
  <2> QED BY <1>3, <2>1 DEF BoundaryAtOrAfter, Boundaries
<1> QED BY <1>2, <1>3

\* The two ends of a text are boundaries, and every boundary is within it.
LEMMA Ends ==
    ASSUME Segmentation, NEW t \in Seq(Printable)
    PROVE  0 \in Boundaries(t) /\ Len(t) \in Boundaries(t) /\ Boundaries(t) \subseteq 0..Len(t)
<1>1. Len(t) \in Nat /\ Starts(t) \subseteq 0 .. Len(t) - 1
  BY DEF Segmentation
<1>2. t = <<>> => Len(t) = 0
  OBVIOUS
<1> QED BY <1>1, <1>2 DEF Segmentation, Boundaries
--------------------------------------------------------------------------------
TextInv == EndpointsOnBoundaries /\ SingleLine

LEMMA SanitizedIsPrintable ==
    ASSUME NEW raw \in Seq(Chars), NEW t \in Sanitized(raw)
    PROVE  t \in Seq(Printable)
<1>1. PICK n \in 0..Len(raw) : t \in [1..n -> Printable]
  BY DEF Sanitized
<1>2. n \in Nat
  BY <1>1
<1> QED BY <1>1, <1>2

\* The selection lies within the text.
LEMMA SelectionInText ==
    ASSUME Segmentation, TextInv
    PROVE  /\ text \in Seq(Printable) /\ Len(text) \in Nat
           /\ cursor \in 0..Len(text)
           /\ SelectionStart \in 0..SelectionEnd /\ SelectionEnd \in 0..Len(text)
           /\ SelectionStart \in Boundaries(text) /\ SelectionEnd \in Boundaries(text)
           /\ Selected => SelectionStart < SelectionEnd
<1>1. text \in Seq(Printable) /\ Len(text) \in Nat
  BY DEF TextInv, SingleLine
<1>2. Boundaries(text) \subseteq 0..Len(text)
  BY <1>1, Ends
<1>3. cursor \in Boundaries(text) /\ (Selected => anchor \in Boundaries(text) /\ anchor # cursor)
  BY DEF TextInv, EndpointsOnBoundaries, Selected
<1> QED BY <1>1, <1>2, <1>3 DEF SelectionStart, SelectionEnd

\* replace_range keeps the invariant, and its length is what it says.
LEMMA ReplaceKeeps ==
    ASSUME Segmentation, TextInv, NEW end \in 0..Len(text), NEW start \in 0..end,
           NEW inserted \in Seq(Printable), Replace(start, end, inserted)
    PROVE  TextInv' /\ Len(text') = Len(text) - (end - start) + Len(inserted)
<1>1. /\ text \in Seq(Printable) /\ Len(text) \in Nat /\ Len(inserted) \in Nat
      /\ end \in Nat /\ start \in Nat /\ start <= end /\ end <= Len(text)
  BY DEF TextInv, SingleLine
<1> DEFINE head == SubSeq(text, 1, start)
           tail == SubSeq(text, end + 1, Len(text))
<1>2. head \in Seq(Printable) /\ Len(head) = start
  BY <1>1, SubSeqProperties
<1>3. tail \in Seq(Printable) /\ Len(tail) = Len(text) - end
  BY <1>1, SubSeqProperties
<1> HIDE DEF head, tail
<1>4. head \o inserted \in Seq(Printable) /\ Len(head \o inserted) = start + Len(inserted)
  BY <1>2, ConcatProperties
<1>5. /\ head \o inserted \o tail \in Seq(Printable)
      /\ Len(head \o inserted \o tail) = start + Len(inserted) + Len(text) - end
  <2> DEFINE front == head \o inserted
  <2>1. front \in Seq(Printable) /\ Len(front) = start + Len(inserted)
    BY <1>4
  <2> HIDE DEF front
  <2>2. front \o tail \in Seq(Printable) /\ Len(front \o tail) = Len(front) + Len(tail)
    BY <1>3, <2>1, ConcatProperties
  <2>3. Len(front \o tail) = start + Len(inserted) + Len(text) - end
    BY <1>1, <1>3, <2>1, <2>2
  <2> QED BY <2>2, <2>3 DEF front
<1>6. text' = head \o inserted \o tail
  BY DEF Replace, head, tail
<1>7. cursor' = BoundaryAtOrAfter(text', start + Len(inserted)) /\ anchor' = NoAnchor
  BY <1>6 DEF Replace, head, tail
<1>8. cursor' \in Boundaries(text')
  <2>1. start + Len(inserted) \in Nat /\ text' \in Seq(Printable)
    BY <1>1, <1>5, <1>6
  <2> QED BY <1>7, <2>1, AtOrAfter
<1>9. TextInv'
  BY <1>5, <1>6, <1>7, <1>8 DEF TextInv, EndpointsOnBoundaries, SingleLine, NoAnchor
<1> QED BY <1>1, <1>5, <1>6, <1>9

LEMMA InsertKeeps ==
    ASSUME Segmentation, TextInv, NEW raw \in Seq(Chars), Insert(raw)
    PROVE  TextInv'
<1>1. PICK inserted \in Sanitized(raw) :
        IF inserted = <<>> /\ ~Selected THEN UNCHANGED textVars
        ELSE Replace(SelectionStart, SelectionEnd, inserted)
  BY DEF Insert
<1>2. inserted \in Seq(Printable)
  BY SanitizedIsPrintable
<1>3. CASE UNCHANGED textVars
  BY <1>3 DEF textVars, TextInv, EndpointsOnBoundaries, SingleLine
<1>4. CASE Replace(SelectionStart, SelectionEnd, inserted)
  BY <1>2, <1>4, SelectionInText, ReplaceKeeps
<1> QED BY <1>1, <1>3, <1>4

\* A deletion keeps the invariant and takes away what it says.
LEMMA DeleteRangeKeeps ==
    ASSUME Segmentation, TextInv, NEW end \in 0..Len(text), NEW start \in 0..end, start < end,
           DeleteRange(start, end)
    PROVE  TextInv' /\ Len(text') < Len(text)
<1>1. <<>> \in Seq(Printable) /\ Len(<<>>) = 0
  OBVIOUS
<1>2. TextInv' /\ Len(text') = Len(text) - (end - start) + 0
  BY <1>1, ReplaceKeeps DEF DeleteRange
<1>3. Len(text) \in Nat
  BY SelectionInText
<1> QED BY <1>2, <1>3

LEMMA BackspaceShrinks ==
    ASSUME Segmentation, TextInv, Backspace
    PROVE  TextInv' /\ (Len(text') < Len(text) \/ (cursor = 0 /\ UNCHANGED textVars))
<1>1. CASE Selected
  BY <1>1, SelectionInText, DeleteRangeKeeps DEF Backspace
<1>2. CASE ~Selected
  <2> DEFINE start == BoundaryBefore(text, cursor)
  <2>1. /\ text \in Seq(Printable) /\ cursor \in 0..Len(text) /\ Len(text) \in Nat
        /\ start \in 0..cursor /\ (start = cursor => cursor = 0)
    BY SelectionInText, Before
  <2>2. IF start = cursor THEN UNCHANGED textVars ELSE DeleteRange(start, cursor)
    BY <1>2 DEF Backspace
  <2> HIDE DEF start
  <2>3. CASE start = cursor
    BY <2>1, <2>2, <2>3 DEF textVars, TextInv, EndpointsOnBoundaries, SingleLine
  <2>4. CASE start # cursor
    <3>1. start < cursor /\ DeleteRange(start, cursor)
      BY <2>1, <2>2, <2>4
    <3> QED BY <2>1, <3>1, DeleteRangeKeeps
  <2> QED BY <2>3, <2>4
<1> QED BY <1>1, <1>2

LEMMA DeleteShrinks ==
    ASSUME Segmentation, TextInv, Delete
    PROVE  TextInv' /\ (Len(text') < Len(text) \/ (cursor = Len(text) /\ UNCHANGED textVars))
<1>1. CASE Selected
  BY <1>1, SelectionInText, DeleteRangeKeeps DEF Delete
<1>2. CASE ~Selected
  <2> DEFINE end == BoundaryAfter(text, cursor)
  <2>1. /\ text \in Seq(Printable) /\ cursor \in 0..Len(text) /\ Len(text) \in Nat
        /\ end \in cursor..Len(text) /\ (end = cursor => cursor = Len(text))
    BY SelectionInText, After
  <2>2. IF end = cursor THEN UNCHANGED textVars ELSE DeleteRange(cursor, end)
    BY <1>2 DEF Delete
  <2> HIDE DEF end
  <2>3. CASE end = cursor
    BY <2>1, <2>2, <2>3 DEF textVars, TextInv, EndpointsOnBoundaries, SingleLine
  <2>4. CASE end # cursor
    <3>1. cursor < end /\ DeleteRange(cursor, end) /\ end \in 0..Len(text) /\ cursor \in 0..end
      BY <2>1, <2>2, <2>4
    <3> QED BY <3>1, DeleteRangeKeeps
  <2> QED BY <2>3, <2>4
<1> QED BY <1>1, <1>2

LEMMA CursorMoveKeeps ==
    ASSUME Segmentation, TextInv, NEW movement \in {"Left", "Right", "Home", "End"},
           NEW extend \in BOOLEAN, MoveCursor(movement, extend)
    PROVE  TextInv'
<1>1. text' = text /\ text \in Seq(Printable) /\ cursor \in 0..Len(text)
  BY SelectionInText DEF MoveCursor
<1>2. cursor \in Boundaries(text)
  BY DEF TextInv, EndpointsOnBoundaries
<1>3. cursor' \in Boundaries(text)
  <2>1. BoundaryBefore(text, cursor) \in Boundaries(text)
    BY <1>1, <1>2, Before DEF Boundaries
  <2>2. BoundaryAfter(text, cursor) \in Boundaries(text)
    BY <1>1, After
  <2>3. 0 \in Boundaries(text) /\ Len(text) \in Boundaries(text)
    BY <1>1, Ends
  <2>4. SelectionStart \in Boundaries(text) /\ SelectionEnd \in Boundaries(text)
    BY SelectionInText
  <2> QED BY <2>1, <2>2, <2>3, <2>4 DEF MoveCursor, Destination
<1>4. anchor' # NoAnchor => anchor' \in Boundaries(text)
  BY <1>2 DEF MoveCursor, TextInv, EndpointsOnBoundaries
<1> QED BY <1>1, <1>3, <1>4 DEF TextInv, EndpointsOnBoundaries, SingleLine
--------------------------------------------------------------------------------
LEMMA TextInvHolds ==
    ASSUME Segmentation, Inputs \subseteq Seq(Chars)
    PROVE  TextSpec => []TextInv
<1>1. TextInit => TextInv
  BY SanitizedIsPrintable, Ends DEF TextInit, TextInv, EndpointsOnBoundaries, SingleLine
<1>2. TextInv /\ [TextNext]_textVars => TextInv'
  <2> SUFFICES ASSUME TextInv, [TextNext]_textVars PROVE TextInv'
    OBVIOUS
  <2>1. ASSUME NEW raw \in Inputs, Insert(raw) PROVE TextInv'
    BY <2>1, InsertKeeps
  <2>2. CASE Backspace \/ Delete
    BY <2>2, BackspaceShrinks, DeleteShrinks
  <2>3. CASE SelectAll
    BY <2>3, SelectionInText, Ends DEF SelectAll, TextInv, EndpointsOnBoundaries, SingleLine
  <2>4. ASSUME NEW movement \in {"Left", "Right", "Home", "End"}, NEW extend \in BOOLEAN,
               MoveCursor(movement, extend)
        PROVE  TextInv'
    BY <2>4, CursorMoveKeeps
  <2>5. CASE UNCHANGED textVars
    BY <2>5 DEF textVars, TextInv, EndpointsOnBoundaries, SingleLine
  <2> QED BY <2>1, <2>2, <2>3, <2>4, <2>5 DEF TextNext
<1> QED BY <1>1, <1>2, PTL DEF TextSpec

\* The cursor and the anchor of the selection are grapheme boundaries after any
\* edits of any texts, whatever graphemes an edit joins (TextBuffer::apply; the
\* assertions of the fuzz target text_edit_sequences).
THEOREM CursorStaysOnBoundary ==
    ASSUME Segmentation, Inputs \subseteq Seq(Chars)
    PROVE  TextSpec => []EndpointsOnBoundaries
<1>1. TextInv => EndpointsOnBoundaries
  BY DEF TextInv
<1> QED BY <1>1, TextInvHolds, PTL

\* No control character and no line break gets into the buffer
\* (sanitize_single_line).
THEOREM TextIsSingleLine ==
    ASSUME Segmentation, Inputs \subseteq Seq(Chars)
    PROVE  TextSpec => []SingleLine
<1>1. TextInv => SingleLine
  BY DEF TextInv
<1> QED BY <1>1, TextInvHolds, PTL

\* Backspace and Delete make the text shorter, or there is nothing to delete and
\* they change nothing.
THEOREM DeletionsDelete ==
    ASSUME Segmentation, Inputs \subseteq Seq(Chars)
    PROVE  TextSpec => DeletionsShrink
<1>1. TextInv /\ [TextNext]_textVars =>
        [/\ Backspace => Len(text') < Len(text) \/ (cursor = 0 /\ UNCHANGED textVars)
         /\ Delete => Len(text') < Len(text) \/ (cursor = Len(text) /\ UNCHANGED textVars)]_textVars
  BY BackspaceShrinks, DeleteShrinks
<1> QED BY <1>1, TextInvHolds, PTL DEF TextSpec, DeletionsShrink

--------------------------------------------------------------------------------
(* Iteration.  A step that keeps to a set is a function on it, and has one run. *)
LEMMA Induction ==
    ASSUME NEW n \in Nat, NEW S, 0 \in S, \A m \in 0 .. n - 1 : m \in S => m + 1 \in S
    PROVE  \A m \in 0..n : m \in S
<1> DEFINE Rest == (0..n) \ S
<1> SUFFICES ASSUME Rest # {} PROVE FALSE
  OBVIOUS
<1>0. Rest \subseteq Nat
  OBVIOUS
<1>1. PICK m \in Rest : \A y \in Rest : m <= y
  <2> HIDE DEF Rest
  <2> QED BY <1>0, LeastExists
<1>2. m # 0 /\ m - 1 \in 0 .. n - 1 /\ m - 1 \notin Rest
  BY <1>1
<1>3. (m - 1) + 1 \in S
  BY <1>2
<1> QED BY <1>1, <1>3

Walk(r, n, c, F, X) ==
    r \in [0..n -> X] /\ r[0] = c /\ \A m \in 1..n : r[m] = F[m][r[m - 1]]

LEMMA WalkExists ==
    ASSUME NEW n \in Nat, NEW X, NEW c \in X, NEW F, \A m \in 1..n, d \in X : F[m][d] \in X
    PROVE  \E r : Walk(r, n, c, F, X)
<1> DEFINE S == {k \in 0..n : \E r : Walk(r, k, c, F, X)}
<1>1. 0 \in S
  <2> DEFINE r == [m \in 0..0 |-> c]
  <2>1. Walk(r, 0, c, F, X)
    BY DEF Walk
  <2> HIDE DEF r
  <2> QED BY <2>1
<1>2. ASSUME NEW m \in 0 .. n - 1, m \in S PROVE m + 1 \in S
  <2>1. PICK r : Walk(r, m, c, F, X)
    BY <1>2
  <2> DEFINE e == F[m + 1][r[m]]
             q == [k \in 0 .. m + 1 |-> IF k = m + 1 THEN e ELSE r[k]]
  <2>2. e \in X
    BY <2>1 DEF Walk
  <2> HIDE DEF e
  <2>3. q \in [0 .. m + 1 -> X] /\ q[0] = c
    BY <2>1, <2>2 DEF Walk
  <2>4. q[m + 1] = e /\ \A k \in 0..m : q[k] = r[k]
    OBVIOUS
  <2> HIDE DEF q
  <2>5. ASSUME NEW k \in 1..m + 1 PROVE q[k] = F[k][q[k - 1]]
    <3>1. CASE k = m + 1
      BY <2>4, <3>1 DEF e
    <3>2. CASE k \in 1..m
      <4>1. q[k] = r[k] /\ q[k - 1] = r[k - 1]
        BY <2>4, <3>2
      <4> QED BY <2>1, <3>2, <4>1 DEF Walk
    <3> QED BY <3>1, <3>2
  <2>6. Walk(q, m + 1, c, F, X)
    BY <2>3, <2>5 DEF Walk
  <2> QED BY <1>2, <2>6
<1>3. \A m \in 0..n : m \in S
  <2> HIDE DEF S
  <2> QED BY <1>1, <1>2, Induction
<1> QED BY <1>3

\* It has only one.
LEMMA WalkOnly ==
    ASSUME NEW n \in Nat, NEW X, NEW c, NEW F, NEW r, Walk(r, n, c, F, X),
           NEW g, g[0] = c, \A m \in 1..n : g[m - 1] \in X => g[m] = F[m][g[m - 1]]
    PROVE  \A m \in 0..n : g[m] = r[m]
<1> DEFINE S == {m \in 0..n : g[m] = r[m]}
<1>1. 0 \in S
  BY DEF Walk
<1>2. ASSUME NEW m \in 0 .. n - 1, m \in S PROVE m + 1 \in S
  <2>1. m + 1 \in 1..n /\ (m + 1) - 1 = m /\ m \in 0..n
    OBVIOUS
  <2>2. r[m + 1] = F[m + 1][r[m]] /\ r[m] \in X
    BY <2>1 DEF Walk
  <2>3. g[m + 1] = F[m + 1][g[m]]
    BY <1>2, <2>1, <2>2
  <2> QED BY <1>2, <2>1, <2>2, <2>3
<1>3. \A m \in 0..n : m \in S
  <2> HIDE DEF S
  <2> QED BY <1>1, <1>2, Induction
<1> QED BY <1>3

PickStep(d, m, scene, indices) ==
    IF m \in indices THEN Append(d, scene[m]) ELSE d

PickRun(g, n, X, scene, indices) ==
    /\ g \in [0..n -> X] /\ g[0] = <<>>
    /\ \A m \in 1..n : g[m] = PickStep(g[m - 1], m, scene, indices)
    /\ Pick(scene, indices) = g[n]

LEMMA PickWalks ==
    ASSUME NEW scene, NEW indices,
           NEW n \in Nat, n = Len(scene), NEW X, <<>> \in X,
           \A m \in 1..n, d \in X : PickStep(d, m, scene, indices) \in X
    PROVE  \E g : PickRun(g, n, X, scene, indices)
<1> DEFINE start == <<>>
           F == [m \in 1..n |-> [d \in X |-> PickStep(d, m, scene, indices)]]
           Run(g) == g = [m \in 0..n |-> IF m = 0 THEN start ELSE PickStep(g[m - 1], m, scene, indices)]
<1>1. \A m \in 1..n, d \in X : F[m][d] = PickStep(d, m, scene, indices)
  OBVIOUS
<1> HIDE DEF F
<1>0. start \in X
  OBVIOUS
<1> HIDE DEF start
<1>2. PICK r : Walk(r, n, start, F, X)
  <2>1. \A m \in 1..n, d \in X : F[m][d] \in X
    BY <1>1
  <2> QED BY <1>0, <2>1, WalkExists
<1>3. Run(r)
  BY <1>1, <1>2 DEF Walk
<1>4. PICK g : Run(g) /\ Pick(scene, indices) = g[n]
  BY <1>3 DEF start, Pick, Iterate, PickStep
<1>5. \A m \in 0..n : g[m] = IF m = 0 THEN start ELSE PickStep(g[m - 1], m, scene, indices)
  BY <1>4, Zenon
<1> HIDE DEF Run
<1>6. g[0] = start /\ \A m \in 1..n : g[m] = PickStep(g[m - 1], m, scene, indices)
  BY <1>5
<1>7. \A m \in 0..n : g[m] = r[m]
  <2>1. \A m \in 1..n : g[m - 1] \in X => g[m] = F[m][g[m - 1]]
    BY <1>1, <1>6
  <2> QED BY <1>2, <1>6, <2>1, WalkOnly, SMTT(30)
<1>8. \A m \in 0..n : g[m] \in X
  BY <1>2, <1>7 DEF Walk
<1>9. g \in [0..n -> X]
  BY <1>4, <1>8 DEF Run
<1> QED BY <1>4, <1>6, <1>9 DEF start, PickRun

\* Reach is the least closed set.
LEMMA ReachIs ==
    ASSUME NEW to, NEW from, from \subseteq DOMAIN to, \A x \in DOMAIN to : to[x] \subseteq DOMAIN to
    PROVE  /\ Reach(to, from) \subseteq DOMAIN to
           /\ from \subseteq Reach(to, from)
           /\ \A x \in Reach(to, from) : to[x] \subseteq Reach(to, from)
           /\ \A S \in SUBSET DOMAIN to :
                 from \subseteq S /\ (\A x \in S : to[x] \subseteq S) => Reach(to, from) \subseteq S
<1> DEFINE D == DOMAIN to
           R == Reach(to, from)
<1>1. \A x : x \in R <=> x \in D /\ \A S \in SUBSET (D \ {x}) :
                                       from \subseteq S => \E y \in S : ~(to[y] \subseteq S)
  BY DEF Reach
<1> HIDE DEF R
<1>2. R \subseteq D /\ from \subseteq R
  BY <1>1
<1>3. ASSUME NEW S \in SUBSET D, from \subseteq S, \A x \in S : to[x] \subseteq S PROVE R \subseteq S
  <2> SUFFICES ASSUME NEW x \in R, x \notin S PROVE FALSE
    OBVIOUS
  <2>1. S \in SUBSET (D \ {x})
    OBVIOUS
  <2> QED BY <1>1, <1>3, <2>1
<1>4. ASSUME NEW x \in R, NEW y \in to[x], y \notin R PROVE FALSE
  <2>1. y \in D
    BY <1>2, <1>4
  <2>2. PICK S \in SUBSET (D \ {y}) : from \subseteq S /\ \A z \in S : to[z] \subseteq S
    BY <1>1, <1>4, <2>1
  <2>3. x \in S
    BY <1>3, <2>2
  <2> QED BY <1>4, <2>2, <2>3
<1> QED BY <1>2, <1>3, <1>4 DEF R

\* Lists of children of some nodes, with no child in two of them.
Forest(kids) ==
    /\ kids = [x \in DOMAIN kids |-> kids[x]]
    /\ \A x \in DOMAIN kids : Range(kids[x]) \subseteq DOMAIN kids
    /\ \A x, y \in DOMAIN kids : Range(kids[x]) \cap Range(kids[y]) # {} => x = y

LEMMA BelowIs ==
    ASSUME NEW kids, Forest(kids), NEW id \in DOMAIN kids
    PROVE  /\ Below(kids, id) \subseteq DOMAIN kids
           /\ id \in Below(kids, id)
           /\ \A x \in Below(kids, id) : Range(kids[x]) \subseteq Below(kids, id)
<1> DEFINE to == [x \in DOMAIN kids |-> Range(kids[x])]
<1>1. DOMAIN to = DOMAIN kids /\ \A x \in DOMAIN kids : to[x] = Range(kids[x])
  OBVIOUS
<1>2. Below(kids, id) = Reach(to, {id})
  BY DEF Below
<1>3. \A x \in DOMAIN to : to[x] \subseteq DOMAIN to
  BY <1>1 DEF Forest
<1> HIDE DEF to
<1>4. /\ Reach(to, {id}) \subseteq DOMAIN to
      /\ {id} \subseteq Reach(to, {id})
      /\ \A x \in Reach(to, {id}) : to[x] \subseteq Reach(to, {id})
      /\ \A S \in SUBSET DOMAIN to :
            {id} \subseteq S /\ (\A x \in S : to[x] \subseteq S) => Reach(to, {id}) \subseteq S
  BY <1>1, <1>3, ReachIs
<1>5. ASSUME NEW x \in Below(kids, id) PROVE Range(kids[x]) \subseteq Below(kids, id)
  <2>1. x \in DOMAIN kids
    BY <1>1, <1>2, <1>4
  <2> QED BY <1>1, <1>2, <1>4, <2>1
<1> QED BY <1>1, <1>2, <1>4, <1>5

LEMMA BelowLeast ==
    ASSUME NEW kids, Forest(kids), NEW id \in DOMAIN kids,
           NEW S \in SUBSET DOMAIN kids, id \in S, \A x \in S : Range(kids[x]) \subseteq S
    PROVE  Below(kids, id) \subseteq S
<1> DEFINE to == [x \in DOMAIN kids |-> Range(kids[x])]
<1>1. DOMAIN to = DOMAIN kids /\ \A x \in DOMAIN kids : to[x] = Range(kids[x])
  OBVIOUS
<1>2. Below(kids, id) = Reach(to, {id})
  BY DEF Below
<1>3. \A x \in DOMAIN to : to[x] \subseteq DOMAIN to
  BY <1>1 DEF Forest
<1> HIDE DEF to
<1>4. {id} \subseteq S /\ \A x \in S : to[x] \subseteq S
  BY <1>1
<1> QED BY <1>1, <1>2, <1>3, <1>4, ReachIs

LEMMA BelowBelow ==
    ASSUME NEW kids, Forest(kids), NEW id \in DOMAIN kids, NEW x \in Below(kids, id)
    PROVE  Below(kids, x) \subseteq Below(kids, id)
<1>1. x \in DOMAIN kids
  BY BelowIs
<1>2. Below(kids, id) \in SUBSET DOMAIN kids
      /\ \A y \in Below(kids, id) : Range(kids[y]) \subseteq Below(kids, id)
  BY BelowIs
<1> QED BY <1>1, <1>2, BelowLeast

\* What is below a node is the node itself, or below one of its children.
LEMMA BelowChild ==
    ASSUME NEW kids, Forest(kids), NEW id \in DOMAIN kids, NEW x \in Below(kids, id), x # id
    PROVE  \E k \in Range(kids[id]) : x \in Below(kids, k)
<1> DEFINE S == {id} \cup UNION {Below(kids, k) : k \in Range(kids[id])}
<1>1. Range(kids[id]) \subseteq DOMAIN kids
  BY DEF Forest
<1>2. \A k \in Range(kids[id]) :
         /\ Below(kids, k) \subseteq DOMAIN kids /\ k \in Below(kids, k)
         /\ \A y \in Below(kids, k) : Range(kids[y]) \subseteq Below(kids, k)
  BY <1>1, BelowIs
<1>3. S \in SUBSET DOMAIN kids /\ id \in S
  BY <1>2
<1>4. \A y \in S : Range(kids[y]) \subseteq S
  BY <1>2
<1> HIDE DEF S
<1>5. Below(kids, id) \subseteq S
  BY <1>3, <1>4, BelowLeast
<1> USE DEF S
<1> QED BY <1>5

\* And it is the node itself, or a child of something below it.
LEMMA BelowParent ==
    ASSUME NEW kids, Forest(kids), NEW id \in DOMAIN kids, NEW x \in Below(kids, id), x # id
    PROVE  \E p \in Below(kids, id) : x \in Range(kids[p])
<1> SUFFICES ASSUME \A p \in Below(kids, id) : x \notin Range(kids[p]) PROVE FALSE
  OBVIOUS
<1> DEFINE S == Below(kids, id) \ {x}
<1>1. S \in SUBSET DOMAIN kids /\ id \in S
  BY BelowIs
<1>2. \A y \in S : Range(kids[y]) \subseteq S
  BY BelowIs
<1> HIDE DEF S
<1>3. Below(kids, id) \subseteq S
  BY <1>1, <1>2, BelowLeast
<1> USE DEF S
<1> QED BY <1>3

\* Two nodes above a third are above one another.
LEMMA AboveIsChain ==
    ASSUME NEW kids, Forest(kids), NEW a \in DOMAIN kids, NEW b \in DOMAIN kids,
           NEW x \in Below(kids, a) \cap Below(kids, b)
    PROVE  a \in Below(kids, b) \/ b \in Below(kids, a)
<1> SUFFICES ASSUME a \notin Below(kids, b), b \notin Below(kids, a) PROVE FALSE
  OBVIOUS
<1> DEFINE S == Below(kids, a) \ Below(kids, b)
<1>1. S \in SUBSET DOMAIN kids /\ a \in S
  BY BelowIs
<1>2. ASSUME NEW y \in S, NEW k \in Range(kids[y]), k \notin S PROVE FALSE
  <2>1. k \in Below(kids, b)
    BY <1>2, BelowIs
  <2>2. k \in Below(kids, a) /\ k # b
    BY <1>2, BelowIs
  <2>3. PICK p \in Below(kids, b) : k \in Range(kids[p])
    BY <2>1, <2>2, BelowParent
  <2>4. p \in DOMAIN kids /\ y \in DOMAIN kids
    BY <1>1, BelowIs
  <2>5. p = y
    BY <1>2, <2>3, <2>4 DEF Forest
  <2> QED BY <2>3, <2>5
<1> HIDE DEF S
<1>3. Below(kids, a) \subseteq S
  BY <1>1, <1>2, BelowLeast
<1> USE DEF S
<1> QED BY <1>3

\* Above is the converse of Below.
LEMMA AboveIs ==
    ASSUME NEW kids, Forest(kids), NEW ids \in SUBSET DOMAIN kids
    PROVE  /\ Above(kids, ids) \subseteq DOMAIN kids
           /\ \A x \in DOMAIN kids : x \in Above(kids, ids) <=> Below(kids, x) \cap ids # {}
<1> DEFINE D == DOMAIN kids
           to == [x \in D |-> {p \in D : x \in Range(kids[p])}]
           R == Above(kids, ids)
<1>1. DOMAIN to = D /\ \A x \in D : to[x] \subseteq D
  OBVIOUS
<1>2. \A x, p \in D : p \in to[x] <=> x \in Range(kids[p])
  OBVIOUS
<1>3. R = Reach(to, ids)
  BY DEF Above
<1> HIDE DEF to, R
<1>4. /\ R \subseteq D /\ ids \subseteq R
      /\ \A x \in R : to[x] \subseteq R
      /\ \A S \in SUBSET D :
            ids \subseteq S /\ (\A x \in S : to[x] \subseteq S) => R \subseteq S
  BY <1>1, <1>3, ReachIs
<1>5. ASSUME NEW x \in D, Below(kids, x) \cap ids # {} PROVE x \in R
  <2> DEFINE T == D \ R
  <2> SUFFICES ASSUME x \in T PROVE FALSE
    OBVIOUS
  <2>1. T \in SUBSET D
    OBVIOUS
  <2>2. ASSUME NEW y \in T, NEW k \in Range(kids[y]), k \notin T PROVE FALSE
    <3>1. k \in D /\ k \in R
      BY <2>2 DEF Forest
    <3>2. y \in to[k]
      BY <1>2, <2>2, <3>1
    <3> QED BY <1>4, <2>2, <3>1, <3>2
  <2> HIDE DEF T
  <2>3. Below(kids, x) \subseteq T
    BY <2>1, <2>2, BelowLeast
  <2> USE DEF T
  <2> QED BY <1>4, <1>5, <2>3
<1>6. ASSUME NEW x \in R PROVE Below(kids, x) \cap ids # {}
  <2> DEFINE S == {y \in D : Below(kids, y) \cap ids # {}}
  <2>1. S \in SUBSET D /\ ids \subseteq S
    BY BelowIs
  <2>2. ASSUME NEW y \in S, NEW p \in to[y] PROVE p \in S
    <3>1. p \in D /\ y \in Range(kids[p])
      BY <1>1, <1>2, <2>2
    <3>2. y \in Below(kids, p)
      BY <3>1, BelowIs
    <3>3. Below(kids, y) \subseteq Below(kids, p)
      BY <3>1, <3>2, BelowBelow
    <3> QED BY <2>2, <3>1, <3>3
  <2>3. R \subseteq S
    BY <1>4, <2>1, <2>2
  <2> QED BY <2>3
<1> QED BY <1>4, <1>5, <1>6 DEF R

\* A list of children without some of them.
LEMMA WithoutIs ==
    ASSUME NEW S, NEW ids \in Seq(S), IsInjective(ids), NEW gone
    PROVE  /\ Without(ids, gone) \in Seq(S) /\ IsInjective(Without(ids, gone))
           /\ Range(Without(ids, gone)) = Range(ids) \ gone
           /\ Range(ids) \cap gone = {} => Without(ids, gone) = ids
<1> DEFINE n == Len(ids)
           I == {k \in 1..n : ids[k] \notin gone}
           X == Seq(S)
           Stays(m) == {ids[k] : k \in I \cap 1..m}
<1>0. n \in Nat /\ n = Len(ids) /\ <<>> \in X
  OBVIOUS
<1>1. ASSUME NEW m \in 1..n, NEW d \in X PROVE PickStep(d, m, ids, I) \in X
  <2>1. ids[m] \in S
    BY <1>1, Element
  <2> QED BY <1>1, <2>1 DEF PickStep
<1>2. PICK g : PickRun(g, n, X, ids, I)
  <2> HIDE DEF I, n, X
  <2> QED BY <1>0, <1>1, PickWalks
<1> DEFINE Good(m) == /\ IsInjective(g[m]) /\ Range(g[m]) = Stays(m)
                      /\ (1..m \subseteq I => g[m] = SubSeq(ids, 1, m))
           G == {m \in 0..n : Good(m)}
<1>3. 0 \in G
  <2>1. g[0] = <<>> /\ 1..0 = {}
    BY <1>2 DEF PickRun
  <2>2. Stays(0) = {}
    BY <2>1
  <2>3. IsInjective(<<>>) /\ Range(<<>>) = {}
    BY DEF IsInjective, Range
  <2>4. SubSeq(ids, 1, 0) = <<>>
    OBVIOUS
  <2> HIDE DEF Stays, I, n
  <2>5. Good(0)
    BY <2>1, <2>2, <2>3, <2>4
  <2> HIDE DEF Good
  <2> QED BY <1>0, <2>5
<1>4. ASSUME NEW m \in 0 .. n - 1, m \in G PROVE m + 1 \in G
  <2>1. g[m] \in Seq(S) /\ g[m + 1] = PickStep(g[m], m + 1, ids, I) /\ m + 1 \in 1..n
    <3>1. m + 1 \in 1..n /\ (m + 1) - 1 = m /\ m \in 0..n
      OBVIOUS
    <3> QED BY <1>2, <3>1 DEF PickRun
  <2>2. 1..m + 1 = 1..m \cup {m + 1} /\ m + 1 \notin 1..m
    OBVIOUS
  <2> HIDE DEF n
  <2>3. CASE m + 1 \notin I
    <3>1. g[m + 1] = g[m]
      BY <2>1, <2>3 DEF PickStep
    <3>2. Stays(m + 1) = Stays(m)
      BY <2>2, <2>3
    <3>3. ~(1..m + 1 \subseteq I)
      BY <2>2, <2>3
    <3> HIDE DEF Stays, I
    <3> QED BY <1>4, <2>1, <3>1, <3>2, <3>3
  <2>4. CASE m + 1 \in I
    <3> DEFINE d == g[m]
               e == ids[m + 1]
    <3>1. g[m + 1] = Append(d, e) /\ e \in S
      BY <2>1, <2>4, Element DEF PickStep, n
    <3>2. Stays(m + 1) = Stays(m) \cup {e}
      BY <2>2, <2>4
    <3>3. e \notin Stays(m)
      <4> SUFFICES ASSUME NEW k \in 1..m, ids[k] = ids[m + 1] PROVE FALSE
        OBVIOUS
      <4>1. k \in DOMAIN ids /\ m + 1 \in DOMAIN ids /\ k # m + 1
        BY <2>1 DEF n
      <4> QED BY <4>1 DEF IsInjective
    <3>4. IsInjective(d) /\ Range(d) = Stays(m) /\ d \in Seq(S)
      BY <1>4, <2>1
    <3>5. (1..m + 1 \subseteq I) => d = SubSeq(ids, 1, m)
      BY <1>4, <2>2
    <3> HIDE DEF Stays, I, d, e
    <3> DEFINE f == Append(d, e)
    <3>6. /\ Len(d) \in Nat /\ DOMAIN d = 1..Len(d) /\ DOMAIN f = 1..Len(d) + 1
          /\ \A k \in 1..Len(d) : f[k] = d[k]
          /\ f[Len(d) + 1] = e
      BY <3>1, <3>4
    <3> HIDE DEF f
    <3>7. Range(f) = Range(d) \cup {e}
      BY <3>6 DEF Range
    <3>8. IsInjective(f)
      <4> SUFFICES ASSUME NEW a \in 1..Len(d) + 1, NEW b \in 1..Len(d) + 1, f[a] = f[b] PROVE a = b
        BY <3>6 DEF IsInjective
      <4>1. \A k \in 1..Len(d) : d[k] # e
        BY <3>3, <3>4, <3>6 DEF Range
      <4>2. CASE a \in 1..Len(d) /\ b \in 1..Len(d)
        BY <3>4, <3>6, <4>2 DEF IsInjective
      <4>3. CASE a = Len(d) + 1 \/ b = Len(d) + 1
        BY <3>6, <4>1, <4>3
      <4> QED BY <3>6, <4>2, <4>3
    <3>9. (1..m + 1 \subseteq I) => f = SubSeq(ids, 1, m + 1)
      <4> SUFFICES ASSUME d = SubSeq(ids, 1, m) PROVE f = SubSeq(ids, 1, m + 1)
        BY <3>5
      <4>1. m \in Nat /\ m + 1 <= Len(ids)
        BY <2>1 DEF n
      <4> QED BY <4>1 DEF f, e
    <3>10. g[m + 1] = f
      BY <3>1 DEF f
    <3>11. Good(m + 1)
      BY <3>2, <3>4, <3>7, <3>8, <3>9, <3>10
    <3> HIDE DEF Good
    <3> QED BY <1>0, <2>1, <3>11
  <2> QED BY <2>3, <2>4
<1>5. n \in G
  <2>1. \A m \in 0..n : m \in G
    <3> HIDE DEF G, n
    <3> QED BY <1>0, <1>3, <1>4, Induction
  <2> HIDE DEF G
  <2> QED BY <1>0, <2>1
<1>6. Without(ids, gone) = g[n] /\ g[n] \in Seq(S)
  BY <1>0, <1>2 DEF Without, PickRun
<1>7. Stays(n) = Range(ids) \ gone
  BY DEF Range
<1>8. Range(ids) \cap gone = {} => 1..n \subseteq I
  BY DEF Range
<1>9. SubSeq(ids, 1, n) = ids
  OBVIOUS
<1> HIDE DEF Stays, I, n
<1> QED BY <1>5, <1>6, <1>7, <1>8, <1>9

--------------------------------------------------------------------------------
(* The layout tree: its nodes.                                             *)
NodesOK(s) == StoreOK(LayoutNodes, s) /\ Len(s.node) <= MaxSlots

LEMMA LiveNode ==
    ASSUME NEW s, NodesOK(s), NEW id \in Live(s)
    PROVE  /\ id \in NodeIds /\ id # NoId /\ NodeAt(s, id) \in LayoutNodes
           /\ \E i \in 1..Len(s.node) : id = <<i, s.generation[i]>> /\ NodeAt(s, id) = s.node[i]
<1>1. StoreOK(LayoutNodes, s)
  BY DEF NodesOK
<1>2. PICK i \in 1..Len(s.node) : id = <<i, s.generation[i]>> /\ s.node[i] # NoNode
  BY <1>1, LiveIds
<1>3. /\ s.generation \in Seq(0..MaxGeneration) /\ i \in 1..Len(s.generation)
      /\ s.node \in Seq(LayoutNodes \cup {NoNode})
  BY <1>1 DEF StoreOK, Stores
<1>4. s.generation[i] \in 0..MaxGeneration /\ s.node[i] \in LayoutNodes \cup {NoNode}
  BY <1>3, Element
<1>5. NodeAt(s, id) = s.node[i]
  BY <1>2 DEF NodeAt
<1>6. id \in NodeIds
  <2>1. Len(s.node) <= MaxSlots /\ MaxSlots \in Nat /\ Len(s.node) \in Nat
    BY <1>3, LayoutAssumption DEF NodesOK
  <2> QED BY <1>2, <1>4, <2>1 DEF NodeIds
<1>7. id # NoId
  BY <1>6 DEF NodeIds, NoId
<1> QED BY <1>2, <1>4, <1>5, <1>6, <1>7

\* No two ids in use share a slot.
LEMMA OnePerSlot ==
    ASSUME NEW s, NodesOK(s), NEW x \in Live(s), NEW y \in Live(s), x[1] = y[1]
    PROVE  x = y
<1>1. PICK i \in 1..Len(s.node) : x = <<i, s.generation[i]>>
  BY LiveNode
<1>2. PICK j \in 1..Len(s.node) : y = <<j, s.generation[j]>>
  BY LiveNode
<1> QED BY <1>1, <1>2

LEMMA NodeParts ==
    ASSUME NEW s, NodesOK(s), NEW id \in Live(s)
    PROVE  /\ NodeAt(s, id).children \in Seq(NodeIds)
           /\ NodeAt(s, id).style \in Styles /\ NodeAt(s, id).text \in Texts
BY LiveNode DEF LayoutNodes

LEMMA InsertIs ==
    ASSUME NEW s, NodesOK(s), s.free # <<>> \/ Len(s.node) < MaxSlots, NEW node \in LayoutNodes
    PROVE  LET new == InsertNode(s, node) IN
           /\ NodesOK(new) /\ NextId(s) \in NodeIds \ Live(s)
           /\ Live(new) = Live(s) \cup {NextId(s)}
           /\ NodeAt(new, NextId(s)) = node
           /\ \A id \in Live(s) : NodeAt(new, id) = NodeAt(s, id)
           /\ \A id : Gone(s, id) => Gone(new, id) /\ id # NextId(s)
           /\ Len(new.node) = IF NextId(s)[1] > Len(s.node) THEN Len(s.node) + 1 ELSE Len(s.node)
           /\ NextId(s)[1] \in 1..Len(s.node) + 1
<1> DEFINE new == InsertNode(s, node)
           next == NextId(s)
<1>0. StoreOK(LayoutNodes, s) /\ node \in LayoutNodes \ {NoNode}
  BY LayoutAssumption DEF NodesOK
<1>1. StoreOK(LayoutNodes, new) /\ \A id : Gone(s, id) => Gone(new, id)
  BY <1>0, StoreInsertKeeps
<1>2. \A id : Gone(s, id) \/ id \in Live(s) => id # next
  BY <1>0, InsertedIdIsNew
<1>3. \E i \in 1..Len(new.node) :
         /\ next = <<i, new.generation[i]>> /\ new.node[i] = node /\ i \in 1..Len(s.node) + 1
         /\ \A j \in 1..Len(s.node) : j # i => new.node[j] = s.node[j]
         /\ \A j \in 1..Len(s.node) : new.generation[j] = s.generation[j]
         /\ i \in 1..Len(s.node) => s.node[i] = NoNode
         /\ Len(new.node) = IF i > Len(s.node) THEN Len(s.node) + 1 ELSE Len(s.node)
         /\ Len(new.node) <= MaxSlots
  <2>1. CASE s.free = <<>>
    <3>1. next = <<Len(s.node) + 1, 0>>
      BY <2>1 DEF NextId
    <3>2. new.generation = Append(s.generation, 0) /\ new.node = Append(s.node, node)
      BY <2>1 DEF InsertNode
    <3>3. Len(s.generation) = Len(s.node) /\ Len(s.node) \in Nat
      BY <1>0 DEF StoreOK, Stores
    <3> DEFINE n == Len(s.node)
    <3>4. n \in Nat /\ n + 1 <= MaxSlots
      BY <2>1, <3>3, LayoutAssumption DEF NodesOK
    <3>5. /\ Len(new.node) = n + 1 /\ new.node[n + 1] = node
          /\ \A j \in 1..n : new.node[j] = s.node[j]
      BY <1>0, <3>2 DEF StoreOK, Stores
    <3>6. new.generation[n + 1] = 0 /\ \A j \in 1..n : new.generation[j] = s.generation[j]
      BY <1>0, <3>2, <3>3, GenerationAssumption DEF StoreOK, Stores
    <3> HIDE DEF n, new, next
    <3>7. n = Len(s.node)
      BY DEF n
    <3> WITNESS n + 1 \in 1..Len(new.node)
    <3> QED BY <3>1, <3>4, <3>5, <3>6, <3>7
  <2>2. CASE s.free # <<>>
    <3> DEFINE i == s.free[Len(s.free)]
    <3>1. Len(s.free) \in 1..Len(s.free) /\ i \in 1..Len(s.node) /\ s.node[i] = NoNode
      BY <1>0, <2>2 DEF StoreOK, Stores, FreeOK
    <3>2. next = <<i, s.generation[i]>>
      BY <2>2 DEF NextId, IdAt
    <3>3. new.generation = s.generation /\ new.node = [s.node EXCEPT ![i] = node]
      BY <1>0, <2>2 DEF InsertNode, StoreOK, Stores
    <3> HIDE DEF i
    <3>4. /\ Len(new.node) = Len(s.node) /\ new.node[i] = node
          /\ \A j \in 1..Len(s.node) : j # i => new.node[j] = s.node[j]
      BY <1>0, <3>1, <3>3 DEF StoreOK, Stores
    <3>5. Len(s.node) \in Nat /\ Len(s.node) <= MaxSlots
      BY <1>0 DEF NodesOK, StoreOK, Stores
    <3> HIDE DEF new, next
    <3> QED BY <3>1, <3>2, <3>3, <3>4, <3>5
  <2> QED BY <2>1, <2>2
<1> HIDE DEF new, next
<1>4. PICK i \in 1..Len(new.node) :
         /\ next = <<i, new.generation[i]>> /\ new.node[i] = node /\ i \in 1..Len(s.node) + 1
         /\ \A j \in 1..Len(s.node) : j # i => new.node[j] = s.node[j]
         /\ \A j \in 1..Len(s.node) : new.generation[j] = s.generation[j]
         /\ i \in 1..Len(s.node) => s.node[i] = NoNode
         /\ Len(new.node) = IF i > Len(s.node) THEN Len(s.node) + 1 ELSE Len(s.node)
         /\ Len(new.node) <= MaxSlots
  BY <1>3
<1>5. NodesOK(new)
  BY <1>1, <1>4 DEF NodesOK
<1>6. next[1] = i /\ Len(s.node) \in Nat
  BY <1>0, <1>4 DEF StoreOK, Stores
<1>7. next \in Live(new) /\ NodeAt(new, next) = node
  BY <1>0, <1>1, <1>4, <1>6, LiveIds DEF NodeAt
<1>8. ASSUME NEW id \in Live(s) PROVE id \in Live(new) /\ NodeAt(new, id) = NodeAt(s, id)
  <2>1. PICK j \in 1..Len(s.node) : id = <<j, s.generation[j]>> /\ s.node[j] # NoNode
    BY <1>0, LiveIds
  <2>2. j # i /\ j \in 1..Len(new.node) /\ id[1] = j
    BY <1>4, <1>6, <2>1
  <2>3. new.node[j] = s.node[j] /\ new.generation[j] = s.generation[j]
    BY <1>4, <2>2
  <2> QED BY <1>1, <2>1, <2>2, <2>3, LiveIds DEF NodeAt
<1>9. ASSUME NEW id \in Live(new), id # next PROVE id \in Live(s)
  <2>1. PICK j \in 1..Len(new.node) : id = <<j, new.generation[j]>> /\ new.node[j] # NoNode
    BY <1>1, LiveIds
  <2>2. j # i
    BY <1>4, <1>9, <2>1
  <2>3. j \in 1..Len(s.node)
    BY <1>4, <1>6, <2>1, <2>2
  <2>4. new.node[j] = s.node[j] /\ new.generation[j] = s.generation[j]
    BY <1>4, <2>2, <2>3
  <2> QED BY <1>0, <2>1, <2>3, <2>4, LiveIds
<1>10. next \in NodeIds
  BY <1>5, <1>7, LiveNode
<1>11. Live(new) = Live(s) \cup {next} /\ next \notin Live(s)
  BY <1>2, <1>7, <1>8, <1>9
<1> QED BY <1>1, <1>2, <1>4, <1>5, <1>6, <1>7, <1>8, <1>10, <1>11 DEF new, next

LEMMA RemoveIs ==
    ASSUME NEW s, NodesOK(s), NEW id \in Live(s)
    PROVE  LET new == RemoveId(s, id) IN
           /\ NodesOK(new) /\ Live(new) = Live(s) \ {id}
           /\ \A x \in Live(new) : NodeAt(new, x) = NodeAt(s, x)
           /\ Gone(new, id) /\ \A old : Gone(s, old) => Gone(new, old)
           /\ Len(new.node) = Len(s.node)
<1> DEFINE new == RemoveId(s, id)
<1>0. StoreOK(LayoutNodes, s)
  BY DEF NodesOK
<1>1. StoreOK(LayoutNodes, new) /\ Gone(new, id) /\ \A old : Gone(s, old) => Gone(new, old)
  BY <1>0, RemovingKeeps
<1>2. PICK i \in 1..Len(s.node) : id = <<i, s.generation[i]>> /\ s.node[i] # NoNode
  BY <1>0, LiveIds
<1>3. id[1] = i
  BY <1>2
<1>4. /\ new.node = [s.node EXCEPT ![i] = NoNode]
      /\ \A j \in 1..Len(s.generation) : j # i => new.generation[j] = s.generation[j]
  BY <1>0, <1>2, <1>3 DEF RemoveId, StoreOK, Stores
<1>5. /\ Len(new.node) = Len(s.node) /\ Len(s.generation) = Len(s.node)
      /\ \A j \in 1..Len(s.node) : new.node[j] = IF j = i THEN NoNode ELSE s.node[j]
  BY <1>0, <1>4 DEF StoreOK, Stores
<1> HIDE DEF new
<1>6. NodesOK(new)
  BY <1>1, <1>5 DEF NodesOK
<1>7. ASSUME NEW x \in Live(s), x # id PROVE x \in Live(new) /\ NodeAt(new, x) = NodeAt(s, x)
  <2>1. PICK j \in 1..Len(s.node) : x = <<j, s.generation[j]>> /\ s.node[j] # NoNode
    BY <1>0, LiveIds
  <2>2. j # i /\ x[1] = j
    BY <1>2, <1>7, <2>1
  <2>3. new.node[j] = s.node[j] /\ new.generation[j] = s.generation[j] /\ j \in 1..Len(new.node)
    BY <1>4, <1>5, <2>2
  <2> QED BY <1>1, <2>1, <2>2, <2>3, LiveIds DEF NodeAt
<1>8. ASSUME NEW x \in Live(new) PROVE x \in Live(s) /\ x # id
  <2>1. PICK j \in 1..Len(new.node) : x = <<j, new.generation[j]>> /\ new.node[j] # NoNode
    BY <1>1, LiveIds
  <2>2. j # i /\ j \in 1..Len(s.node) /\ x[1] = j
    BY <1>5, <2>1
  <2>3. new.node[j] = s.node[j] /\ new.generation[j] = s.generation[j]
    BY <1>4, <1>5, <2>2
  <2> QED BY <1>0, <1>3, <2>1, <2>2, <2>3, LiveIds
<1>9. Live(new) = Live(s) \ {id}
  BY <1>7, <1>8
<1> QED BY <1>1, <1>5, <1>6, <1>7, <1>8, <1>9 DEF new

\* Nodes that change without coming or going.
LEMMA ChangeIs ==
    ASSUME NEW s, NodesOK(s), NEW node, NEW new, new = [s EXCEPT !.node = node],
           node \in Seq(LayoutNodes \cup {NoNode}), Len(node) = Len(s.node),
           \A i \in 1..Len(s.node) : node[i] = NoNode <=> s.node[i] = NoNode
    PROVE  /\ NodesOK(new) /\ Live(new) = Live(s) /\ Len(new.node) = Len(s.node)
           /\ \A id : NodeAt(new, id) = node[id[1]]
           /\ \A i : IdAt(new, i) = IdAt(s, i)
           /\ \A id : Gone(s, id) => Gone(new, id)
<1>1. s \in Stores(LayoutNodes) /\ Len(s.generation) = Len(s.node) /\ FreeOK(s)
      /\ Len(s.node) <= MaxSlots
  BY DEF NodesOK, StoreOK
<1>2. /\ new.generation = s.generation /\ new.node = node /\ new.free = s.free
      /\ new \in Stores(LayoutNodes)
  BY <1>1 DEF Stores
<1>3. StoreOK(LayoutNodes, new)
  BY <1>1, <1>2 DEF StoreOK, FreeOK
<1>4. Live(new) = Live(s)
  <2>1. StoreOK(LayoutNodes, s)
    BY <1>1 DEF StoreOK
  <2>2. ASSUME NEW id PROVE id \in Live(new) <=> id \in Live(s)
    <3>1. id \in Live(s) <=> \E i \in 1..Len(s.node) : id = <<i, s.generation[i]>> /\ s.node[i] # NoNode
      BY <2>1, LiveIds
    <3>2. id \in Live(new) <=> \E i \in 1..Len(s.node) : id = <<i, s.generation[i]>> /\ node[i] # NoNode
      <4>1. id \in Live(new) <=> \E i \in 1..Len(new.node) : id = <<i, new.generation[i]>> /\ new.node[i] # NoNode
        BY <1>3, LiveIds
      <4>2. Len(new.node) = Len(s.node)
        BY <1>2
      <4> QED BY <1>2, <4>1, <4>2, Zenon
    <3>3. ASSUME NEW i \in 1..Len(s.node)
          PROVE  id = <<i, s.generation[i]>> /\ node[i] # NoNode
                    <=> id = <<i, s.generation[i]>> /\ s.node[i] # NoNode
      OBVIOUS
    <3> QED BY <3>1, <3>2, <3>3, Zenon
  <2> QED BY <2>2
<1>5. \A id : Gone(s, id) => Gone(new, id)
  BY <1>1, <1>2 DEF Gone
<1> QED BY <1>1, <1>2, <1>3, <1>4, <1>5 DEF NodesOK, NodeAt, IdAt

\* Links in both directions, and none in a circle.
Links(s) ==
    \A id \in Live(s) : /\ IsInjective(NodeAt(s, id).children)
                        /\ Range(NodeAt(s, id).children) = {c \in Live(s) : ParentIn(s, c) = id}

Acyclic(kids) == \A x \in DOMAIN kids : \A k \in Range(kids[x]) : x \notin Below(kids, k)

NodesLinked(s) == NodesOK(s) /\ Links(s) /\ Acyclic(ChildrenIn(s))

Homes(s) == \A id \in Live(s) : ParentIn(s, id) \in Live(s) \cup {NoId}

LEMMA ChildrenAre ==
    ASSUME NEW s, NodesOK(s), Links(s)
    PROVE  /\ DOMAIN ChildrenIn(s) = Live(s) /\ Forest(ChildrenIn(s))
           /\ \A id \in Live(s) : ChildrenIn(s)[id] = NodeAt(s, id).children
<1> DEFINE kids == ChildrenIn(s)
<1>1. DOMAIN kids = Live(s) /\ kids = [x \in DOMAIN kids |-> kids[x]]
  BY DEF ChildrenIn
<1>2. \A id \in Live(s) : kids[id] = NodeAt(s, id).children
  BY DEF ChildrenIn
<1> HIDE DEF kids
<1>3. \A id \in Live(s) : Range(kids[id]) = {c \in Live(s) : ParentIn(s, c) = id}
  BY <1>2 DEF Links
<1>4. Forest(kids)
  BY <1>1, <1>3 DEF Forest
<1> QED BY <1>1, <1>2, <1>4 DEF kids

LEMMA AncestorsAre ==
    ASSUME NEW s, NodesOK(s), Links(s), Homes(s), NEW id \in Live(s), NEW x \in Live(s),
           id \in Below(ChildrenIn(s), x)
    PROVE  x \in Ancestors(s, id)
<1> DEFINE D == Live(s)
           to == [y \in D \cup {NoId} |-> IF y = NoId THEN {} ELSE {ParentIn(s, y)}]
           R == Ancestors(s, id)
           kids == ChildrenIn(s)
           T == D \ R
<1>1. DOMAIN to = D \cup {NoId} /\ \A y \in D : to[y] = {ParentIn(s, y)}
  BY LiveNode
<1>2. to[NoId] = {}
  OBVIOUS
<1>3. R = Reach(to, {id})
  BY DEF Ancestors
<1>4. DOMAIN kids = D /\ Forest(kids) /\ \A y \in D : Range(kids[y]) = {c \in D : ParentIn(s, c) = y}
  BY ChildrenAre DEF Links
<1> HIDE DEF to, R, kids
<1>5. \A y \in DOMAIN to : to[y] \subseteq DOMAIN to
  BY <1>1, <1>2 DEF Homes
<1>6. id \in R /\ \A y \in R : to[y] \subseteq R
  BY <1>1, <1>3, <1>5, ReachIs
<1>7. ASSUME NEW y \in T, NEW k \in Range(kids[y]), k \notin T PROVE FALSE
  <2>1. k \in R /\ ParentIn(s, k) = y /\ k \in D
    BY <1>4, <1>7
  <2> QED BY <1>1, <1>6, <1>7, <2>1
<1> SUFFICES ASSUME x \in T PROVE FALSE
  BY DEF R
<1>8. T \in SUBSET DOMAIN kids
  BY <1>4
<1> HIDE DEF T
<1>9. Below(kids, x) \subseteq T
  BY <1>4, <1>7, <1>8, BelowLeast
<1>10. id \in T
  BY <1>9 DEF kids
<1> QED BY <1>6, <1>10 DEF T

LEMMA LinkedIs ==
    ASSUME NEW s, NodesOK(s), Links(s), NEW parent \in Live(s), NEW children \in Seq(Live(s))
    PROVE  LET new == Linked(s, parent, children) IN
           /\ NodesOK(new) /\ Live(new) = Live(s) /\ Len(new.node) = Len(s.node)
           /\ \A id : Gone(s, id) => Gone(new, id)
           /\ \A id \in Live(s) :
                 NodeAt(new, id) =
                    [style |-> NodeAt(s, id).style, text |-> NodeAt(s, id).text,
                     parent |-> IF id \in Range(children) THEN parent
                                ELSE IF ParentIn(s, id) = parent THEN NoId ELSE ParentIn(s, id),
                     children |-> IF id = parent THEN children
                                  ELSE Without(NodeAt(s, id).children, Range(children))]
<1> DEFINE set == Range(children)
           Link(id, n) ==
              [style |-> n.style, text |-> n.text,
               parent |-> IF id \in set THEN parent ELSE IF n.parent = parent THEN NoId ELSE n.parent,
               children |-> IF id = parent THEN children ELSE Without(n.children, set)]
           node == [i \in DOMAIN s.node |-> IF s.node[i] = NoNode THEN NoNode
                                            ELSE Link(IdAt(s, i), s.node[i])]
           new == Linked(s, parent, children)
           Of(id) == [style |-> NodeAt(s, id).style, text |-> NodeAt(s, id).text,
                      parent |-> IF id \in set THEN parent
                                 ELSE IF ParentIn(s, id) = parent THEN NoId ELSE ParentIn(s, id),
                      children |-> IF id = parent THEN children ELSE Without(NodeAt(s, id).children, set)]
<1>1. new = [s EXCEPT !.node = node]
  BY DEF Linked
<1>2. s.node \in Seq(LayoutNodes \cup {NoNode}) /\ DOMAIN s.node = 1..Len(s.node) /\ Len(s.node) \in Nat
  BY DEF NodesOK, StoreOK, Stores
<1>3. ASSUME NEW i \in 1..Len(s.node), s.node[i] # NoNode
      PROVE  /\ IdAt(s, i) \in Live(s) /\ NodeAt(s, IdAt(s, i)) = s.node[i]
             /\ node[i] = Of(IdAt(s, i))
  <2>1. IdAt(s, i) = <<i, s.generation[i]>> /\ IdAt(s, i) \in Live(s)
    BY <1>2, <1>3 DEF IdAt, Live
  <2>2. NodeAt(s, IdAt(s, i)) = s.node[i]
    BY <2>1 DEF NodeAt
  <2>3. s.node[i] \in LayoutNodes
    BY <2>1, <2>2, LiveNode
  <2>4. node[i] = Link(IdAt(s, i), s.node[i])
    BY <1>2, <1>3
  <2> HIDE DEF node, set
  <2>5. Link(IdAt(s, i), s.node[i]) = Of(IdAt(s, i))
    BY <2>2 DEF ParentIn
  <2> QED BY <2>1, <2>2, <2>4, <2>5
<1>4. ASSUME NEW id \in Live(s) PROVE Of(id) \in LayoutNodes
  <2>1. NodeAt(s, id) \in LayoutNodes /\ parent \in NodeIds
    BY LiveNode
  <2>2. NodeAt(s, id).children \in Seq(NodeIds) /\ IsInjective(NodeAt(s, id).children)
    BY NodeParts DEF Links
  <2>3. Without(NodeAt(s, id).children, set) \in Seq(NodeIds)
    BY <2>2, WithoutIs
  <2>4. children \in Seq(NodeIds)
    <3>1. Live(s) \subseteq NodeIds
      BY LiveNode
    <3> QED BY <3>1
  <2> HIDE DEF set
  <2> QED BY <2>1, <2>3, <2>4 DEF LayoutNodes, ParentIn
<1>9. DOMAIN node = 1..Len(s.node) /\ \A i \in 1..Len(s.node) : s.node[i] = NoNode => node[i] = NoNode
  BY <1>2
<1>10. node = [i \in 1..Len(s.node) |-> node[i]]
  BY <1>2
<1> HIDE DEF Of, node
<1>5. \A i \in 1..Len(s.node) : /\ node[i] = NoNode <=> s.node[i] = NoNode
                                /\ node[i] \in LayoutNodes \cup {NoNode}
  <2> SUFFICES ASSUME NEW i \in 1..Len(s.node)
               PROVE  /\ node[i] = NoNode <=> s.node[i] = NoNode
                      /\ node[i] \in LayoutNodes \cup {NoNode}
    OBVIOUS
  <2>1. CASE s.node[i] = NoNode
    BY <1>9, <2>1
  <2>2. CASE s.node[i] # NoNode
    <3>1. node[i] \in LayoutNodes
      BY <1>3, <1>4, <2>2
    <3> QED BY <2>2, <3>1, LayoutAssumption
  <2> QED BY <2>1, <2>2
<1>6. node \in Seq(LayoutNodes \cup {NoNode}) /\ Len(node) = Len(s.node)
  <2> DEFINE n == Len(s.node)
             S == LayoutNodes \cup {NoNode}
  <2>1. node \in [1..n -> S] /\ n \in Nat
    BY <1>2, <1>5, <1>10
  <2> HIDE DEF n, S
  <2>2. node \in Seq(S) /\ Len(node) = n
    BY <2>1
  <2> QED BY <2>2 DEF n, S
<1>7. /\ NodesOK(new) /\ Live(new) = Live(s) /\ Len(new.node) = Len(s.node)
      /\ \A id : NodeAt(new, id) = node[id[1]]
      /\ \A id : Gone(s, id) => Gone(new, id)
  BY <1>1, <1>5, <1>6, ChangeIs
<1>8. ASSUME NEW id \in Live(s) PROVE NodeAt(new, id) = Of(id)
  <2>1. PICK i \in 1..Len(s.node) : id = <<i, s.generation[i]>> /\ s.node[i] # NoNode
    <3>1. StoreOK(LayoutNodes, s)
      BY DEF NodesOK
    <3> QED BY <3>1, LiveIds
  <2>2. id[1] = i /\ id = IdAt(s, i)
    BY <2>1 DEF IdAt
  <2> QED BY <1>3, <1>7, <2>1, <2>2
<1> HIDE DEF new
<1> QED BY <1>7, <1>8 DEF new, Of

\* New links: no child of the list is above its new parent.
LEMMA LinkedKeeps ==
    ASSUME NEW s, NodesLinked(s), Homes(s), NEW parent \in Live(s), NEW children \in Seq(Live(s)),
           IsInjective(children), Range(children) \cap Ancestors(s, parent) = {}
    PROVE  NodesLinked(Linked(s, parent, children)) /\ Homes(Linked(s, parent, children))
<1> DEFINE set == Range(children)
           new == Linked(s, parent, children)
           old == ChildrenIn(s)
           kids == ChildrenIn(new)
           D == Live(s)
<1>0. NodesOK(s) /\ Links(s) /\ Acyclic(old)
  BY DEF NodesLinked
<1>1. /\ NodesOK(new) /\ Live(new) = D
      /\ \A id \in D : NodeAt(new, id) =
            [style |-> NodeAt(s, id).style, text |-> NodeAt(s, id).text,
             parent |-> IF id \in set THEN parent
                        ELSE IF ParentIn(s, id) = parent THEN NoId ELSE ParentIn(s, id),
             children |-> IF id = parent THEN children ELSE Without(NodeAt(s, id).children, set)]
  BY <1>0, LinkedIs
<1>2. /\ DOMAIN old = D /\ Forest(old)
      /\ \A x \in D : old[x] = NodeAt(s, x).children
  BY <1>0, ChildrenAre
<1> HIDE DEF new, old, set
<1>3. \A id \in D : /\ ParentIn(new, id) = IF id \in set THEN parent
                                           ELSE IF ParentIn(s, id) = parent THEN NoId ELSE ParentIn(s, id)
                    /\ NodeAt(new, id).children = IF id = parent THEN children ELSE Without(old[id], set)
  BY <1>1, <1>2 DEF ParentIn
<1>4. \A id \in D : /\ Range(old[id]) = {c \in D : ParentIn(s, c) = id} /\ IsInjective(old[id])
                    /\ old[id] \in Seq(NodeIds)
  BY <1>0, <1>2, NodeParts DEF Links
<1>5. \A id \in D : /\ IsInjective(Without(old[id], set))
                    /\ Range(Without(old[id], set)) = Range(old[id]) \ set
  BY <1>4, WithoutIs
<1>6. set \subseteq D
  BY DEF set, Range
<1>7. \A id \in D : /\ IsInjective(NodeAt(new, id).children)
                    /\ Range(NodeAt(new, id).children) = IF id = parent THEN set ELSE Range(old[id]) \ set
  BY <1>3, <1>5 DEF set
<1>8. Links(new)
  <2> SUFFICES ASSUME NEW id \in D
               PROVE  Range(NodeAt(new, id).children) = {c \in D : ParentIn(new, c) = id}
    BY <1>1, <1>7 DEF Links
  <2>1. CASE id = parent
    <3>1. \A c \in D : ParentIn(new, c) = id <=> c \in set
      BY <1>0, <1>3, <2>1, LiveNode
    <3> QED BY <1>6, <1>7, <2>1, <3>1
  <2>2. CASE id # parent
    <3>1. \A c \in D : ParentIn(new, c) = id <=> c \in Range(old[id]) \ set
      BY <1>0, <1>3, <1>4, <2>2, LiveNode
    <3> QED BY <1>4, <1>7, <2>2, <3>1
  <2> QED BY <2>1, <2>2
<1>9. Homes(new)
  BY <1>1, <1>3 DEF Homes
<1>10. /\ DOMAIN kids = D /\ Forest(kids)
       /\ \A id \in D : Range(kids[id]) = IF id = parent THEN set ELSE Range(old[id]) \ set
  <2>1. /\ DOMAIN kids = Live(new) /\ Forest(kids)
        /\ \A id \in Live(new) : kids[id] = NodeAt(new, id).children
    BY <1>1, <1>8, ChildrenAre
  <2> QED BY <1>1, <1>7, <2>1
<1>11. \A c \in set : parent \notin Below(old, c)
  <2> SUFFICES ASSUME NEW c \in set, parent \in Below(old, c) PROVE FALSE
    OBVIOUS
  <2>1. c \in Ancestors(s, parent)
    BY <1>0, <1>6, AncestorsAre DEF old
  <2> QED BY <2>1 DEF set
<1> HIDE DEF kids
\* Below a node that was not above the parent nothing is new.
<1>12. ASSUME NEW x \in D, parent \notin Below(old, x) PROVE Below(kids, x) \subseteq Below(old, x)
  <2> DEFINE S == Below(old, x)
  <2>1. S \in SUBSET D /\ x \in S /\ \A y \in S : Range(old[y]) \subseteq S
    BY <1>2, BelowIs
  <2>2. \A y \in S : Range(kids[y]) \subseteq S
    BY <1>10, <1>12, <2>1
  <2> HIDE DEF S
  <2>3. Below(kids, x) \subseteq S
    BY <1>10, <2>1, <2>2, BelowLeast
  <2> QED BY <2>3 DEF S
<1>13. ASSUME NEW x \in D, parent \in Below(old, x)
       PROVE  Below(kids, x) \subseteq Below(old, x) \cup UNION {Below(old, c) : c \in set}
  <2> DEFINE S == Below(old, x) \cup UNION {Below(old, c) : c \in set}
  <2>1. Below(old, x) \in SUBSET D /\ x \in Below(old, x)
        /\ \A y \in Below(old, x) : Range(old[y]) \subseteq Below(old, x)
    BY <1>2, BelowIs
  <2>2. \A c \in set : /\ Below(old, c) \in SUBSET D /\ c \in Below(old, c)
                       /\ \A y \in Below(old, c) : Range(old[y]) \subseteq Below(old, c)
    BY <1>2, <1>6, BelowIs
  <2>3. S \in SUBSET D /\ x \in S /\ set \subseteq S /\ \A y \in S : Range(old[y]) \subseteq S
    BY <2>1, <2>2
  <2> HIDE DEF S
  <2>4. \A y \in S : Range(kids[y]) \subseteq S
    BY <1>10, <2>3
  <2>5. Below(kids, x) \subseteq S
    BY <1>10, <2>3, <2>4, BelowLeast
  <2> QED BY <2>5 DEF S
<1>14. ASSUME NEW x \in D, NEW k \in Range(kids[x]), x \in Below(kids, k) PROVE FALSE
  <2>1. k \in D
    BY <1>10, <1>14 DEF Forest
  <2>2. CASE x = parent
    <3>1. k \in set
      BY <1>10, <1>14, <2>2
    <3> QED BY <1>11, <1>12, <1>14, <2>1, <2>2, <3>1
  <2>3. CASE x # parent
    <3>1. k \in Range(old[x])
      BY <1>10, <1>14, <2>3
    <3>2. x \notin Below(old, k)
      BY <1>0, <1>2, <3>1 DEF Acyclic
    <3>3. parent \in Below(old, k)
      BY <1>12, <1>14, <2>1, <3>2
    <3>4. PICK c \in set : x \in Below(old, c)
      BY <1>13, <1>14, <2>1, <3>2, <3>3
    <3>5. k \in Below(old, c)
      BY <1>2, <1>6, <3>1, <3>4, BelowIs
    <3>6. parent \in Below(old, c)
      BY <1>2, <1>6, <3>3, <3>5, BelowBelow
    <3> QED BY <1>11, <3>6
  <2> QED BY <2>2, <2>3
<1>15. Acyclic(kids)
  BY <1>10, <1>14 DEF Acyclic
<1> QED BY <1>1, <1>8, <1>9, <1>15 DEF NodesLinked, new, kids

(* The engine follows the nodes.                                           *)
Engine(e) ==
    /\ e = [made |-> e.made, kids |-> e.kids, style |-> e.style, cache |-> e.cache,
            geometry |-> e.geometry, root |-> e.root]
    /\ e.root = [id |-> e.root.id, style |-> e.root.style]
    /\ e.made \in BOOLEAN

EngineOK(e, s) ==
    /\ Engine(e) /\ (~e.made => Live(s) = {})
    /\ e.kids = ChildrenIn(s) /\ e.root.id \in Live(s) \cup {NoId}
    /\ DOMAIN e.style = Live(s) /\ DOMAIN e.cache = Live(s) /\ DOMAIN e.geometry = Live(s)
    /\ \A id \in Live(s) :
          NodeAt(s, id).style = IF e.root.id = id THEN e.root.style ELSE e.style[id]

LEMMA MarkDirtyIs ==
    ASSUME NEW e, Engine(e), NEW ids
    PROVE  LET new == MarkDirty(e, ids)
               dirty == Above(e.kids, ids)
           IN  /\ Engine(new) /\ new.made = e.made /\ new.kids = e.kids /\ new.style = e.style
               /\ new.root = e.root
               /\ DOMAIN new.cache = DOMAIN e.cache /\ DOMAIN new.geometry = DOMAIN e.geometry
               /\ \A id \in DOMAIN e.cache : new.cache[id] = IF id \in dirty THEN {} ELSE e.cache[id]
               /\ \A id \in DOMAIN e.geometry :
                     new.geometry[id] = IF id \in dirty \/ (\E x \in dirty : id \in Range(e.kids[x]))
                                        THEN {} ELSE e.geometry[id]
<1> DEFINE new == MarkDirty(e, ids)
           dirty == Above(e.kids, ids)
           moved == dirty \cup UNION {Range(e.kids[x]) : x \in dirty}
           cache == [id \in DOMAIN e.cache |-> IF id \in dirty THEN {} ELSE e.cache[id]]
           geometry == [id \in DOMAIN e.geometry |-> IF id \in moved THEN {} ELSE e.geometry[id]]
<1>1. new = [e EXCEPT !.cache = cache, !.geometry = geometry]
  BY DEF MarkDirty
<1> HIDE DEF new, cache, geometry
<1>2. new = [made |-> e.made, kids |-> e.kids, style |-> e.style, cache |-> cache,
             geometry |-> geometry, root |-> e.root]
  BY <1>1 DEF Engine
<1>3. Engine(new)
  BY <1>2 DEF Engine
<1>4. DOMAIN cache = DOMAIN e.cache
      /\ \A id \in DOMAIN e.cache : cache[id] = IF id \in dirty THEN {} ELSE e.cache[id]
  BY DEF cache
<1>5. /\ DOMAIN geometry = DOMAIN e.geometry
      /\ \A id \in DOMAIN e.geometry :
            geometry[id] = IF id \in dirty \/ (\E x \in dirty : id \in Range(e.kids[x]))
                           THEN {} ELSE e.geometry[id]
  BY DEF geometry
<1> HIDE DEF dirty
<1>6. /\ new.made = e.made /\ new.kids = e.kids /\ new.style = e.style /\ new.root = e.root
      /\ new.cache = cache /\ new.geometry = geometry
  BY <1>2
<1> QED BY <1>3, <1>4, <1>5, <1>6 DEF new, dirty

LEMMA SetBackendStyleIs ==
    ASSUME NEW e, Engine(e), NEW id \in DOMAIN e.style, NEW style
    PROVE  LET new == SetBackendStyle(e, id, style)
               styled == [e EXCEPT !.style[id] = style]
           IN  /\ Engine(new) /\ new.made = e.made /\ new.kids = e.kids
               /\ DOMAIN new.style = DOMAIN e.style /\ DOMAIN new.cache = DOMAIN e.cache
               /\ DOMAIN new.geometry = DOMAIN e.geometry
               /\ new.root = e.root
               /\ \A x \in DOMAIN e.style : new.style[x] = IF x = id THEN style ELSE e.style[x]
<1> DEFINE new == SetBackendStyle(e, id, style)
           styled == [e EXCEPT !.style[id] = style]
<1>1. CASE e.style[id] = style
  <2>1. new = e
    BY <1>1 DEF SetBackendStyle
  <2> QED BY <1>1, <2>1
<1>2. CASE e.style[id] # style
  <2> DEFINE all == [e.style EXCEPT ![id] = style]
  <2>1. styled = [e EXCEPT !.style = all]
    BY DEF Engine
  <2>2. DOMAIN all = DOMAIN e.style
        /\ \A x \in DOMAIN e.style : all[x] = IF x = id THEN style ELSE e.style[x]
    OBVIOUS
  <2>3. new = MarkDirty(styled, {id})
    BY <1>2 DEF SetBackendStyle
  <2> HIDE DEF new, styled, all
  <2>4. styled = [made |-> e.made, kids |-> e.kids, style |-> all, cache |-> e.cache,
                  geometry |-> e.geometry, root |-> e.root]
    BY <2>1 DEF Engine
  <2>5. Engine(styled)
    BY <2>4 DEF Engine
  <2>6. /\ Engine(new) /\ new.made = styled.made /\ new.kids = styled.kids /\ new.style = styled.style
        /\ new.root = styled.root
        /\ DOMAIN new.cache = DOMAIN styled.cache /\ DOMAIN new.geometry = DOMAIN styled.geometry
    BY <2>3, <2>5, MarkDirtyIs
  <2> QED BY <2>2, <2>4, <2>6 DEF new
<1> QED BY <1>1, <1>2

\* What else the engine has for the same nodes.
LEMMA SameBackend ==
    ASSUME NEW s, NEW e, EngineOK(e, s), NEW new, Engine(new), new.made = e.made, new.kids = e.kids,
           DOMAIN new.style = DOMAIN e.style, DOMAIN new.cache = DOMAIN e.cache,
           DOMAIN new.geometry = DOMAIN e.geometry, new.root.id \in Live(s) \cup {NoId},
           \A id \in Live(s) :
              NodeAt(s, id).style = IF new.root.id = id THEN new.root.style ELSE new.style[id]
    PROVE  EngineOK(new, s)
BY DEF EngineOK

LEMMA EngineSetStyleKeeps ==
    ASSUME NEW s, NEW e, EngineOK(e, s), NEW id \in Live(s), NEW style, NEW after,
           Live(after) = Live(s), ChildrenIn(after) = ChildrenIn(s),
           \A x \in Live(s) : NodeAt(after, x).style = IF x = id THEN style ELSE NodeAt(s, x).style
    PROVE  EngineOK(EngineSetStyle(e, id, style), after)
<1> DEFINE rooted == IF e.root.id = id THEN [e EXCEPT !.root.style = style] ELSE e
           new == EngineSetStyle(e, id, style)
<1>1. new = SetBackendStyle(rooted, id, style)
  BY DEF EngineSetStyle
<1>2. /\ rooted.made = e.made /\ rooted.kids = e.kids /\ rooted.style = e.style
      /\ rooted.cache = e.cache /\ rooted.geometry = e.geometry /\ rooted.root.id = e.root.id
      /\ rooted.root.style = (IF e.root.id = id THEN style ELSE e.root.style)
      /\ Engine(rooted)
  BY DEF EngineOK, Engine
<1> HIDE DEF rooted, new
<1>3. id \in DOMAIN rooted.style
  BY <1>2 DEF EngineOK
<1>4. /\ Engine(new) /\ new.made = e.made /\ new.kids = e.kids
      /\ DOMAIN new.style = DOMAIN e.style /\ DOMAIN new.cache = DOMAIN e.cache
      /\ DOMAIN new.geometry = DOMAIN e.geometry
      /\ new.root = rooted.root
      /\ \A x \in DOMAIN e.style : new.style[x] = IF x = id THEN style ELSE e.style[x]
  BY <1>1, <1>2, <1>3, SetBackendStyleIs
<1>5. \A x \in Live(s) : NodeAt(after, x).style = IF new.root.id = x THEN new.root.style ELSE new.style[x]
  BY <1>2, <1>4 DEF EngineOK
<1> QED BY <1>2, <1>4, <1>5 DEF EngineOK, new

Wired(e) ==
    /\ Engine(e) /\ Forest(e.kids)
    /\ \A p \in DOMAIN e.kids : e.kids[p] \in Seq(NodeIds) /\ IsInjective(e.kids[p])

\* A list of children is of its parent alone, so that setting it anew changes no other list.
LEMMA EngineSetChildrenIs ==
    ASSUME NEW e, Wired(e), NEW parent \in DOMAIN e.kids, NEW children
    PROVE  LET new == EngineSetChildren(e, parent, children) IN
           /\ Engine(new) /\ new.made = e.made /\ new.style = e.style /\ new.root = e.root
           /\ DOMAIN new.cache = DOMAIN e.cache /\ DOMAIN new.geometry = DOMAIN e.geometry
           /\ DOMAIN new.kids = DOMAIN e.kids /\ new.kids = [p \in DOMAIN new.kids |-> new.kids[p]]
           /\ \A p \in DOMAIN e.kids : new.kids[p] = IF p = parent THEN children
                                                     ELSE Without(e.kids[p], Range(children))
<1> DEFINE new == EngineSetChildren(e, parent, children)
           lose == {p \in DOMAIN e.kids \ {parent} : Range(e.kids[p]) \cap Range(children) # {}}
           kids == [p \in DOMAIN e.kids |->
                       IF p = parent THEN children ELSE Without(e.kids[p], Range(children))]
           marked == MarkDirty(e, lose \cup {parent})
<1>0. Engine(e) /\ Forest(e.kids)
      /\ \A p \in DOMAIN e.kids : e.kids[p] \in Seq(NodeIds) /\ IsInjective(e.kids[p])
  BY DEF Wired
<1>1. CASE e.kids[parent] = children
  <2>1. new = e
    BY <1>1 DEF EngineSetChildren
  <2>2. ASSUME NEW p \in DOMAIN e.kids \ {parent} PROVE Without(e.kids[p], Range(children)) = e.kids[p]
    <3>1. Range(e.kids[p]) \cap Range(children) = {}
      BY <1>0, <1>1, <2>2 DEF Forest
    <3> QED BY <1>0, <3>1, WithoutIs
  <2>3. e.kids = [p \in DOMAIN e.kids |-> e.kids[p]]
    BY <1>0 DEF Forest
  <2> QED BY <1>0, <1>1, <2>1, <2>2, <2>3
<1>2. CASE e.kids[parent] # children
  <2>1. new = [marked EXCEPT !.kids = kids]
    BY <1>2 DEF EngineSetChildren
  <2> HIDE DEF new, marked, kids
  <2>2. /\ Engine(marked) /\ marked.made = e.made /\ marked.style = e.style /\ marked.root = e.root
        /\ DOMAIN marked.cache = DOMAIN e.cache /\ DOMAIN marked.geometry = DOMAIN e.geometry
    <3> HIDE DEF lose
    <3> QED BY <1>0, MarkDirtyIs DEF marked
  <2>3. new = [made |-> marked.made, kids |-> kids, style |-> marked.style, cache |-> marked.cache,
               geometry |-> marked.geometry, root |-> marked.root]
    BY <2>1, <2>2 DEF Engine
  <2>4. Engine(new)
    BY <2>2, <2>3 DEF Engine
  <2>5. /\ new.kids = kids /\ new.made = marked.made /\ new.style = marked.style
        /\ new.root = marked.root
        /\ new.cache = marked.cache /\ new.geometry = marked.geometry
    BY <2>3
  <2> QED BY <2>2, <2>4, <2>5 DEF new, kids
<1> QED BY <1>1, <1>2

LEMMA EngineAddKeeps ==
    ASSUME NEW s, NEW e, EngineOK(e, s), NEW style, NEW id, id \notin Live(s) \cup {NoId}, NEW after,
           Live(after) = Live(s) \cup {id},
           \A x \in Live(s) : NodeAt(after, x) = NodeAt(s, x),
           NodeAt(after, id).style = style, NodeAt(after, id).children = <<>>
    PROVE  EngineOK(EngineAdd(e, id, style), after)
<1> DEFINE new == EngineAdd(e, id, style)
           Extended(f, value) == [x \in DOMAIN f \cup {id} |-> IF x = id THEN value ELSE f[x]]
           kids == Extended(e.kids, <<>>)
           styles == Extended(e.style, style)
           cache == Extended(e.cache, {})
           geometry == Extended(e.geometry, {})
<1>1. new = [made |-> TRUE, kids |-> kids, style |-> styles, cache |-> cache,
             geometry |-> geometry, root |-> e.root]
  BY DEF EngineAdd
<1>2. DOMAIN e.kids = Live(s) /\ \A x \in Live(s) : e.kids[x] = NodeAt(s, x).children
  BY DEF EngineOK, ChildrenIn
<1>3. kids = ChildrenIn(after)
  BY <1>2 DEF ChildrenIn
<1>4. /\ DOMAIN styles = Live(after) /\ DOMAIN cache = Live(after) /\ DOMAIN geometry = Live(after)
      /\ \A x \in Live(after) : styles[x] = IF x = id THEN style ELSE e.style[x]
  BY DEF EngineOK
<1> HIDE DEF new, kids, styles, cache, geometry
<1>5. Engine(new)
  BY <1>1 DEF Engine, EngineOK
<1>6. /\ new.made = TRUE /\ new.kids = kids /\ new.style = styles /\ new.cache = cache
      /\ new.geometry = geometry /\ new.root = e.root
  BY <1>1
<1>7. \A x \in Live(after) : NodeAt(after, x).style = IF e.root.id = x THEN e.root.style ELSE styles[x]
  BY <1>4 DEF EngineOK
<1> QED BY <1>3, <1>4, <1>5, <1>6, <1>7 DEF EngineOK, new

LEMMA EngineRemoveKeeps ==
    ASSUME NEW s, NEW e, EngineOK(e, s), NEW id \in Live(s), NoId \notin Live(s), NEW S, NEW after,
           Live(after) = Live(s) \ {id},
           \A x \in Live(after) : NodeAt(after, x) = NodeAt(s, x),
           \A x \in Live(after) : /\ NodeAt(s, x).children \in Seq(S)
                                  /\ IsInjective(NodeAt(s, x).children)
                                  /\ id \notin Range(NodeAt(s, x).children)
    PROVE  EngineOK(EngineRemove(e, id), after)
<1> DEFINE new == EngineRemove(e, id)
           Rest(f) == [x \in DOMAIN f \ {id} |-> f[x]]
           kids == [p \in DOMAIN e.kids \ {id} |-> Without(e.kids[p], {id})]
           styles == Rest(e.style)
           cache == Rest(e.cache)
           geometry == Rest(e.geometry)
           root == IF e.root.id = id THEN NoRoot ELSE e.root
<1>1. new = [made |-> TRUE, kids |-> kids, style |-> styles, cache |-> cache,
             geometry |-> geometry, root |-> root]
  BY DEF EngineRemove
<1>2. DOMAIN e.kids = Live(s) /\ \A x \in Live(s) : e.kids[x] = NodeAt(s, x).children
  BY DEF EngineOK, ChildrenIn
<1>3. kids = ChildrenIn(after)
  <2>1. ASSUME NEW x \in Live(after) PROVE Without(e.kids[x], {id}) = NodeAt(after, x).children
    <3>1. e.kids[x] \in Seq(S) /\ IsInjective(e.kids[x]) /\ Range(e.kids[x]) \cap {id} = {}
      BY <1>2
    <3>2. Without(e.kids[x], {id}) = e.kids[x]
      BY <3>1, WithoutIs
    <3> QED BY <1>2, <3>2
  <2> QED BY <1>2, <2>1 DEF ChildrenIn
<1>4. /\ DOMAIN styles = Live(after) /\ DOMAIN cache = Live(after) /\ DOMAIN geometry = Live(after)
      /\ \A x \in Live(after) : styles[x] = e.style[x]
  BY DEF EngineOK
<1>5. /\ root = [id |-> root.id, style |-> root.style] /\ root.id \in Live(after) \cup {NoId}
      /\ \A x \in Live(after) : root.id = x => root = e.root
  <2>1. CASE e.root.id = id
    <3>1. root.id = NoId /\ root = [id |-> root.id, style |-> root.style]
      BY <2>1 DEF NoRoot
    <3>2. \A x \in Live(after) : x # NoId
      OBVIOUS
    <3> QED BY <3>1, <3>2
  <2>2. CASE e.root.id # id
    BY <2>2 DEF EngineOK, Engine
  <2> QED BY <2>1, <2>2
<1>6. e.root.id = id => \A x \in Live(after) : e.root.id # x
  OBVIOUS
<1> HIDE DEF new, kids, styles, cache, geometry, root
<1>7. Engine(new)
  BY <1>1, <1>5 DEF Engine
<1>8. /\ new.made = TRUE /\ new.kids = kids /\ new.style = styles /\ new.cache = cache
      /\ new.geometry = geometry /\ new.root = root
  BY <1>1
<1>9. \A x \in Live(after) : NodeAt(after, x).style = IF root.id = x THEN root.style ELSE styles[x]
  BY <1>4, <1>5, <1>6 DEF EngineOK, root
<1> QED BY <1>3, <1>4, <1>5, <1>7, <1>8, <1>9 DEF EngineOK, new

LEMMA FromNodesIs ==
    ASSUME NEW s, NodesOK(s)
    PROVE  EngineOK(FromNodes(s), s)
<1> DEFINE new == FromNodes(s)
           style == [id \in Live(s) |-> NodeAt(s, id).style]
           none == [id \in Live(s) |-> {}]
<1>1. new = [made |-> TRUE, kids |-> ChildrenIn(s), style |-> style, cache |-> none,
             geometry |-> none, root |-> NoRoot]
  BY DEF FromNodes
<1>2. DOMAIN style = Live(s) /\ DOMAIN none = Live(s)
      /\ \A id \in Live(s) : style[id] = NodeAt(s, id).style
  OBVIOUS
<1> HIDE DEF new, style, none
<1>3. NoRoot = [id |-> NoRoot.id, style |-> NoRoot.style] /\ NoRoot.id = NoId
  BY DEF NoRoot
<1>4. Engine(new) /\ new.made = TRUE
  BY <1>1, <1>3 DEF Engine
<1>5. /\ new.kids = ChildrenIn(s) /\ new.style = style /\ new.cache = none
      /\ new.geometry = none /\ new.root = NoRoot
  BY <1>1
<1>6. \A id \in Live(s) : id # NoId
  BY LiveNode
<1> QED BY <1>2, <1>3, <1>4, <1>5, <1>6 DEF EngineOK, new

\* compute leaves the engine with the same nodes, and one root with a style of its own.
LEMMA PrepareRootIs ==
    ASSUME NEW s, NEW e, EngineOK(e, s), NEW root \in Live(s), NEW viewport
    PROVE  EngineOK(PrepareRoot(e, s, root, viewport), s)
<1> DEFINE style == NodeAt(s, root).style
           left == LeavePreviousRoot(e, s, root)
           laid == SetBackendStyle(left, root, Effective(style, viewport))
           new == PrepareRoot(e, s, root, viewport)
           record == [id |-> root, style |-> style]
           Stays(f) == /\ Engine(f) /\ f.made = e.made /\ f.kids = e.kids
                      /\ DOMAIN f.style = Live(s) /\ DOMAIN f.cache = Live(s)
                      /\ DOMAIN f.geometry = Live(s)
<1>1. Stays(e)
  BY DEF EngineOK
<1>2. Stays(left) /\ \A x \in Live(s) \ {root} : left.style[x] = NodeAt(s, x).style
  <2>1. CASE e.root.id = root \/ e.root.id \notin Live(s)
    <3>1. left = e
      BY <2>1 DEF LeavePreviousRoot
    <3> QED BY <1>1, <2>1, <3>1 DEF EngineOK
  <2>2. CASE e.root.id # root /\ e.root.id \in Live(s)
    <3> DEFINE back == SetBackendStyle(e, e.root.id, e.root.style)
    <3>1. left = MarkDirty(back, {e.root.id})
      BY <2>2 DEF LeavePreviousRoot
    <3>2. /\ Stays(back)
          /\ \A x \in Live(s) : back.style[x] = IF x = e.root.id THEN e.root.style ELSE e.style[x]
      BY <1>1, <2>2, SetBackendStyleIs
    <3> HIDE DEF back, left
    <3>3. Stays(left) /\ left.style = back.style
      BY <3>1, <3>2, MarkDirtyIs
    <3> QED BY <2>2, <3>2, <3>3 DEF EngineOK
  <2> QED BY <2>1, <2>2
<1> HIDE DEF left
<1>3. /\ Stays(laid)
      /\ \A x \in Live(s) \ {root} : laid.style[x] = NodeAt(s, x).style
  BY <1>2, SetBackendStyleIs
<1>4. new = [laid EXCEPT !.root = record]
  BY DEF PrepareRoot, left
<1> HIDE DEF laid, new
<1>5. new = [made |-> laid.made, kids |-> laid.kids, style |-> laid.style, cache |-> laid.cache,
             geometry |-> laid.geometry, root |-> record]
  BY <1>3, <1>4 DEF Engine
<1>6. record = [id |-> record.id, style |-> record.style] /\ record.id = root /\ record.style = style
  OBVIOUS
<1> HIDE DEF record
<1>7. Stays(new) /\ new.root = record /\ new.style = laid.style
  BY <1>3, <1>5, <1>6 DEF Engine
<1>8. \A id \in Live(s) : NodeAt(s, id).style = IF new.root.id = id THEN new.root.style ELSE new.style[id]
  BY <1>3, <1>6, <1>7
<1>9. new.root.id \in Live(s) \cup {NoId}
  BY <1>6, <1>7
<1>10. /\ DOMAIN new.style = DOMAIN e.style /\ DOMAIN new.cache = DOMAIN e.cache
       /\ DOMAIN new.geometry = DOMAIN e.geometry /\ Engine(new) /\ new.made = e.made
       /\ new.kids = e.kids
  BY <1>7 DEF EngineOK
<1>11. EngineOK(new, s)
  BY <1>8, <1>9, <1>10, SameBackend
<1> QED BY <1>11 DEF new

LEMMA EngineComputeKeeps ==
    ASSUME NEW s, NEW e, EngineOK(e, s), NEW root \in Live(s), NEW viewport
    PROVE  EngineOK(EngineCompute(e, s, root, viewport), s)
<1> DEFINE ready == PrepareRoot(e, s, root, viewport)
           new == EngineCompute(e, s, root, viewport)
<1>1. EngineOK(ready, s)
  BY PrepareRootIs
<1>2. new = Perform(ready, s, root, viewport)
  BY DEF EngineCompute
<1> HIDE DEF ready, new
<1> DEFINE kids == ready.kids
           space == [id \in Below(kids, root) |-> SpaceAt(kids, ready.style, root, viewport, id)]
           stale == {id \in DOMAIN space : ~\E out \in ready.cache[id] : out.space = space[id]}
           entered == Reach([id \in stale |-> Range(kids[id]) \cap stale], {root} \cap stale)
           visited == {root} \cup UNION {Range(kids[id]) : id \in entered}
           reads(id) == IF id \in entered THEN {Own(s, kids, ready.style, id)}
                        ELSE UNION {out.reads : out \in ready.cache[id]}
           output == [id \in visited |->
                         [space |-> space[id],
                          reads |-> UNION {reads(x) : x \in Below(kids, id) \cap visited}]]
           cache == [id \in DOMAIN ready.cache |->
                        IF id \in entered THEN {output[id]} ELSE ready.cache[id]]
           geometry == [id \in DOMAIN ready.geometry |->
                        IF id \in visited
                        THEN {[place |-> IF id = root THEN 0 ELSE Place(kids, id), out |-> output[id]]}
                        ELSE ready.geometry[id]]
<1>3. new = [ready EXCEPT !.cache = cache, !.geometry = geometry]
  BY <1>2, Zenon DEF Perform
<1>4. DOMAIN cache = DOMAIN ready.cache /\ DOMAIN geometry = DOMAIN ready.geometry
  OBVIOUS
<1> HIDE DEF cache, geometry
<1>5. new = [made |-> ready.made, kids |-> ready.kids, style |-> ready.style, cache |-> cache,
             geometry |-> geometry, root |-> ready.root]
  BY <1>1, <1>3 DEF Engine, EngineOK
<1>6. Engine(new) /\ new.cache = cache /\ new.geometry = geometry
  BY <1>1, <1>5 DEF Engine, EngineOK
<1>7. new.made = ready.made /\ new.kids = ready.kids /\ new.style = ready.style /\ new.root = ready.root
  BY <1>5
<1> HIDE DEF new
<1>8. EngineOK(new, s)
  BY <1>1, <1>4, <1>6, <1>7 DEF EngineOK
<1> QED BY <1>8 DEF new

(* Nodes that come, change and go.                                         *)
LEMMA NodeInsertKeeps ==
    ASSUME NEW s, NodesLinked(s), Homes(s), s.free # <<>> \/ Len(s.node) < MaxSlots,
           NEW look \in [style : Styles, text : Texts]
    PROVE  LET new == InsertNode(s, NodeWith(look)) IN NodesLinked(new) /\ Homes(new)
<1> DEFINE node == NodeWith(look)
           new == InsertNode(s, node)
           next == NextId(s)
           D == Live(s)
           old == ChildrenIn(s)
           kids == ChildrenIn(new)
<1>1. node = [style |-> look.style, text |-> look.text, parent |-> NoId, children |-> <<>>]
  BY DEF NodeWith
<1>2. node \in LayoutNodes
  BY <1>1 DEF LayoutNodes
<1>3. NodesOK(s) /\ Links(s) /\ Acyclic(old)
  BY DEF NodesLinked
<1> HIDE DEF node
<1>4. /\ NodesOK(new) /\ next \in NodeIds \ D /\ Live(new) = D \cup {next}
      /\ NodeAt(new, next) = node /\ \A id \in D : NodeAt(new, id) = NodeAt(s, id)
  BY <1>2, <1>3, InsertIs
<1> HIDE DEF new, next, old, kids
<1>5. /\ ParentIn(new, next) = NoId /\ NodeAt(new, next).children = <<>>
      /\ \A id \in D : ParentIn(new, id) = ParentIn(s, id)
  BY <1>1, <1>4 DEF ParentIn
<1>6. \A id \in D : /\ IsInjective(NodeAt(s, id).children)
                    /\ Range(NodeAt(s, id).children) = {c \in D : ParentIn(s, c) = id}
  BY <1>3 DEF Links
<1>7. Homes(new)
  BY <1>4, <1>5 DEF Homes
<1>8. Links(new)
  <2>1. ASSUME NEW id \in D
        PROVE  /\ IsInjective(NodeAt(new, id).children)
               /\ Range(NodeAt(new, id).children) = {c \in Live(new) : ParentIn(new, c) = id}
    <3>1. id # NoId
      BY <1>3, LiveNode
    <3>2. {c \in Live(new) : ParentIn(new, c) = id} = {c \in D : ParentIn(s, c) = id}
      BY <1>4, <1>5, <3>1
    <3> QED BY <1>4, <1>6, <3>2
  <2>2. IsInjective(<<>>) /\ Range(<<>>) = {}
    BY DEF IsInjective, Range
  <2>3. \A c \in Live(new) : ParentIn(new, c) # next
    <3>1. next # NoId
      BY <1>4, LiveNode
    <3>2. \A c \in D : ParentIn(s, c) # next
      BY <1>4, <3>1 DEF Homes
    <3> QED BY <1>4, <1>5, <3>1, <3>2
  <2>4. /\ IsInjective(NodeAt(new, next).children)
        /\ Range(NodeAt(new, next).children) = {c \in Live(new) : ParentIn(new, c) = next}
    BY <1>5, <2>2, <2>3
  <2> QED BY <1>4, <2>1, <2>4 DEF Links
<1>9. DOMAIN old = D /\ Forest(old) /\ \A id \in D : old[id] = NodeAt(s, id).children
  BY <1>3, ChildrenAre DEF old
<1>10. DOMAIN kids = D \cup {next} /\ Forest(kids)
       /\ \A id \in D \cup {next} : kids[id] = NodeAt(new, id).children
  BY <1>4, <1>8, ChildrenAre DEF kids
<1>11. ASSUME NEW k \in D PROVE Below(kids, k) \subseteq Below(old, k)
  <2> DEFINE S == Below(old, k)
  <2>1. S \subseteq D /\ k \in S /\ \A y \in S : Range(old[y]) \subseteq S
    BY <1>9, BelowIs
  <2>2. S \in SUBSET DOMAIN kids /\ \A y \in S : Range(kids[y]) \subseteq S
    <3>1. \A y \in S : kids[y] = old[y]
      BY <1>4, <1>9, <1>10, <2>1
    <3> QED BY <1>10, <2>1, <3>1
  <2> HIDE DEF S
  <2>3. Below(kids, k) \subseteq S
    BY <1>10, <2>1, <2>2, BelowLeast
  <2> QED BY <2>3 DEF S
<1>12. ASSUME NEW x \in DOMAIN kids, NEW k \in Range(kids[x]), x \in Below(kids, k) PROVE FALSE
  <2>1. CASE x = next
    <3>1. Range(kids[x]) = {}
      BY <1>5, <1>10, <2>1 DEF Range
    <3> QED BY <1>12, <3>1
  <2>2. CASE x \in D
    <3>1. kids[x] = old[x] /\ k \in Range(old[x]) /\ k \in D
      BY <1>4, <1>9, <1>10, <1>12, <2>2 DEF Forest
    <3>2. x \notin Below(old, k)
      BY <1>3, <1>9, <2>2, <3>1 DEF Acyclic
    <3> QED BY <1>11, <1>12, <3>1, <3>2
  <2> QED BY <1>10, <2>1, <2>2
<1>13. Acyclic(kids)
  BY <1>12 DEF Acyclic
<1> QED BY <1>4, <1>7, <1>8, <1>13 DEF NodesLinked, new, kids, node

LEMMA SameLinks ==
    ASSUME NEW s, NodesLinked(s), Homes(s), NEW new, NodesOK(new), Live(new) = Live(s),
           \A id \in Live(s) : /\ NodeAt(new, id).children = NodeAt(s, id).children
                               /\ NodeAt(new, id).parent = NodeAt(s, id).parent
    PROVE  NodesLinked(new) /\ Homes(new) /\ ChildrenIn(new) = ChildrenIn(s)
<1>1. ChildrenIn(new) = ChildrenIn(s)
  BY DEF ChildrenIn
<1>2. \A id \in Live(s) : ParentIn(new, id) = ParentIn(s, id)
  BY DEF ParentIn
<1>3. Homes(new)
  BY <1>2 DEF Homes
<1>4. Links(new)
  <2>1. ASSUME NEW id \in Live(s)
        PROVE {c \in Live(new) : ParentIn(new, c) = id} = {c \in Live(s) : ParentIn(s, c) = id}
    BY <1>2
  <2> QED BY <2>1 DEF NodesLinked, Links
<1> QED BY <1>1, <1>3, <1>4 DEF NodesLinked

LEMMA SetNodeIs ==
    ASSUME NEW s, NodesOK(s), NEW id \in Live(s), NEW node \in LayoutNodes
    PROVE  LET new == SetNode(s, id, node) IN
           /\ NodesOK(new) /\ Live(new) = Live(s) /\ Len(new.node) = Len(s.node)
           /\ \A x \in Live(s) : NodeAt(new, x) = IF x = id THEN node ELSE NodeAt(s, x)
           /\ \A old : Gone(s, old) => Gone(new, old)
<1> DEFINE new == SetNode(s, id, node)
           all == [s.node EXCEPT ![id[1]] = node]
<1>0. StoreOK(LayoutNodes, s) /\ s.node \in Seq(LayoutNodes \cup {NoNode})
  BY DEF NodesOK, StoreOK, Stores
<1>1. PICK i \in 1..Len(s.node) : id = <<i, s.generation[i]>> /\ s.node[i] # NoNode
  BY <1>0, LiveIds
<1>2. id[1] = i /\ node # NoNode
  BY <1>1, LayoutAssumption
<1>3. new = [s EXCEPT !.node = all]
  BY <1>0 DEF SetNode, StoreOK, Stores
<1>4. /\ all \in Seq(LayoutNodes \cup {NoNode}) /\ Len(all) = Len(s.node)
      /\ \A j \in 1..Len(s.node) : all[j] = IF j = i THEN node ELSE s.node[j]
  BY <1>0, <1>2
<1> HIDE DEF all, new
<1>5. /\ NodesOK(new) /\ Live(new) = Live(s) /\ Len(new.node) = Len(s.node)
      /\ \A x : NodeAt(new, x) = all[x[1]]
      /\ \A x : Gone(s, x) => Gone(new, x)
  <2>1. \A j \in 1..Len(s.node) : all[j] = NoNode <=> s.node[j] = NoNode
    BY <1>1, <1>2, <1>4
  <2>2. all \in Seq(LayoutNodes \cup {NoNode}) /\ Len(all) = Len(s.node)
    BY <1>4
  <2> QED BY <1>3, <2>1, <2>2, ChangeIs
<1>6. ASSUME NEW x \in Live(s) PROVE NodeAt(new, x) = IF x = id THEN node ELSE NodeAt(s, x)
  <2>1. PICK j \in 1..Len(s.node) : x = <<j, s.generation[j]>> /\ s.node[j] # NoNode
    BY <1>0, LiveIds
  <2>2. x[1] = j /\ (x = id <=> j = i)
    BY <1>1, <1>2, <2>1
  <2> QED BY <1>4, <1>5, <2>2 DEF NodeAt
<1> QED BY <1>5, <1>6 DEF new

LEMMA RetextIs ==
    ASSUME NEW s, NodesOK(s), NEW ids, NEW t \in Texts
    PROVE  LET new == Retext(s, ids, t) IN
           /\ NodesOK(new) /\ Live(new) = Live(s) /\ Len(new.node) = Len(s.node)
           /\ \A x \in Live(s) :
                 NodeAt(new, x) = IF x \in ids THEN [NodeAt(s, x) EXCEPT !.text = t] ELSE NodeAt(s, x)
           /\ \A old : Gone(s, old) => Gone(new, old)
<1> DEFINE new == Retext(s, ids, t)
           all == [i \in DOMAIN s.node |-> IF IdAt(s, i) \in ids /\ s.node[i] # NoNode
                                           THEN [s.node[i] EXCEPT !.text = t] ELSE s.node[i]]
<1>0. /\ StoreOK(LayoutNodes, s) /\ s.node \in Seq(LayoutNodes \cup {NoNode})
      /\ DOMAIN s.node = 1..Len(s.node) /\ Len(s.node) \in Nat
  BY DEF NodesOK, StoreOK, Stores
<1>1. new = [s EXCEPT !.node = all]
  BY DEF Retext
<1>2. \A j \in 1..Len(s.node) : s.node[j] # NoNode => s.node[j] \in LayoutNodes
  BY <1>0
<1>3. ASSUME NEW n \in LayoutNodes PROVE [n EXCEPT !.text = t] \in LayoutNodes
  BY DEF LayoutNodes
<1>4. \A j \in 1..Len(s.node) :
         /\ all[j] \in LayoutNodes \cup {NoNode} /\ (all[j] = NoNode <=> s.node[j] = NoNode)
         /\ s.node[j] # NoNode =>
               all[j] = IF IdAt(s, j) \in ids THEN [s.node[j] EXCEPT !.text = t] ELSE s.node[j]
  BY <1>0, <1>2, <1>3, LayoutAssumption
<1>5. all = [j \in 1..Len(s.node) |-> all[j]]
  BY <1>0
<1> HIDE DEF all, new
<1>6. all \in Seq(LayoutNodes \cup {NoNode}) /\ Len(all) = Len(s.node)
  <2>1. all \in [1..Len(s.node) -> LayoutNodes \cup {NoNode}]
    BY <1>4, <1>5
  <2> QED BY <1>0, <2>1
<1>7. /\ NodesOK(new) /\ Live(new) = Live(s) /\ Len(new.node) = Len(s.node)
      /\ \A x : NodeAt(new, x) = all[x[1]]
      /\ \A x : Gone(s, x) => Gone(new, x)
  <2>1. \A j \in 1..Len(s.node) : all[j] = NoNode <=> s.node[j] = NoNode
    BY <1>4
  <2> QED BY <1>1, <1>6, <2>1, ChangeIs
<1>8. ASSUME NEW x \in Live(s)
      PROVE  NodeAt(new, x) = IF x \in ids THEN [NodeAt(s, x) EXCEPT !.text = t] ELSE NodeAt(s, x)
  <2>1. PICK j \in 1..Len(s.node) : x = <<j, s.generation[j]>> /\ s.node[j] # NoNode
    BY <1>0, LiveIds
  <2>2. x[1] = j /\ x = IdAt(s, j)
    BY <2>1 DEF IdAt
  <2> QED BY <1>4, <1>7, <2>1, <2>2 DEF NodeAt
<1> QED BY <1>7, <1>8 DEF new

(* The loop that removes subtrees.                                         *)
LEMMA RemoveRuns ==
    ASSUME NEW t, NEW calls, NEW n \in Nat, n = Len(t.nodes.node) + Len(calls)
    PROVE  \E g : /\ g[0] = [tree |-> t, calls |-> calls]
                  /\ \A m \in 1..n : g[m] = RemoveStep(g[m - 1])
                  /\ RemoveSubtrees(t, calls) = g[n].tree
<1> DEFINE start == [tree |-> t, calls |-> calls]
           Run(g, k) == g = [m \in 0..k |-> IF m = 0 THEN start ELSE RemoveStep(g[m - 1])]
           S == {k \in 0..n : \E g : Run(g, k)}
<1>1. 0 \in S
  <2> DEFINE g == [m \in 0..0 |-> start]
  <2>1. Run(g, 0)
    OBVIOUS
  <2> HIDE DEF Run
  <2> QED BY <2>1
<1>2. ASSUME NEW k \in 0 .. n - 1, k \in S PROVE k + 1 \in S
  <2>1. PICK g : Run(g, k)
    BY <1>2
  <2> DEFINE last == RemoveStep(g[k])
             h == [m \in 0..k + 1 |-> IF m = k + 1 THEN last ELSE g[m]]
  <2>2. \A m \in 0..k : g[m] = IF m = 0 THEN start ELSE RemoveStep(g[m - 1])
    BY <2>1
  <2> HIDE DEF start, last
  <2>3. \A m \in 0..k + 1 : h[m] = IF m = 0 THEN start ELSE RemoveStep(h[m - 1])
    <3>1. ASSUME NEW m \in 0..k PROVE h[m] = IF m = 0 THEN start ELSE RemoveStep(h[m - 1])
      <4>1. h[m] = g[m] /\ (m # 0 => h[m - 1] = g[m - 1])
        OBVIOUS
      <4> QED BY <2>2, <4>1
    <3>2. h[k + 1] = RemoveStep(h[k]) /\ k + 1 # 0 /\ (k + 1) - 1 = k
      BY DEF last
    <3>3. 0..k + 1 = 0..k \cup {k + 1}
      OBVIOUS
    <3> HIDE DEF h
    <3> QED BY <3>1, <3>2, <3>3
  <2>4. Run(h, k + 1)
    <3>1. h = [m \in 0..k + 1 |-> h[m]]
      OBVIOUS
    <3> HIDE DEF h
    <3> QED BY <2>3, <3>1
  <2> HIDE DEF Run, h
  <2> QED BY <2>4
<1> HIDE DEF S
<1>3. n \in S
  <2>1. \A m \in 0 .. n - 1 : m \in S => m + 1 \in S
    BY <1>2
  <2>2. \A m \in 0..n : m \in S
    BY <1>1, <2>1, Induction
  <2> QED BY <2>2
<1>4. \E g : Run(g, n)
  BY <1>3 DEF S
<1>5. PICK g : Run(g, n) /\ RemoveSubtrees(t, calls) = g[n].tree
  BY <1>4, Zenon DEF RemoveSubtrees, Iterate
<1>6. \A m \in 0..n : g[m] = IF m = 0 THEN start ELSE RemoveStep(g[m - 1])
  BY <1>5, Zenon
<1>7. g[0] = start /\ \A m \in 1..n : g[m] = RemoveStep(g[m - 1])
  BY <1>6
<1> QED BY <1>5, <1>7

LEMMA TailIs ==
    ASSUME NEW S, NEW q \in Seq(S), q # <<>>
    PROVE  /\ Tail(q) \in Seq(S) /\ Len(Tail(q)) = Len(q) - 1 /\ Len(q) \in Nat
           /\ Range(q) = {q[1]} \cup Range(Tail(q)) /\ q[1] \in S
<1> DEFINE r == Tail(q)
<1>1. /\ r \in Seq(S) /\ Len(r) = Len(q) - 1 /\ Len(q) \in Nat /\ Len(q) >= 1
      /\ \A k \in 1..Len(q) - 1 : r[k] = q[k + 1]
  OBVIOUS
<1>2. DOMAIN q = 1..Len(q) /\ DOMAIN r = 1..Len(q) - 1 /\ q[1] \in S
  BY <1>1
<1> HIDE DEF r
<1>3. ASSUME NEW k \in 1..Len(q), k # 1 PROVE q[k] = r[k - 1] /\ k - 1 \in 1..Len(q) - 1
  <2>1. k - 1 \in 1..Len(q) - 1 /\ (k - 1) + 1 = k
    BY <1>1, <1>3
  <2> QED BY <1>1, <2>1
<1>4. Range(q) \subseteq {q[1]} \cup Range(r)
  BY <1>2, <1>3 DEF Range
<1>5. {q[1]} \cup Range(r) \subseteq Range(q)
  <2>1. ASSUME NEW k \in 1..Len(q) - 1 PROVE r[k] \in Range(q)
    <3>1. k + 1 \in 1..Len(q) /\ r[k] = q[k + 1]
      BY <1>1, <2>1
    <3> QED BY <1>2, <3>1 DEF Range
  <2>2. q[1] \in Range(q)
    BY <1>1, <1>2 DEF Range
  <2> QED BY <1>2, <2>1, <2>2 DEF Range
<1> QED BY <1>1, <1>2, <1>4, <1>5 DEF r

LEMMA ConcatIs ==
    ASSUME NEW S, NEW p \in Seq(S), NEW q \in Seq(S)
    PROVE  /\ p \o q \in Seq(S) /\ Len(p \o q) = Len(p) + Len(q)
           /\ Range(p \o q) = Range(p) \cup Range(q)
<1> DEFINE r == p \o q
<1>1. /\ r \in Seq(S) /\ Len(r) = Len(p) + Len(q) /\ Len(p) \in Nat /\ Len(q) \in Nat
      /\ \A k \in 1..Len(p) + Len(q) : r[k] = IF k <= Len(p) THEN p[k] ELSE q[k - Len(p)]
  OBVIOUS
<1>2. DOMAIN p = 1..Len(p) /\ DOMAIN q = 1..Len(q) /\ DOMAIN r = 1..Len(p) + Len(q)
  BY <1>1
<1> HIDE DEF r
<1>3. Range(r) \subseteq Range(p) \cup Range(q)
  <2>1. ASSUME NEW k \in 1..Len(p) + Len(q) PROVE r[k] \in Range(p) \cup Range(q)
    <3>1. CASE k <= Len(p)
      BY <1>1, <1>2, <3>1 DEF Range
    <3>2. CASE ~(k <= Len(p))
      <4>1. k - Len(p) \in 1..Len(q) /\ r[k] = q[k - Len(p)]
        BY <1>1, <3>2
      <4> QED BY <1>2, <4>1 DEF Range
    <3> QED BY <3>1, <3>2
  <2> QED BY <1>2, <2>1 DEF Range
<1>4. Range(p) \cup Range(q) \subseteq Range(r)
  <2>1. ASSUME NEW k \in 1..Len(p) PROVE p[k] \in Range(r)
    <3>1. k \in 1..Len(p) + Len(q) /\ r[k] = p[k]
      BY <1>1
    <3> QED BY <1>2, <3>1 DEF Range
  <2>2. ASSUME NEW k \in 1..Len(q) PROVE q[k] \in Range(r)
    <3> DEFINE m == k + Len(p)
    <3>1. m \in 1..Len(p) + Len(q) /\ ~(m <= Len(p)) /\ m - Len(p) = k
      BY <1>1
    <3> HIDE DEF m
    <3>2. r[m] = q[k]
      BY <1>1, <3>1
    <3> QED BY <1>2, <3>1, <3>2 DEF Range
  <2> QED BY <1>2, <2>1, <2>2 DEF Range
<1> QED BY <1>1, <1>3, <1>4 DEF r

LEMMA InjectiveCount ==
    ASSUME NEW S, NEW q \in Seq(S), IsInjective(q)
    PROVE  IsFiniteSet(Range(q)) /\ Cardinality(Range(q)) = Len(q)
<1>1. Len(q) \in Nat /\ DOMAIN q = 1..Len(q) /\ q = [k \in 1..Len(q) |-> q[k]]
  OBVIOUS
<1>2. q \in Bijection(1..Len(q), Range(q))
  <2> DEFINE R == Range(q)
  <2>1. \A k \in 1..Len(q) : q[k] \in R
    BY <1>1 DEF Range
  <2> HIDE DEF R
  <2>2. q \in [1..Len(q) -> R]
    BY <1>1, <2>1
  <2> USE DEF R
  <2>3. \A x \in Range(q) : \E k \in 1..Len(q) : q[k] = x
    BY <1>1 DEF Range
  <2> QED BY <2>2, <2>3 DEF Bijection, Injection, Surjection
<1>3. IsFiniteSet(1..Len(q)) /\ Cardinality(1..Len(q)) = Len(q)
  <2> DEFINE n == Len(q)
  <2>1. n \in Int /\ 1 \in Int /\ n \in Nat
    BY <1>1
  <2> HIDE DEF n
  <2>2. IsFiniteSet(1..n) /\ Cardinality(1..n) = IF 1 > n THEN 0 ELSE n - 1 + 1
    BY <2>1, FS_Interval
  <2> QED BY <2>1, <2>2 DEF n
<1>4. ExistsBijection(1..Len(q), Range(q))
  BY <1>2 DEF ExistsBijection
<1> QED BY <1>3, <1>4, FS_Bijection

\* While subtrees are removed: a node whose parent does not list it waits in a call.
Loose(s, calls) ==
    /\ NodesOK(s) /\ Acyclic(ChildrenIn(s))
    /\ \A id \in Live(s) :
          /\ IsInjective(NodeAt(s, id).children)
          /\ Range(NodeAt(s, id).children) \subseteq {c \in Live(s) : ParentIn(s, c) = id}
    /\ \A c \in Live(s) :
          \/ ParentIn(s, c) = NoId
          \/ ParentIn(s, c) \in Live(s) /\ c \in Range(NodeAt(s, ParentIn(s, c)).children)
          \/ <<c, ParentIn(s, c)>> \in Range(calls)
    /\ \A call \in Range(calls) :
          call[2] \in Live(s) => call[1] \notin Range(NodeAt(s, call[2]).children)

Calls == Seq(NodeIds \X (NodeIds \cup {NoId}))

\* The nodes that are in a list.
Listed(s) == UNION {Range(NodeAt(s, id).children) : id \in Live(s)}

LEMMA LooseForest ==
    ASSUME NEW s, NEW calls, Loose(s, calls)
    PROVE  /\ DOMAIN ChildrenIn(s) = Live(s) /\ Forest(ChildrenIn(s))
           /\ \A id \in Live(s) : ChildrenIn(s)[id] = NodeAt(s, id).children
<1> DEFINE kids == ChildrenIn(s)
<1>1. DOMAIN kids = Live(s) /\ kids = [x \in DOMAIN kids |-> kids[x]]
  BY DEF ChildrenIn
<1>2. \A id \in Live(s) : kids[id] = NodeAt(s, id).children
  BY DEF ChildrenIn
<1> HIDE DEF kids
<1>3. \A id \in Live(s) : Range(kids[id]) \subseteq {c \in Live(s) : ParentIn(s, c) = id}
  BY <1>2 DEF Loose
<1>4. Forest(kids)
  BY <1>1, <1>3 DEF Forest
<1> QED BY <1>1, <1>2, <1>4 DEF kids

LEMMA LooseSettles ==
    ASSUME NEW s, Loose(s, <<>>)
    PROVE  NodesLinked(s) /\ Homes(s)
<1>1. Range(<<>>) = {}
  BY DEF Range
<1>2. Homes(s)
  BY <1>1 DEF Loose, Homes
<1>3. ASSUME NEW id \in Live(s), NEW c \in Live(s), ParentIn(s, c) = id
      PROVE  c \in Range(NodeAt(s, id).children)
  <2>1. id # NoId
    BY LiveNode DEF Loose
  <2> QED BY <1>1, <1>3, <2>1 DEF Loose
<1>4. Links(s)
  BY <1>3 DEF Loose, Links
<1> QED BY <1>2, <1>4 DEF Loose, NodesLinked

LEMMA LiveCount ==
    ASSUME NEW s, NodesOK(s)
    PROVE  IsFiniteSet(Live(s)) /\ Cardinality(Live(s)) <= Len(s.node) /\ Len(s.node) \in Nat
<1> DEFINE n == Len(s.node)
           used == {x[1] : x \in Live(s)}
           first == [x \in Live(s) |-> x[1]]
<1>1. n \in Nat /\ n \in Int /\ 1 \in Int
  BY DEF NodesOK, StoreOK, Stores
<1>2. ASSUME NEW x \in Live(s) PROVE x[1] \in 1..n
  <2>1. PICK i \in 1..Len(s.node) : x = <<i, s.generation[i]>>
    BY LiveNode
  <2> QED BY <2>1
<1>3. \A x, y \in Live(s) : x[1] = y[1] => x = y
  BY OnePerSlot
<1> HIDE DEF n
<1>4. IsFiniteSet(1..n) /\ Cardinality(1..n) = n
  BY <1>1, FS_Interval
<1>5. first \in Injection(Live(s), 1..n)
  <2>1. first \in [Live(s) -> 1..n]
    BY <1>2
  <2> QED BY <1>3, <2>1 DEF Injection, IsInjective
<1> HIDE DEF first
<1>6. IsFiniteSet(Live(s)) /\ Cardinality(Live(s)) <= Cardinality(1..n)
  <2> DEFINE T == 1..n
  <2>1. IsFiniteSet(T) /\ first \in Injection(Live(s), T)
    BY <1>4, <1>5
  <2> HIDE DEF T
  <2>2. IsFiniteSet(Live(s)) /\ Cardinality(Live(s)) <= Cardinality(T)
    BY <2>1, FS_Injection
  <2> QED BY <2>2 DEF T
<1> QED BY <1>1, <1>4, <1>6 DEF n

Drops(s, calls, id, parent, list, more) ==
    /\ calls \in Calls /\ Loose(s, calls) /\ calls # <<>>
    /\ id \in Live(s) /\ calls[1] = <<id, parent>> /\ ParentIn(s, id) = parent
    /\ more \in Calls /\ list = NodeAt(s, id).children
    /\ more = [k \in 1..Len(list) |-> <<list[k], id>>] \o Tail(calls)

LEMMA LooseDrops ==
    ASSUME NEW s, NEW calls, NEW id, NEW parent, NEW list, NEW more,
           Drops(s, calls, id, parent, list, more)
    PROVE  LET new == RemoveId(s, id) IN
           /\ Loose(new, more)
           /\ Cardinality(Listed(new)) \in Nat /\ Cardinality(Listed(s)) \in Nat
           /\ Len(more) + Cardinality(Listed(new)) + 1 = Len(calls) + Cardinality(Listed(s))
<1> DEFINE new == RemoveId(s, id)
           D == Live(s)
           old == ChildrenIn(s)
           kids == ChildrenIn(new)
           front == [k \in 1..Len(list) |-> <<list[k], id>>]
<1>0. /\ calls \in Calls /\ Loose(s, calls) /\ calls # <<>>
      /\ id \in Live(s) /\ calls[1] = <<id, parent>> /\ ParentIn(s, id) = parent
      /\ more \in Calls /\ list = NodeAt(s, id).children
      /\ more = front \o Tail(calls)
  BY DEF Drops
<1> USE <1>0
<1>1. NodesOK(s) /\ Acyclic(old)
  BY DEF Loose
<1>2. /\ NodesOK(new) /\ Live(new) = D \ {id} /\ \A x \in D \ {id} : NodeAt(new, x) = NodeAt(s, x)
  BY <1>1, RemoveIs
<1> HIDE DEF new, old, kids
<1>3. \A x \in D \ {id} : ParentIn(new, x) = ParentIn(s, x)
  BY <1>2 DEF ParentIn
<1>4. /\ \A x \in D : /\ IsInjective(NodeAt(s, x).children)
                      /\ Range(NodeAt(s, x).children) \subseteq {c \in D : ParentIn(s, c) = x}
                      /\ NodeAt(s, x).children \in Seq(NodeIds)
  BY <1>1, NodeParts DEF Loose
\* The calls.
<1>5. list \in Seq(NodeIds) /\ Len(list) \in Nat /\ DOMAIN list = 1..Len(list)
  BY <1>4
<1>6. /\ Tail(calls) \in Calls /\ Len(Tail(calls)) = Len(calls) - 1 /\ Len(calls) \in Nat
      /\ Range(calls) = {<<id, parent>>} \cup Range(Tail(calls))
  BY TailIs DEF Calls
<1>7. front \in Calls /\ Len(front) = Len(list) /\ Range(front) = {<<c, id>> : c \in Range(list)}
  <2>1. id \in NodeIds
    BY <1>1, LiveNode
  <2>2. front \in Calls /\ Len(front) = Len(list) /\ DOMAIN front = 1..Len(list)
    BY <1>5, <2>1 DEF Calls
  <2>3. \A k \in 1..Len(list) : front[k] = <<list[k], id>>
    OBVIOUS
  <2> HIDE DEF front
  <2> DEFINE made == {<<c, id>> : c \in Range(list)}
  <2>4. \A k \in 1..Len(list) : list[k] \in Range(list) /\ front[k] \in Range(front)
    BY <1>5, <2>2 DEF Range
  <2>5. ASSUME NEW x \in Range(front) PROVE x \in made
    <3>1. PICK k \in 1..Len(list) : x = front[k]
      BY <2>2, <2>5 DEF Range
    <3> QED BY <2>3, <2>4, <3>1
  <2>6. ASSUME NEW c \in Range(list) PROVE <<c, id>> \in Range(front)
    <3>1. PICK k \in 1..Len(list) : c = list[k]
      BY <1>5, <2>6 DEF Range
    <3> QED BY <2>3, <2>4, <3>1
  <2> QED BY <2>2, <2>5, <2>6
<1> HIDE DEF front
<1>8. /\ Range(more) = {<<c, id>> : c \in Range(list)} \cup Range(Tail(calls))
      /\ Len(more) = Len(list) + (Len(calls) - 1)
  <2>1. more = front \o Tail(calls)
    BY DEF front
  <2> DEFINE back == Tail(calls)
             S == NodeIds \X (NodeIds \cup {NoId})
  <2>2. front \in Seq(S) /\ back \in Seq(S)
    BY <1>6, <1>7 DEF Calls
  <2> HIDE DEF S, back
  <2>3. Len(front \o back) = Len(front) + Len(back)
        /\ Range(front \o back) = Range(front) \cup Range(back)
    BY <2>2, ConcatIs
  <2> QED BY <1>6, <1>7, <2>1, <2>3 DEF back
\* The node is in no list.
<1>9. ASSUME NEW x \in D, id \in Range(NodeAt(s, x).children) PROVE FALSE
  <2>1. x = parent
    BY <1>4, <1>9
  <2>2. <<id, parent>> \in Range(calls)
    BY <1>6
  <2>3. <<id, parent>>[1] = id /\ <<id, parent>>[2] = parent
    OBVIOUS
  <2> QED BY <1>9, <2>1, <2>2, <2>3 DEF Loose
<1>10. \A x \in D \ {id} : Range(NodeAt(new, x).children) \subseteq {c \in Live(new) : ParentIn(new, c) = x}
  BY <1>2, <1>3, <1>4, <1>9
<1>11. ASSUME NEW c \in D \ {id}
       PROVE  \/ ParentIn(new, c) = NoId
              \/ ParentIn(new, c) \in Live(new) /\ c \in Range(NodeAt(new, ParentIn(new, c)).children)
              \/ <<c, ParentIn(new, c)>> \in Range(more)
  <2>1. CASE ParentIn(s, c) = NoId
    BY <1>3, <2>1
  <2>2. CASE ParentIn(s, c) \in D /\ c \in Range(NodeAt(s, ParentIn(s, c)).children)
    <3>1. CASE ParentIn(s, c) = id
      BY <1>3, <1>8, <2>2, <3>1
    <3>2. CASE ParentIn(s, c) # id
      BY <1>2, <1>3, <2>2, <3>2
    <3> QED BY <3>1, <3>2
  <2>3. CASE <<c, ParentIn(s, c)>> \in Range(calls)
    <3>1. <<c, ParentIn(s, c)>> # <<id, parent>>
      OBVIOUS
    <3> QED BY <1>3, <1>6, <1>8, <2>3, <3>1
  <2> QED BY <2>1, <2>2, <2>3 DEF Loose
<1>12. ASSUME NEW call \in Range(more), call[2] \in Live(new)
       PROVE  call[1] \notin Range(NodeAt(new, call[2]).children)
  <2>1. call[2] # id /\ call[2] \in D
    BY <1>2, <1>12
  <2>2. call \in Range(Tail(calls))
    BY <1>8, <1>12, <2>1
  <2> QED BY <1>2, <1>6, <2>1, <2>2 DEF Loose
<1>13. Acyclic(kids)
  <2>1. DOMAIN old = D /\ Forest(old) /\ \A x \in D : old[x] = NodeAt(s, x).children
    BY LooseForest DEF old
  <2>2. DOMAIN kids = D \ {id} /\ \A x \in D \ {id} : kids[x] = old[x]
    BY <1>2, <2>1 DEF kids, ChildrenIn
  <2>3. kids = [x \in DOMAIN kids |-> kids[x]]
    BY DEF kids, ChildrenIn
  <2>4. Forest(kids)
    <3>1. \A x \in D \ {id} : Range(kids[x]) \subseteq {c \in D \ {id} : ParentIn(new, c) = x}
      BY <1>2, <1>10, <2>1, <2>2
    <3> QED BY <2>2, <2>3, <3>1 DEF Forest
  <2>5. ASSUME NEW k \in D \ {id} PROVE Below(kids, k) \subseteq Below(old, k)
    <3> DEFINE S == Below(old, k) \ {id}
    <3>1. S \in SUBSET DOMAIN kids /\ k \in S
      BY <2>1, <2>2, BelowIs
    <3>2. \A y \in S : Range(kids[y]) \subseteq S
      <4>1. \A y \in Below(old, k) : y \in D /\ Range(old[y]) \subseteq Below(old, k)
        BY <2>1, BelowIs
      <4>2. \A y \in D \ {id} : kids[y] = old[y] /\ id \notin Range(old[y])
        BY <1>9, <2>1, <2>2
      <4> QED BY <4>1, <4>2
    <3> HIDE DEF S
    <3>3. Below(kids, k) \subseteq S
      BY <2>2, <2>4, <3>1, <3>2, BelowLeast
    <3> QED BY <3>3 DEF S
  <2>6. ASSUME NEW x \in DOMAIN kids, NEW k \in Range(kids[x]) PROVE x \notin Below(kids, k)
    <3>1. x \in D \ {id} /\ k \in Range(old[x]) /\ k \in D \ {id}
      BY <2>2, <2>4, <2>6 DEF Forest
    <3>2. x \notin Below(old, k)
      BY <1>1, <2>1, <3>1 DEF Acyclic
    <3> QED BY <2>5, <3>1, <3>2
  <2> QED BY <2>6 DEF Acyclic
<1>14. Loose(new, more)
  <2>1. \A x \in Live(new) : IsInjective(NodeAt(new, x).children)
    BY <1>2, <1>4
  <2> QED BY <1>2, <1>10, <1>11, <1>12, <1>13, <2>1 DEF Loose, kids
\* The count.
<1>15. Listed(s) = Listed(new) \cup Range(list) /\ Listed(new) \cap Range(list) = {}
       /\ Listed(s) \subseteq D
  <2> DEFINE R(x) == Range(NodeAt(s, x).children)
  <2>1. Listed(s) = UNION {R(x) : x \in D} /\ Range(list) = R(id)
    BY DEF Listed
  <2>2. Listed(new) = UNION {R(x) : x \in D \ {id}}
    BY <1>2 DEF Listed
  <2>3. \A x \in D : R(x) \subseteq {c \in D : ParentIn(s, c) = x}
    BY <1>4
  <2> HIDE DEF R
  <2> QED BY <2>1, <2>2, <2>3
<1>16. IsFiniteSet(D)
  BY <1>1, LiveCount
<1>17. IsFiniteSet(Range(list)) /\ Cardinality(Range(list)) = Len(list)
  BY <1>4, <1>5, InjectiveCount
<1>18. IsFiniteSet(Listed(s)) /\ IsFiniteSet(Listed(new))
  <2>1. Listed(new) \subseteq D
    BY <1>15
  <2> QED BY <1>15, <1>16, <2>1, FS_Subset
<1>19. Cardinality(Listed(s)) = Cardinality(Listed(new)) + Cardinality(Range(list))
  <2>1. Cardinality(Listed(new) \cup Range(list)) =
           Cardinality(Listed(new)) + Cardinality(Range(list)) - Cardinality(Listed(new) \cap Range(list))
    BY <1>17, <1>18, FS_Union
  <2>2. Cardinality(Listed(new) \cap Range(list)) = 0
    BY <1>15, FS_EmptySet
  <2>3. Cardinality(Listed(new)) \in Nat /\ Cardinality(Range(list)) \in Nat
    BY <1>17, <1>18, FS_CardinalityType
  <2> QED BY <1>15, <2>1, <2>2, <2>3
<1>20. Cardinality(Listed(s)) \in Nat /\ Cardinality(Listed(new)) \in Nat
  BY <1>18, FS_CardinalityType
<1> HIDE <1>0
<1>21. Len(more) + Cardinality(Listed(new)) + 1 = Len(calls) + Cardinality(Listed(s))
  <2> DEFINE a == Cardinality(Listed(new))
             b == Cardinality(Listed(s))
             l == Len(list)
             m == Len(more)
             n == Len(calls)
             r == Len(Tail(calls))
  <2>1. b = a + l /\ a \in Nat /\ l \in Nat
    BY <1>5, <1>17, <1>19, <1>20
  <2>2. r = n - 1 /\ n \in Nat /\ m = l + r
    BY <1>6, <1>8
  <2> HIDE DEF a, b, l, m, n, r
  <2>3. m + a + 1 = n + b
    BY <2>1, <2>2
  <2> QED BY <2>3 DEF a, b, m, n
<1> QED BY <1>14, <1>20, <1>21, SMT DEF new

(* A tree: its nodes, its engine, its layouts and what was removed from it. *)
Tree(t) ==
    t = [nodes |-> t.nodes, engine |-> t.engine, layouts |-> t.layouts, last |-> t.last,
         removed |-> t.removed]

Parts(t) ==
    /\ Tree(t) /\ EngineOK(t.engine, t.nodes)
    /\ t.layouts = [i \in 1..Len(t.nodes.node) |-> t.layouts[i]]
    /\ t.removed \subseteq NodeIds /\ \A id \in t.removed : Gone(t.nodes, id)

TreeInv(t) == Parts(t) /\ NodesLinked(t.nodes) /\ Homes(t.nodes)

Removing(w) ==
    /\ w = [tree |-> w.tree, calls |-> w.calls] /\ w.calls \in Calls
    /\ Parts(w.tree) /\ Loose(w.tree.nodes, w.calls)

Remaining(w) == Len(w.calls) + Cardinality(Listed(w.tree.nodes))

LEMMA DroppedIs ==
    ASSUME NEW t, Parts(t), NodesOK(t.nodes), NEW id \in Live(t.nodes),
           \A x \in Live(t.nodes) : /\ IsInjective(NodeAt(t.nodes, x).children)
                                    /\ id \notin Range(NodeAt(t.nodes, x).children)
                                    \/ x = id
    PROVE  LET new == Dropped(t, id) IN Parts(new) /\ new.nodes = RemoveId(t.nodes, id)
<1> DEFINE new == Dropped(t, id)
           nodes == RemoveId(t.nodes, id)
           engine == EngineRemove(t.engine, id)
           layouts == [t.layouts EXCEPT ![id[1]] = {}]
           gone == t.removed \cup {id}
<1>1. new = [t EXCEPT !.nodes = nodes, !.engine = engine, !.layouts[id[1]] = {}, !.removed = gone]
  BY DEF Dropped
<1> HIDE DEF nodes, engine, gone
<1>2. new = [nodes |-> nodes, engine |-> engine, layouts |-> layouts, last |-> t.last, removed |-> gone]
  BY <1>1 DEF Parts, Tree
<1> HIDE DEF new
<1>3. /\ NodesOK(nodes) /\ Live(nodes) = Live(t.nodes) \ {id} /\ Len(nodes.node) = Len(t.nodes.node)
      /\ \A x \in Live(nodes) : NodeAt(nodes, x) = NodeAt(t.nodes, x)
      /\ Gone(nodes, id) /\ \A old : Gone(t.nodes, old) => Gone(nodes, old)
  BY RemoveIs DEF nodes
<1>4. EngineOK(engine, nodes)
  <2>1. NoId \notin Live(t.nodes)
    BY LiveNode
  <2>2. \A x \in Live(nodes) : /\ NodeAt(t.nodes, x).children \in Seq(NodeIds)
                               /\ IsInjective(NodeAt(t.nodes, x).children)
                               /\ id \notin Range(NodeAt(t.nodes, x).children)
    BY <1>3, NodeParts
  <2>3. EngineOK(t.engine, t.nodes)
    BY DEF Parts
  <2> QED BY <1>3, <2>1, <2>2, <2>3, EngineRemoveKeeps DEF engine
<1>5. layouts = [i \in 1..Len(nodes.node) |-> layouts[i]]
  BY <1>3 DEF Parts
<1>6. gone \subseteq NodeIds /\ \A x \in gone : Gone(nodes, x)
  BY <1>3, LiveNode DEF gone, Parts
<1> HIDE DEF layouts
<1>7. Tree(new) /\ new.nodes = nodes /\ new.engine = engine /\ new.layouts = layouts
      /\ new.removed = gone
  BY <1>2 DEF Tree
<1>8. Parts(new)
  BY <1>4, <1>5, <1>6, <1>7 DEF Parts
<1> QED BY <1>7, <1>8 DEF new, nodes

LEMMA RemoveStepKeeps ==
    ASSUME NEW w, Removing(w), w.calls # <<>>
    PROVE  /\ Removing(RemoveStep(w)) /\ Remaining(w) \in Nat /\ Remaining(RemoveStep(w)) \in Nat
           /\ Remaining(RemoveStep(w)) + 1 = Remaining(w)
           /\ Len(RemoveStep(w).tree.nodes.node) = Len(w.tree.nodes.node)
<1> DEFINE t == w.tree
           s == t.nodes
           calls == w.calls
           id == calls[1][1]
           parent == calls[1][2]
           list == NodeAt(s, id).children
           more == [k \in 1..Len(list) |-> <<list[k], id>>] \o Tail(calls)
           new == RemoveStep(w)
<1>1. calls \in Calls /\ calls # <<>> /\ Parts(t) /\ Loose(s, calls) /\ NodesOK(s)
  BY DEF Removing, Loose
<1>2. /\ Tail(calls) \in Calls /\ Len(Tail(calls)) = Len(calls) - 1 /\ Len(calls) \in Nat
      /\ Range(calls) = {calls[1]} \cup Range(Tail(calls))
      /\ calls[1] \in NodeIds \X (NodeIds \cup {NoId})
  BY <1>1, TailIs DEF Calls
<1>3. calls[1] = <<id, parent>>
  BY <1>2
<1>4. w = [tree |-> t, calls |-> calls]
  BY DEF Removing
<1>5. IsFiniteSet(Live(s))
  BY <1>1, LiveCount
<1>6. CASE id \in Live(s) /\ ParentIn(s, id) = parent
  <2>1. new = [tree |-> Dropped(t, id), calls |-> more]
    BY <1>1, <1>6, Zenon DEF RemoveStep, Known, Entry, ParentOf, ParentIn
  <2>2. list \in Seq(NodeIds) /\ id \in NodeIds
    BY <1>1, <1>6, NodeParts, LiveNode
  <2>3. more \in Calls
    <3> DEFINE front == [k \in 1..Len(list) |-> <<list[k], id>>]
               S == NodeIds \X (NodeIds \cup {NoId})
    <3>1. front \in Seq(S)
      BY <2>2
    <3>2. Tail(calls) \in Seq(S)
      BY <1>2 DEF Calls
    <3> HIDE DEF front, S
    <3>3. front \o Tail(calls) \in Seq(S)
      BY <3>1, <3>2, ConcatIs
    <3> QED BY <3>3 DEF front, S, Calls
  <2> HIDE DEF more, new, t, calls
  <2>4. /\ Loose(RemoveId(s, id), more)
        /\ Cardinality(Listed(RemoveId(s, id))) \in Nat /\ Cardinality(Listed(s)) \in Nat
        /\ Len(more) + Cardinality(Listed(RemoveId(s, id))) + 1 = Len(calls) + Cardinality(Listed(s))
    <3>1. Drops(s, calls, id, parent, list, more)
      BY <1>1, <1>3, <1>6, <2>3 DEF Drops, more
    <3> HIDE DEF s, id, parent, list
    <3> QED BY <3>1, LooseDrops
  <2>5. ASSUME NEW x \in Live(s)
        PROVE  IsInjective(NodeAt(s, x).children) /\ (id \notin Range(NodeAt(s, x).children) \/ x = id)
    <3>1. ASSUME id \in Range(NodeAt(s, x).children) PROVE FALSE
      <4>1. x = parent
        BY <1>1, <1>6, <3>1 DEF Loose
      <4>2. calls[1] \in Range(calls) /\ calls[1][1] = id /\ calls[1][2] = parent
        BY <1>2
      <4> QED BY <1>1, <3>1, <4>1, <4>2 DEF Loose
    <3> QED BY <1>1, <3>1 DEF Loose
  <2>6. Parts(Dropped(t, id)) /\ Dropped(t, id).nodes = RemoveId(s, id)
    BY <1>1, <1>6, <2>5, DroppedIs
  <2>7. Len(RemoveId(s, id).node) = Len(s.node)
    BY <1>1, <1>6, RemoveIs
  <2>8. Len(more) \in Nat
    BY <2>3 DEF Calls
  <2>9. new.tree = Dropped(t, id) /\ new.calls = more /\ new = [tree |-> new.tree, calls |-> new.calls]
    BY <2>1
  <2>10. Removing(new)
    BY <2>3, <2>4, <2>6, <2>9 DEF Removing
  <2>11. /\ Remaining(w) = Len(calls) + Cardinality(Listed(s))
         /\ Remaining(new) = Len(more) + Cardinality(Listed(RemoveId(s, id)))
    BY <2>6, <2>9 DEF Remaining, t, calls
  <2>12. Len(new.tree.nodes.node) = Len(s.node)
    BY <2>6, <2>7, <2>9
  <2>13. Len(new.tree.nodes.node) = Len(w.tree.nodes.node)
    BY <2>12 DEF t
  <2>14. Remaining(w) \in Nat /\ Remaining(new) \in Nat /\ Remaining(new) + 1 = Remaining(w)
    <3> DEFINE a == Cardinality(Listed(RemoveId(s, id)))
               b == Cardinality(Listed(s))
               m == Len(more)
               n == Len(calls)
    <3>1. a \in Nat /\ b \in Nat /\ m \in Nat /\ n \in Nat /\ m + a + 1 = n + b
      BY <1>2, <2>4, <2>8
    <3>2. Remaining(w) = n + b /\ Remaining(new) = m + a
      BY <2>11
    <3> HIDE DEF a, b, m, n
    <3> QED BY <3>1, <3>2
  <2> QED BY <2>10, <2>13, <2>14 DEF new
<1>7. CASE ~(id \in Live(s) /\ ParentIn(s, id) = parent)
  <2>1. new = [w EXCEPT !.calls = Tail(calls)]
    BY <1>1, <1>7, Zenon DEF RemoveStep, Known, Entry, ParentOf, ParentIn
  <2>2. new = [tree |-> t, calls |-> Tail(calls)]
    BY <1>4, <2>1
  <2> HIDE DEF new, t, calls
  <2>3. Loose(s, Tail(calls))
    <3>1. \A call \in Range(Tail(calls)) : call \in Range(calls)
      BY <1>2
    <3>2. ASSUME NEW c \in Live(s), <<c, ParentIn(s, c)>> \in Range(calls)
          PROVE  <<c, ParentIn(s, c)>> \in Range(Tail(calls))
      <4>1. <<c, ParentIn(s, c)>> # <<id, parent>>
        BY <1>7
      <4> QED BY <1>2, <1>3, <3>2, <4>1
    <3> QED BY <1>1, <3>1, <3>2 DEF Loose
  <2>4. Listed(s) \subseteq Live(s)
    BY <1>1 DEF Listed, Loose
  <2>5. Cardinality(Listed(s)) \in Nat
    BY <1>5, <2>4, FS_Subset, FS_CardinalityType
  <2>6. new.tree = t /\ new.calls = Tail(calls) /\ new = [tree |-> new.tree, calls |-> new.calls]
    BY <2>2
  <2> QED BY <1>1, <1>2, <2>3, <2>5, <2>6 DEF Removing, Remaining, new, t, calls
<1> QED BY <1>6, <1>7

\* The loop has a step for every node and every call: when it ends, no call waits.
LEMMA RemoveSubtreesKeeps ==
    ASSUME NEW t, NEW calls \in Calls, Parts(t), Loose(t.nodes, calls)
    PROVE  TreeInv(RemoveSubtrees(t, calls))
<1> DEFINE n == Len(t.nodes.node) + Len(calls)
           start == [tree |-> t, calls |-> calls]
<1>1. NodesOK(t.nodes)
  BY DEF Loose
<1>2. IsFiniteSet(Live(t.nodes)) /\ Cardinality(Live(t.nodes)) <= Len(t.nodes.node)
      /\ Len(t.nodes.node) \in Nat
  BY <1>1, LiveCount
<1>3. Len(calls) \in Nat
  BY DEF Calls
<1>4. Removing(start) /\ start.tree = t /\ start.calls = calls
  BY DEF Removing
<1>5. Remaining(start) \in 0..n
  <2>1. Listed(t.nodes) \subseteq Live(t.nodes)
    BY DEF Listed, Loose
  <2>2. /\ Cardinality(Listed(t.nodes)) <= Cardinality(Live(t.nodes))
        /\ Cardinality(Listed(t.nodes)) \in Nat /\ Cardinality(Live(t.nodes)) \in Nat
    BY <1>2, <2>1, FS_Subset, FS_CardinalityType
  <2> HIDE DEF start
  <2> QED BY <1>2, <1>3, <1>4, <2>2 DEF Remaining
<1>6. n \in Nat
  BY <1>2, <1>3
<1>7. PICK g : /\ g[0] = start /\ \A m \in 1..n : g[m] = RemoveStep(g[m - 1])
               /\ RemoveSubtrees(t, calls) = g[n].tree
  <2>1. n = Len(t.nodes.node) + Len(calls)
    OBVIOUS
  <2> HIDE DEF n
  <2> QED BY <1>6, <2>1, RemoveRuns, SMTT(30)
<1> HIDE DEF n, start
<1> DEFINE Good(m) == /\ Removing(g[m]) /\ Remaining(g[m]) \in Nat
                      /\ g[m].calls = <<>> \/ Remaining(g[m]) + m <= n
           S == {m \in 0..n : Good(m)}
<1>8. 0 \in S
  BY <1>4, <1>5, <1>6, <1>7
<1>9. ASSUME NEW m \in 0 .. n - 1, m \in S PROVE m + 1 \in S
  <2>1. m + 1 \in 1..n /\ (m + 1) - 1 = m /\ m + 1 \in 0..n
    BY <1>6
  <2>2. g[m + 1] = RemoveStep(g[m])
    BY <1>7, <2>1
  <2>3. Good(m)
    BY <1>9
  <2>4. Good(m + 1)
    <3>1. CASE g[m].calls = <<>>
      <4>1. g[m + 1] = g[m]
        BY <2>2, <3>1 DEF RemoveStep
      <4> QED BY <2>3, <3>1, <4>1
    <3>2. CASE g[m].calls # <<>>
      <4> DEFINE w == g[m]
                 v == g[m + 1]
      <4>1. Removing(w) /\ Remaining(w) + m <= n /\ w.calls # <<>>
        BY <2>3, <3>2
      <4>2. v = RemoveStep(w)
        BY <2>2
      <4> HIDE DEF w, v
      <4>3. Removing(v) /\ Remaining(v) \in Nat /\ Remaining(v) + 1 = Remaining(w)
        BY <4>1, <4>2, RemoveStepKeeps
      <4>4. Remaining(v) + (m + 1) <= n
        BY <1>6, <4>1, <4>3
      <4> QED BY <4>3, <4>4 DEF v
    <3> QED BY <3>1, <3>2
  <2> QED BY <2>1, <2>4
<1> HIDE DEF S
<1>10. n \in S
  <2>1. \A m \in 0 .. n - 1 : m \in S => m + 1 \in S
    BY <1>9
  <2>2. \A m \in 0..n : m \in S
    BY <1>6, <1>8, <2>1, Induction
  <2> QED BY <1>6, <2>2
<1> DEFINE last == g[n]
<1>11. Removing(last) /\ (last.calls = <<>> \/ Remaining(last) + n <= n)
  BY <1>10 DEF S
<1> HIDE DEF last
<1>12. last.calls = <<>>
  <2> SUFFICES ASSUME last.calls # <<>> PROVE FALSE
    OBVIOUS
  <2>1. Remaining(RemoveStep(last)) \in Nat /\ Remaining(RemoveStep(last)) + 1 = Remaining(last)
    BY <1>11, RemoveStepKeeps
  <2> QED BY <1>6, <1>11, <2>1
<1>13. Parts(last.tree) /\ NodesLinked(last.tree.nodes) /\ Homes(last.tree.nodes)
  BY <1>11, <1>12, LooseSettles DEF Removing
<1> QED BY <1>7, <1>13 DEF TreeInv, last

\* Nodes that are linked both ways are loose, with calls for nodes that have no list.
LEMMA LinkedIsLoose ==
    ASSUME NEW s, NodesLinked(s), Homes(s), NEW calls,
           \A call \in Range(calls) : call[2] \notin Live(s)
    PROVE  Loose(s, calls)
<1>1. \A c \in Live(s) : ParentIn(s, c) \in Live(s) => c \in Range(NodeAt(s, ParentIn(s, c)).children)
  BY DEF NodesLinked, Links
<1> QED BY <1>1 DEF NodesLinked, Links, Homes, Loose

(* What the operations of a tree keep.                                     *)
LEMMA ForgetKeeps ==
    ASSUME NEW t, TreeInv(t)
    PROVE  /\ TreeInv(Forget(t)) /\ Forget(t).nodes = t.nodes /\ Forget(t).engine = t.engine
           /\ Forget(t).removed = t.removed /\ Forget(t).last = NothingComputed
           /\ Forget(t).layouts = [i \in 1..Len(t.nodes.node) |-> {}]
<1> DEFINE new == Forget(t)
           none == [i \in DOMAIN t.layouts |-> {}]
<1>1. new = [t EXCEPT !.layouts = none, !.last = NothingComputed]
  BY DEF Forget
<1>2. none = [i \in 1..Len(t.nodes.node) |-> {}]
  BY DEF TreeInv, Parts
<1> HIDE DEF new, none
<1>3. new = [nodes |-> t.nodes, engine |-> t.engine, layouts |-> none, last |-> NothingComputed,
             removed |-> t.removed]
  BY <1>1 DEF TreeInv, Parts, Tree
<1>4. /\ new.nodes = t.nodes /\ new.engine = t.engine /\ new.removed = t.removed /\ Tree(new)
      /\ new.layouts = none /\ new.last = NothingComputed
  BY <1>3 DEF Tree
<1>5. none = [i \in 1..Len(t.nodes.node) |-> none[i]]
  BY <1>2
<1> QED BY <1>2, <1>4, <1>5 DEF TreeInv, Parts, new

\* A change of nodes that are there already, and of the engine with them.
Outlives(nodes, s) == Len(nodes.node) = Len(s.node) /\ \A id : Gone(s, id) => Gone(nodes, id)

Replaced(new, t) ==
    /\ Tree(new) /\ new.removed = t.removed /\ new.last = t.last /\ new.layouts = t.layouts

LEMMA NodesChange ==
    ASSUME NEW t, TreeInv(t), NEW new, Replaced(new, t), EngineOK(new.engine, new.nodes),
           Outlives(new.nodes, t.nodes)
    PROVE  Parts(new)
<1>1. Tree(new) /\ new.removed = t.removed /\ new.layouts = t.layouts
  BY DEF Replaced
<1>2. Len(new.nodes.node) = Len(t.nodes.node) /\ \A id : Gone(t.nodes, id) => Gone(new.nodes, id)
  BY DEF Outlives
<1>3. /\ t.layouts = [i \in 1..Len(t.nodes.node) |-> t.layouts[i]]
      /\ t.removed \subseteq NodeIds /\ \A id \in t.removed : Gone(t.nodes, id)
  BY DEF TreeInv, Parts
<1>4. new.layouts = [i \in 1..Len(new.nodes.node) |-> new.layouts[i]]
  <2> DEFINE layouts == t.layouts
             n == Len(t.nodes.node)
  <2>1. layouts = [i \in 1..n |-> layouts[i]] /\ new.layouts = layouts /\ Len(new.nodes.node) = n
    BY <1>1, <1>2, <1>3
  <2> HIDE DEF layouts, n
  <2> QED BY <2>1
<1>5. new.removed \subseteq NodeIds /\ \A id \in new.removed : Gone(new.nodes, id)
  BY <1>1, <1>2, <1>3
<1> QED BY <1>1, <1>4, <1>5 DEF Parts

LEMMA AddedKeeps ==
    ASSUME NEW t, TreeInv(t), HasSlot(t), NEW look \in [style : Styles, text : Texts]
    PROVE  LET new == Added(t, look)
               id == NextId(t.nodes)
           IN  /\ TreeInv(new) /\ new.nodes = InsertNode(t.nodes, NodeWith(look))
               /\ id \in NodeIds \ Known(t) /\ Known(new) = Known(t) \cup {id}
               /\ new.engine = EngineAdd(t.engine, id, look.style)
               /\ new.last = t.last /\ new.removed = t.removed
               /\ Len(new.layouts) = Len(new.nodes.node)
               /\ \A i \in 1..Len(new.layouts) :
                     new.layouts[i] = IF i = id[1] THEN {} ELSE t.layouts[i]
<1> DEFINE new == Added(t, look)
           s == t.nodes
           id == NextId(s)
           node == NodeWith(look)
           nodes == InsertNode(s, node)
           engine == EngineAdd(t.engine, id, look.style)
           layouts == IF id[1] > Len(t.layouts) THEN Append(t.layouts, {})
                      ELSE [t.layouts EXCEPT ![id[1]] = {}]
<1>1. NodesOK(s) /\ NodesLinked(s) /\ Homes(s) /\ EngineOK(t.engine, s) /\ Tree(t)
  BY DEF TreeInv, Parts, NodesLinked
<1>2. node = [style |-> look.style, text |-> look.text, parent |-> NoId, children |-> <<>>]
  BY DEF NodeWith
<1>3. node \in LayoutNodes
  BY <1>2 DEF LayoutNodes
<1>4. new = [t EXCEPT !.nodes = nodes, !.engine = engine, !.layouts = layouts]
  BY DEF Added
<1>5. s.free # <<>> \/ Len(s.node) < MaxSlots
  BY DEF HasSlot
<1>6. NodesLinked(nodes) /\ Homes(nodes)
  BY <1>1, <1>5, NodeInsertKeeps
<1> HIDE DEF nodes, engine, layouts, id, new, node
<1>7. new = [nodes |-> nodes, engine |-> engine, layouts |-> layouts, last |-> t.last,
             removed |-> t.removed]
  BY <1>1, <1>4 DEF Tree
<1>8. /\ NodesOK(nodes) /\ id \in NodeIds \ Live(s) /\ Live(nodes) = Live(s) \cup {id}
      /\ NodeAt(nodes, id) = node /\ \A x \in Live(s) : NodeAt(nodes, x) = NodeAt(s, x)
      /\ \A x : Gone(s, x) => Gone(nodes, x) /\ x # id
      /\ Len(nodes.node) = IF id[1] > Len(s.node) THEN Len(s.node) + 1 ELSE Len(s.node)
      /\ id[1] \in 1..Len(s.node) + 1
  BY <1>1, <1>3, <1>5, InsertIs DEF nodes, id
<1>9. id # NoId
  BY <1>8 DEF NodeIds, NoId
<1>10. EngineOK(engine, nodes)
  <2>1. id \notin Live(s) \cup {NoId}
    BY <1>8, <1>9
  <2>2. NodeAt(nodes, id).style = look.style /\ NodeAt(nodes, id).children = <<>>
    BY <1>2, <1>8
  <2> QED BY <1>1, <1>8, <2>1, <2>2, EngineAddKeeps DEF engine
<1>11. /\ layouts = [i \in 1..Len(nodes.node) |-> layouts[i]] /\ Len(layouts) = Len(nodes.node)
       /\ \A i \in 1..Len(layouts) : layouts[i] = IF i = id[1] THEN {} ELSE t.layouts[i]
  <2> DEFINE n == Len(s.node)
             old == t.layouts
             S == {old[i] : i \in 1..n} \cup {{}}
  <2>1. n \in Nat
    BY <1>1 DEF NodesOK, StoreOK, Stores
  <2>2. old = [i \in 1..n |-> old[i]]
    BY DEF TreeInv, Parts
  <2>3. old \in [1..n -> S] /\ {} \in S
    BY <2>2
  <2> HIDE DEF n, S, old
  <2>4. old \in Seq(S) /\ Len(old) = n
    BY <2>1, <2>3
  <2>5. CASE id[1] > n
    <3>1. layouts = Append(old, {}) /\ id[1] = n + 1 /\ Len(nodes.node) = n + 1
      <4>1. id[1] = n + 1 /\ Len(nodes.node) = n + 1
        BY <1>8, <2>1, <2>5 DEF n
      <4>2. Len(t.layouts) = n
        BY <2>4 DEF old
      <4> QED BY <2>5, <4>1, <4>2 DEF layouts, old
    <3> DEFINE nothing == {}
    <3>2. /\ layouts \in Seq(S) /\ Len(layouts) = n + 1 /\ layouts[n + 1] = {}
          /\ \A i \in 1..n : layouts[i] = old[i]
      <4>1. old \in Seq(S) /\ nothing \in S /\ layouts = Append(old, nothing) /\ Len(old) = n
        BY <2>3, <2>4, <3>1
      <4> HIDE DEF nothing
      <4>2. /\ layouts \in Seq(S) /\ Len(layouts) = n + 1 /\ layouts[n + 1] = nothing
            /\ \A i \in 1..n : layouts[i] = old[i]
        BY <4>1, AppendedIs
      <4> QED BY <4>2 DEF nothing
    <3>3. layouts = [i \in 1..n + 1 |-> layouts[i]]
      BY <2>1, <3>2
    <3>4. \A i \in 1..n + 1 : layouts[i] = IF i = id[1] THEN {} ELSE old[i]
      BY <2>1, <3>1, <3>2
    <3> QED BY <3>1, <3>2, <3>3, <3>4 DEF old
  <2>6. CASE ~(id[1] > n)
    <3>1. layouts = [old EXCEPT ![id[1]] = {}] /\ Len(nodes.node) = n
      BY <1>8, <2>1, <2>4, <2>6 DEF layouts, n, old
    <3>2. id[1] \in 1..n
      BY <1>8, <2>1, <2>6 DEF n
    <3>3. layouts \in Seq(S) /\ Len(layouts) = n
      BY <2>3, <2>4, <3>1, <3>2, ReplacedIs
    <3>4. \A i \in 1..n : layouts[i] = IF i = id[1] THEN {} ELSE old[i]
      BY <2>2, <3>1
    <3>5. layouts = [i \in 1..n |-> layouts[i]]
      BY <2>2, <3>1
    <3> QED BY <3>1, <3>3, <3>4, <3>5 DEF old
  <2> QED BY <2>5, <2>6
<1>12. /\ Tree(new) /\ new.nodes = nodes /\ new.engine = engine /\ new.removed = t.removed
       /\ new.layouts = layouts /\ new.last = t.last
  BY <1>7 DEF Tree
<1>13. TreeInv(new)
  BY <1>6, <1>8, <1>10, <1>11, <1>12 DEF TreeInv, Parts
<1> QED BY <1>8, <1>11, <1>12, <1>13 DEF new, nodes, engine, id, node, Known

LEMMA EngineForest ==
    ASSUME NEW s, NodesLinked(s), NEW e, EngineOK(e, s)
    PROVE  /\ Engine(e) /\ DOMAIN e.kids = Live(s) /\ Forest(e.kids)
           /\ \A x \in Live(s) : /\ e.kids[x] = NodeAt(s, x).children
                                 /\ e.kids[x] \in Seq(NodeIds) /\ IsInjective(e.kids[x])
                                 /\ Range(e.kids[x]) = {c \in Live(s) : ParentIn(s, c) = x}
<1>1. NodesOK(s) /\ Links(s)
  BY DEF NodesLinked
<1>2. e.kids = ChildrenIn(s) /\ Engine(e)
  BY DEF EngineOK
<1>3. /\ DOMAIN ChildrenIn(s) = Live(s) /\ Forest(ChildrenIn(s))
      /\ \A x \in Live(s) : ChildrenIn(s)[x] = NodeAt(s, x).children
  BY <1>1, ChildrenAre
<1>4. \A x \in Live(s) : NodeAt(s, x).children \in Seq(NodeIds)
  BY <1>1, NodeParts
<1> QED BY <1>1, <1>2, <1>3, <1>4 DEF Links

LEMMA LinkedTree ==
    ASSUME NEW t, TreeInv(t), NEW parent \in Known(t), NEW children \in Seq(Known(t)),
           IsInjective(children), Range(children) \cap Ancestors(t.nodes, parent) = {}
    PROVE  LET new == [t EXCEPT !.nodes = Linked(@, parent, children),
                                !.engine = EngineSetChildren(@, parent, children)] IN
           /\ TreeInv(new) /\ new.nodes = Linked(t.nodes, parent, children)
           /\ new.engine = EngineSetChildren(t.engine, parent, children)
           /\ new.removed = t.removed /\ new.last = t.last /\ new.layouts = t.layouts
<1> DEFINE s == t.nodes
           e == t.engine
           nodes == Linked(s, parent, children)
           engine == EngineSetChildren(e, parent, children)
           new == [t EXCEPT !.nodes = Linked(@, parent, children),
                            !.engine = EngineSetChildren(@, parent, children)]
<1>1. NodesOK(s) /\ Links(s) /\ NodesLinked(s) /\ Homes(s) /\ EngineOK(e, s)
  BY DEF TreeInv, Parts, NodesLinked
<1>2. parent \in Live(s) /\ children \in Seq(Live(s))
  BY DEF Known
<1>3. new = [t EXCEPT !.nodes = nodes, !.engine = engine]
  OBVIOUS
<1> HIDE DEF nodes, engine, new
<1>4. NodesLinked(nodes) /\ Homes(nodes)
  BY <1>1, <1>2, LinkedKeeps DEF nodes
<1>5. /\ Live(nodes) = Live(s) /\ Len(nodes.node) = Len(s.node)
      /\ \A id : Gone(s, id) => Gone(nodes, id)
      /\ \A id \in Live(s) :
            /\ NodeAt(nodes, id).style = NodeAt(s, id).style
            /\ NodeAt(nodes, id).children = IF id = parent THEN children
                                            ELSE Without(NodeAt(s, id).children, Range(children))
  BY <1>1, <1>2, LinkedIs DEF nodes
<1>6. /\ Engine(e) /\ DOMAIN e.kids = Live(s) /\ Forest(e.kids)
      /\ \A x \in Live(s) : e.kids[x] = NodeAt(s, x).children /\ e.kids[x] \in Seq(NodeIds) /\ IsInjective(e.kids[x])
  BY <1>1, EngineForest
<1>7. /\ Engine(engine) /\ engine.made = e.made /\ engine.style = e.style /\ engine.root = e.root
      /\ DOMAIN engine.cache = DOMAIN e.cache /\ DOMAIN engine.geometry = DOMAIN e.geometry
      /\ DOMAIN engine.kids = DOMAIN e.kids
      /\ engine.kids = [p \in DOMAIN engine.kids |-> engine.kids[p]]
      /\ \A p \in DOMAIN e.kids : engine.kids[p] = IF p = parent THEN children
                                                   ELSE Without(e.kids[p], Range(children))
  <2>1. Wired(e) /\ parent \in DOMAIN e.kids
    BY <1>2, <1>6 DEF Wired
  <2> HIDE DEF e
  <2> QED BY <2>1, EngineSetChildrenIs DEF engine
<1>8. engine.kids = ChildrenIn(nodes)
  <2>1. \A x \in Live(nodes) : engine.kids[x] = NodeAt(nodes, x).children
    BY <1>5, <1>6, <1>7
  <2>2. DOMAIN engine.kids = Live(nodes) /\ engine.kids = [p \in DOMAIN engine.kids |-> engine.kids[p]]
    BY <1>5, <1>6, <1>7
  <2> QED BY <2>1, <2>2 DEF ChildrenIn
<1>9. EngineOK(engine, nodes)
  BY <1>1, <1>5, <1>7, <1>8 DEF EngineOK
<1>10. Parts(new) /\ new.nodes = nodes /\ new.engine = engine /\ Replaced(new, t)
  <2>1. Outlives(nodes, t.nodes)
    BY <1>5 DEF Outlives
  <2>2. new = [nodes |-> nodes, engine |-> engine, layouts |-> t.layouts, last |-> t.last,
               removed |-> t.removed]
    BY <1>3 DEF TreeInv, Parts, Tree
  <2>3. new.nodes = nodes /\ new.engine = engine /\ Replaced(new, t)
    BY <2>2 DEF Tree, Replaced
  <2> QED BY <1>9, <2>1, <2>3, NodesChange
<1> QED BY <1>4, <1>10 DEF TreeInv, Replaced, nodes, engine, new

LEMMA ReplaceChildrenKeeps ==
    ASSUME NEW t, TreeInv(t), NEW parent \in Known(t), NEW children \in Seq(Known(t)),
           IsInjective(children), Range(children) \cap Ancestors(t.nodes, parent) = {}
    PROVE  TreeInv(ReplaceChildren(t, parent, children))
<1> DEFINE old == Entry(t, parent).children
           linked == [t EXCEPT !.nodes = Linked(@, parent, children),
                               !.engine = EngineSetChildren(@, parent, children)]
           calls == [k \in 1..Len(old) |-> <<old[k], NoId>>]
<1>1. ReplaceChildren(t, parent, children) = Forget(RemoveSubtrees(linked, calls))
  BY DEF ReplaceChildren
<1>2. NodesOK(t.nodes) /\ parent \in Live(t.nodes)
  BY DEF TreeInv, NodesLinked, Known
<1>3. old \in Seq(NodeIds)
  BY <1>2, NodeParts DEF Entry
<1>4. calls \in Calls /\ DOMAIN calls = 1..Len(old)
      /\ \A k \in 1..Len(old) : calls[k] = <<old[k], NoId>>
  BY <1>3 DEF Calls
<1> HIDE DEF calls, linked
<1>5. TreeInv(linked)
  BY LinkedTree DEF linked
<1>6. \A call \in Range(calls) : call[2] \notin Live(linked.nodes)
  <2>1. NoId \notin Live(linked.nodes)
    BY <1>5, LiveNode DEF TreeInv, NodesLinked
  <2>2. \A call \in Range(calls) : call[2] = NoId
    BY <1>4 DEF Range
  <2> QED BY <2>1, <2>2
<1>7. Parts(linked) /\ Loose(linked.nodes, calls)
  BY <1>5, <1>6, LinkedIsLoose DEF TreeInv
<1>8. TreeInv(RemoveSubtrees(linked, calls))
  BY <1>4, <1>7, RemoveSubtreesKeeps
<1> QED BY <1>1, <1>8, ForgetKeeps

\* A node leaves the list of its parent, and is then loose.
LEMMA ApartIs ==
    ASSUME NEW t, TreeInv(t), NEW id \in Known(t)
    PROVE  LET parent == ParentOf(t, id)
               rest == Without(Entry(t, parent).children, {id})
               apart == IF parent = NoId THEN t
                        ELSE [t EXCEPT
                                !.nodes = SetNode(@, parent, [Entry(t, parent) EXCEPT !.children = rest]),
                                !.engine = EngineSetChildren(@, parent, rest)]
               calls == << <<id, parent>> >>
           IN  /\ calls \in Calls /\ Parts(apart) /\ Loose(apart.nodes, calls)
               /\ parent = NoId \/ parent \in Live(t.nodes)
               /\ apart.engine = IF parent = NoId THEN t.engine
                                 ELSE EngineSetChildren(t.engine, parent, rest)
               /\ \A x \in Live(t.nodes) : NodeAt(apart.nodes, x).text = NodeAt(t.nodes, x).text
<1> DEFINE s == t.nodes
           e == t.engine
           parent == ParentOf(t, id)
           node == Entry(t, parent)
           rest == Without(node.children, {id})
           less == [node EXCEPT !.children = rest]
           nodes == SetNode(s, parent, less)
           engine == EngineSetChildren(e, parent, rest)
           apart == IF parent = NoId THEN t ELSE [t EXCEPT !.nodes = nodes, !.engine = engine]
           call == <<id, parent>>
           calls == <<call>>
<1>2. NodesOK(s) /\ Links(s) /\ NodesLinked(s) /\ Homes(s) /\ EngineOK(e, s) /\ id \in Live(s)
      /\ Parts(t)
  BY DEF TreeInv, Parts, NodesLinked, Known
<1>3. id \in NodeIds /\ parent \in Live(s) \cup {NoId} /\ ParentIn(s, id) = parent
  BY <1>2, LiveNode DEF Homes, ParentOf, Entry, ParentIn
<1>4. \A x \in Live(s) : x \in NodeIds /\ x # NoId
  BY <1>2, LiveNode
<1>5. calls \in Calls /\ Range(calls) = {call}
  <2>1. call \in NodeIds \X (NodeIds \cup {NoId})
    BY <1>3, <1>4
  <2> HIDE DEF call
  <2> QED BY <2>1 DEF Calls, Range
<1>6. call[1] = id /\ call[2] = parent
  OBVIOUS
<1> HIDE DEF apart, calls
<1>7. CASE parent = NoId
  <2>1. apart = t
    BY <1>7 DEF apart
  <2>2. \A c \in Range(calls) : c[2] \notin Live(s)
    BY <1>4, <1>5, <1>6, <1>7
  <2>3. Loose(s, calls)
    BY <1>2, <2>2, LinkedIsLoose
  <2> QED BY <1>2, <1>5, <1>7, <2>1, <2>3 DEF apart, calls
<1>8. CASE parent # NoId
  <2>1. apart = [t EXCEPT !.nodes = nodes, !.engine = engine]
    BY <1>8 DEF apart
  <2>2. parent \in Live(s) /\ node = NodeAt(s, parent) /\ node \in LayoutNodes
    BY <1>2, <1>3, <1>8, LiveNode DEF Entry
  <2>3. node.children \in Seq(NodeIds) /\ IsInjective(node.children)
    BY <1>2, <2>2, NodeParts DEF Links
  <2> HIDE DEF node, nodes, engine
  <2>4. rest \in Seq(NodeIds) /\ IsInjective(rest) /\ Range(rest) = Range(node.children) \ {id}
    BY <2>3, WithoutIs
  <2> HIDE DEF rest
  <2>5. less \in LayoutNodes /\ less.children = rest /\ less.parent = node.parent
        /\ less.style = node.style
        /\ less.text = node.text
    BY <2>2, <2>4 DEF LayoutNodes
  <2> HIDE DEF less
  <2>6. /\ NodesOK(nodes) /\ Live(nodes) = Live(s) /\ Len(nodes.node) = Len(s.node)
        /\ \A x \in Live(s) : NodeAt(nodes, x) = IF x = parent THEN less ELSE NodeAt(s, x)
        /\ \A x : Gone(s, x) => Gone(nodes, x)
    BY <1>2, <2>2, <2>5, SetNodeIs DEF nodes
  <2>7. \A x \in Live(s) : /\ NodeAt(nodes, x).style = NodeAt(s, x).style
                           /\ ParentIn(nodes, x) = ParentIn(s, x)
                           /\ NodeAt(nodes, x).children = IF x = parent THEN rest ELSE NodeAt(s, x).children
                           /\ NodeAt(nodes, x).text = NodeAt(s, x).text
    BY <2>2, <2>5, <2>6 DEF ParentIn
  <2>8. /\ Engine(e) /\ DOMAIN e.kids = Live(s) /\ Forest(e.kids)
        /\ \A x \in Live(s) : /\ e.kids[x] = NodeAt(s, x).children /\ e.kids[x] \in Seq(NodeIds)
                              /\ IsInjective(e.kids[x])
                              /\ Range(e.kids[x]) = {c \in Live(s) : ParentIn(s, c) = x}
    BY <1>2, EngineForest
  <2>9. /\ Engine(engine) /\ engine.made = e.made /\ engine.style = e.style /\ engine.root = e.root
        /\ DOMAIN engine.cache = DOMAIN e.cache /\ DOMAIN engine.geometry = DOMAIN e.geometry
        /\ DOMAIN engine.kids = DOMAIN e.kids
        /\ engine.kids = [p \in DOMAIN engine.kids |-> engine.kids[p]]
        /\ \A p \in DOMAIN e.kids : engine.kids[p] = IF p = parent THEN rest
                                                     ELSE Without(e.kids[p], Range(rest))
    <3>1. Wired(e) /\ parent \in DOMAIN e.kids
      BY <2>2, <2>8 DEF Wired
    <3> HIDE DEF e
    <3> QED BY <3>1, EngineSetChildrenIs DEF engine
  <2>10. ASSUME NEW p \in Live(s), p # parent PROVE Without(e.kids[p], Range(rest)) = e.kids[p]
    <3>1. Range(e.kids[p]) \cap Range(rest) = {}
      <4>1. Range(rest) \subseteq {c \in Live(s) : ParentIn(s, c) = parent}
        BY <2>2, <2>4, <2>8
      <4>2. Range(e.kids[p]) = {c \in Live(s) : ParentIn(s, c) = p}
        BY <2>8
      <4> QED BY <2>10, <4>1, <4>2
    <3> QED BY <2>8, <3>1, WithoutIs
  <2>11. engine.kids = ChildrenIn(nodes)
    BY <2>6, <2>7, <2>8, <2>9, <2>10 DEF ChildrenIn
  <2>12. EngineOK(engine, nodes)
    BY <1>2, <2>6, <2>7, <2>9, <2>11 DEF EngineOK
  <2>13. Parts(apart) /\ apart.nodes = nodes /\ apart.engine = engine
    <3>1. Outlives(nodes, t.nodes)
      BY <2>6 DEF Outlives
    <3>2. apart = [nodes |-> nodes, engine |-> engine, layouts |-> t.layouts, last |-> t.last,
                   removed |-> t.removed]
      BY <1>2, <2>1 DEF Parts, Tree
    <3>3. apart.nodes = nodes /\ apart.engine = engine /\ Replaced(apart, t)
      BY <3>2 DEF Tree, Replaced
    <3> QED BY <2>12, <3>1, <3>3, NodesChange
  <2>14. Acyclic(ChildrenIn(nodes))
    <3> DEFINE old == ChildrenIn(s)
               kids == ChildrenIn(nodes)
    <3>1. DOMAIN old = Live(s) /\ Forest(old) /\ Acyclic(old)
          /\ \A x \in Live(s) : old[x] = NodeAt(s, x).children
      BY <1>2, ChildrenAre DEF NodesLinked
    <3>2. /\ DOMAIN kids = Live(s) /\ kids = [x \in DOMAIN kids |-> kids[x]]
          /\ \A x \in Live(s) : kids[x] = NodeAt(nodes, x).children
      BY <2>6 DEF ChildrenIn
    <3> HIDE DEF old, kids
    <3>3. \A x \in Live(s) : Range(kids[x]) \subseteq Range(old[x])
      BY <2>2, <2>4, <2>7, <3>1, <3>2
    <3>4. Forest(kids)
      BY <3>1, <3>2, <3>3 DEF Forest
    <3>5. ASSUME NEW k \in Live(s) PROVE Below(kids, k) \subseteq Below(old, k)
      <4> DEFINE S == Below(old, k)
      <4>1. S \subseteq Live(s) /\ k \in S /\ \A y \in S : Range(old[y]) \subseteq S
        BY <3>1, BelowIs
      <4>2. S \in SUBSET DOMAIN kids /\ \A y \in S : Range(kids[y]) \subseteq S
        BY <3>2, <3>3, <4>1
      <4> HIDE DEF S
      <4>3. Below(kids, k) \subseteq S
        BY <3>2, <3>4, <4>1, <4>2, BelowLeast
      <4> QED BY <4>3 DEF S
    <3>6. ASSUME NEW x \in DOMAIN kids, NEW k \in Range(kids[x]) PROVE x \notin Below(kids, k)
      <4>1. k \in Range(old[x]) /\ k \in Live(s)
        BY <3>2, <3>3, <3>4, <3>6 DEF Forest
      <4> QED BY <3>1, <3>2, <3>5, <4>1 DEF Acyclic
    <3>7. Acyclic(kids)
      BY <3>6 DEF Acyclic
    <3> QED BY <3>7 DEF kids
  <2>15. Loose(nodes, calls)
    <3>1. \A x \in Live(s) : /\ IsInjective(NodeAt(nodes, x).children)
                             /\ Range(NodeAt(nodes, x).children) = {c \in Live(s) : ParentIn(s, c) = x} \ {id}
      <4> SUFFICES ASSUME NEW x \in Live(s)
                   PROVE  /\ IsInjective(NodeAt(nodes, x).children)
                          /\ Range(NodeAt(nodes, x).children) = {c \in Live(s) : ParentIn(s, c) = x} \ {id}
        OBVIOUS
      <4>1. CASE x = parent
        BY <2>2, <2>4, <2>7, <2>8, <4>1
      <4>2. CASE x # parent
        BY <1>3, <2>7, <2>8, <4>2
      <4> QED BY <4>1, <4>2
    <3>2. \A c \in Live(s) : \/ ParentIn(nodes, c) = NoId
                             \/ ParentIn(nodes, c) \in Live(nodes) /\ c \in Range(NodeAt(nodes, ParentIn(nodes, c)).children)
                             \/ <<c, ParentIn(nodes, c)>> \in Range(calls)
      <4> SUFFICES ASSUME NEW c \in Live(s), ParentIn(nodes, c) # NoId, c # id
                   PROVE  ParentIn(nodes, c) \in Live(nodes)
                          /\ c \in Range(NodeAt(nodes, ParentIn(nodes, c)).children)
        BY <1>3, <1>5, <2>7
      <4>1. ParentIn(s, c) = ParentIn(nodes, c) /\ ParentIn(s, c) \in Live(s)
        BY <1>2, <2>7 DEF Homes
      <4> QED BY <2>6, <3>1, <4>1
    <3>3. \A c \in Range(calls) : c[1] \notin Range(NodeAt(nodes, c[2]).children)
      BY <1>5, <1>6, <2>2, <3>1
    <3> QED BY <2>6, <2>7, <2>14, <3>1, <3>2, <3>3 DEF Loose
  <2>16. /\ calls \in Calls /\ Parts(apart) /\ Loose(apart.nodes, calls) /\ apart.engine = engine
         /\ \A x \in Live(s) : NodeAt(apart.nodes, x).text = NodeAt(s, x).text
    BY <1>5, <2>7, <2>13, <2>15
  <2> QED BY <1>3, <1>8, <2>16 DEF apart, calls, engine, nodes, less, rest, node
<1> QED BY <1>7, <1>8

LEMMA RemovedKeeps ==
    ASSUME NEW t, TreeInv(t), NEW id \in Known(t)
    PROVE  TreeInv(Removed(t, id))
<1> DEFINE parent == ParentOf(t, id)
           rest == Without(Entry(t, parent).children, {id})
           apart == IF parent = NoId THEN t
                    ELSE [t EXCEPT
                            !.nodes = SetNode(@, parent, [Entry(t, parent) EXCEPT !.children = rest]),
                            !.engine = EngineSetChildren(@, parent, rest)]
           calls == << <<id, parent>> >>
<1>1. Removed(t, id) = Forget(RemoveSubtrees(apart, calls))
  BY DEF Removed
<1>2. calls \in Calls /\ Parts(apart) /\ Loose(apart.nodes, calls)
  BY ApartIs, Zenon
<1> HIDE DEF apart, calls
<1>3. TreeInv(RemoveSubtrees(apart, calls))
  BY <1>2, RemoveSubtreesKeeps
<1> QED BY <1>1, <1>3, ForgetKeeps

LEMMA StyledKeeps ==
    ASSUME NEW t, TreeInv(t), NEW id \in Known(t), NEW style \in Styles
    PROVE  LET new == [t EXCEPT !.nodes = SetNode(@, id, [Entry(t, id) EXCEPT !.style = style]),
                                !.engine = EngineSetStyle(@, id, style)]
           IN  TreeInv(new) /\ Replaced(new, t)
<1> DEFINE s == t.nodes
           node == [Entry(t, id) EXCEPT !.style = style]
           nodes == SetNode(s, id, node)
           engine == EngineSetStyle(t.engine, id, style)
           new == [t EXCEPT !.nodes = SetNode(@, id, [Entry(t, id) EXCEPT !.style = style]),
                            !.engine = EngineSetStyle(@, id, style)]
<1>1. NodesOK(s) /\ NodesLinked(s) /\ Homes(s) /\ EngineOK(t.engine, s) /\ id \in Live(s)
  BY DEF TreeInv, Parts, NodesLinked, Known
<1>2. new = [t EXCEPT !.nodes = nodes, !.engine = engine]
  OBVIOUS
<1> HIDE DEF new, engine
<1>3. /\ node \in LayoutNodes /\ node.style = style /\ node.children = NodeAt(s, id).children
      /\ node.parent = NodeAt(s, id).parent
  <2>1. NodeAt(s, id) \in LayoutNodes
    BY <1>1, LiveNode
  <2> QED BY <2>1 DEF LayoutNodes, Entry
<1> HIDE DEF node, nodes
<1>4. /\ NodesOK(nodes) /\ Live(nodes) = Live(s) /\ Len(nodes.node) = Len(s.node)
      /\ \A x \in Live(s) : NodeAt(nodes, x) = IF x = id THEN node ELSE NodeAt(s, x)
      /\ \A old : Gone(s, old) => Gone(nodes, old)
  BY <1>1, <1>3, SetNodeIs DEF nodes
<1>5. NodesLinked(nodes) /\ Homes(nodes) /\ ChildrenIn(nodes) = ChildrenIn(s)
  <2>1. \A x \in Live(s) : /\ NodeAt(nodes, x).children = NodeAt(s, x).children
                           /\ NodeAt(nodes, x).parent = NodeAt(s, x).parent
    BY <1>3, <1>4
  <2> QED BY <1>1, <1>4, <2>1, SameLinks
<1>6. EngineOK(engine, nodes)
  <2>1. \A x \in Live(s) : NodeAt(nodes, x).style = IF x = id THEN style ELSE NodeAt(s, x).style
    BY <1>3, <1>4
  <2> QED BY <1>1, <1>4, <1>5, <2>1, EngineSetStyleKeeps DEF engine
<1>7. new = [nodes |-> nodes, engine |-> engine, layouts |-> t.layouts, last |-> t.last,
             removed |-> t.removed]
  BY <1>2 DEF TreeInv, Parts, Tree
<1>8. new.nodes = nodes /\ new.engine = engine /\ Replaced(new, t)
  BY <1>7 DEF Tree, Replaced
<1>9. Outlives(new.nodes, t.nodes)
  BY <1>4, <1>8 DEF Outlives
<1>10. Parts(new)
  BY <1>6, <1>8, <1>9, NodesChange
<1> QED BY <1>5, <1>8, <1>10 DEF TreeInv, new

LEMMA RetextedKeeps ==
    ASSUME NEW t, TreeInv(t), NEW ids, NEW words \in Texts
    PROVE  LET new == [t EXCEPT !.nodes = Retext(@, ids, words), !.engine = MarkDirty(@, ids)]
           IN  TreeInv(new) /\ Replaced(new, t)
<1> DEFINE s == t.nodes
           e == t.engine
           nodes == Retext(s, ids, words)
           engine == MarkDirty(e, ids)
           new == [t EXCEPT !.nodes = Retext(@, ids, words), !.engine = MarkDirty(@, ids)]
<1>1. NodesOK(s) /\ NodesLinked(s) /\ Homes(s) /\ EngineOK(e, s) /\ Engine(e)
  BY DEF TreeInv, Parts, NodesLinked, Known, EngineOK
<1>2. new = [t EXCEPT !.nodes = nodes, !.engine = engine]
  OBVIOUS
<1> HIDE DEF new, engine, nodes
<1>3. /\ NodesOK(nodes) /\ Live(nodes) = Live(s) /\ Len(nodes.node) = Len(s.node)
      /\ \A x \in Live(s) :
            NodeAt(nodes, x) = IF x \in ids THEN [NodeAt(s, x) EXCEPT !.text = words] ELSE NodeAt(s, x)
      /\ \A old : Gone(s, old) => Gone(nodes, old)
  BY <1>1, RetextIs DEF nodes
<1>4. ASSUME NEW x \in Live(s)
      PROVE  /\ NodeAt(nodes, x).children = NodeAt(s, x).children
             /\ NodeAt(nodes, x).parent = NodeAt(s, x).parent
             /\ NodeAt(nodes, x).style = NodeAt(s, x).style
  <2>1. NodeAt(s, x) \in LayoutNodes
    BY <1>1, LiveNode
  <2> QED BY <1>3, <2>1 DEF LayoutNodes
<1>5. NodesLinked(nodes) /\ Homes(nodes) /\ ChildrenIn(nodes) = ChildrenIn(s)
  BY <1>1, <1>3, <1>4, SameLinks
<1>6. EngineOK(engine, nodes)
  <2>1. /\ Engine(engine) /\ engine.made = e.made /\ engine.kids = e.kids /\ engine.style = e.style
        /\ engine.root = e.root
        /\ DOMAIN engine.cache = DOMAIN e.cache /\ DOMAIN engine.geometry = DOMAIN e.geometry
    <3> HIDE DEF e
    <3> QED BY <1>1, MarkDirtyIs DEF engine
  <2> QED BY <1>1, <1>3, <1>4, <1>5, <2>1 DEF EngineOK
<1>7. new = [nodes |-> nodes, engine |-> engine, layouts |-> t.layouts, last |-> t.last,
             removed |-> t.removed]
  BY <1>2 DEF TreeInv, Parts, Tree
<1>8. new.nodes = nodes /\ new.engine = engine /\ Replaced(new, t)
  BY <1>7 DEF Tree, Replaced
<1>9. Outlives(new.nodes, t.nodes)
  BY <1>3, <1>8 DEF Outlives
<1>10. Parts(new)
  BY <1>6, <1>8, <1>9, NodesChange
<1> QED BY <1>5, <1>8, <1>10 DEF TreeInv, new

LEMMA ComputedKeeps ==
    ASSUME NEW t, TreeInv(t), NEW root \in Known(t), NEW viewport
    PROVE  /\ TreeInv(Computed(t, root, viewport)) /\ Computed(t, root, viewport).nodes = t.nodes
           /\ Computed(t, root, viewport).removed = t.removed
<1> DEFINE s == t.nodes
           new == Computed(t, root, viewport)
           engine == EngineCompute(t.engine, s, root, viewport)
           last == [root |-> root, viewport |-> viewport]
           layouts == [i \in DOMAIN s.node |->
                          IF IdAt(s, i) \in Below(ChildrenIn(s), root)
                          THEN engine.geometry[IdAt(s, i)] ELSE {}]
<1>1. /\ NodesLinked(s) /\ Homes(s) /\ EngineOK(t.engine, s) /\ root \in Live(s)
      /\ DOMAIN s.node = 1..Len(s.node) /\ Len(s.node) \in Nat
  BY DEF TreeInv, Parts, NodesLinked, NodesOK, StoreOK, Stores, Known
<1>2. EngineOK(engine, s)
  BY <1>1, EngineComputeKeeps
<1>3. new = [t EXCEPT !.engine = engine, !.last = last, !.layouts = layouts]
  BY DEF Computed
<1> HIDE DEF new, engine, last
<1>4. /\ Len(layouts) = Len(s.node) /\ layouts = [i \in 1..Len(s.node) |-> layouts[i]]
      /\ \A i \in 1..Len(s.node) : layouts[i] = IF IdAt(s, i) \in Below(ChildrenIn(s), root)
                                                THEN engine.geometry[IdAt(s, i)] ELSE {}
  BY <1>1
<1> HIDE DEF layouts
<1>5. new = [nodes |-> t.nodes, engine |-> engine, layouts |-> layouts, last |-> last,
             removed |-> t.removed]
  BY <1>3 DEF TreeInv, Parts, Tree
<1>6. /\ Tree(new) /\ new.nodes = t.nodes /\ new.engine = engine /\ new.layouts = layouts
      /\ new.last = last /\ new.removed = t.removed
  BY <1>5 DEF Tree
<1>7. TreeInv(new)
  BY <1>2, <1>4, <1>6 DEF TreeInv, Parts
<1> QED BY <1>6, <1>7 DEF new

LEMMA ComputedIs ==
    ASSUME NEW t, TreeInv(t), NEW root \in Known(t), NEW viewport
    PROVE  LET new == Computed(t, root, viewport) IN
           /\ new.engine = EngineCompute(t.engine, t.nodes, root, viewport)
           /\ new.last = [root |-> root, viewport |-> viewport]
           /\ Len(new.layouts) = Len(t.nodes.node)
           /\ \A i \in 1..Len(t.nodes.node) :
                 new.layouts[i] = IF IdAt(t.nodes, i) \in Below(ChildrenIn(t.nodes), root)
                                  THEN new.engine.geometry[IdAt(t.nodes, i)] ELSE {}
<1> DEFINE s == t.nodes
           new == Computed(t, root, viewport)
           engine == EngineCompute(t.engine, s, root, viewport)
           last == [root |-> root, viewport |-> viewport]
           layouts == [i \in DOMAIN s.node |->
                          IF IdAt(s, i) \in Below(ChildrenIn(s), root)
                          THEN engine.geometry[IdAt(s, i)] ELSE {}]
<1>1. /\ NodesLinked(s) /\ Homes(s) /\ EngineOK(t.engine, s) /\ root \in Live(s)
      /\ DOMAIN s.node = 1..Len(s.node) /\ Len(s.node) \in Nat
  BY DEF TreeInv, Parts, NodesLinked, NodesOK, StoreOK, Stores, Known
<1>2. EngineOK(engine, s)
  BY <1>1, EngineComputeKeeps
<1>3. new = [t EXCEPT !.engine = engine, !.last = last, !.layouts = layouts]
  BY DEF Computed
<1> HIDE DEF new, engine, last
<1>4. /\ Len(layouts) = Len(s.node) /\ layouts = [i \in 1..Len(s.node) |-> layouts[i]]
      /\ \A i \in 1..Len(s.node) : layouts[i] = IF IdAt(s, i) \in Below(ChildrenIn(s), root)
                                                THEN engine.geometry[IdAt(s, i)] ELSE {}
  BY <1>1
<1> HIDE DEF layouts
<1>5. new = [nodes |-> t.nodes, engine |-> engine, layouts |-> layouts, last |-> last,
             removed |-> t.removed]
  BY <1>3 DEF TreeInv, Parts, Tree
<1>6. /\ Tree(new) /\ new.nodes = t.nodes /\ new.engine = engine /\ new.layouts = layouts
      /\ new.last = last /\ new.removed = t.removed
  BY <1>5 DEF Tree
<1>7. TreeInv(new)
  BY <1>2, <1>4, <1>6 DEF TreeInv, Parts
<1> QED BY <1>4, <1>6, <1>7 DEF new, engine, last

(* The two trees.                                                          *)
LayoutInv ==
    /\ staging \in BOOLEAN /\ shared \in BOOLEAN /\ edits \in 0..MaxEdits
    /\ trees = [h \in Trees |-> trees[h]]
    /\ \A h \in Trees : TreeInv(trees[h])
    /\ shared => /\ staging
                 /\ trees["staged"].engine = trees["committed"].engine
                 /\ trees["staged"].nodes = trees["committed"].nodes

LEMMA EmptyTreeInv == TreeInv(EmptyTree) /\ Known(EmptyTree) = {}
<1> DEFINE s == EmptyStore
           kids == ChildrenIn(s)
<1>1. /\ s.generation = <<>> /\ s.node = <<>> /\ s.free = <<>> /\ Len(s.node) = 0
      /\ s = [generation |-> <<>>, node |-> <<>>, free |-> <<>>]
  BY DEF EmptyStore
<1>2. StoreOK(LayoutNodes, s)
  BY <1>1 DEF StoreOK, Stores, FreeOK
<1>3. NodesOK(s)
  BY <1>1, <1>2, LayoutAssumption DEF NodesOK
<1>4. Live(s) = {}
  BY <1>1 DEF Live
<1>5. NodesLinked(s) /\ Homes(s)
  <2>1. DOMAIN kids = {}
    BY <1>4 DEF ChildrenIn
  <2>2. Acyclic(kids)
    BY <2>1 DEF Acyclic
  <2> QED BY <1>3, <1>4, <2>2 DEF NodesLinked, Links, Homes
<1>6. EngineOK(NoEngine, s)
  <2> DEFINE e == NoEngine
  <2>1. /\ e = [made |-> FALSE, kids |-> <<>>, style |-> <<>>, cache |-> <<>>, geometry |-> <<>>,
                root |-> NoRoot]
        /\ NoRoot = [id |-> NoId, style |-> "auto"]
    BY DEF NoEngine, NoRoot
  <2>2. Engine(e) /\ e.root.id = NoId /\ e.kids = <<>> /\ e.style = <<>> /\ e.cache = <<>>
        /\ e.geometry = <<>>
    BY <2>1 DEF Engine
  <2>3. DOMAIN <<>> = {} /\ ChildrenIn(s) = <<>>
    BY <1>4 DEF ChildrenIn
  <2> QED BY <1>4, <2>2, <2>3 DEF EngineOK
<1>7. /\ EmptyTree.nodes = s /\ EmptyTree.engine = NoEngine /\ EmptyTree.layouts = <<>>
      /\ EmptyTree.removed = {} /\ Tree(EmptyTree)
  BY DEF EmptyTree, Tree
<1>8. <<>> = [i \in 1..0 |-> <<>>[i]]
  OBVIOUS
<1>9. Parts(EmptyTree)
  BY <1>1, <1>6, <1>7, <1>8 DEF Parts
<1> QED BY <1>4, <1>5, <1>7, <1>9 DEF TreeInv, Known

LEMMA EditKeeps ==
    ASSUME LayoutInv, NEW h \in Trees, NEW t, TreeInv(t), Edit(h, t)
    PROVE  LayoutInv'
<1>1. /\ edits' = edits + 1 /\ edits < MaxEdits /\ trees' = [trees EXCEPT ![h] = t] /\ shared' = FALSE
      /\ UNCHANGED staging
  BY DEF Edit, Write
<1>2. edits' \in 0..MaxEdits
  BY <1>1, LayoutAssumption DEF LayoutInv
<1>3. trees' = [u \in Trees |-> trees'[u]] /\ \A u \in Trees : trees'[u] = IF u = h THEN t ELSE trees[u]
  BY <1>1 DEF LayoutInv
<1> QED BY <1>1, <1>2, <1>3 DEF LayoutInv

\* Children that a caller may give are in use, once each.
LEMMA ListOfKnown ==
    ASSUME NEW t, NEW n \in Nat, NEW children \in [1..n -> Known(t)]
    PROVE  children \in Seq(Known(t))
OBVIOUS

\* A node that was just added has nothing above it.
LEMMA AddedParent ==
    ASSUME NEW t, TreeInv(t), HasSlot(t), NEW look \in [style : Styles, text : Texts],
           NEW children \in Seq(Known(t)), ValidChildren(t, NoId, children)
    PROVE  LET new == Added(t, look)
               id == NextId(t.nodes)
           IN  /\ TreeInv(new) /\ id \in Known(new) /\ children \in Seq(Known(new))
               /\ IsInjective(children)
               /\ Range(children) \cap Ancestors(new.nodes, id) = {}
<1> DEFINE new == Added(t, look)
           id == NextId(t.nodes)
           s == new.nodes
           to == [x \in Live(s) \cup {NoId} |-> IF x = NoId THEN {} ELSE {ParentIn(s, x)}]
<1>1. /\ TreeInv(new) /\ id \in NodeIds \ Known(t) /\ Known(new) = Known(t) \cup {id}
      /\ new.nodes = InsertNode(t.nodes, NodeWith(look))
  BY AddedKeeps
<1>2. ParentIn(s, id) = NoId
  <2>1. NodesOK(t.nodes) /\ (t.nodes.free # <<>> \/ Len(t.nodes.node) < MaxSlots)
    BY DEF TreeInv, NodesLinked, HasSlot
  <2>2. NodeWith(look) \in LayoutNodes /\ NodeWith(look).parent = NoId
    BY DEF NodeWith, LayoutNodes
  <2>3. NodeAt(s, id) = NodeWith(look)
    BY <1>1, <2>1, <2>2, InsertIs
  <2> QED BY <2>2, <2>3 DEF ParentIn
<1> HIDE DEF new, id, s
<1>3. s = new.nodes /\ NodesOK(s) /\ Homes(s) /\ id \in Live(s)
  BY <1>1 DEF TreeInv, NodesLinked, Known, s
<1>4. children \in Seq(Known(new)) /\ id \in Known(new)
  BY <1>1
<1>5. Range(children) \subseteq Known(t) /\ IsInjective(children)
  BY DEF ValidChildren
<1>6. Ancestors(s, id) \subseteq {id, NoId}
  <2>1. DOMAIN to = Live(s) \cup {NoId} /\ to[NoId] = {} /\ \A x \in Live(s) : to[x] = {ParentIn(s, x)}
    BY <1>3, LiveNode
  <2>2. Ancestors(s, id) = Reach(to, {id})
    BY DEF Ancestors
  <2> HIDE DEF to
  <2>3. \A x \in DOMAIN to : to[x] \subseteq DOMAIN to
    BY <1>3, <2>1 DEF Homes
  <2> DEFINE S == {id, NoId}
  <2>4. S \in SUBSET DOMAIN to /\ {id} \subseteq S /\ \A x \in S : to[x] \subseteq S
    BY <1>2, <1>3, <2>1
  <2> HIDE DEF S
  <2>5. Reach(to, {id}) \subseteq S
    BY <1>3, <2>1, <2>3, <2>4, ReachIs
  <2> QED BY <2>2, <2>5 DEF S
<1>7. Range(children) \cap Ancestors(s, id) = {}
  <2>1. NoId \notin Known(t) /\ id \notin Known(t)
    BY <1>1, LiveNode DEF TreeInv, NodesLinked, Known
  <2> QED BY <1>5, <1>6, <2>1
<1> QED BY <1>1, <1>3, <1>4, <1>5, <1>7 DEF new, id

LEMMA AddWithChildrenKeeps ==
    ASSUME NEW t, TreeInv(t), HasSlot(t), NEW look \in [style : Styles, text : Texts],
           NEW children \in Seq(Known(t)), ValidChildren(t, NoId, children)
    PROVE  TreeInv(ReplaceChildren(Added(t, look), NextId(t.nodes), children))
<1> DEFINE new == Added(t, look)
           id == NextId(t.nodes)
<1>1. /\ TreeInv(new) /\ id \in Known(new) /\ children \in Seq(Known(new)) /\ IsInjective(children)
      /\ Range(children) \cap Ancestors(new.nodes, id) = {}
  BY AddedParent
<1> HIDE DEF new, id
<1>2. TreeInv(ReplaceChildren(new, id, children))
  BY <1>1, ReplaceChildrenKeeps
<1> QED BY <1>2 DEF new, id

LEMMA MutateKeeps ==
    ASSUME LayoutInv, NEW h \in Trees, Mutate(h)
    PROVE  LayoutInv'
<1> DEFINE t == trees[h]
<1>1. TreeInv(t)
  BY DEF LayoutInv
<1>2. ASSUME NEW look \in NewLooks, Add(h, look) PROVE LayoutInv'
  <2>1. TreeInv(Added(t, look)) /\ Edit(h, Added(t, look))
    BY <1>1, <1>2, LayoutAssumption, AddedKeeps DEF Add
  <2> QED BY <2>1, EditKeeps
<1>3. ASSUME NEW look \in NewLooks, NEW n \in 1..MaxSlots, NEW children \in [1..n -> Known(t)],
             AddWithChildren(h, look, children)
      PROVE  LayoutInv'
  <2> DEFINE new == ReplaceChildren(Added(t, look), NextId(t.nodes), children)
  <2>1. /\ HasSlot(t) /\ ValidChildren(t, NoId, children)
        /\ Edit(h, new)
    BY <1>3 DEF AddWithChildren
  <2>2. look \in [style : Styles, text : Texts] /\ children \in Seq(Known(t))
    BY <1>3, LayoutAssumption, ListOfKnown
  <2> HIDE DEF t
  <2>3. TreeInv(new)
    BY <1>1, <2>1, <2>2, AddWithChildrenKeeps
  <2> HIDE DEF new
  <2> QED BY <2>1, <2>3, EditKeeps
<1>4. ASSUME NEW id \in Known(t), NEW style \in Styles, SetStyle(h, id, style) PROVE LayoutInv'
  <2> DEFINE styled == [t EXCEPT !.nodes = SetNode(@, id, [Entry(t, id) EXCEPT !.style = style]),
                                 !.engine = EngineSetStyle(@, id, style)]
  <2>1. Edit(h, Forget(styled))
    BY <1>4 DEF SetStyle
  <2>2. TreeInv(styled)
    BY <1>1, <1>4, StyledKeeps
  <2> HIDE DEF styled
  <2>3. TreeInv(Forget(styled))
    BY <2>2, ForgetKeeps
  <2> QED BY <2>1, <2>3, EditKeeps
<1>5. ASSUME NEW id \in Known(t), NEW n \in 0..MaxSlots, NEW children \in [1..n -> Known(t)],
             SetChildren(h, id, children)
      PROVE  LayoutInv'
  <2>1. ValidChildren(t, id, children) /\ Edit(h, ReplaceChildren(t, id, children))
    BY <1>5 DEF SetChildren
  <2>2. children \in Seq(Known(t))
    BY <1>5, LayoutAssumption, ListOfKnown
  <2> HIDE DEF t
  <2>3. TreeInv(ReplaceChildren(t, id, children))
    BY <1>1, <1>5, <2>1, <2>2, ReplaceChildrenKeeps DEF ValidChildren
  <2> QED BY <2>1, <2>3, EditKeeps
<1>6. ASSUME NEW id \in Known(t), RemoveNode(h, id) PROVE LayoutInv'
  <2>1. Edit(h, Removed(t, id))
    BY <1>6 DEF RemoveNode
  <2> HIDE DEF t
  <2>2. TreeInv(Removed(t, id))
    BY <1>1, <1>6, RemovedKeeps
  <2> QED BY <2>1, <2>2, EditKeeps
<1>7. ASSUME NEW words \in Texts, InvalidateAll(h, words) PROVE LayoutInv'
  <2> DEFINE ids == Known(t)
             texted == [t EXCEPT !.nodes = Retext(@, ids, words), !.engine = MarkDirty(@, ids)]
  <2>1. Edit(h, Forget(texted))
    BY <1>7 DEF InvalidateAll
  <2>2. TreeInv(texted)
    BY <1>1, <1>7, RetextedKeeps
  <2> HIDE DEF texted
  <2>3. TreeInv(Forget(texted))
    BY <2>2, ForgetKeeps
  <2> QED BY <2>1, <2>3, EditKeeps
<1> QED BY <1>2, <1>3, <1>4, <1>5, <1>6, <1>7 DEF Mutate

LEMMA WithEngine ==
    ASSUME NEW t, TreeInv(t), NEW e, EngineOK(e, t.nodes)
    PROVE  LET new == [t EXCEPT !.engine = e] IN
           /\ TreeInv(new) /\ new.nodes = t.nodes /\ new.engine = e /\ Replaced(new, t)
<1> DEFINE new == [t EXCEPT !.engine = e]
<1>1. new = [nodes |-> t.nodes, engine |-> e, layouts |-> t.layouts, last |-> t.last, removed |-> t.removed]
  BY DEF TreeInv, Parts, Tree
<1> HIDE DEF new
<1>2. new.nodes = t.nodes /\ new.engine = e /\ Replaced(new, t)
  BY <1>1 DEF Replaced, Tree
<1>3. TreeInv(new)
  BY <1>2 DEF TreeInv, Parts, Replaced
<1> QED BY <1>2, <1>3 DEF new

LEMMA ComputeKeeps ==
    ASSUME LayoutInv, NEW h \in Trees, NEW root \in Known(trees[h]), NEW viewport,
           Compute(h, root, viewport)
    PROVE  LayoutInv'
<1> DEFINE t == Computed(trees[h], root, viewport)
           other(u) == [trees[u] EXCEPT !.engine = t.engine]
<1>1. /\ trees' = [u \in Trees |-> IF u = h THEN t ELSE IF shared THEN other(u) ELSE trees[u]]
      /\ UNCHANGED <<staging, shared, edits>>
  BY DEF Compute
<1>2. TreeInv(trees[h]) /\ \A u \in Trees : TreeInv(trees[u])
  BY DEF LayoutInv
<1>3. TreeInv(t) /\ t.nodes = trees[h].nodes
  <2> DEFINE from == trees[h]
  <2>1. TreeInv(from) /\ root \in Known(from)
    BY <1>2
  <2> HIDE DEF from
  <2>2. TreeInv(Computed(from, root, viewport)) /\ Computed(from, root, viewport).nodes = from.nodes
    BY <2>1, ComputedKeeps
  <2> QED BY <2>2 DEF from
<1> HIDE DEF t
<1>4. ASSUME NEW u \in Trees, shared
      PROVE TreeInv(other(u)) /\ other(u).nodes = t.nodes /\ other(u).engine = t.engine
  <2>1. trees[u].nodes = t.nodes
    BY <1>3, <1>4 DEF LayoutInv, Trees
  <2>2. EngineOK(t.engine, trees[u].nodes)
    BY <1>3, <2>1 DEF TreeInv, Parts
  <2> QED BY <1>2, <2>1, <2>2, WithEngine
<1> HIDE DEF other
<1>5. /\ trees' = [u \in Trees |-> trees'[u]]
      /\ \A u \in Trees : trees'[u] = IF u = h THEN t ELSE IF shared THEN other(u) ELSE trees[u]
  BY <1>1
<1>6. \A u \in Trees : TreeInv(trees'[u])
  BY <1>2, <1>3, <1>4, <1>5
<1>7. shared => /\ trees'["staged"].engine = trees'["committed"].engine
                /\ trees'["staged"].nodes = trees'["committed"].nodes
  <2>1. "staged" \in Trees /\ "committed" \in Trees
    BY DEF Trees
  <2> QED BY <1>4, <1>5, <2>1
<1> QED BY <1>1, <1>5, <1>6, <1>7 DEF LayoutInv

LEMMA RebuiltKeeps ==
    ASSUME NEW t, TreeInv(t), HasSlot(t), NEW look \in [style : Styles, text : Texts]
    PROVE  LET rebuilt == [t EXCEPT !.engine = FromNodes(t.nodes)] IN
           /\ TreeInv(rebuilt) /\ HasSlot(rebuilt) /\ rebuilt.nodes = t.nodes
           /\ rebuilt.removed = t.removed /\ TreeInv(Added(rebuilt, look))
<1> DEFINE rebuilt == [t EXCEPT !.engine = FromNodes(t.nodes)]
<1>1. EngineOK(FromNodes(t.nodes), t.nodes)
  BY FromNodesIs DEF TreeInv, NodesLinked
<1>2. TreeInv(rebuilt) /\ rebuilt.nodes = t.nodes /\ rebuilt.removed = t.removed
  BY <1>1, WithEngine DEF Replaced
<1> HIDE DEF rebuilt
<1>3. HasSlot(rebuilt)
  BY <1>2 DEF HasSlot
<1>4. TreeInv(Added(rebuilt, look))
  BY <1>2, <1>3, AddedKeeps
<1> QED BY <1>2, <1>3, <1>4 DEF rebuilt

LEMMA ComputeWhileAddingKeeps ==
    ASSUME LayoutInv, NEW h \in Trees, NEW root \in Known(trees[h]), NEW viewport,
           NEW look \in NewLooks, ComputeWhileAdding(h, root, viewport, look)
    PROVE  LayoutInv'
<1> DEFINE other == CHOOSE u \in Trees : u # h
           t == trees[other]
           computed == Computed(trees[h], root, viewport)
           added == Added([t EXCEPT !.engine = FromNodes(t.nodes)], look)
<1>1. /\ HasSlot(t) /\ edits < MaxEdits /\ edits' = edits + 1 /\ shared' = FALSE /\ UNCHANGED staging
      /\ trees' = [u \in Trees |-> IF u = h THEN computed ELSE added]
  BY DEF ComputeWhileAdding
<1>2. other \in Trees
  BY DEF Trees
<1> HIDE DEF other
<1>3. TreeInv(t) /\ TreeInv(trees[h])
  BY <1>2 DEF LayoutInv
<1>4. TreeInv(computed)
  BY <1>3, ComputedKeeps
<1>5. TreeInv(added)
  <2>1. look \in [style : Styles, text : Texts]
    BY LayoutAssumption
  <2> HIDE DEF t
  <2> QED BY <1>1, <1>3, <2>1, RebuiltKeeps
<1> HIDE DEF computed, added
<1>6. edits' \in 0..MaxEdits
  BY <1>1, LayoutAssumption DEF LayoutInv
<1>7. trees' = [u \in Trees |-> trees'[u]] /\ \A u \in Trees : TreeInv(trees'[u])
  BY <1>1, <1>4, <1>5
<1> QED BY <1>1, <1>6, <1>7 DEF LayoutInv

LEMMA LayoutInvInitially == ASSUME LayoutInit PROVE LayoutInv
<1>1. trees = [h \in Trees |-> EmptyTree] /\ staging = FALSE /\ shared = FALSE /\ edits = 0
  BY DEF LayoutInit
<1>2. TreeInv(EmptyTree)
  BY EmptyTreeInv
<1> HIDE DEF EmptyTree
<1>3. trees = [h \in Trees |-> trees[h]] /\ \A h \in Trees : TreeInv(trees[h])
  BY <1>1, <1>2
<1>4. 0 \in 0..MaxEdits
  BY LayoutAssumption
<1> QED BY <1>1, <1>3, <1>4 DEF LayoutInv

LEMMA LayoutInvKept ==
    ASSUME LayoutInv, [LayoutNext]_layoutVars
    PROVE  LayoutInv'
<1>1. ASSUME Mutate("staged") PROVE LayoutInv'
  BY <1>1, MutateKeeps DEF Trees
<1>2. ASSUME NEW h \in Concerned, NEW id \in Known(trees[h]), staging, NEW words \in Texts,
             Invalidate(h, id, words)
      PROVE  LayoutInv'
  <2> DEFINE t == trees[h]
             ids == {id}
             texted == [t EXCEPT !.nodes = Retext(@, ids, words), !.engine = MarkDirty(@, ids)]
  <2>1. h \in Trees /\ TreeInv(t)
    BY DEF Concerned, LayoutInv
  <2>2. Edit(h, Forget(texted))
    BY <1>2 DEF Invalidate
  <2> HIDE DEF ids
  <2>3. TreeInv(texted)
    BY <2>1, RetextedKeeps
  <2> HIDE DEF texted
  <2>4. TreeInv(Forget(texted))
    BY <2>3, ForgetKeeps
  <2> QED BY <2>1, <2>2, <2>4, EditKeeps
<1>3. ASSUME NEW h \in Concerned, NEW id \in Known(trees[h]), NEW viewport \in Viewports,
             Compute(h, id, viewport)
      PROVE  LayoutInv'
  BY <1>3, ComputeKeeps DEF Concerned
<1>4. ASSUME NEW h \in Concerned, NEW id \in Known(trees[h]), NEW viewport \in Viewports,
             NEW look \in NewLooks, ComputeWhileAdding(h, id, viewport, look)
      PROVE  LayoutInv'
  BY <1>4, ComputeWhileAddingKeeps DEF Concerned
<1>5. ASSUME Stage PROVE LayoutInv'
  <2>1. /\ staging' = TRUE /\ trees' = [trees EXCEPT !["staged"] = trees["committed"]]
        /\ shared' = trees["committed"].engine.made /\ UNCHANGED edits
    BY <1>5 DEF Stage
  <2>2. /\ trees' = [u \in Trees |-> trees'[u]]
        /\ \A u \in Trees : trees'[u] = trees["committed"]
        /\ "committed" \in Trees /\ "staged" \in Trees
    BY <2>1 DEF LayoutInv, Trees
  <2>3. shared' \in BOOLEAN
    BY <2>1, <2>2 DEF LayoutInv, TreeInv, Parts, EngineOK, Engine
  <2> QED BY <2>1, <2>2, <2>3 DEF LayoutInv
<1>6. ASSUME NEW t, TreeInv(t), Settle(t) PROVE LayoutInv'
  <2>1. /\ trees' = [committed |-> t, staged |-> EmptyTree]
        /\ staging' = FALSE /\ shared' = FALSE /\ UNCHANGED edits
    BY <1>6 DEF Settle
  <2>2. trees' = [u \in Trees |-> trees'[u]] /\ \A u \in Trees : TreeInv(trees'[u])
    BY <1>6, <2>1, EmptyTreeInv DEF Trees
  <2> QED BY <2>1, <2>2 DEF LayoutInv
<1>7. Commit \/ Discard => LayoutInv'
  <2>1. TreeInv(trees["staged"]) /\ TreeInv(trees["committed"])
    BY DEF LayoutInv, Trees
  <2> QED BY <1>6, <2>1 DEF Commit, Discard
<1>8. ASSUME UNCHANGED layoutVars PROVE LayoutInv'
  BY <1>8 DEF layoutVars, LayoutInv
<1> QED BY <1>1, <1>2, <1>3, <1>4, <1>5, <1>7, <1>8 DEF LayoutNext

LEMMA TreeInvGives == ASSUME NEW t, TreeInv(t) PROVE TreeOK(t)
<1> DEFINE s == t.nodes
<1>1. /\ NodesOK(s) /\ Links(s) /\ Homes(s) /\ EngineOK(t.engine, s) /\ t.removed \subseteq NodeIds
      /\ t.layouts = [i \in 1..Len(s.node) |-> t.layouts[i]]
  BY DEF TreeInv, Parts, NodesLinked
<1>2. Known(t) = Live(s)
  BY DEF Known
<1>3. /\ s.generation \in Seq(0..MaxGeneration) /\ s.node \in Seq(LayoutNodes \cup {NoNode})
      /\ s.free \in Seq(Nat) /\ Len(s.generation) = Len(s.node) /\ FreeOK(s) /\ Len(s.node) <= MaxSlots
  BY <1>1 DEF NodesOK, StoreOK, Stores
<1> DEFINE generation == s.generation
           free == s.free
           node == s.node
<1> HIDE DEF generation, free, node
<1>4. Range(s.generation) \subseteq 0..MaxGeneration
  <2>1. generation \in Seq(0..MaxGeneration)
    BY <1>3 DEF generation
  <2>2. /\ DOMAIN generation = 1..Len(generation)
        /\ \A i \in 1..Len(generation) : generation[i] \in 0..MaxGeneration
    <3>1. DOMAIN generation = 1..Len(generation)
      BY <2>1
    <3> QED BY <2>1, <3>1, Element
  <2>3. Range(generation) \subseteq 0..MaxGeneration
    BY <2>2, Zenon DEF Range
  <2> QED BY <2>3 DEF generation
<1>5. /\ Range(s.free) \subseteq {i \in DOMAIN s.node : s.node[i] = NoNode}
      /\ IsInjective(s.free)
  <2>1. /\ DOMAIN free = 1..Len(free) /\ DOMAIN node = 1..Len(node)
        /\ \A k \in 1..Len(free) : free[k] \in 1..Len(node) /\ node[free[k]] = NoNode
        /\ \A j, k \in 1..Len(free) : free[j] = free[k] => j = k
    BY <1>3 DEF free, node, FreeOK
  <2>2. Range(free) \subseteq {i \in DOMAIN node : node[i] = NoNode}
    BY <2>1 DEF Range
  <2>3. IsInjective(free)
    BY <2>1 DEF IsInjective
  <2> QED BY <2>2, <2>3 DEF free, node
<1>6. Len(t.layouts) = Len(s.node)
  BY <1>1, <1>3
<1>7. Mirrors(t.engine, t)
  <2>1. /\ t.engine.kids = ChildrenIn(s) /\ (~t.engine.made => Live(s) = {})
        /\ \A id \in Live(s) : NodeAt(s, id).style =
              IF t.engine.root.id = id THEN t.engine.root.style ELSE t.engine.style[id]
    BY <1>1 DEF EngineOK
  <2>2. DOMAIN ChildrenIn(s) = Live(s) /\ \A id \in Live(s) : ChildrenIn(s)[id] = NodeAt(s, id).children
    BY DEF ChildrenIn
  <2> QED BY <1>2, <2>1, <2>2 DEF Mirrors, Entry
<1>8. ASSUME NEW id \in Live(s)
      PROVE  /\ NodeAt(s, id).style \in Styles /\ NodeAt(s, id).text \in Texts
             /\ IsInjective(NodeAt(s, id).children)
             /\ Range(NodeAt(s, id).children) = {c \in Live(s) : ParentIn(s, c) = id}
             /\ ParentIn(s, id) \in Live(s) \cup {NoId}
  <2>1. NodeAt(s, id) \in LayoutNodes
    BY <1>1, <1>8, LiveNode
  <2> QED BY <1>1, <1>8, <2>1 DEF LayoutNodes, Links, Homes
<1>9. \A id \in Known(t) :
        /\ Entry(t, id).style \in Styles /\ Entry(t, id).text \in Texts
        /\ IsInjective(Entry(t, id).children)
        /\ Range(Entry(t, id).children) = {c \in Known(t) : ParentOf(t, c) = id}
        /\ ParentOf(t, id) \in Known(t) \cup {NoId}
  BY <1>2, <1>8 DEF Entry, ParentOf, ParentIn
<1> QED BY <1>1, <1>3, <1>4, <1>5, <1>6, <1>7, <1>9 DEF TreeOK

LEMMA LayoutInvGives == LayoutInv => LayoutTypeOK /\ RemovedStayUnknown
<1> SUFFICES ASSUME LayoutInv PROVE LayoutTypeOK /\ RemovedStayUnknown
  OBVIOUS
<1>1. \A h \in Trees : TreeOK(trees[h])
  BY TreeInvGives DEF LayoutInv
<1>2. ASSUME NEW h \in Trees, NEW id \in trees[h].removed PROVE id \notin Known(trees[h])
  <2>1. Gone(trees[h].nodes, id) /\ StoreOK(LayoutNodes, trees[h].nodes)
    BY <1>2 DEF LayoutInv, TreeInv, Parts, NodesLinked, NodesOK
  <2> QED BY <2>1, GoneIsUnknown DEF Known
<1>3. RemovedStayUnknown
  BY <1>2 DEF RemovedStayUnknown
<1> QED BY <1>1, <1>3 DEF LayoutInv, LayoutTypeOK

\* In every behaviour of the layout tree the nodes stay linked both ways, without a cycle,
\* and both trees' engines mirror them: however the engine was shared, detached, rebuilt or
\* left by an earlier root, no engine operation meets a node it does not have
\* (LayoutTree of arborui-layout).
THEOREM LayoutTyped == LayoutSpec => []LayoutTypeOK
<1>1. LayoutInit => LayoutInv
  BY LayoutInvInitially
<1>2. LayoutInv /\ [LayoutNext]_layoutVars => LayoutInv'
  BY LayoutInvKept
<1>3. LayoutInv => LayoutTypeOK
  BY LayoutInvGives
<1> QED BY <1>1, <1>2, <1>3, PTL DEF LayoutSpec

\* An id that was removed from a tree is never live in it again, for every number of slots,
\* generations and edits: the slot's generation has passed it, or the slot is retired.
THEOREM LayoutIdsStayUnknown == LayoutSpec => []RemovedStayUnknown
<1>1. LayoutInit => LayoutInv
  BY LayoutInvInitially
<1>2. LayoutInv /\ [LayoutNext]_layoutVars => LayoutInv'
  BY LayoutInvKept
<1>3. LayoutInv => RemovedStayUnknown
  BY LayoutInvGives
<1> QED BY <1>1, <1>2, <1>3, PTL DEF LayoutSpec

(* The caches.  What is valid of a node's cached output: it was computed from *)
(* the nodes as they are, and what is below the node was left as it says.     *)
Output(e, s, x, space) ==
    [space |-> space, reads |-> {Own(s, e.kids, e.style, y) : y \in Below(e.kids, x)}]

SpaceUnder(e, x, space) == IF e.style[x] = "auto" THEN space ELSE {e.style[x]}

GeometryOf(e, s, x, space) == [place |-> Place(e.kids, x), out |-> Output(e, s, x, space)]

ValidFor(e, s, x, space) ==
    /\ e.cache[x] = {Output(e, s, x, space)}
    /\ \A k \in Range(e.kids[x]) :
          /\ e.cache[k] = {Output(e, s, k, SpaceUnder(e, x, space))}
          /\ e.geometry[k] = {GeometryOf(e, s, k, SpaceUnder(e, x, space))}

Valid(e, s, x) == e.cache[x] = {} \/ \E space : ValidFor(e, s, x, space)

\* Only above the last root may something else be left.
Trusted(e, r) == {x \in DOMAIN e.kids : x = r \/ r \notin Below(e.kids, x)}

FreshBut(e, s, r) == \A x \in Trusted(e, r) : Valid(e, s, x)

\* A part of the nodes, closed downwards, of which nothing changes; what else is there
\* has no output.
Untouched(e, s, e2, s2, clean) ==
    /\ clean \subseteq DOMAIN e.kids \cap DOMAIN e2.kids
    /\ \A x \in clean :
          /\ e2.kids[x] = e.kids[x] /\ Range(e.kids[x]) \subseteq clean
          /\ e2.style[x] = e.style[x] /\ NodeAt(s2, x).text = NodeAt(s, x).text
          /\ e2.cache[x] = e.cache[x]
          /\ \A k \in Range(e.kids[x]) : e2.geometry[k] = e.geometry[k]
    /\ \A x \in DOMAIN e2.kids \ clean : e2.cache[x] = {}

LEMMA CleanBelow ==
    ASSUME NEW kids, Forest(kids), NEW new, Forest(new), NEW clean,
           clean \subseteq DOMAIN kids \cap DOMAIN new,
           \A x \in clean : new[x] = kids[x] /\ Range(kids[x]) \subseteq clean,
           NEW x \in clean
    PROVE  Below(new, x) = Below(kids, x) /\ Below(kids, x) \subseteq clean
<1> DEFINE old == Below(kids, x)
           now == Below(new, x)
<1>1. /\ x \in old /\ \A y \in old : Range(kids[y]) \subseteq old
      /\ x \in now /\ \A y \in now : Range(new[y]) \subseteq now
      /\ old \subseteq DOMAIN kids /\ now \subseteq DOMAIN new
  BY BelowIs
<1>2. old \subseteq clean
  BY BelowLeast
<1>3. now \subseteq clean
  <2>1. clean \in SUBSET DOMAIN new /\ \A y \in clean : Range(new[y]) \subseteq clean
    OBVIOUS
  <2> QED BY <2>1, BelowLeast
<1> HIDE DEF old, now
<1>4. now \subseteq old
  <2>1. old \in SUBSET DOMAIN new /\ x \in old /\ \A y \in old : Range(new[y]) \subseteq old
    BY <1>1, <1>2
  <2> QED BY <2>1, BelowLeast DEF now
<1>5. old \subseteq now
  <2>1. now \in SUBSET DOMAIN kids /\ x \in now /\ \A y \in now : Range(kids[y]) \subseteq now
    BY <1>1, <1>3
  <2> QED BY <2>1, BelowLeast DEF old
<1> QED BY <1>2, <1>4, <1>5 DEF old, now

LEMMA PlaceIs ==
    ASSUME NEW kids, Forest(kids), NEW x \in DOMAIN kids, NEW k \in Range(kids[x])
    PROVE  Place(kids, k) = CHOOSE j \in DOMAIN kids[x] : kids[x][j] = k
<1> DEFINE p == CHOOSE p \in DOMAIN kids : k \in Range(kids[p])
<1>1. p \in DOMAIN kids /\ k \in Range(kids[p])
  OBVIOUS
<1>2. p = x
  BY <1>1 DEF Forest
<1> QED BY <1>2 DEF Place

LEMMA UntouchedOutput ==
    ASSUME NEW e, NEW s, NEW e2, NEW s2, NEW clean, Untouched(e, s, e2, s2, clean),
           Forest(e.kids), Forest(e2.kids), NEW x \in clean
    PROVE  /\ Below(e2.kids, x) = Below(e.kids, x) /\ Below(e.kids, x) \subseteq clean
           /\ \A space : Output(e2, s2, x, space) = Output(e, s, x, space)
<1>1. /\ clean \subseteq DOMAIN e.kids \cap DOMAIN e2.kids
      /\ \A y \in clean : /\ e2.kids[y] = e.kids[y] /\ Range(e.kids[y]) \subseteq clean
                          /\ e2.style[y] = e.style[y] /\ NodeAt(s2, y).text = NodeAt(s, y).text
  BY DEF Untouched
<1> DEFINE kids == e.kids
           new == e2.kids
<1>2. Below(new, x) = Below(kids, x) /\ Below(kids, x) \subseteq clean
  <2>1. Forest(kids) /\ Forest(new) /\ clean \subseteq DOMAIN kids \cap DOMAIN new
    BY <1>1
  <2>2. \A y \in clean : new[y] = kids[y] /\ Range(kids[y]) \subseteq clean
    BY <1>1
  <2> HIDE DEF kids, new
  <2> QED BY <2>1, <2>2, CleanBelow
<1>3. \A y \in clean : Own(s2, new, e2.style, y) = Own(s, kids, e.style, y)
  BY <1>1 DEF Own
<1> HIDE DEF kids, new
<1>4. {Own(s2, new, e2.style, y) : y \in Below(new, x)} = {Own(s, kids, e.style, y) : y \in Below(kids, x)}
  BY <1>2, <1>3
<1> QED BY <1>2, <1>4 DEF Output, kids, new

LEMMA ValidStays ==
    ASSUME NEW e, NEW s, NEW e2, NEW s2, NEW clean, Untouched(e, s, e2, s2, clean),
           Forest(e.kids), Forest(e2.kids), NEW x \in clean, Valid(e, s, x)
    PROVE  Valid(e2, s2, x)
<1>1. CASE e.cache[x] = {}
  BY <1>1 DEF Untouched, Valid
<1>2. ASSUME NEW space, ValidFor(e, s, x, space) PROVE ValidFor(e2, s2, x, space)
  <2>1. /\ e2.kids[x] = e.kids[x] /\ Range(e.kids[x]) \subseteq clean /\ e2.cache[x] = e.cache[x]
        /\ e2.style[x] = e.style[x] /\ x \in DOMAIN e.kids /\ x \in DOMAIN e2.kids
    BY DEF Untouched
  <2>2. e2.cache[x] = {Output(e2, s2, x, space)}
    BY <1>2, <2>1, UntouchedOutput DEF ValidFor
  <2>3. ASSUME NEW k \in Range(e2.kids[x])
        PROVE  /\ e2.cache[k] = {Output(e2, s2, k, SpaceUnder(e2, x, space))}
               /\ e2.geometry[k] = {GeometryOf(e2, s2, k, SpaceUnder(e2, x, space))}
    <3>1. k \in clean /\ e2.cache[k] = e.cache[k] /\ e2.geometry[k] = e.geometry[k]
      BY <2>1 DEF Untouched
    <3>2. SpaceUnder(e2, x, space) = SpaceUnder(e, x, space)
      BY <2>1 DEF SpaceUnder
    <3> DEFINE under == SpaceUnder(e, x, space)
    <3>3. e.cache[k] = {Output(e, s, k, under)} /\ e.geometry[k] = {GeometryOf(e, s, k, under)}
      BY <1>2, <2>1 DEF ValidFor
    <3>4. Output(e2, s2, k, under) = Output(e, s, k, under)
      BY <3>1, UntouchedOutput
    <3>5. Place(e2.kids, k) = Place(e.kids, k)
      <4> DEFINE kids == e.kids
                 new == e2.kids
      <4>1. /\ Forest(kids) /\ Forest(new) /\ x \in DOMAIN kids /\ x \in DOMAIN new
            /\ k \in Range(kids[x]) /\ k \in Range(new[x]) /\ new[x] = kids[x]
        BY <2>1
      <4> HIDE DEF kids, new
      <4>2. Place(kids, k) = CHOOSE j \in DOMAIN kids[x] : kids[x][j] = k
        BY <4>1, PlaceIs
      <4>3. Place(new, k) = CHOOSE j \in DOMAIN new[x] : new[x][j] = k
        BY <4>1, PlaceIs
      <4>4. Place(new, k) = Place(kids, k)
        BY <4>1, <4>2, <4>3
      <4> QED BY <4>4 DEF kids, new
    <3>6. GeometryOf(e2, s2, k, under) = GeometryOf(e, s, k, under)
      BY <3>4, <3>5 DEF GeometryOf
    <3> QED BY <3>1, <3>2, <3>3, <3>4, <3>6
  <2> QED BY <2>2, <2>3 DEF ValidFor
<1> QED BY <1>1, <1>2 DEF Valid

LEMMA FreshStays ==
    ASSUME NEW e, NEW s, NEW e2, NEW s2, NEW clean, Untouched(e, s, e2, s2, clean),
           Forest(e.kids), Forest(e2.kids), NEW r, NEW r2, FreshBut(e, s, r),
           clean \cap Trusted(e2, r2) \subseteq Trusted(e, r)
    PROVE  FreshBut(e2, s2, r2)
<1>1. ASSUME NEW x \in Trusted(e2, r2), x \in clean PROVE Valid(e2, s2, x)
  BY <1>1, ValidStays DEF FreshBut
<1>2. ASSUME NEW x \in Trusted(e2, r2), x \notin clean PROVE Valid(e2, s2, x)
  BY <1>2 DEF Trusted, Untouched, Valid
<1> QED BY <1>1, <1>2 DEF FreshBut

Sound(e) ==
    /\ Engine(e) /\ Forest(e.kids) /\ Acyclic(e.kids)
    /\ DOMAIN e.style = DOMAIN e.kids /\ DOMAIN e.cache = DOMAIN e.kids
    /\ DOMAIN e.geometry = DOMAIN e.kids

\* The nodes above some ids are dirty, and may have changed.
Dirtied(e, s, new, s2, dirty) ==
    /\ new.kids = e.kids
    /\ \A x \in DOMAIN e.kids :
          /\ new.cache[x] = IF x \in dirty THEN {} ELSE e.cache[x]
          /\ new.geometry[x] = IF x \in dirty \/ (\E y \in dirty : x \in Range(e.kids[y]))
                               THEN {} ELSE e.geometry[x]
          /\ x \notin dirty => new.style[x] = e.style[x] /\ NodeAt(s2, x).text = NodeAt(s, x).text

LEMMA AboveCloses ==
    ASSUME NEW kids, Forest(kids), NEW ids \in SUBSET DOMAIN kids, NEW x \in DOMAIN kids,
           NEW k \in Range(kids[x]), k \in Above(kids, ids)
    PROVE  x \in Above(kids, ids)
<1>1. k \in DOMAIN kids /\ k \in Below(kids, x)
  <2>1. x \in Below(kids, x) /\ Range(kids[x]) \subseteq Below(kids, x)
        /\ Below(kids, x) \subseteq DOMAIN kids
    BY BelowIs
  <2> QED BY <2>1
<1>2. Below(kids, k) \cap ids # {} /\ Below(kids, k) \subseteq Below(kids, x)
  BY <1>1, AboveIs, BelowBelow
<1> QED BY <1>2, AboveIs

LEMMA DirtyFresh ==
    ASSUME NEW e, Sound(e), NEW ids \in SUBSET DOMAIN e.kids, NEW s, NEW new, NEW s2,
           Dirtied(e, s, new, s2, Above(e.kids, ids)), NEW r, NEW r2, FreshBut(e, s, r),
           Trusted(e, r2) \ Above(e.kids, ids) \subseteq Trusted(e, r)
    PROVE  FreshBut(new, s2, r2)
<1> DEFINE dirty == Above(e.kids, ids)
           clean == DOMAIN e.kids \ dirty
<1>1. ASSUME NEW x \in clean, NEW k \in Range(e.kids[x])
      PROVE  k \in clean /\ \A y \in dirty : k \notin Range(e.kids[y])
  <2>0. Forest(e.kids) /\ dirty \subseteq DOMAIN e.kids
    BY AboveIs DEF Sound
  <2>1. k \notin dirty
    BY <1>1, <2>0, AboveCloses
  <2>2. k \in DOMAIN e.kids
    BY <1>1, <2>0 DEF Forest
  <2>3. ASSUME NEW y \in dirty, k \in Range(e.kids[y]) PROVE FALSE
    BY <1>1, <2>0, <2>3 DEF Forest
  <2> QED BY <2>1, <2>2, <2>3
<1> HIDE DEF dirty
<1>2. /\ new.kids = e.kids
      /\ \A x \in DOMAIN e.kids :
          /\ new.cache[x] = IF x \in dirty THEN {} ELSE e.cache[x]
          /\ new.geometry[x] = IF x \in dirty \/ (\E y \in dirty : x \in Range(e.kids[y]))
                               THEN {} ELSE e.geometry[x]
          /\ x \notin dirty => new.style[x] = e.style[x] /\ NodeAt(s2, x).text = NodeAt(s, x).text
  BY DEF Dirtied, dirty
<1>3. Untouched(e, s, new, s2, clean)
  BY <1>1, <1>2 DEF Untouched
<1>4. Trusted(new, r2) = Trusted(e, r2)
  BY <1>2 DEF Trusted
<1>5. clean \cap Trusted(new, r2) \subseteq Trusted(e, r)
  BY <1>4 DEF dirty
<1>6. Forest(e.kids) /\ Forest(new.kids)
  BY <1>2 DEF Sound
<1> HIDE DEF clean
<1> QED BY <1>3, <1>5, <1>6, FreshStays

LEMMA MarkDirtyFresh ==
    ASSUME NEW e, Sound(e), NEW ids \in SUBSET DOMAIN e.kids, NEW s, NEW s2,
           \A x \in DOMAIN e.kids \ ids : NodeAt(s2, x).text = NodeAt(s, x).text,
           NEW r, NEW r2, FreshBut(e, s, r),
           Trusted(e, r2) \ Above(e.kids, ids) \subseteq Trusted(e, r)
    PROVE  Sound(MarkDirty(e, ids)) /\ FreshBut(MarkDirty(e, ids), s2, r2)
<1> DEFINE new == MarkDirty(e, ids)
           dirty == Above(e.kids, ids)
<1>1. /\ Engine(new) /\ new.kids = e.kids /\ new.style = e.style
      /\ DOMAIN new.cache = DOMAIN e.cache /\ DOMAIN new.geometry = DOMAIN e.geometry
      /\ \A id \in DOMAIN e.cache : new.cache[id] = IF id \in dirty THEN {} ELSE e.cache[id]
      /\ \A id \in DOMAIN e.geometry :
            new.geometry[id] = IF id \in dirty \/ (\E x \in dirty : id \in Range(e.kids[x]))
                               THEN {} ELSE e.geometry[id]
  BY MarkDirtyIs DEF Sound
<1>2. ids \subseteq dirty
  BY AboveIs, BelowIs DEF Sound
<1> HIDE DEF new, dirty
<1>3. Sound(new)
  BY <1>1 DEF Sound
<1>4. Dirtied(e, s, new, s2, dirty)
  BY <1>1, <1>2 DEF Dirtied, Sound
<1>5. FreshBut(new, s2, r2)
  BY <1>4, DirtyFresh DEF dirty
<1> QED BY <1>3, <1>5 DEF new

LEMMA SetBackendFresh ==
    ASSUME NEW e, Sound(e), NEW id \in DOMAIN e.kids, NEW style, NEW s, NEW r, FreshBut(e, s, r)
    PROVE  Sound(SetBackendStyle(e, id, style)) /\ FreshBut(SetBackendStyle(e, id, style), s, r)
<1> DEFINE ids == {id}
           styled == [e EXCEPT !.style[id] = style]
           new == MarkDirty(styled, ids)
           dirty == Above(e.kids, ids)
<1>1. CASE e.style[id] = style
  BY <1>1 DEF SetBackendStyle
<1>2. CASE e.style[id] # style
  <2>1. SetBackendStyle(e, id, style) = new
    BY <1>2 DEF SetBackendStyle
  <2>2. /\ Engine(styled) /\ styled.kids = e.kids /\ styled.cache = e.cache
        /\ styled.geometry = e.geometry /\ DOMAIN styled.style = DOMAIN e.style
        /\ \A x \in DOMAIN e.kids : x # id => styled.style[x] = e.style[x]
    BY DEF Sound, Engine
  <2> HIDE DEF styled
  <2> HIDE DEF ids
  <2>3. /\ Engine(new) /\ new.kids = e.kids /\ new.style = styled.style
        /\ DOMAIN new.cache = DOMAIN e.cache /\ DOMAIN new.geometry = DOMAIN e.geometry
        /\ \A x \in DOMAIN e.cache : new.cache[x] = IF x \in dirty THEN {} ELSE e.cache[x]
        /\ \A x \in DOMAIN e.geometry :
              new.geometry[x] = IF x \in dirty \/ (\E y \in dirty : x \in Range(e.kids[y]))
                                THEN {} ELSE e.geometry[x]
    BY <2>2, MarkDirtyIs
  <2>4. id \in dirty /\ ids \in SUBSET DOMAIN e.kids
    <3>1. ids \in SUBSET DOMAIN e.kids /\ id \in ids
      BY DEF ids
    <3> QED BY <3>1, AboveIs, BelowIs DEF Sound
  <2> HIDE DEF new, dirty
  <2>5. Sound(new)
    BY <2>2, <2>3 DEF Sound
  <2>6. Dirtied(e, s, new, s, dirty)
    BY <2>2, <2>3, <2>4 DEF Dirtied, Sound
  <2>7. FreshBut(new, s, r)
    BY <2>4, <2>6, DirtyFresh DEF dirty
  <2> QED BY <2>1, <2>5, <2>7
<1> QED BY <1>1, <1>2

LEMMA SameFresh ==
    ASSUME NEW e, Sound(e), NEW s, NEW e2, NEW s2, NEW r, FreshBut(e, s, r),
           e2.kids = e.kids, e2.style = e.style, e2.cache = e.cache, e2.geometry = e.geometry,
           \A x \in DOMAIN e.kids : NodeAt(s2, x).text = NodeAt(s, x).text
    PROVE  FreshBut(e2, s2, r)
<1> DEFINE clean == DOMAIN e.kids
<1>1. Untouched(e, s, e2, s2, clean)
  BY DEF Untouched, Sound, Forest
<1>2. clean \cap Trusted(e2, r) \subseteq Trusted(e, r) /\ Forest(e.kids) /\ Forest(e2.kids)
  BY DEF Trusted, Sound
<1> HIDE DEF clean
<1> QED BY <1>1, <1>2, FreshStays

LEMMA SetStyleFresh ==
    ASSUME NEW e, Sound(e), NEW id \in DOMAIN e.kids, NEW style, NEW s, NEW s2,
           FreshBut(e, s, e.root.id), \A x \in DOMAIN e.kids : NodeAt(s2, x).text = NodeAt(s, x).text
    PROVE  LET new == EngineSetStyle(e, id, style) IN FreshBut(new, s2, new.root.id)
<1> DEFINE rooted == IF e.root.id = id THEN [e EXCEPT !.root.style = style] ELSE e
           new == EngineSetStyle(e, id, style)
<1>1. new = SetBackendStyle(rooted, id, style)
  BY DEF EngineSetStyle
<1>2. /\ rooted.made = e.made /\ rooted.kids = e.kids /\ rooted.style = e.style
      /\ rooted.cache = e.cache /\ rooted.geometry = e.geometry /\ rooted.root.id = e.root.id
      /\ Engine(rooted)
  BY DEF Sound, Engine
<1> HIDE DEF rooted, new
<1>3. Sound(rooted)
  BY <1>2 DEF Sound
<1>4. FreshBut(rooted, s2, e.root.id)
  BY <1>2, SameFresh
<1>5. FreshBut(new, s2, e.root.id)
  BY <1>1, <1>2, <1>3, <1>4, SetBackendFresh
<1>6. new.root = rooted.root
  BY <1>1, <1>2, <1>3, SetBackendStyleIs DEF Sound
<1> QED BY <1>2, <1>5, <1>6 DEF new

LEMMA SetChildrenFresh ==
    ASSUME NEW e, Sound(e), Wired(e), NEW parent \in DOMAIN e.kids, NEW children, NEW s, NEW s2,
           NEW r, FreshBut(e, s, r), Forest(EngineSetChildren(e, parent, children).kids),
           \A x \in DOMAIN e.kids : NodeAt(s2, x).text = NodeAt(s, x).text
    PROVE  FreshBut(EngineSetChildren(e, parent, children), s2, r)
<1> DEFINE new == EngineSetChildren(e, parent, children)
           lose == {p \in DOMAIN e.kids \ {parent} : Range(e.kids[p]) \cap Range(children) # {}}
           kids == [p \in DOMAIN e.kids |->
                       IF p = parent THEN children ELSE Without(e.kids[p], Range(children))]
           ids == lose \cup {parent}
           marked == MarkDirty(e, ids)
           dirty == Above(e.kids, ids)
           clean == DOMAIN e.kids \ dirty
<1>1. CASE e.kids[parent] = children
  <2>1. new = e
    BY <1>1 DEF EngineSetChildren
  <2> QED BY <2>1, SameFresh
<1>2. CASE e.kids[parent] # children
  <2>1. new = [marked EXCEPT !.kids = kids]
    BY <1>2 DEF EngineSetChildren
  <2>2. ids \in SUBSET DOMAIN e.kids
    OBVIOUS
  <2>3. \A p \in DOMAIN e.kids \ ids : kids[p] = e.kids[p]
    <3>1. \A p \in DOMAIN e.kids : e.kids[p] \in Seq(NodeIds) /\ IsInjective(e.kids[p])
      BY DEF Wired
    <3>2. ASSUME NEW p \in DOMAIN e.kids \ ids PROVE Without(e.kids[p], Range(children)) = e.kids[p]
      <4>1. Range(e.kids[p]) \cap Range(children) = {}
        BY <3>2
      <4> QED BY <3>1, <4>1, WithoutIs
    <3> QED BY <3>2
  <2>4. DOMAIN kids = DOMAIN e.kids
    OBVIOUS
  <2> HIDE DEF new, kids, lose, ids
  <2>5. /\ Engine(marked) /\ marked.style = e.style
        /\ \A x \in DOMAIN e.kids :
            /\ marked.cache[x] = IF x \in dirty THEN {} ELSE e.cache[x]
            /\ marked.geometry[x] = IF x \in dirty \/ (\E y \in dirty : x \in Range(e.kids[y]))
                                    THEN {} ELSE e.geometry[x]
    BY MarkDirtyIs DEF Sound
  <2>6. /\ Forest(e.kids) /\ ids \subseteq dirty /\ dirty \subseteq DOMAIN e.kids
    BY <2>2, AboveIs, BelowIs DEF Sound
  <2>7. ASSUME NEW x \in clean, NEW k \in Range(e.kids[x])
        PROVE  k \in clean /\ \A y \in dirty : k \notin Range(e.kids[y])
    <3>1. k \notin dirty
      BY <2>2, <2>6, <2>7, AboveCloses
    <3>2. k \in DOMAIN e.kids
      BY <2>6, <2>7 DEF Forest
    <3>3. ASSUME NEW y \in dirty, k \in Range(e.kids[y]) PROVE FALSE
      BY <2>6, <2>7, <3>3 DEF Forest
    <3> QED BY <3>1, <3>2, <3>3
  <2> HIDE DEF marked, dirty
  <2>8. /\ new.kids = kids /\ new.style = e.style /\ new.cache = marked.cache
        /\ new.geometry = marked.geometry
    BY <2>1, <2>5 DEF Engine
  <2>9. Untouched(e, s, new, s2, clean)
    BY <2>3, <2>4, <2>5, <2>6, <2>7, <2>8 DEF Untouched
  <2>10. Forest(e.kids) /\ Forest(new.kids)
    BY <2>6 DEF new
  <2> HIDE DEF clean
  <2>11. clean \cap Trusted(new, r) \subseteq Trusted(e, r)
    <3>1. \A x \in clean : Below(new.kids, x) = Below(e.kids, x)
      BY <2>9, <2>10, UntouchedOutput
    <3>2. clean \subseteq DOMAIN e.kids
      BY <2>9 DEF Untouched
    <3> QED BY <3>1, <3>2 DEF Trusted
  <2>12. FreshBut(new, s2, r)
    BY <2>9, <2>10, <2>11, FreshStays
  <2> QED BY <2>12 DEF new
<1> QED BY <1>1, <1>2

LEMMA AddFresh ==
    ASSUME NEW e, Sound(e), NEW id, id \notin DOMAIN e.kids, NEW style, NEW s, NEW s2,
           NEW r, FreshBut(e, s, r), Forest(EngineAdd(e, id, style).kids),
           \A x \in DOMAIN e.kids : NodeAt(s2, x).text = NodeAt(s, x).text
    PROVE  FreshBut(EngineAdd(e, id, style), s2, r)
<1> DEFINE new == EngineAdd(e, id, style)
           Extended(f, value) == [x \in DOMAIN f \cup {id} |-> IF x = id THEN value ELSE f[x]]
           kids == Extended(e.kids, <<>>)
           styles == Extended(e.style, style)
           cache == Extended(e.cache, {})
           geometry == Extended(e.geometry, {})
           clean == DOMAIN e.kids
<1>1. new = [made |-> TRUE, kids |-> kids, style |-> styles, cache |-> cache,
             geometry |-> geometry, root |-> e.root]
  BY DEF EngineAdd
<1>2. /\ DOMAIN kids = clean \cup {id} /\ cache[id] = {}
      /\ \A x \in clean : /\ kids[x] = e.kids[x] /\ styles[x] = e.style[x] /\ cache[x] = e.cache[x]
                          /\ geometry[x] = e.geometry[x]
  BY DEF Sound
<1>3. \A x \in clean : Range(e.kids[x]) \subseteq clean
  BY DEF Sound, Forest
<1> HIDE DEF new, kids, styles, cache, geometry
<1>4. new.kids = kids /\ new.style = styles /\ new.cache = cache /\ new.geometry = geometry
  BY <1>1
<1>5. Untouched(e, s, new, s2, clean)
  BY <1>2, <1>3, <1>4 DEF Untouched
<1>6. Forest(e.kids) /\ Forest(new.kids)
  BY DEF new, Sound
<1> HIDE DEF clean
<1>7. \A x \in clean : Below(new.kids, x) = Below(e.kids, x)
  BY <1>5, <1>6, UntouchedOutput
<1>8. clean \cap Trusted(new, r) \subseteq Trusted(e, r)
  BY <1>7 DEF Trusted, clean
<1>9. FreshBut(new, s2, r)
  BY <1>5, <1>6, <1>8, FreshStays
<1> QED BY <1>9 DEF new

LEMMA RemoveFresh ==
    ASSUME NEW e, Sound(e), Wired(e), NEW id \in DOMAIN e.kids,
           \A x \in DOMAIN e.kids \ {id} : id \notin Range(e.kids[x]), NEW s, NEW s2,
           FreshBut(e, s, e.root.id), Forest(EngineRemove(e, id).kids),
           \A x \in DOMAIN e.kids \ {id} : NodeAt(s2, x).text = NodeAt(s, x).text
    PROVE  LET new == EngineRemove(e, id) IN FreshBut(new, s2, new.root.id)
<1> DEFINE new == EngineRemove(e, id)
           Rest(f) == [x \in DOMAIN f \ {id} |-> f[x]]
           kids == [p \in DOMAIN e.kids \ {id} |-> Without(e.kids[p], {id})]
           styles == Rest(e.style)
           cache == Rest(e.cache)
           geometry == Rest(e.geometry)
           root == IF e.root.id = id THEN NoRoot ELSE e.root
           clean == DOMAIN e.kids \ {id}
<1>1. new = [made |-> TRUE, kids |-> kids, style |-> styles, cache |-> cache,
             geometry |-> geometry, root |-> root]
  BY DEF EngineRemove
<1>2. ASSUME NEW x \in clean PROVE kids[x] = e.kids[x]
  <2>1. e.kids[x] \in Seq(NodeIds) /\ IsInjective(e.kids[x]) /\ Range(e.kids[x]) \cap {id} = {}
    BY <1>2 DEF Wired
  <2>2. Without(e.kids[x], {id}) = e.kids[x]
    BY <2>1, WithoutIs
  <2> QED BY <1>2, <2>2
<1>3. /\ DOMAIN kids = clean
      /\ \A x \in clean : /\ styles[x] = e.style[x] /\ cache[x] = e.cache[x]
                          /\ geometry[x] = e.geometry[x]
  BY DEF Sound
<1>4. \A x \in clean : Range(e.kids[x]) \subseteq clean
  BY DEF Sound, Forest
<1>5. e.root.id # id => root = e.root
  OBVIOUS
<1> HIDE DEF new, kids, styles, cache, geometry, root
<1>6. /\ new.kids = kids /\ new.style = styles /\ new.cache = cache /\ new.geometry = geometry
      /\ new.root = root
  BY <1>1
<1>7. Untouched(e, s, new, s2, clean)
  BY <1>2, <1>3, <1>4, <1>6 DEF Untouched
<1>8. Forest(e.kids) /\ Forest(new.kids)
  BY DEF new, Sound
<1>9. id \notin clean /\ clean \subseteq DOMAIN e.kids
  OBVIOUS
<1> HIDE DEF clean
<1>10. \A x \in clean : Below(new.kids, x) = Below(e.kids, x) /\ Below(e.kids, x) \subseteq clean
  BY <1>7, <1>8, UntouchedOutput
<1>11. clean \cap Trusted(new, new.root.id) \subseteq Trusted(e, e.root.id)
  BY <1>5, <1>6, <1>9, <1>10 DEF Trusted
<1>12. FreshBut(new, s2, new.root.id)
  BY <1>7, <1>8, <1>11, FreshStays
<1> QED BY <1>12 DEF new

LEMMA NothingCached ==
    ASSUME NEW e, NEW s, NEW r, \A x \in DOMAIN e.kids : e.cache[x] = {}
    PROVE  FreshBut(e, s, r)
BY DEF FreshBut, Trusted, Valid

LEMMA FromNodesFresh == ASSUME NEW s, NEW r PROVE FreshBut(FromNodes(s), s, r)
<1> DEFINE e == FromNodes(s)
<1>1. \A x \in DOMAIN e.kids : e.cache[x] = {}
  BY DEF FromNodes, ChildrenIn
<1> HIDE DEF e
<1>2. FreshBut(e, s, r)
  BY <1>1, NothingCached
<1> QED BY <1>2 DEF e

LEMMA LeaveFresh ==
    ASSUME NEW s, NEW e, Sound(e), DOMAIN e.kids = Live(s), FreshBut(e, s, e.root.id),
           NEW root \in Live(s)
    PROVE  LET left == LeavePreviousRoot(e, s, root) IN
           Sound(left) /\ left.kids = e.kids /\ FreshBut(left, s, root)
<1> DEFINE left == LeavePreviousRoot(e, s, root)
           r == e.root.id
           styled == SetBackendStyle(e, r, e.root.style)
           ids == {r}
<1>1. CASE r = root
  <2>1. left = e
    BY <1>1 DEF LeavePreviousRoot
  <2> QED BY <1>1, <2>1
<1>2. CASE r # root /\ r \notin Live(s)
  <2>1. left = e
    BY <1>2 DEF LeavePreviousRoot
  <2>2. \A x \in DOMAIN e.kids : Below(e.kids, x) \subseteq DOMAIN e.kids
    BY BelowIs DEF Sound
  <2>3. Trusted(e, root) \subseteq Trusted(e, r)
    BY <1>2, <2>2 DEF Trusted
  <2>4. FreshBut(e, s, root)
    BY <2>3 DEF FreshBut
  <2> QED BY <2>1, <2>4
<1>3. CASE r # root /\ r \in Live(s)
  <2>1. left = MarkDirty(styled, ids)
    BY <1>3 DEF LeavePreviousRoot
  <2>2. Sound(styled) /\ FreshBut(styled, s, r)
    BY <1>3, SetBackendFresh
  <2>3. styled.kids = e.kids
    BY <1>3, SetBackendStyleIs DEF Sound
  <2>4. ids \in SUBSET DOMAIN e.kids
    BY <1>3
  <2> HIDE DEF styled
  <2>5. Trusted(styled, root) \ Above(styled.kids, ids) \subseteq Trusted(styled, r)
    <3>1. \A x \in DOMAIN e.kids : x \notin Above(e.kids, ids) => r \notin Below(e.kids, x)
      <4>1. \A x \in DOMAIN e.kids : x \in Above(e.kids, ids) <=> Below(e.kids, x) \cap ids # {}
        <5> HIDE DEF ids
        <5> QED BY <2>4, AboveIs DEF Sound
      <4> QED BY <4>1
    <3> QED BY <2>3, <3>1 DEF Trusted
  <2> HIDE DEF ids, left, r
  <2>6. Sound(MarkDirty(styled, ids)) /\ FreshBut(MarkDirty(styled, ids), s, root)
    BY <2>2, <2>3, <2>4, <2>5, MarkDirtyFresh
  <2>7. MarkDirty(styled, ids).kids = styled.kids
    BY <2>2, MarkDirtyIs DEF Sound
  <2> QED BY <2>1, <2>3, <2>6, <2>7 DEF left
<1> QED BY <1>1, <1>2, <1>3

LEMMA PrepareFresh ==
    ASSUME NEW s, NEW e, Sound(e), DOMAIN e.kids = Live(s), FreshBut(e, s, e.root.id),
           NEW root \in Live(s), NEW viewport
    PROVE  LET new == PrepareRoot(e, s, root, viewport) IN
           /\ Sound(new) /\ new.kids = e.kids /\ FreshBut(new, s, root) /\ new.root.id = root
           /\ new.style[root] = Effective(NodeAt(s, root).style, viewport)
<1> DEFINE new == PrepareRoot(e, s, root, viewport)
           style == NodeAt(s, root).style
           left == LeavePreviousRoot(e, s, root)
           effective == Effective(style, viewport)
           styled == SetBackendStyle(left, root, effective)
<1>1. new = [styled EXCEPT !.root = [id |-> root, style |-> style]]
  BY DEF PrepareRoot
<1>2. Sound(left) /\ left.kids = e.kids /\ FreshBut(left, s, root)
  BY LeaveFresh
<1> HIDE DEF left
<1>3. Sound(styled) /\ FreshBut(styled, s, root)
  BY <1>2, SetBackendFresh
<1>4. styled.kids = left.kids /\ styled.style[root] = effective
  BY <1>2, SetBackendStyleIs DEF Sound
<1> HIDE DEF styled, new
<1>5. /\ new.kids = styled.kids /\ new.style = styled.style /\ new.cache = styled.cache
      /\ new.geometry = styled.geometry /\ new.root.id = root /\ Engine(new)
  BY <1>1, <1>3 DEF Sound, Engine
<1>6. Sound(new)
  BY <1>3, <1>5 DEF Sound
<1>7. FreshBut(new, s, root)
  BY <1>3, <1>5, SameFresh
<1> QED BY <1>2, <1>4, <1>5, <1>6, <1>7 DEF new

LEMMA NoCycle ==
    ASSUME NEW kids, Forest(kids), Acyclic(kids), NEW x \in DOMAIN kids, NEW y \in DOMAIN kids,
           x \in Below(kids, y), y \in Below(kids, x)
    PROVE  x = y
<1> SUFFICES ASSUME x # y PROVE FALSE
  OBVIOUS
<1>1. PICK k \in Range(kids[y]) : x \in Below(kids, k)
  BY BelowChild
<1>2. k \in DOMAIN kids
  BY DEF Forest
<1>3. y \in Below(kids, k)
  BY <1>1, <1>2, BelowBelow
<1> QED BY <1>1, <1>3 DEF Acyclic

LEMMA AboveOne ==
    ASSUME NEW kids, Forest(kids), NEW x \in DOMAIN kids
    PROVE  /\ Above(kids, {x}) \subseteq DOMAIN kids
           /\ \A y \in DOMAIN kids : y \in Above(kids, {x}) <=> x \in Below(kids, y)
<1> DEFINE ids == {x}
<1>1. ids \in SUBSET DOMAIN kids /\ \A S : S \cap ids # {} <=> x \in S
  OBVIOUS
<1> HIDE DEF ids
<1>2. /\ Above(kids, ids) \subseteq DOMAIN kids
      /\ \A y \in DOMAIN kids : y \in Above(kids, ids) <=> Below(kids, y) \cap ids # {}
  BY <1>1, AboveIs
<1> QED BY <1>1, <1>2 DEF ids

LEMMA SpaceOfKid ==
    ASSUME NEW kids, Forest(kids), Acyclic(kids), NEW root \in DOMAIN kids, NEW style,
           style[root] # "auto",
           NEW viewport, NEW x \in Below(kids, root), NEW k \in Range(kids[x])
    PROVE  /\ k # root /\ k \in Below(kids, root)
           /\ SpaceAt(kids, style, root, viewport, k) =
                 IF style[x] = "auto" THEN SpaceAt(kids, style, root, viewport, x) ELSE {style[x]}
<1> DEFINE over(id) == {y \in (Above(kids, {id}) \cap Below(kids, root)) \ {id} : style[y] # "auto"}
           up == Above(kids, {x})
           nearest(S) == {y \in S : S \subseteq Above(kids, {y})}
<1>1. x \in DOMAIN kids /\ k \in DOMAIN kids /\ k \in Below(kids, root)
      /\ Below(kids, root) \subseteq DOMAIN kids
  <2>1. /\ Below(kids, root) \subseteq DOMAIN kids
        /\ Range(kids[x]) \subseteq Below(kids, root)
    BY BelowIs
  <2> QED BY <2>1
<1>2. k # root
  <2>1. ASSUME k = root PROVE FALSE
    <3>1. x \in Below(kids, k)
      BY <2>1
    <3> QED BY <1>1, <3>1 DEF Acyclic
  <2> QED BY <2>1
<1>3. x \notin Below(kids, k)
  BY <1>1 DEF Acyclic
<1>4. \A y \in DOMAIN kids : k \in Below(kids, y) <=> y = k \/ x \in Below(kids, y)
  <2>1. ASSUME NEW y \in DOMAIN kids, k \in Below(kids, y), y # k PROVE x \in Below(kids, y)
    <3>1. PICK p \in Below(kids, y) : k \in Range(kids[p])
      BY <2>1, BelowParent
    <3>2. p \in DOMAIN kids
      BY BelowIs
    <3>3. p = x
      BY <1>1, <3>1, <3>2 DEF Forest
    <3> QED BY <3>1, <3>3
  <2>2. ASSUME NEW y \in DOMAIN kids, x \in Below(kids, y) PROVE k \in Below(kids, y)
    BY <2>2, BelowIs
  <2>3. k \in Below(kids, k)
    BY <1>1, BelowIs
  <2> QED BY <2>1, <2>2, <2>3
<1>5. Above(kids, {k}) = up \cup {k} /\ k \notin up /\ up \subseteq DOMAIN kids /\ x \in up
  <2>1. /\ Above(kids, {k}) \subseteq DOMAIN kids /\ up \subseteq DOMAIN kids
        /\ \A y \in DOMAIN kids : y \in Above(kids, {k}) <=> k \in Below(kids, y)
        /\ \A y \in DOMAIN kids : y \in up <=> x \in Below(kids, y)
    BY <1>1, AboveOne
  <2>2. x \in Below(kids, x)
    BY <1>1, BelowIs
  <2> HIDE DEF up
  <2> QED BY <1>1, <1>3, <1>4, <2>1, <2>2
<1>6. over(k) = {y \in up \cap Below(kids, root) : style[y] # "auto"}
  BY <1>5
<1>7. SpaceAt(kids, style, root, viewport, k) = {style[y] : y \in nearest(over(k))}
  BY <1>2 DEF SpaceAt
<1>8. CASE style[x] = "auto"
  <2>1. over(k) = over(x) /\ x # root
    BY <1>6, <1>8
  <2>2. SpaceAt(kids, style, root, viewport, x) = {style[y] : y \in nearest(over(x))}
    BY <2>1 DEF SpaceAt
  <2> QED BY <1>1, <1>2, <1>7, <1>8, <2>1, <2>2
<1>9. CASE style[x] # "auto"
  <2>1. x \in over(k) /\ over(k) \subseteq up
    BY <1>5, <1>6, <1>9
  <2>2. ASSUME NEW y \in over(k), over(k) \subseteq Above(kids, {y}) PROVE y = x
    <3>1. y \in up /\ x \in Above(kids, {y}) /\ y \in DOMAIN kids
      BY <1>5, <2>1, <2>2
    <3>2. x \in Below(kids, y) /\ y \in Below(kids, x)
      BY <1>1, <3>1, AboveOne
    <3> QED BY <1>1, <3>1, <3>2, NoCycle
  <2> HIDE DEF over
  <2>3. nearest(over(k)) = {x}
    BY <2>1, <2>2
  <2> HIDE DEF nearest
  <2> QED BY <1>1, <1>2, <1>7, <1>9, <2>3
<1> QED BY <1>8, <1>9

(* Performing a computation.                                               *)

\* A node is entered from its parent, unless it is the root.
LEMMA EnteredIs ==
    ASSUME NEW kids, Forest(kids), NEW root \in DOMAIN kids, NEW stale \in SUBSET Below(kids, root),
           NEW to, DOMAIN to = stale, \A x \in stale : to[x] = Range(kids[x]) \cap stale,
           NEW from, from \subseteq stale, from \subseteq {root}, root \in stale => root \in from
    PROVE  LET entered == Reach(to, from) IN
           /\ entered \subseteq stale
           /\ root \in stale => root \in entered
           /\ \A x \in entered : Range(kids[x]) \cap stale \subseteq entered
           /\ \A x \in entered : x = root \/ \E p \in entered : x \in Range(kids[p])
<1> DEFINE entered == Reach(to, from)
           S == {x \in entered : x = root \/ \E p \in entered : x \in Range(kids[p])}
<1>1. /\ DOMAIN to = stale /\ from \subseteq DOMAIN to /\ \A x \in DOMAIN to : to[x] \subseteq DOMAIN to
      /\ \A x \in stale : to[x] = Range(kids[x]) \cap stale
      /\ \A x \in from : x = root
      /\ root \in stale => root \in from
  OBVIOUS
<1>2. /\ entered \subseteq DOMAIN to /\ from \subseteq entered
      /\ \A x \in entered : to[x] \subseteq entered
      /\ \A T \in SUBSET DOMAIN to :
            from \subseteq T /\ (\A x \in T : to[x] \subseteq T) => entered \subseteq T
  BY <1>1, ReachIs
<1> HIDE DEF entered
<1>3. S \in SUBSET DOMAIN to /\ from \subseteq S
  BY <1>1, <1>2
<1>4. \A x \in S : to[x] \subseteq S
  BY <1>1, <1>2
<1> HIDE DEF S
<1>5. entered \subseteq S
  BY <1>2, <1>3, <1>4
<1> USE DEF S
<1>6. \A x \in entered : x = root \/ \E p \in entered : x \in Range(kids[p])
  BY <1>5
<1>7. \A x \in entered : Range(kids[x]) \cap stale \subseteq entered
  BY <1>1, <1>2
<1> QED BY <1>1, <1>2, <1>6, <1>7 DEF entered

\* A node is visited from a node that is entered; what it reads is its own, or that of all
\* below it.
Visiting(kids, root, entered, visited, own, reads) ==
    /\ entered \subseteq Below(kids, root)
    /\ \A x \in entered : x = root \/ \E p \in entered : x \in Range(kids[p])
    /\ root \in visited /\ visited \subseteq Below(kids, root)
    /\ \A x \in entered : Range(kids[x]) \subseteq visited
    /\ \A z \in visited \cap entered : reads[z] = {own[z]}
    /\ \A z \in visited \ entered : \A o : o \in reads[z] <=> \E y \in Below(kids, z) : o = own[y]

LEMMA VisitedReads ==
    ASSUME NEW kids, Forest(kids), NEW root \in DOMAIN kids, NEW entered, NEW visited, NEW own,
           NEW reads, Visiting(kids, root, entered, visited, own, reads), NEW x \in visited
    PROVE  /\ \A z \in Below(kids, x) \cap visited : \A o \in reads[z] : \E y \in Below(kids, x) : o = own[y]
           /\ \A y \in Below(kids, x) : \E z \in Below(kids, x) \cap visited : own[y] \in reads[z]
<1> USE DEF Visiting
<1> DEFINE B == Below(kids, x)
           C == {y \in B : y \in entered \/ \E z \in (visited \ entered) \cap B : y \in Below(kids, z)}
<1>1. Below(kids, root) \subseteq DOMAIN kids /\ entered \subseteq visited
  BY BelowIs
<1>2. x \in B /\ B \subseteq DOMAIN kids /\ \A y \in B : Range(kids[y]) \subseteq B
  BY <1>1, BelowIs
<1>3. \A z \in DOMAIN kids : z \in Below(kids, z) /\ \A y \in Below(kids, z) : Range(kids[y]) \subseteq Below(kids, z)
  BY BelowIs
<1>4. \A z \in B : Below(kids, z) \subseteq B
  BY <1>1, BelowBelow
<1> HIDE DEF B
<1>5. C \in SUBSET DOMAIN kids /\ x \in C
  BY <1>1, <1>2, <1>3
<1>6. ASSUME NEW y \in C, NEW k \in Range(kids[y]) PROVE k \in C
  <2>1. k \in B
    BY <1>2, <1>6
  <2>2. CASE y \in entered
    <3>1. k \in visited
      BY <2>2, <1>6
    <3>2. k \in entered \/ k \in (visited \ entered) \cap B
      BY <2>1, <3>1
    <3> QED BY <1>2, <1>3, <2>1, <3>2
  <2>3. CASE \E z \in (visited \ entered) \cap B : y \in Below(kids, z)
    BY <1>1, <1>3, <1>6, <2>1, <2>3
  <2> QED BY <1>6, <2>2, <2>3
<1> HIDE DEF C
<1>7. B \subseteq C
  BY <1>1, <1>5, <1>6, BelowLeast DEF B
<1> USE DEF C
<1>8. ASSUME NEW y \in B PROVE \E z \in B \cap visited : own[y] \in reads[z]
  <2>1. CASE y \in entered
    <3>1. y \in B \cap visited /\ reads[y] = {own[y]}
      BY <1>1, <1>8, <2>1
    <3> QED BY <3>1
  <2>2. ASSUME NEW z \in (visited \ entered) \cap B, y \in Below(kids, z)
        PROVE  \E w \in B \cap visited : own[y] \in reads[w]
    <3>1. own[y] \in reads[z]
      BY <2>2
    <3> QED BY <2>2, <3>1
  <2> QED BY <1>7, <1>8, <2>1, <2>2
<1>9. ASSUME NEW z \in B \cap visited, NEW o \in reads[z] PROVE \E y \in B : o = own[y]
  <2>1. CASE z \in entered
    BY <1>9, <2>1
  <2>2. CASE z \notin entered
    BY <1>4, <1>9, <2>2
  <2> QED BY <2>1, <2>2
<1> QED BY <1>8, <1>9 DEF B

Given(e, root, viewport, x) == SpaceAt(e.kids, e.style, root, viewport, x)

\* What Perform writes: the outputs as they would be, whatever it takes from the caches.
Performed(e, s, root, viewport, new, entered, visited) ==
    /\ entered \subseteq Below(e.kids, root)
    /\ visited = {root} \cup UNION {Range(e.kids[x]) : x \in entered}
    /\ \A x \in entered : x = root \/ \E p \in entered : x \in Range(e.kids[p])
    /\ \A x \in visited \ entered : e.cache[x] = {Output(e, s, x, Given(e, root, viewport, x))}
    /\ \A x \in DOMAIN e.kids :
          /\ new.cache[x] = IF x \in entered THEN {Output(e, s, x, Given(e, root, viewport, x))}
                            ELSE e.cache[x]
          /\ new.geometry[x] = IF x \in visited
                               THEN {[place |-> IF x = root THEN 0 ELSE Place(e.kids, x),
                                      out |-> Output(e, s, x, Given(e, root, viewport, x))]}
                               ELSE e.geometry[x]

LEMMA CachedIsValid ==
    ASSUME NEW e, Sound(e), NEW s, NEW root \in DOMAIN e.kids, FreshBut(e, s, root),
           NEW x \in Below(e.kids, root), NEW space, \E out \in e.cache[x] : out.space = space
    PROVE  e.cache[x] = {Output(e, s, x, space)}
<1>1. x \in DOMAIN e.kids /\ (x = root \/ root \notin Below(e.kids, x))
  <2>1. x \in DOMAIN e.kids
    BY BelowIs DEF Sound
  <2> QED BY <2>1, NoCycle DEF Sound
<1>2. Valid(e, s, x)
  BY <1>1 DEF FreshBut, Trusted
<1>3. PICK given : e.cache[x] = {Output(e, s, x, given)}
  BY <1>2 DEF Valid, ValidFor
<1>4. Output(e, s, x, given).space = given
  BY DEF Output
<1>5. given = space
  BY <1>3, <1>4
<1> QED BY <1>3, <1>5

LEMMA PerformIs ==
    ASSUME NEW e, Sound(e), NEW s, NEW root \in DOMAIN e.kids, FreshBut(e, s, root), NEW viewport
    PROVE  LET new == Perform(e, s, root, viewport) IN
           /\ Sound(new) /\ new.kids = e.kids /\ new.style = e.style /\ new.root = e.root
           /\ \E entered, visited : Performed(e, s, root, viewport, new, entered, visited)
<1> DEFINE new == Perform(e, s, root, viewport)
           kids == e.kids
           space == [id \in Below(kids, root) |-> SpaceAt(kids, e.style, root, viewport, id)]
           stale == {id \in DOMAIN space : ~\E out \in e.cache[id] : out.space = space[id]}
           to == [id \in stale |-> Range(kids[id]) \cap stale]
           from == {root} \cap stale
           entered == Reach(to, from)
           visited == {root} \cup UNION {Range(kids[id]) : id \in entered}
           reads(id) == IF id \in entered THEN {Own(s, kids, e.style, id)}
                        ELSE UNION {out.reads : out \in e.cache[id]}
           output == [id \in visited |->
                         [space |-> space[id],
                          reads |-> UNION {reads(x) : x \in Below(kids, id) \cap visited}]]
           cache == [id \in DOMAIN e.cache |->
                        IF id \in entered THEN {output[id]} ELSE e.cache[id]]
           geometry == [id \in DOMAIN e.geometry |->
                        IF id \in visited
                        THEN {[place |-> IF id = root THEN 0 ELSE Place(kids, id), out |-> output[id]]}
                        ELSE e.geometry[id]]
           own == [y \in DOMAIN kids |-> Own(s, kids, e.style, y)]
           read == [z \in visited |-> reads(z)]
<1>1. new = [e EXCEPT !.cache = cache, !.geometry = geometry]
  BY Zenon DEF Perform
<1>2. /\ DOMAIN cache = DOMAIN e.kids /\ DOMAIN geometry = DOMAIN e.kids
      /\ \A x \in DOMAIN e.kids :
          /\ cache[x] = IF x \in entered THEN {output[x]} ELSE e.cache[x]
          /\ geometry[x] = IF x \in visited
                           THEN {[place |-> IF x = root THEN 0 ELSE Place(kids, x), out |-> output[x]]}
                           ELSE e.geometry[x]
  <2> HIDE DEF entered, visited, output
  <2> QED BY DEF Sound
<1>3. \A x \in visited : output[x] = [space |-> space[x],
                                      reads |-> UNION {reads(z) : z \in Below(kids, x) \cap visited}]
  <2> HIDE DEF entered, visited, reads, space
  <2> QED OBVIOUS
<1> HIDE DEF cache, geometry, output, new
<1>4. new = [made |-> e.made, kids |-> kids, style |-> e.style, cache |-> cache,
             geometry |-> geometry, root |-> e.root]
  BY <1>1 DEF Sound, Engine
<1>5. /\ new.made = e.made /\ new.kids = e.kids /\ new.style = e.style /\ new.root = e.root
      /\ new.cache = cache /\ new.geometry = geometry
  BY <1>4
<1>6. Engine(new)
  BY <1>4, <1>5 DEF Sound, Engine
<1>7. Sound(new)
  BY <1>2, <1>5, <1>6 DEF Sound
<1>8. /\ Forest(kids) /\ root \in DOMAIN kids /\ stale \in SUBSET Below(kids, root)
      /\ Below(kids, root) \subseteq DOMAIN kids /\ root \in Below(kids, root)
      /\ \A x \in Below(kids, root) : Range(kids[x]) \subseteq Below(kids, root)
  BY BelowIs DEF Sound
<1>9. \A x \in Below(kids, root) : space[x] = Given(e, root, viewport, x)
  BY DEF Given
<1>10. ASSUME NEW x \in Below(kids, root), x \notin stale
       PROVE  e.cache[x] = {Output(e, s, x, Given(e, root, viewport, x))}
  <2>1. \E out \in e.cache[x] : out.space = Given(e, root, viewport, x)
    BY <1>9, <1>10
  <2> HIDE DEF kids
  <2> QED BY <2>1, CachedIsValid DEF kids
<1> HIDE DEF stale, space
<1>11. /\ entered \subseteq stale /\ (root \in stale => root \in entered)
       /\ \A x \in entered : Range(kids[x]) \cap stale \subseteq entered
       /\ \A x \in entered : x = root \/ \E p \in entered : x \in Range(kids[p])
  <2>1. /\ DOMAIN to = stale /\ \A x \in stale : to[x] = Range(kids[x]) \cap stale
        /\ from \subseteq stale /\ from \subseteq {root} /\ (root \in stale => root \in from)
    OBVIOUS
  <2> HIDE DEF kids, to, from
  <2>2. /\ entered \subseteq stale
        /\ root \in stale => root \in entered
        /\ \A x \in entered : Range(kids[x]) \cap stale \subseteq entered
        /\ \A x \in entered : x = root \/ \E p \in entered : x \in Range(kids[p])
    BY <1>8, <2>1, EnteredIs
  <2> QED BY <2>2
<1> HIDE DEF entered
<1>12. visited \subseteq Below(kids, root) /\ \A x \in visited \ entered : x \notin stale
  BY <1>8, <1>11
<1>13. \A z \in visited : /\ read[z] = reads(z)
                          /\ read[z] = IF z \in entered THEN {own[z]} ELSE {own[y] : y \in Below(kids, z)}
  <2>1. ASSUME NEW z \in visited, z \notin entered PROVE reads(z) = {own[y] : y \in Below(kids, z)}
    <3>1. e.cache[z] = {Output(e, s, z, Given(e, root, viewport, z))}
      BY <1>10, <1>12, <2>1
    <3>2. reads(z) = Output(e, s, z, Given(e, root, viewport, z)).reads
      BY <2>1, <3>1
    <3>3. Below(kids, z) \subseteq DOMAIN kids
      BY <1>8, <1>12, BelowIs
    <3>4. \A y \in Below(kids, z) : own[y] = Own(s, kids, e.style, y)
      BY <3>3
    <3>5. Output(e, s, z, Given(e, root, viewport, z)).reads = {Own(s, kids, e.style, y) : y \in Below(kids, z)}
      BY DEF Output
    <3> HIDE DEF own, reads
    <3> QED BY <3>2, <3>4, <3>5
  <2>2. ASSUME NEW z \in visited, z \in entered PROVE reads(z) = {own[z]}
    BY <1>8, <1>12, <2>2
  <2>3. \A z \in visited : read[z] = reads(z)
    BY DEF read
  <2> HIDE DEF read, reads, own, visited
  <2> QED BY <2>1, <2>2, <2>3
<1>14. ASSUME NEW x \in visited PROVE output[x] = Output(e, s, x, Given(e, root, viewport, x))
  <2>1. /\ \A z \in Below(kids, x) \cap visited : \A o \in read[z] : \E y \in Below(kids, x) : o = own[y]
        /\ \A y \in Below(kids, x) : \E z \in Below(kids, x) \cap visited : own[y] \in read[z]
    <3>1. /\ entered \in SUBSET Below(kids, root) /\ root \in visited
          /\ visited \subseteq Below(kids, root)
          /\ \A y \in entered : Range(kids[y]) \subseteq visited
      BY <1>8, <1>11, <1>12
    <3>2. \A y \in entered : y = root \/ \E p \in entered : y \in Range(kids[p])
      BY <1>11
    <3>3. /\ \A z \in visited \cap entered : read[z] = {own[z]}
          /\ \A z \in visited \ entered : \A o : o \in read[z] <=> \E y \in Below(kids, z) : o = own[y]
      <4>1. ASSUME NEW z \in visited, z \notin entered, NEW o
            PROVE  o \in read[z] <=> \E y \in Below(kids, z) : o = own[y]
        <5>1. read[z] = {own[y] : y \in Below(kids, z)}
          BY <1>13, <4>1
        <5> HIDE DEF read, own, kids
        <5> QED BY <5>1
      <4>2. \A z \in visited \cap entered : read[z] = {own[z]}
        BY <1>13
      <4> HIDE DEF visited, read, own, kids
      <4> QED BY <4>1, <4>2
    <3>4. Forest(kids) /\ root \in DOMAIN kids /\ x \in visited
      BY <1>8
    <3> HIDE DEF visited, read, own, kids
    <3>5. Visiting(kids, root, entered, visited, own, read)
      BY <3>1, <3>2, <3>3 DEF Visiting
    <3> QED BY <3>4, <3>5, VisitedReads
  <2>2. \A y \in Below(kids, x) : own[y] = Own(s, kids, e.style, y)
    <3>1. Below(kids, x) \subseteq DOMAIN kids
      BY <1>8, <1>12, BelowIs
    <3> QED BY <3>1
  <2>3. \A z \in visited : read[z] = reads(z)
    <3> HIDE DEF visited, read, reads
    <3> QED BY <1>13
  <2>4. space[x] = Given(e, root, viewport, x)
    BY <1>9, <1>12
  <2> HIDE DEF read, reads, own, visited
  <2>5. UNION {reads(z) : z \in Below(kids, x) \cap visited} = {Own(s, kids, e.style, y) : y \in Below(kids, x)}
    BY <2>1, <2>2, <2>3
  <2> QED BY <1>3, <2>4, <2>5 DEF Output
<1>15. visited = {root} \cup UNION {Range(e.kids[x]) : x \in entered}
  OBVIOUS
<1> HIDE DEF visited
<1>16. Performed(e, s, root, viewport, new, entered, visited)
  <2>1. entered \subseteq Below(e.kids, root)
    BY <1>8, <1>11
  <2>2. \A x \in entered : x = root \/ \E p \in entered : x \in Range(e.kids[p])
    BY <1>11
  <2>3. \A x \in visited \ entered : e.cache[x] = {Output(e, s, x, Given(e, root, viewport, x))}
    BY <1>10, <1>12
  <2>4. entered \subseteq visited
    BY <1>15, <2>2
  <2>5. ASSUME NEW x \in DOMAIN e.kids
        PROVE  /\ new.cache[x] = IF x \in entered THEN {Output(e, s, x, Given(e, root, viewport, x))}
                                 ELSE e.cache[x]
               /\ new.geometry[x] = IF x \in visited
                                    THEN {[place |-> IF x = root THEN 0 ELSE Place(e.kids, x),
                                           out |-> Output(e, s, x, Given(e, root, viewport, x))]}
                                    ELSE e.geometry[x]
    <3>1. x \in visited => output[x] = Output(e, s, x, Given(e, root, viewport, x))
      BY <1>14
    <3>2. /\ cache[x] = IF x \in entered THEN {output[x]} ELSE e.cache[x]
          /\ geometry[x] = IF x \in visited
                           THEN {[place |-> IF x = root THEN 0 ELSE Place(kids, x), out |-> output[x]]}
                           ELSE e.geometry[x]
      BY <1>2
    <3> QED BY <1>5, <2>4, <3>1, <3>2
  <2> QED BY <1>15, <2>1, <2>2, <2>3, <2>5 DEF Performed
<1> QED BY <1>5, <1>7, <1>16 DEF new

LEMMA GivenKid ==
    ASSUME NEW e, Sound(e), NEW root \in DOMAIN e.kids, e.style[root] # "auto", NEW viewport,
           NEW x \in Below(e.kids, root), NEW k \in Range(e.kids[x])
    PROVE  k # root /\ Given(e, root, viewport, k) = SpaceUnder(e, x, Given(e, root, viewport, x))
<1> DEFINE kids == e.kids
           style == e.style
<1>1. /\ Forest(kids) /\ Acyclic(kids) /\ root \in DOMAIN kids /\ style[root] # "auto"
      /\ x \in Below(kids, root) /\ k \in Range(kids[x])
  BY DEF Sound
<1> HIDE DEF kids, style
<1>2. k # root
  BY <1>1, SpaceOfKid
<1>3. SpaceAt(kids, style, root, viewport, k) =
         IF style[x] = "auto" THEN SpaceAt(kids, style, root, viewport, x) ELSE {style[x]}
  BY <1>1, SpaceOfKid
<1> QED BY <1>2, <1>3 DEF kids, style, Given, SpaceUnder

LEMMA PerformValid ==
    ASSUME NEW e, Sound(e), NEW s, NEW root \in DOMAIN e.kids, e.style[root] # "auto", NEW viewport,
           FreshBut(e, s, root), NEW new, Sound(new), new.kids = e.kids, new.style = e.style,
           NEW entered, NEW visited, Performed(e, s, root, viewport, new, entered, visited)
    PROVE  FreshBut(new, s, root)
<1> DEFINE below == Below(e.kids, root)
<1>1. /\ Forest(e.kids) /\ Acyclic(e.kids) /\ root \in below /\ below \subseteq DOMAIN e.kids
      /\ \A x \in below : Range(e.kids[x]) \subseteq below
      /\ \A x \in DOMAIN e.kids : Range(e.kids[x]) \subseteq DOMAIN e.kids
      /\ \A x \in DOMAIN e.kids : Range(e.kids[x]) \subseteq Below(e.kids, x) /\ x \in Below(e.kids, x)
  BY BelowIs DEF Sound, Forest
<1>2. entered \subseteq visited /\ visited \subseteq below
  BY <1>1 DEF Performed
<1>3. ASSUME NEW x, NEW space PROVE Output(new, s, x, space) = Output(e, s, x, space)
  BY DEF Output
<1>4. ASSUME NEW x \in DOMAIN e.kids, NEW k \in Range(e.kids[x]), k \in visited, k # root
      PROVE x \in entered
  <2>1. PICK p \in entered : k \in Range(e.kids[p])
    BY <1>4 DEF Performed
  <2>2. p = x
    BY <1>1, <1>2, <1>4, <2>1 DEF Forest
  <2> QED BY <2>1, <2>2
<1>5. ASSUME NEW x \in Trusted(e, root), x \notin entered PROVE Valid(new, s, x)
  <2>1. x \in DOMAIN e.kids /\ (x = root \/ root \notin Below(e.kids, x)) /\ Valid(e, s, x)
    BY DEF Trusted, FreshBut
  <2>2. ASSUME NEW k \in Range(e.kids[x]) PROVE k \in DOMAIN e.kids /\ k \notin visited
    <3>1. k # root
      <4>1. CASE x = root
        <5>1. k = root => root \in Below(e.kids, root) /\ FALSE
          BY <1>1, <4>1 DEF Acyclic
        <5> QED BY <5>1
      <4>2. CASE root \notin Below(e.kids, x)
        BY <1>1, <2>1, <4>2
      <4> QED BY <2>1, <4>1, <4>2
    <3> QED BY <1>1, <1>4, <1>5, <2>1, <3>1
  <2>3. new.cache[x] = e.cache[x]
        /\ \A k \in Range(e.kids[x]) : new.cache[k] = e.cache[k] /\ new.geometry[k] = e.geometry[k]
    BY <1>2, <1>5, <2>1, <2>2 DEF Performed
  <2>4. CASE e.cache[x] = {}
    BY <2>3, <2>4 DEF Valid
  <2>5. ASSUME NEW space, ValidFor(e, s, x, space) PROVE ValidFor(new, s, x, space)
    <3>1. SpaceUnder(new, x, space) = SpaceUnder(e, x, space)
      BY DEF SpaceUnder
    <3>2. \A k, under : GeometryOf(new, s, k, under) = GeometryOf(e, s, k, under)
      BY <1>3 DEF GeometryOf
    <3> QED BY <1>3, <2>3, <2>5, <3>1, <3>2 DEF ValidFor
  <2> QED BY <2>1, <2>4, <2>5 DEF Valid
<1>6. ASSUME NEW x \in entered PROVE Valid(new, s, x)
  <2> DEFINE space == Given(e, root, viewport, x)
             under == SpaceUnder(new, x, space)
  <2>1. x \in below /\ x \in DOMAIN e.kids
    BY <1>1, <1>2
  <2>2. new.cache[x] = {Output(new, s, x, space)}
    <3>1. new.cache[x] = {Output(e, s, x, space)}
      BY <2>1 DEF Performed
    <3> HIDE DEF space
    <3> QED BY <1>3, <3>1
  <2>3. ASSUME NEW k \in Range(new.kids[x])
        PROVE  new.cache[k] = {Output(new, s, k, under)}
               /\ new.geometry[k] = {GeometryOf(new, s, k, under)}
    <3>1. k \in visited /\ k \in DOMAIN e.kids
      BY <1>1, <2>1 DEF Performed
    <3>2. k # root /\ Given(e, root, viewport, k) = under
      <4>1. k # root /\ Given(e, root, viewport, k) = SpaceUnder(e, x, space)
        <5>1. k \in Range(e.kids[x])
          OBVIOUS
        <5> QED BY <2>1, <5>1, GivenKid
      <4> QED BY <4>1 DEF SpaceUnder
    <3> DEFINE out == Output(e, s, k, Given(e, root, viewport, k))
    <3>3. new.cache[k] = {out}
      BY <3>1 DEF Performed
    <3>4. new.geometry[k] = {[place |-> Place(e.kids, k), out |-> out]}
      BY <3>1, <3>2 DEF Performed
    <3>5. out = Output(new, s, k, under)
      BY <1>3, <3>2
    <3> HIDE DEF out, under
    <3> QED BY <3>3, <3>4, <3>5 DEF GeometryOf
  <2>4. ValidFor(new, s, x, space)
    <3> HIDE DEF space
    <3> QED BY <2>2, <2>3 DEF ValidFor
  <2> QED BY <2>4 DEF Valid
<1>7. Trusted(new, root) = Trusted(e, root)
  BY DEF Trusted
<1> QED BY <1>5, <1>6, <1>7 DEF FreshBut

\* Everything below the root is shown as it would be if it were computed from nothing.
LEMMA PerformShows ==
    ASSUME NEW e, Sound(e), NEW s, NEW root \in DOMAIN e.kids, e.style[root] # "auto", NEW viewport,
           FreshBut(e, s, root), NEW new, Sound(new), new.kids = e.kids, new.style = e.style,
           NEW entered, NEW visited, Performed(e, s, root, viewport, new, entered, visited),
           FreshBut(new, s, root), NEW x \in Below(e.kids, root)
    PROVE  new.geometry[x] = {[place |-> IF x = root THEN 0 ELSE Place(e.kids, x),
                               out |-> Output(e, s, x, Given(e, root, viewport, x))]}
<1> DEFINE below == Below(e.kids, root)
           Is(y) == /\ new.cache[y] = {Output(e, s, y, Given(e, root, viewport, y))}
                    /\ new.geometry[y] = {[place |-> IF y = root THEN 0 ELSE Place(e.kids, y),
                                           out |-> Output(e, s, y, Given(e, root, viewport, y))]}
           S == {y \in below : Is(y)}
<1>1. /\ Forest(e.kids) /\ Acyclic(e.kids) /\ root \in below /\ below \subseteq DOMAIN e.kids
      /\ \A y \in below : Range(e.kids[y]) \subseteq below
  BY BelowIs DEF Sound
<1>2. ASSUME NEW y, NEW space PROVE Output(new, s, y, space) = Output(e, s, y, space)
  BY DEF Output
<1>3. Is(root)
  BY DEF Performed
<1>4. ASSUME NEW y \in below, Is(y), NEW k \in Range(e.kids[y]) PROVE Is(k)
  <2>1. Valid(new, s, y)
    <3>1. y \in Trusted(new, root)
      <4>1. y = root \/ root \notin Below(e.kids, y)
        BY <1>1, NoCycle
      <4> QED BY <1>1, <4>1 DEF Trusted
    <3> QED BY <3>1 DEF FreshBut
  <2> DEFINE space == Given(e, root, viewport, y)
             under == SpaceUnder(new, y, space)
  <2>2. PICK given : ValidFor(new, s, y, given)
    BY <1>4, <2>1 DEF Valid
  <2>3. given = space
    <3>1. Output(e, s, y, given) = Output(e, s, y, space)
      <4>1. new.cache[y] = {Output(e, s, y, given)}
        BY <1>2, <2>2 DEF ValidFor
      <4>2. new.cache[y] = {Output(e, s, y, space)}
        BY <1>4
      <4> HIDE DEF space
      <4> QED BY <4>1, <4>2
    <3>2. Output(e, s, y, given).space = given /\ Output(e, s, y, space).space = space
      BY DEF Output
    <3> QED BY <3>1, <3>2
  <2>4. k # root /\ Given(e, root, viewport, k) = under
    <3>1. k # root /\ Given(e, root, viewport, k) = SpaceUnder(e, y, space)
      BY <1>4, GivenKid
    <3> QED BY <3>1 DEF SpaceUnder
  <2>5. new.cache[k] = {Output(e, s, k, under)} /\ new.geometry[k] = {GeometryOf(new, s, k, under)}
    <3> HIDE DEF space, under
    <3>1. new.cache[k] = {Output(new, s, k, SpaceUnder(new, y, given))}
          /\ new.geometry[k] = {GeometryOf(new, s, k, SpaceUnder(new, y, given))}
      BY <2>2 DEF ValidFor
    <3> QED BY <1>2, <2>3, <3>1 DEF under
  <2>6. GeometryOf(new, s, k, under) = [place |-> Place(e.kids, k), out |-> Output(e, s, k, under)]
    BY <1>2 DEF GeometryOf
  <2> HIDE DEF under
  <2> QED BY <2>4, <2>5, <2>6
<1> HIDE DEF Is
<1>5. S \in SUBSET DOMAIN e.kids /\ root \in S /\ \A y \in S : Range(e.kids[y]) \subseteq S
  BY <1>1, <1>3, <1>4
<1> HIDE DEF S
<1>6. below \subseteq S
  <2> DEFINE kids == e.kids
  <2>1. Forest(kids) /\ root \in DOMAIN kids /\ S \in SUBSET DOMAIN kids /\ root \in S
        /\ \A y \in S : Range(kids[y]) \subseteq S
    BY <1>1, <1>5
  <2> HIDE DEF kids
  <2>2. Below(kids, root) \subseteq S
    BY <2>1, BelowLeast
  <2> QED BY <2>2 DEF kids
<1> USE DEF S
<1>7. Is(x)
  BY <1>6
<1> QED BY <1>7 DEF Is

LEMMA ComputeFresh ==
    ASSUME NEW s, NEW e, Sound(e), DOMAIN e.kids = Live(s), FreshBut(e, s, e.root.id),
           NEW root \in Live(s), NEW viewport, Effective(NodeAt(s, root).style, viewport) # "auto"
    PROVE  LET new == EngineCompute(e, s, root, viewport) IN
           /\ FreshBut(new, s, root) /\ new.root.id = root
           /\ new.kids = e.kids /\ new.style = PrepareRoot(e, s, root, viewport).style
           /\ \A x \in Below(e.kids, root) :
                 new.geometry[x] = {[place |-> IF x = root THEN 0 ELSE Place(e.kids, x),
                                     out |-> Output(new, s, x, Given(new, root, viewport, x))]}
<1> DEFINE ready == PrepareRoot(e, s, root, viewport)
           new == Perform(ready, s, root, viewport)
<1>1. EngineCompute(e, s, root, viewport) = new
  BY DEF EngineCompute
<1>2. /\ Sound(ready) /\ ready.kids = e.kids /\ FreshBut(ready, s, root) /\ ready.root.id = root
      /\ ready.style[root] = Effective(NodeAt(s, root).style, viewport)
  BY PrepareFresh
<1> HIDE DEF ready
<1>3. /\ Sound(new) /\ new.kids = ready.kids /\ new.style = ready.style /\ new.root = ready.root
      /\ \E entered, visited : Performed(ready, s, root, viewport, new, entered, visited)
  BY <1>2, PerformIs
<1> HIDE DEF new
<1>4. PICK entered, visited : Performed(ready, s, root, viewport, new, entered, visited)
  BY <1>3
<1>5. ready.style[root] # "auto" /\ root \in DOMAIN ready.kids
  BY <1>2
<1>6. FreshBut(new, s, root)
  BY <1>2, <1>3, <1>4, <1>5, PerformValid
<1>7. ASSUME NEW x \in Below(e.kids, root)
      PROVE  new.geometry[x] = {[place |-> IF x = root THEN 0 ELSE Place(e.kids, x),
                                 out |-> Output(new, s, x, Given(new, root, viewport, x))]}
  <2>1. x \in Below(ready.kids, root)
    BY <1>2
  <2>2. new.geometry[x] = {[place |-> IF x = root THEN 0 ELSE Place(ready.kids, x),
                            out |-> Output(ready, s, x, Given(ready, root, viewport, x))]}
    BY <1>2, <1>3, <1>4, <1>5, <1>6, <2>1, PerformShows
  <2>3. Output(new, s, x, Given(new, root, viewport, x)) = Output(ready, s, x, Given(ready, root, viewport, x))
    BY <1>3 DEF Output, Given
  <2> QED BY <1>2, <2>2, <2>3
<1> QED BY <1>1, <1>2, <1>3, <1>6, <1>7 DEF ready

(* The caches of a tree.                                                   *)
CachesFresh(t) == FreshBut(t.engine, t.nodes, t.engine.root.id)

LEMMA SoundOf ==
    ASSUME NEW s, NodesLinked(s), NEW e, EngineOK(e, s)
    PROVE  Sound(e) /\ Wired(e) /\ DOMAIN e.kids = Live(s)
<1>1. /\ Engine(e) /\ DOMAIN e.kids = Live(s) /\ Forest(e.kids)
      /\ \A x \in Live(s) : e.kids[x] \in Seq(NodeIds) /\ IsInjective(e.kids[x])
  BY EngineForest
<1>2. Acyclic(e.kids)
  BY DEF NodesLinked, EngineOK
<1> QED BY <1>1, <1>2 DEF Sound, Wired, EngineOK

LEMMA LooseSound ==
    ASSUME NEW s, NEW calls, Loose(s, calls), NEW e, EngineOK(e, s)
    PROVE  Sound(e) /\ Wired(e) /\ DOMAIN e.kids = Live(s)
<1>1. e.kids = ChildrenIn(s) /\ Engine(e) /\ NodesOK(s)
  BY DEF EngineOK, Loose
<1>2. /\ DOMAIN ChildrenIn(s) = Live(s) /\ Forest(ChildrenIn(s))
      /\ \A id \in Live(s) : ChildrenIn(s)[id] = NodeAt(s, id).children
  BY LooseForest
<1>3. \A x \in Live(s) : e.kids[x] \in Seq(NodeIds) /\ IsInjective(e.kids[x])
  BY <1>1, <1>2, NodeParts DEF Loose
<1>4. Acyclic(e.kids)
  BY <1>1 DEF Loose
<1> QED BY <1>1, <1>2, <1>3, <1>4 DEF Sound, Wired, EngineOK

LEMMA RemoveStepFresh ==
    ASSUME NEW w, Removing(w), w.calls # <<>>, CachesFresh(w.tree)
    PROVE  CachesFresh(RemoveStep(w).tree)
<1> DEFINE t == w.tree
           s == t.nodes
           e == t.engine
           calls == w.calls
           id == calls[1][1]
           parent == calls[1][2]
           list == NodeAt(s, id).children
           more == [k \in 1..Len(list) |-> <<list[k], id>>] \o Tail(calls)
           new == RemoveStep(w)
<1>1. calls \in Calls /\ calls # <<>> /\ Parts(t) /\ Loose(s, calls) /\ NodesOK(s)
  BY DEF Removing, Loose
<1>2. calls[1] = <<id, parent>> /\ calls[1] \in Range(calls)
  <2>1. Range(calls) = {calls[1]} \cup Range(Tail(calls))
        /\ calls[1] \in NodeIds \X (NodeIds \cup {NoId})
    BY <1>1, TailIs DEF Calls
  <2> QED BY <2>1
<1>3. w = [tree |-> t, calls |-> calls]
  BY DEF Removing
<1>4. CASE ~(id \in Live(s) /\ ParentIn(s, id) = parent)
  <2>1. new = [w EXCEPT !.calls = Tail(calls)]
    BY <1>1, <1>4, Zenon DEF RemoveStep, Known, Entry, ParentOf, ParentIn
  <2>2. new = [tree |-> t, calls |-> Tail(calls)]
    BY <1>3, <2>1
  <2> QED BY <2>2
<1>5. CASE id \in Live(s) /\ ParentIn(s, id) = parent
  <2>1. new = [tree |-> Dropped(t, id), calls |-> more]
    BY <1>1, <1>5, Zenon DEF RemoveStep, Known, Entry, ParentOf, ParentIn
  <2> DEFINE engine == EngineRemove(e, id)
             nodes == RemoveId(s, id)
  <2>2. Dropped(t, id).engine = engine /\ Dropped(t, id).nodes = nodes
    BY <1>1 DEF Dropped, Parts, Tree
  <2> HIDE DEF more, t, engine, nodes, calls, id
  <2>3. Removing(new)
    BY RemoveStepKeeps
  <2>4. EngineOK(engine, nodes) /\ Forest(ChildrenIn(nodes))
    <3>1. new.tree = Dropped(t, id)
      BY <2>1
    <3> HIDE DEF new
    <3>2. Parts(new.tree) /\ Loose(new.tree.nodes, new.calls)
      BY <2>3 DEF Removing
    <3> QED BY <2>2, <3>1, <3>2, LooseForest DEF Parts
  <2> USE DEF t, engine, nodes, calls, id
  <2> HIDE DEF new
  <2>5. Forest(engine.kids)
    BY <2>4 DEF EngineOK
  <2>6. Sound(e) /\ Wired(e) /\ DOMAIN e.kids = Live(s)
        /\ \A x \in Live(s) : e.kids[x] = NodeAt(s, x).children
    <3>1. EngineOK(e, s)
      BY <1>1 DEF Parts
    <3>2. \A x \in Live(s) : e.kids[x] = NodeAt(s, x).children
      BY <1>1, <3>1, LooseForest DEF EngineOK
    <3> QED BY <1>1, <3>1, <3>2, LooseSound
  <2>7. ASSUME NEW x \in DOMAIN e.kids \ {id}, id \in Range(e.kids[x]) PROVE FALSE
    <3>1. id \in Range(NodeAt(s, x).children) /\ x \in Live(s)
      BY <2>6, <2>7
    <3>2. x = parent
      BY <1>1, <1>5, <3>1 DEF Loose
    <3>3. calls[1][1] \notin Range(NodeAt(s, calls[1][2]).children)
      BY <1>1, <1>2, <3>1, <3>2 DEF Loose
    <3> QED BY <3>1, <3>2, <3>3
  <2>8. \A x \in DOMAIN e.kids \ {id} : NodeAt(nodes, x).text = NodeAt(s, x).text
    BY <1>1, <1>5, <2>6, RemoveIs
  <2>9. FreshBut(e, s, e.root.id)
    BY DEF CachesFresh
  <2> HIDE DEF e, s, nodes
  <2>10. FreshBut(engine, nodes, engine.root.id)
    BY <1>5, <2>5, <2>6, <2>7, <2>8, <2>9, RemoveFresh
  <2> HIDE DEF engine
  <2>11. new.tree = Dropped(t, id)
    BY <2>1
  <2> QED BY <2>2, <2>10, <2>11 DEF CachesFresh, new
<1> QED BY <1>4, <1>5

LEMMA RemoveSubtreesFresh ==
    ASSUME NEW t, NEW calls \in Calls, Parts(t), Loose(t.nodes, calls), CachesFresh(t)
    PROVE  CachesFresh(RemoveSubtrees(t, calls))
<1> DEFINE n == Len(t.nodes.node) + Len(calls)
           start == [tree |-> t, calls |-> calls]
<1>1. n \in Nat
  <2>1. Len(t.nodes.node) \in Nat
    BY LiveCount DEF Loose
  <2> QED BY <2>1 DEF Calls
<1>2. Removing(start) /\ CachesFresh(start.tree)
  BY DEF Removing
<1>3. PICK g : /\ g[0] = start /\ \A m \in 1..n : g[m] = RemoveStep(g[m - 1])
               /\ RemoveSubtrees(t, calls) = g[n].tree
  <2>1. n = Len(t.nodes.node) + Len(calls)
    OBVIOUS
  <2> HIDE DEF n
  <2> QED BY <1>1, <2>1, RemoveRuns, SMTT(30)
<1> HIDE DEF n, start
<1> DEFINE Good(m) == Removing(g[m]) /\ CachesFresh(g[m].tree)
           S == {m \in 0..n : Good(m)}
<1>4. 0 \in S
  BY <1>1, <1>2, <1>3
<1>5. ASSUME NEW m \in 0 .. n - 1, m \in S PROVE m + 1 \in S
  <2>1. m + 1 \in 1..n /\ (m + 1) - 1 = m /\ m + 1 \in 0..n
    BY <1>1
  <2>2. g[m + 1] = RemoveStep(g[m])
    BY <1>3, <2>1
  <2>3. Good(m)
    BY <1>5
  <2>4. Good(m + 1)
    <3>1. CASE g[m].calls = <<>>
      <4>1. g[m + 1] = g[m]
        BY <2>2, <3>1 DEF RemoveStep
      <4> QED BY <2>3, <4>1
    <3>2. CASE g[m].calls # <<>>
      <4> DEFINE w == g[m]
                 v == g[m + 1]
      <4>1. Removing(w) /\ CachesFresh(w.tree) /\ w.calls # <<>> /\ v = RemoveStep(w)
        BY <2>2, <2>3, <3>2
      <4> HIDE DEF w, v
      <4>2. Removing(v) /\ CachesFresh(v.tree)
        BY <4>1, RemoveStepKeeps, RemoveStepFresh
      <4> QED BY <4>2 DEF v
    <3> QED BY <3>1, <3>2
  <2> QED BY <2>1, <2>4
<1> HIDE DEF S
<1>6. n \in S
  <2>1. \A m \in 0 .. n - 1 : m \in S => m + 1 \in S
    BY <1>5
  <2>2. \A m \in 0..n : m \in S
    BY <1>1, <1>4, <2>1, Induction
  <2> QED BY <1>1, <2>2
<1> QED BY <1>3, <1>6 DEF S

LEMMA SetChildrenRoot ==
    ASSUME NEW e, Wired(e), NEW parent \in DOMAIN e.kids, NEW children
    PROVE  EngineSetChildren(e, parent, children).root = e.root
<1> DEFINE lose == {p \in DOMAIN e.kids \ {parent} : Range(e.kids[p]) \cap Range(children) # {}}
           kids == [p \in DOMAIN e.kids |->
                       IF p = parent THEN children ELSE Without(e.kids[p], Range(children))]
           marked == MarkDirty(e, lose \cup {parent})
<1>1. Engine(marked) /\ marked.root = e.root
  <2>1. Engine(e) /\ Forest(e.kids)
    BY DEF Wired
  <2> HIDE DEF lose
  <2> QED BY <2>1, MarkDirtyIs DEF marked
<1>2. EngineSetChildren(e, parent, children) =
         IF e.kids[parent] = children THEN e ELSE [marked EXCEPT !.kids = kids]
  BY DEF EngineSetChildren
<1> HIDE DEF marked, kids
<1>3. [marked EXCEPT !.kids = kids].root = e.root
  BY <1>1 DEF Engine
<1> QED BY <1>2, <1>3

(* The layouts of a tree.                                                  *)
TreeFresh(t) ==
    /\ CachesFresh(t)
    /\ t.last # NothingComputed => t.last.root \in Known(t)
    /\ t.layouts = IF t.last = NothingComputed THEN [i \in DOMAIN t.layouts |-> {}] ELSE FreshLayouts(t)

LEMMA ForgetFresh ==
    ASSUME NEW t, TreeInv(t), CachesFresh(t)
    PROVE  TreeFresh(Forget(t))
<1> DEFINE new == Forget(t)
<1>1. /\ new.nodes = t.nodes /\ new.engine = t.engine /\ new.last = NothingComputed
      /\ new.layouts = [i \in 1..Len(t.nodes.node) |-> {}]
  BY ForgetKeeps
<1> HIDE DEF new
<1>2. new.layouts = [i \in DOMAIN new.layouts |-> {}]
  BY <1>1
<1>3. CachesFresh(new)
  BY <1>1 DEF CachesFresh
<1> QED BY <1>1, <1>2, <1>3 DEF TreeFresh, new

LEMMA ReplaceChildrenFresh ==
    ASSUME NEW t, TreeInv(t), CachesFresh(t), NEW parent \in Known(t), NEW children \in Seq(Known(t)),
           IsInjective(children), Range(children) \cap Ancestors(t.nodes, parent) = {}
    PROVE  TreeFresh(ReplaceChildren(t, parent, children))
<1> DEFINE s == t.nodes
           e == t.engine
           old == Entry(t, parent).children
           linked == [t EXCEPT !.nodes = Linked(@, parent, children),
                               !.engine = EngineSetChildren(@, parent, children)]
           calls == [k \in 1..Len(old) |-> <<old[k], NoId>>]
           nodes == Linked(s, parent, children)
           engine == EngineSetChildren(e, parent, children)
<1>1. ReplaceChildren(t, parent, children) = Forget(RemoveSubtrees(linked, calls))
  BY DEF ReplaceChildren
<1>2. NodesOK(s) /\ Links(s) /\ NodesLinked(s) /\ parent \in Live(s) /\ children \in Seq(Live(s))
      /\ EngineOK(e, s)
  BY DEF TreeInv, NodesLinked, Known, Parts
<1>3. old \in Seq(NodeIds)
  BY <1>2, NodeParts DEF Entry
<1>4. calls \in Calls /\ DOMAIN calls = 1..Len(old)
      /\ \A k \in 1..Len(old) : calls[k] = <<old[k], NoId>>
  BY <1>3 DEF Calls
<1> HIDE DEF calls, linked, nodes, engine, s, e
<1>5. TreeInv(linked) /\ linked.nodes = nodes /\ linked.engine = engine
  BY LinkedTree DEF linked, nodes, engine, s, e
<1>6. \A call \in Range(calls) : call[2] \notin Live(linked.nodes)
  <2>1. NoId \notin Live(linked.nodes)
    BY <1>5, LiveNode DEF TreeInv, NodesLinked
  <2>2. \A call \in Range(calls) : call[2] = NoId
    BY <1>4 DEF Range
  <2> QED BY <2>1, <2>2
<1>7. Parts(linked) /\ Loose(linked.nodes, calls)
  BY <1>5, <1>6, LinkedIsLoose DEF TreeInv
<1>8. CachesFresh(linked)
  <2>1. Sound(e) /\ Wired(e) /\ DOMAIN e.kids = Live(s)
    BY <1>2, SoundOf
  <2>2. \A x \in Live(s) : NodeAt(nodes, x).text = NodeAt(s, x).text
    BY <1>2, LinkedIs DEF nodes
  <2>3. EngineOK(engine, nodes) /\ NodesLinked(nodes)
    BY <1>5 DEF TreeInv, Parts
  <2>4. Forest(engine.kids)
    BY <2>3, EngineForest
  <2>5. FreshBut(e, s, e.root.id)
    BY DEF CachesFresh, e, s
  <2>6. engine.root = e.root
    BY <1>2, <2>1, SetChildrenRoot DEF engine
  <2>7. FreshBut(engine, nodes, e.root.id)
    BY <1>2, <2>1, <2>2, <2>4, <2>5, SetChildrenFresh DEF engine
  <2> QED BY <1>5, <2>6, <2>7 DEF CachesFresh
<1>9. TreeInv(RemoveSubtrees(linked, calls)) /\ CachesFresh(RemoveSubtrees(linked, calls))
  BY <1>4, <1>7, <1>8, RemoveSubtreesKeeps, RemoveSubtreesFresh
<1> QED BY <1>1, <1>9, ForgetFresh

LEMMA RemovedFresh ==
    ASSUME NEW t, TreeInv(t), CachesFresh(t), NEW id \in Known(t)
    PROVE  TreeFresh(Removed(t, id))
<1> DEFINE s == t.nodes
           e == t.engine
           parent == ParentOf(t, id)
           rest == Without(Entry(t, parent).children, {id})
           apart == IF parent = NoId THEN t
                    ELSE [t EXCEPT
                            !.nodes = SetNode(@, parent, [Entry(t, parent) EXCEPT !.children = rest]),
                            !.engine = EngineSetChildren(@, parent, rest)]
           calls == << <<id, parent>> >>
<1>1. Removed(t, id) = Forget(RemoveSubtrees(apart, calls))
  BY DEF Removed
<1>2. /\ calls \in Calls /\ Parts(apart) /\ Loose(apart.nodes, calls)
      /\ parent = NoId \/ parent \in Live(s)
      /\ apart.engine = IF parent = NoId THEN e ELSE EngineSetChildren(e, parent, rest)
      /\ \A x \in Live(s) : NodeAt(apart.nodes, x).text = NodeAt(s, x).text
  BY ApartIs, Zenon
<1>3. Sound(e) /\ Wired(e) /\ DOMAIN e.kids = Live(s)
  BY SoundOf DEF TreeInv, Parts
<1>4. FreshBut(e, s, e.root.id)
  BY DEF CachesFresh
<1>5. parent = NoId => apart = t
  OBVIOUS
<1> HIDE DEF apart, calls, s, e, rest
<1>6. CachesFresh(apart)
  <2>1. CASE parent = NoId
    BY <1>5, <2>1
  <2>2. CASE parent # NoId
    <3>1. apart.engine = EngineSetChildren(e, parent, rest) /\ parent \in DOMAIN e.kids
      BY <1>2, <1>3, <2>2
    <3>2. Forest(apart.engine.kids)
      BY <1>2, LooseForest DEF Parts, EngineOK
    <3>3. apart.engine.root = e.root
      BY <1>3, <3>1, SetChildrenRoot
    <3>4. FreshBut(apart.engine, apart.nodes, e.root.id)
      BY <1>2, <1>3, <1>4, <3>1, <3>2, SetChildrenFresh
    <3> QED BY <3>3, <3>4 DEF CachesFresh
  <2> QED BY <2>1, <2>2
<1>7. TreeInv(RemoveSubtrees(apart, calls)) /\ CachesFresh(RemoveSubtrees(apart, calls))
  BY <1>2, <1>6, RemoveSubtreesKeeps, RemoveSubtreesFresh
<1> QED BY <1>1, <1>7, ForgetFresh

LEMMA StyledFresh ==
    ASSUME NEW t, TreeInv(t), CachesFresh(t), NEW id \in Known(t), NEW style \in Styles
    PROVE  LET new == [t EXCEPT !.nodes = SetNode(@, id, [Entry(t, id) EXCEPT !.style = style]),
                                !.engine = EngineSetStyle(@, id, style)]
           IN  CachesFresh(new)
<1> DEFINE s == t.nodes
           e == t.engine
           node == [Entry(t, id) EXCEPT !.style = style]
           nodes == SetNode(s, id, node)
           engine == EngineSetStyle(e, id, style)
           new == [t EXCEPT !.nodes = SetNode(@, id, [Entry(t, id) EXCEPT !.style = style]),
                            !.engine = EngineSetStyle(@, id, style)]
<1>1. NodesOK(s) /\ id \in Live(s) /\ Sound(e) /\ DOMAIN e.kids = Live(s)
  BY SoundOf DEF TreeInv, Parts, NodesLinked, Known
<1>2. new.nodes = nodes /\ new.engine = engine
  BY DEF TreeInv, Parts, Tree
<1>3. node \in LayoutNodes /\ node.text = NodeAt(s, id).text
  <2>1. NodeAt(s, id) \in LayoutNodes
    BY <1>1, LiveNode
  <2> QED BY <2>1 DEF LayoutNodes, Entry
<1>4. FreshBut(e, s, e.root.id)
  BY DEF CachesFresh
<1> HIDE DEF node, nodes, engine, new, s, e
<1>5. \A x \in Live(s) : NodeAt(nodes, x).text = NodeAt(s, x).text
  <2>1. \A x \in Live(s) : NodeAt(nodes, x) = IF x = id THEN node ELSE NodeAt(s, x)
    BY <1>1, <1>3, SetNodeIs DEF nodes
  <2> QED BY <1>3, <2>1
<1>6. FreshBut(engine, nodes, engine.root.id)
  BY <1>1, <1>4, <1>5, SetStyleFresh DEF engine
<1> QED BY <1>2, <1>6 DEF CachesFresh, new

LEMMA RetextedFresh ==
    ASSUME NEW t, TreeInv(t), CachesFresh(t), NEW ids \in SUBSET Known(t), NEW words \in Texts
    PROVE  LET new == [t EXCEPT !.nodes = Retext(@, ids, words), !.engine = MarkDirty(@, ids)]
           IN  CachesFresh(new)
<1> DEFINE s == t.nodes
           e == t.engine
           r == e.root.id
           nodes == Retext(s, ids, words)
           engine == MarkDirty(e, ids)
           new == [t EXCEPT !.nodes = Retext(@, ids, words), !.engine = MarkDirty(@, ids)]
<1>1. NodesOK(s) /\ ids \in SUBSET Live(s) /\ Sound(e) /\ DOMAIN e.kids = Live(s)
  BY SoundOf DEF TreeInv, Parts, NodesLinked, Known
<1>2. new.nodes = nodes /\ new.engine = engine
  BY DEF TreeInv, Parts, Tree
<1>3. FreshBut(e, s, r)
  BY DEF CachesFresh
<1> HIDE DEF nodes, engine, new, s, e
<1>4. \A x \in Live(s) \ ids : NodeAt(nodes, x).text = NodeAt(s, x).text
  BY <1>1, RetextIs DEF nodes
<1>5. Trusted(e, r) \ Above(e.kids, ids) \subseteq Trusted(e, r)
  OBVIOUS
<1>6. engine.root = e.root
  BY <1>1, MarkDirtyIs DEF engine, Sound
<1> HIDE DEF r
<1>7. FreshBut(engine, nodes, r)
  BY <1>1, <1>3, <1>4, <1>5, MarkDirtyFresh DEF engine
<1> QED BY <1>2, <1>6, <1>7 DEF CachesFresh, new, r

Laid(s, kids, style, root, viewport, id) ==
    [place |-> IF id = root THEN 0 ELSE Place(kids, id),
     out |-> [space |-> SpaceAt(kids, style, root, viewport, id),
              reads |-> {Own(s, kids, style, x) : x \in Below(kids, id)}]]

FreshStyle(t) ==
    [id \in Known(t) |-> IF id = t.last.root THEN Effective(Entry(t, id).style, t.last.viewport)
                         ELSE Entry(t, id).style]

LEMMA FreshLayoutsIs ==
    ASSUME NEW t
    PROVE  FreshLayouts(t) =
             [i \in DOMAIN t.nodes.node |->
                 IF IdAt(t.nodes, i) \in Below(ChildrenIn(t.nodes), t.last.root)
                 THEN {Laid(t.nodes, ChildrenIn(t.nodes), FreshStyle(t), t.last.root, t.last.viewport,
                            IdAt(t.nodes, i))}
                 ELSE {}]
BY Zenon DEF FreshLayouts, Laid, FreshStyle

\* Where nothing differs below the root, the layouts there are the same.
LEMMA SpaceSame ==
    ASSUME NEW kids, Forest(kids), NEW new, Forest(new), NEW clean,
           clean \subseteq DOMAIN kids \cap DOMAIN new,
           \A x \in clean : new[x] = kids[x] /\ Range(kids[x]) \subseteq clean,
           NEW style, NEW styled, \A x \in clean : styled[x] = style[x],
           NEW root \in clean, NEW viewport, NEW id \in Below(kids, root)
    PROVE  SpaceAt(new, styled, root, viewport, id) = SpaceAt(kids, style, root, viewport, id)
<1> DEFINE below == Below(kids, root)
           over == {x \in (Above(kids, {id}) \cap Below(kids, root)) \ {id} : style[x] # "auto"}
           ever == {x \in (Above(new, {id}) \cap Below(new, root)) \ {id} : styled[x] # "auto"}
<1>1. Below(new, root) = below /\ below \subseteq clean
      /\ \A x \in clean : Below(new, x) = Below(kids, x)
  BY CleanBelow
<1>2. ASSUME NEW x \in below, NEW y \in below PROVE x \in Above(new, {y}) <=> x \in Above(kids, {y})
  <2>1. x \in DOMAIN kids /\ x \in DOMAIN new /\ y \in DOMAIN kids /\ y \in DOMAIN new
    BY <1>1
  <2>2. x \in Above(kids, {y}) <=> y \in Below(kids, x)
    BY <2>1, AboveOne
  <2>3. x \in Above(new, {y}) <=> y \in Below(new, x)
    BY <2>1, AboveOne
  <2> QED BY <1>1, <2>2, <2>3
<1>3. over = ever
  BY <1>1, <1>2
<1>4. over \subseteq below
  OBVIOUS
<1>5. SpaceAt(new, styled, root, viewport, id) =
         IF id = root THEN {viewport} ELSE {styled[x] : x \in {y \in ever : ever \subseteq Above(new, {y})}}
  BY DEF SpaceAt
<1>6. SpaceAt(kids, style, root, viewport, id) =
         IF id = root THEN {viewport} ELSE {style[x] : x \in {y \in over : over \subseteq Above(kids, {y})}}
  BY DEF SpaceAt
<1> HIDE DEF over, ever, below
<1>7. {y \in ever : ever \subseteq Above(new, {y})} = {y \in over : over \subseteq Above(kids, {y})}
  <2>1. ASSUME NEW y \in over PROVE over \subseteq Above(new, {y}) <=> over \subseteq Above(kids, {y})
    BY <1>2, <1>4, <2>1
  <2> QED BY <1>3, <2>1
<1>8. {styled[x] : x \in {y \in over : over \subseteq Above(kids, {y})}} = {style[x] : x \in {y \in over : over \subseteq Above(kids, {y})}}
  <2>1. \A x \in over : styled[x] = style[x]
    BY <1>1, <1>4
  <2> QED BY <2>1
<1> QED BY <1>5, <1>6, <1>7, <1>8

LEMMA LaidSame ==
    ASSUME NEW kids, Forest(kids), NEW new, Forest(new), NEW clean,
           clean \subseteq DOMAIN kids \cap DOMAIN new,
           \A x \in clean : new[x] = kids[x] /\ Range(kids[x]) \subseteq clean,
           NEW style, NEW styled, \A x \in clean : styled[x] = style[x],
           NEW s, NEW s2, \A x \in clean : NodeAt(s2, x).text = NodeAt(s, x).text,
           NEW root \in clean, NEW viewport, NEW id \in Below(kids, root)
    PROVE  Laid(s2, new, styled, root, viewport, id) = Laid(s, kids, style, root, viewport, id)
<1>1. Below(new, root) = Below(kids, root) /\ Below(kids, root) \subseteq clean
  BY CleanBelow
<1>2. SpaceAt(new, styled, root, viewport, id) = SpaceAt(kids, style, root, viewport, id)
  BY SpaceSame
<1>3. id # root => Place(new, id) = Place(kids, id)
  <2> SUFFICES ASSUME id # root PROVE Place(new, id) = Place(kids, id)
    OBVIOUS
  <2>1. root \in DOMAIN kids
    OBVIOUS
  <2>2. PICK p \in Below(kids, root) : id \in Range(kids[p])
    BY <2>1, BelowParent
  <2>3. p \in DOMAIN kids /\ p \in DOMAIN new /\ new[p] = kids[p]
    BY <1>1, <2>2
  <2>4. Place(kids, id) = CHOOSE j \in DOMAIN kids[p] : kids[p][j] = id
    BY <2>2, <2>3, PlaceIs
  <2>5. Place(new, id) = CHOOSE j \in DOMAIN new[p] : new[p][j] = id
    BY <2>2, <2>3, PlaceIs
  <2> QED BY <2>3, <2>4, <2>5
<1>4. Below(new, id) = Below(kids, id) /\ Below(kids, id) \subseteq clean
  <2>1. id \in clean
    BY <1>1
  <2> QED BY <2>1, CleanBelow
<1>5. \A x \in clean : Own(s2, new, styled, x) = Own(s, kids, style, x)
  BY DEF Own
<1>6. {Own(s2, new, styled, x) : x \in Below(new, id)} = {Own(s, kids, style, x) : x \in Below(kids, id)}
  BY <1>4, <1>5
<1> QED BY <1>2, <1>3, <1>6 DEF Laid

LEMMA ComputedFresh ==
    ASSUME NEW t, TreeInv(t), CachesFresh(t), NEW root \in Known(t), NEW viewport \in Viewports
    PROVE  TreeFresh(Computed(t, root, viewport))
<1> DEFINE s == t.nodes
           e == t.engine
           new == Computed(t, root, viewport)
           engine == EngineCompute(e, s, root, viewport)
           kids == ChildrenIn(s)
           fresh == FreshStyle(new)
           n == Len(s.node)
<1>1. NodesOK(s) /\ NodesLinked(s) /\ root \in Live(s) /\ DOMAIN s.node = 1..n /\ Sound(e)
      /\ DOMAIN e.kids = Live(s) /\ e.kids = kids
  <2>1. NodesLinked(s) /\ EngineOK(e, s)
    BY DEF TreeInv, Parts
  <2>2. Sound(e) /\ DOMAIN e.kids = Live(s)
    BY <2>1, SoundOf
  <2>3. NodesOK(s)
    BY <2>1 DEF NodesLinked
  <2>4. DOMAIN s.node = 1..n
    BY <2>3 DEF NodesOK, StoreOK, Stores
  <2> QED BY <2>1, <2>2, <2>3, <2>4 DEF EngineOK, Known
<1>2. /\ TreeInv(new) /\ new.nodes = s /\ new.engine = engine
      /\ new.last = [root |-> root, viewport |-> viewport]
      /\ Len(new.layouts) = n
      /\ \A i \in 1..n : new.layouts[i] = IF IdAt(s, i) \in Below(kids, root)
                                          THEN engine.geometry[IdAt(s, i)] ELSE {}
  BY ComputedKeeps, ComputedIs
<1>3. FreshBut(e, s, e.root.id)
  BY DEF CachesFresh
<1> HIDE DEF new, engine
<1>4. Effective(NodeAt(s, root).style, viewport) # "auto"
  <2>1. NodeAt(s, root).style \in Styles
    BY <1>1, NodeParts
  <2>2. viewport \notin Styles
    BY LayoutAssumption
  <2> QED BY <2>1, <2>2 DEF Effective, Styles
<1> HIDE DEF s, e, kids
<1>5. /\ FreshBut(engine, s, root) /\ engine.root.id = root
      /\ engine.kids = kids /\ engine.style = PrepareRoot(e, s, root, viewport).style
      /\ \A x \in Below(kids, root) :
            engine.geometry[x] = {[place |-> IF x = root THEN 0 ELSE Place(kids, x),
                                   out |-> Output(engine, s, x, Given(engine, root, viewport, x))]}
  BY <1>1, <1>3, <1>4, ComputeFresh DEF engine
<1>6. engine.style[root] = Effective(NodeAt(s, root).style, viewport)
  BY <1>1, <1>3, <1>5, PrepareFresh
<1>7. EngineOK(engine, s)
  BY <1>2 DEF TreeInv, Parts
<1>8. \A x \in Live(s) : fresh[x] = engine.style[x]
  <2>1. \A x \in Live(s) : fresh[x] = IF x = root THEN Effective(NodeAt(s, x).style, viewport) ELSE NodeAt(s, x).style
    BY <1>2 DEF FreshStyle, Known, Entry
  <2>2. \A x \in Live(s) \ {root} : engine.style[x] = NodeAt(s, x).style
    BY <1>5, <1>7 DEF EngineOK
  <2> QED BY <1>6, <2>1, <2>2
<1>9. Forest(kids) /\ DOMAIN kids = Live(s) /\ \A x \in Live(s) : Range(kids[x]) \subseteq Live(s)
  BY <1>1 DEF Sound, Forest
<1> HIDE DEF fresh
<1>10. ASSUME NEW x \in Below(kids, root)
       PROVE  engine.geometry[x] = {Laid(s, kids, fresh, root, viewport, x)}
  <2>1. engine.geometry[x] = {Laid(s, kids, engine.style, root, viewport, x)}
    BY <1>5 DEF Laid, Output, Given
  <2> DEFINE clean == Live(s)
             style == engine.style
  <2>2. /\ clean \subseteq DOMAIN kids \cap DOMAIN kids
        /\ \A y \in clean : kids[y] = kids[y] /\ Range(kids[y]) \subseteq clean
        /\ \A y \in clean : fresh[y] = style[y]
        /\ \A y \in clean : NodeAt(s, y).text = NodeAt(s, y).text
        /\ root \in clean
    BY <1>1, <1>8, <1>9
  <2> HIDE DEF clean, style
  <2>3. Laid(s, kids, fresh, root, viewport, x) = Laid(s, kids, style, root, viewport, x)
    BY <1>9, <2>2, LaidSame
  <2> QED BY <2>1, <2>3 DEF style
<1>11. new.layouts = FreshLayouts(new)
  <2>1. new.layouts = [i \in 1..n |-> new.layouts[i]]
    BY <1>2 DEF TreeInv, Parts
  <2>2. FreshLayouts(new) = [i \in 1..n |-> IF IdAt(s, i) \in Below(kids, root)
                                 THEN {Laid(s, kids, fresh, root, viewport, IdAt(s, i))} ELSE {}]
    <3>1. new.last.root = root /\ new.last.viewport = viewport /\ DOMAIN new.nodes.node = 1..n
          /\ kids = ChildrenIn(new.nodes)
      BY <1>1, <1>2 DEF kids
    <3>2. FreshLayouts(new) = [i \in DOMAIN new.nodes.node |->
              IF IdAt(new.nodes, i) \in Below(ChildrenIn(new.nodes), new.last.root)
              THEN {Laid(new.nodes, ChildrenIn(new.nodes), fresh, new.last.root, new.last.viewport,
                         IdAt(new.nodes, i))}
              ELSE {}]
      BY FreshLayoutsIs, Zenon DEF fresh
    <3> HIDE DEF kids
    <3> QED BY <1>2, <3>1, <3>2
  <2>3. \A i \in 1..n : new.layouts[i] = IF IdAt(s, i) \in Below(kids, root)
                                 THEN {Laid(s, kids, fresh, root, viewport, IdAt(s, i))} ELSE {}
    BY <1>2, <1>10
  <2> QED BY <2>1, <2>2, <2>3
<1>12. new.last # NothingComputed /\ new.last.root \in Known(new)
  <2>1. root # NoId
    BY <1>1, LiveNode
  <2>2. new.last.root = root /\ NothingComputed.root = NoId
    BY <1>2 DEF NothingComputed
  <2> QED BY <1>1, <1>2, <2>1, <2>2 DEF Known
<1>13. CachesFresh(new)
  BY <1>2, <1>5 DEF CachesFresh
<1> QED BY <1>11, <1>12, <1>13 DEF TreeFresh, new

\* A node that is added is not below the root that was computed.
LEMMA AddedShows ==
    ASSUME NEW t, TreeInv(t), HasSlot(t), NEW look \in [style : Styles, text : Texts],
           t.last.root \in Known(t), t.layouts = FreshLayouts(t)
    PROVE  Added(t, look).layouts = FreshLayouts(Added(t, look))
<1> DEFINE new == Added(t, look)
           s == t.nodes
           s2 == new.nodes
           id == NextId(s)
           root == t.last.root
           viewport == t.last.viewport
           kids == ChildrenIn(s)
           kids2 == ChildrenIn(s2)
           fresh == FreshStyle(t)
           fresh2 == FreshStyle(new)
           n == Len(s.node)
           m == Len(s2.node)
<1>1. /\ TreeInv(new) /\ s2 = InsertNode(s, NodeWith(look))
      /\ id \in NodeIds \ Live(s) /\ Live(s2) = Live(s) \cup {id}
      /\ new.last = t.last /\ Len(new.layouts) = m
      /\ \A i \in 1..Len(new.layouts) : new.layouts[i] = IF i = id[1] THEN {} ELSE t.layouts[i]
  BY AddedKeeps DEF Known
<1> HIDE DEF new, id
<1>2. NodesOK(s) /\ Links(s) /\ NodesOK(s2) /\ Links(s2) /\ root \in Live(s)
  BY <1>1 DEF TreeInv, NodesLinked, Known
<1>3. /\ \A x \in Live(s) : NodeAt(s2, x) = NodeAt(s, x)
      /\ m = IF id[1] > n THEN n + 1 ELSE n
      /\ id[1] \in 1..n + 1 /\ n \in Nat /\ DOMAIN s.node = 1..n /\ DOMAIN s2.node = 1..m
  <2>1. NodeWith(look) \in LayoutNodes
    BY DEF NodeWith, LayoutNodes
  <2>2. DOMAIN s.node = 1..n /\ DOMAIN s2.node = 1..m /\ n \in Nat
    BY <1>2 DEF NodesOK, StoreOK, Stores
  <2> QED BY <1>1, <1>2, <2>1, <2>2, InsertIs DEF HasSlot, id
<1> HIDE DEF s, s2, n, m
<1>4. /\ Forest(kids) /\ Forest(kids2) /\ DOMAIN kids = Live(s) /\ DOMAIN kids2 = Live(s2)
      /\ \A x \in Live(s) : kids2[x] = kids[x] /\ Range(kids[x]) \subseteq Live(s)
  <2>1. /\ Forest(kids) /\ Forest(kids2) /\ DOMAIN kids = Live(s) /\ DOMAIN kids2 = Live(s2)
        /\ \A x \in Live(s) : kids[x] = NodeAt(s, x).children
        /\ \A x \in Live(s2) : kids2[x] = NodeAt(s2, x).children
    BY <1>2, ChildrenAre
  <2> HIDE DEF kids, kids2
  <2>2. \A x \in Live(s) : kids2[x] = kids[x]
    BY <1>1, <1>3, <2>1
  <2>3. \A x \in Live(s) : Range(kids[x]) \subseteq Live(s)
    BY <2>1 DEF Forest
  <2> QED BY <2>1, <2>2, <2>3
<1>5. \A x \in Live(s) : fresh2[x] = fresh[x]
  BY <1>1, <1>3 DEF FreshStyle, Known, Entry, s, s2
<1>6. \A x \in Live(s) : NodeAt(s2, x).text = NodeAt(s, x).text
  BY <1>3
<1> HIDE DEF kids, kids2, fresh, fresh2, root, viewport
<1> DEFINE clean == Live(s)
           below == Below(kids, root)
<1>7. /\ clean \subseteq DOMAIN kids \cap DOMAIN kids2
      /\ \A x \in clean : kids2[x] = kids[x] /\ Range(kids[x]) \subseteq clean
      /\ \A x \in clean : fresh2[x] = fresh[x]
      /\ \A x \in clean : NodeAt(s2, x).text = NodeAt(s, x).text
      /\ root \in clean
  BY <1>1, <1>2, <1>4, <1>5, <1>6
<1> HIDE DEF clean
<1>8. Below(kids2, root) = below /\ below \subseteq clean
  BY <1>4, <1>7, CleanBelow
<1>9. \A x \in below : Laid(s2, kids2, fresh2, root, viewport, x) = Laid(s, kids, fresh, root, viewport, x)
  BY <1>4, <1>7, LaidSame
<1>10. /\ new.layouts = [i \in 1..m |-> new.layouts[i]]
       /\ \A i \in 1..n : t.layouts[i] = IF IdAt(s, i) \in below
                                         THEN {Laid(s, kids, fresh, root, viewport, IdAt(s, i))} ELSE {}
  <2>1. t.layouts = [i \in DOMAIN s.node |->
                       IF IdAt(s, i) \in below THEN {Laid(s, kids, fresh, root, viewport, IdAt(s, i))} ELSE {}]
    BY FreshLayoutsIs, Zenon DEF s, kids, fresh, root, viewport
  <2>2. new.layouts = [i \in 1..m |-> new.layouts[i]]
    BY <1>1 DEF TreeInv, Parts, m, s2
  <2> QED BY <1>3, <2>1, <2>2
<1>11. FreshLayouts(new) = [i \in 1..m |->
           IF IdAt(s2, i) \in below THEN {Laid(s2, kids2, fresh2, root, viewport, IdAt(s2, i))} ELSE {}]
  <2>1. FreshLayouts(new) = [i \in DOMAIN new.nodes.node |->
              IF IdAt(new.nodes, i) \in Below(ChildrenIn(new.nodes), new.last.root)
              THEN {Laid(new.nodes, ChildrenIn(new.nodes), fresh2, new.last.root, new.last.viewport,
                         IdAt(new.nodes, i))}
              ELSE {}]
    BY FreshLayoutsIs, Zenon DEF fresh2
  <2>2. /\ new.nodes = s2 /\ ChildrenIn(new.nodes) = kids2 /\ new.last.root = root
        /\ new.last.viewport = viewport
    BY <1>1 DEF s2, kids2, root, viewport
  <2> QED BY <1>3, <1>8, <2>1, <2>2
<1>12. ASSUME NEW i \in 1..m
       PROVE  new.layouts[i] = IF IdAt(s2, i) \in below
                               THEN {Laid(s2, kids2, fresh2, root, viewport, IdAt(s2, i))} ELSE {}
  <2>1. CASE i = id[1]
    <3>1. ASSUME IdAt(s2, i) \in below PROVE FALSE
      <4>1. IdAt(s2, i) \in Live(s2) /\ IdAt(s2, i) \in Live(s) /\ IdAt(s2, i)[1] = i
        BY <1>1, <1>8, <3>1 DEF clean, IdAt
      <4>2. IdAt(s2, i) = id
        BY <1>1, <1>2, <2>1, <4>1, OnePerSlot
      <4> QED BY <1>1, <4>1, <4>2
    <3> QED BY <1>1, <2>1, <3>1
  <2>2. CASE i # id[1]
    <3>1. i \in 1..n
      BY <1>3, <2>2
    <3>2. IdAt(s2, i) \in below => IdAt(s2, i) = IdAt(s, i)
      <4> SUFFICES ASSUME IdAt(s2, i) \in Live(s) PROVE IdAt(s2, i) = IdAt(s, i)
        BY <1>8 DEF clean
      <4>1. PICK j \in 1..Len(s.node) : IdAt(s2, i) = <<j, s.generation[j]>>
        BY <1>2, LiveNode
      <4> QED BY <4>1 DEF IdAt
    <3>3. IdAt(s, i) \in below => IdAt(s2, i) = IdAt(s, i)
      <4> SUFFICES ASSUME IdAt(s, i) \in Live(s2) PROVE IdAt(s2, i) = IdAt(s, i)
        BY <1>1, <1>8 DEF clean
      <4>1. PICK j \in 1..Len(s2.node) : IdAt(s, i) = <<j, s2.generation[j]>>
        BY <1>2, LiveNode
      <4> QED BY <4>1 DEF IdAt
    <3>4. new.layouts[i] = t.layouts[i]
      BY <1>1, <2>2
    <3> QED BY <1>9, <1>10, <3>1, <3>2, <3>3, <3>4
  <2> QED BY <2>1, <2>2
<1> QED BY <1>10, <1>11, <1>12 DEF new

LEMMA AddedCaches ==
    ASSUME NEW t, TreeInv(t), HasSlot(t), NEW look \in [style : Styles, text : Texts], CachesFresh(t)
    PROVE  CachesFresh(Added(t, look))
<1> DEFINE new == Added(t, look)
           s == t.nodes
           s2 == new.nodes
           e == t.engine
           id == NextId(s)
           engine == EngineAdd(e, id, look.style)
<1>1. /\ TreeInv(new) /\ s2 = InsertNode(s, NodeWith(look)) /\ new.engine = engine
      /\ id \notin Live(s)
  BY AddedKeeps DEF Known
<1> HIDE DEF new, id
<1>2. NodesOK(s) /\ NodesLinked(s) /\ EngineOK(e, s) /\ NodesLinked(s2) /\ EngineOK(engine, s2)
  BY <1>1 DEF TreeInv, NodesLinked, Parts
<1>3. Sound(e) /\ DOMAIN e.kids = Live(s)
  BY <1>2, SoundOf
<1>4. \A x \in Live(s) : NodeAt(s2, x).text = NodeAt(s, x).text
  <2>1. NodeWith(look) \in LayoutNodes
    BY DEF NodeWith, LayoutNodes
  <2> QED BY <1>1, <1>2, <2>1, InsertIs DEF HasSlot
<1>5. Forest(engine.kids)
  BY <1>2, EngineForest
<1>6. FreshBut(e, s, e.root.id)
  BY DEF CachesFresh
<1>7. engine.root = e.root
  BY DEF EngineAdd
<1> DEFINE r == e.root.id
<1> HIDE DEF s, s2, e, r
<1>8. FreshBut(EngineAdd(e, id, look.style), s2, r)
  BY <1>3, <1>4, <1>5, <1>6, <1>1, AddFresh DEF r
<1> QED BY <1>1, <1>7, <1>8 DEF CachesFresh, new, r, s2

LEMMA AddedFresh ==
    ASSUME NEW t, TreeInv(t), HasSlot(t), NEW look \in [style : Styles, text : Texts], TreeFresh(t)
    PROVE  TreeFresh(Added(t, look))
<1> DEFINE new == Added(t, look)
           id == NextId(t.nodes)
<1>1. /\ new.last = t.last /\ Known(new) = Known(t) \cup {id} /\ Len(new.layouts) = Len(new.nodes.node)
      /\ \A i \in 1..Len(new.layouts) : new.layouts[i] = IF i = id[1] THEN {} ELSE t.layouts[i]
      /\ TreeInv(new)
      /\ Len(new.nodes.node) = IF id[1] > Len(t.nodes.node) THEN Len(t.nodes.node) + 1 ELSE Len(t.nodes.node)
      /\ id[1] \in 1..Len(t.nodes.node) + 1 /\ Len(t.nodes.node) \in Nat
  <2>1. NodeWith(look) \in LayoutNodes /\ NodesOK(t.nodes)
        /\ (t.nodes.free # <<>> \/ Len(t.nodes.node) < MaxSlots)
    BY DEF NodeWith, LayoutNodes, TreeInv, NodesLinked, HasSlot
  <2>2. Len(t.nodes.node) \in Nat
    BY <2>1 DEF NodesOK, StoreOK, Stores
  <2>3. /\ new.last = t.last /\ Known(new) = Known(t) \cup {id}
        /\ Len(new.layouts) = Len(new.nodes.node)
        /\ \A i \in 1..Len(new.layouts) : new.layouts[i] = IF i = id[1] THEN {} ELSE t.layouts[i]
        /\ TreeInv(new) /\ new.nodes = InsertNode(t.nodes, NodeWith(look))
    BY AddedKeeps
  <2> HIDE DEF new, id
  <2>4. /\ Len(new.nodes.node) = IF id[1] > Len(t.nodes.node) THEN Len(t.nodes.node) + 1 ELSE Len(t.nodes.node)
        /\ id[1] \in 1..Len(t.nodes.node) + 1
    BY <2>1, <2>3, InsertIs DEF id
  <2> QED BY <2>2, <2>3, <2>4
<1>2. CachesFresh(new)
  BY AddedCaches DEF TreeFresh
<1>3. CASE t.last # NothingComputed
  <2>1. new.layouts = FreshLayouts(new)
    BY <1>3, AddedShows DEF TreeFresh
  <2> HIDE DEF new
  <2> QED BY <1>1, <1>2, <1>3, <2>1 DEF TreeFresh, new
<1>4. CASE t.last = NothingComputed
  <2> HIDE DEF new, id
  <2>0. t.layouts = [i \in DOMAIN t.layouts |-> {}]
    BY <1>4 DEF TreeFresh
  <2>1. /\ t.layouts = [i \in DOMAIN t.layouts |-> {}]
        /\ t.layouts = [i \in 1..Len(t.nodes.node) |-> t.layouts[i]]
    BY <2>0, Zenon DEF TreeInv, Parts
  <2>2. \A i \in 1..Len(t.nodes.node) : t.layouts[i] = {}
    BY <2>1
  <2>3. \A i \in 1..Len(new.nodes.node) : new.layouts[i] = {}
    <3> SUFFICES ASSUME NEW i \in 1..Len(new.nodes.node) PROVE new.layouts[i] = {}
      OBVIOUS
    <3> DEFINE n == Len(t.nodes.node)
               m == Len(new.nodes.node)
    <3>1. /\ n \in Nat /\ m = (IF id[1] > n THEN n + 1 ELSE n) /\ id[1] \in 1..n + 1
          /\ new.layouts[i] = IF i = id[1] THEN {} ELSE t.layouts[i]
      BY <1>1
    <3>2. (\A j \in 1..n : t.layouts[j] = {}) /\ i \in 1..m
      BY <2>2
    <3> HIDE DEF n, m
    <3>3. i # id[1] => i \in 1..n
      BY <3>1, <3>2
    <3> QED BY <3>1, <3>2, <3>3
  <2>4. new.layouts = [i \in 1..Len(new.nodes.node) |-> new.layouts[i]]
    BY <1>1 DEF TreeInv, Parts
  <2>5. new.layouts = [i \in DOMAIN new.layouts |-> {}]
    BY <2>3, <2>4
  <2> QED BY <1>1, <1>2, <1>4, <2>5 DEF TreeFresh, new
<1> QED BY <1>3, <1>4

LEMMA AddWithChildrenFresh ==
    ASSUME NEW t, TreeInv(t), HasSlot(t), NEW look \in [style : Styles, text : Texts], CachesFresh(t),
           NEW children \in Seq(Known(t)), ValidChildren(t, NoId, children)
    PROVE  TreeFresh(ReplaceChildren(Added(t, look), NextId(t.nodes), children))
<1> DEFINE new == Added(t, look)
           id == NextId(t.nodes)
<1>1. /\ TreeInv(new) /\ id \in Known(new) /\ children \in Seq(Known(new)) /\ IsInjective(children)
      /\ Range(children) \cap Ancestors(new.nodes, id) = {}
  BY AddedParent
<1>2. CachesFresh(new)
  BY AddedCaches
<1> HIDE DEF new, id
<1>3. TreeFresh(ReplaceChildren(new, id, children))
  BY <1>1, <1>2, ReplaceChildrenFresh
<1> QED BY <1>3 DEF new, id

\* An engine that is changed behind the layouts leaves them as they are.
LEMMA LayoutsStayFresh ==
    ASSUME NEW t, TreeFresh(t), NEW new, new.nodes = t.nodes, new.last = t.last,
           new.layouts = t.layouts, CachesFresh(new)
    PROVE  TreeFresh(new)
<1>1. Known(new) = Known(t)
  BY DEF Known
<1>2. FreshStyle(new) = FreshStyle(t)
  BY <1>1 DEF FreshStyle, Entry
<1>3. FreshLayouts(new) = FreshLayouts(t)
  <2>1. FreshLayouts(new) = [i \in DOMAIN new.nodes.node |->
              IF IdAt(new.nodes, i) \in Below(ChildrenIn(new.nodes), new.last.root)
              THEN {Laid(new.nodes, ChildrenIn(new.nodes), FreshStyle(new), new.last.root, new.last.viewport,
                         IdAt(new.nodes, i))}
              ELSE {}]
    BY FreshLayoutsIs, Zenon
  <2>2. FreshLayouts(t) = [i \in DOMAIN t.nodes.node |->
              IF IdAt(t.nodes, i) \in Below(ChildrenIn(t.nodes), t.last.root)
              THEN {Laid(t.nodes, ChildrenIn(t.nodes), FreshStyle(t), t.last.root, t.last.viewport,
                         IdAt(t.nodes, i))}
              ELSE {}]
    BY FreshLayoutsIs, Zenon
  <2> QED BY <1>2, <2>1, <2>2
<1> QED BY <1>1, <1>3 DEF TreeFresh

LEMMA EmptyTreeFresh == TreeFresh(EmptyTree)
<1> DEFINE e == NoEngine
<1>1. EmptyTree.engine = e /\ EmptyTree.layouts = <<>> /\ EmptyTree.last = NothingComputed
  BY DEF EmptyTree
<1>2. \A x \in DOMAIN e.kids : e.cache[x] = {}
  <2>1. e.kids = <<>>
    BY DEF NoEngine
  <2> QED BY <2>1
<1> HIDE DEF e
<1>3. CachesFresh(EmptyTree)
  BY <1>1, <1>2, NothingCached DEF CachesFresh
<1> HIDE DEF EmptyTree
<1>4. EmptyTree.layouts = [i \in DOMAIN EmptyTree.layouts |-> {}]
  BY <1>1
<1> QED BY <1>1, <1>3, <1>4 DEF TreeFresh

LEMMA RebuiltFresh ==
    ASSUME NEW t, TreeInv(t), HasSlot(t), NEW look \in [style : Styles, text : Texts], TreeFresh(t)
    PROVE  TreeFresh(Added([t EXCEPT !.engine = FromNodes(t.nodes)], look))
<1> DEFINE rebuilt == [t EXCEPT !.engine = FromNodes(t.nodes)]
<1>1. EngineOK(FromNodes(t.nodes), t.nodes)
  BY FromNodesIs DEF TreeInv, NodesLinked
<1>2. TreeInv(rebuilt) /\ rebuilt.nodes = t.nodes /\ rebuilt.engine = FromNodes(t.nodes)
      /\ Replaced(rebuilt, t)
  BY <1>1, WithEngine
<1> HIDE DEF rebuilt
<1>3. CachesFresh(rebuilt)
  BY <1>2, FromNodesFresh DEF CachesFresh
<1>4. TreeFresh(rebuilt) /\ HasSlot(rebuilt)
  BY <1>2, <1>3, LayoutsStayFresh DEF Replaced, HasSlot
<1>5. TreeFresh(Added(rebuilt, look))
  BY <1>2, <1>4, AddedFresh
<1> QED BY <1>5 DEF rebuilt

(* The two trees, with caches and layouts.                                 *)
FreshInv == LayoutInv /\ \A h \in Trees : TreeFresh(trees[h])

LEMMA EditFresh ==
    ASSUME FreshInv, NEW h \in Trees, NEW t, TreeFresh(t), Edit(h, t)
    PROVE  \A u \in Trees : TreeFresh(trees'[u])
<1>1. trees' = [trees EXCEPT ![h] = t]
  BY DEF Edit, Write
<1>2. \A u \in Trees : trees'[u] = IF u = h THEN t ELSE trees[u]
  BY <1>1 DEF FreshInv, LayoutInv
<1> QED BY <1>2 DEF FreshInv

LEMMA MutateFresh ==
    ASSUME FreshInv, NEW h \in Trees, Mutate(h)
    PROVE  \A u \in Trees : TreeFresh(trees'[u])
<1> DEFINE t == trees[h]
           Goal == \A u \in Trees : TreeFresh(trees'[u])
<1>1. TreeInv(t) /\ TreeFresh(t) /\ CachesFresh(t)
  BY DEF FreshInv, LayoutInv, TreeFresh
<1>2. ASSUME NEW look \in NewLooks, Add(h, look) PROVE Goal
  <2>1. HasSlot(t) /\ Edit(h, Added(t, look)) /\ look \in [style : Styles, text : Texts]
    BY <1>2, LayoutAssumption DEF Add
  <2> HIDE DEF t
  <2>2. TreeFresh(Added(t, look))
    BY <1>1, <2>1, AddedFresh
  <2> QED BY <2>1, <2>2, EditFresh
<1>3. ASSUME NEW look \in NewLooks, NEW n \in 1..MaxSlots, NEW children \in [1..n -> Known(t)],
             AddWithChildren(h, look, children)
      PROVE  Goal
  <2> DEFINE new == ReplaceChildren(Added(t, look), NextId(t.nodes), children)
  <2>1. /\ HasSlot(t) /\ ValidChildren(t, NoId, children)
        /\ Edit(h, new)
    BY <1>3 DEF AddWithChildren
  <2>2. look \in [style : Styles, text : Texts] /\ children \in Seq(Known(t))
    BY <1>3, LayoutAssumption, ListOfKnown
  <2> HIDE DEF t
  <2>3. TreeFresh(new)
    BY <1>1, <2>1, <2>2, AddWithChildrenFresh
  <2> HIDE DEF new
  <2> QED BY <2>1, <2>3, EditFresh
<1>4. ASSUME NEW id \in Known(t), NEW style \in Styles, SetStyle(h, id, style) PROVE Goal
  <2> DEFINE styled == [t EXCEPT !.nodes = SetNode(@, id, [Entry(t, id) EXCEPT !.style = style]),
                                 !.engine = EngineSetStyle(@, id, style)]
  <2>1. Edit(h, Forget(styled))
    BY <1>4 DEF SetStyle
  <2>2. TreeInv(styled) /\ CachesFresh(styled)
    BY <1>1, <1>4, StyledKeeps, StyledFresh
  <2> HIDE DEF styled
  <2>3. TreeFresh(Forget(styled))
    BY <2>2, ForgetFresh
  <2> QED BY <2>1, <2>3, EditFresh
<1>5. ASSUME NEW id \in Known(t), NEW n \in 0..MaxSlots, NEW children \in [1..n -> Known(t)],
             SetChildren(h, id, children)
      PROVE  Goal
  <2>1. ValidChildren(t, id, children) /\ Edit(h, ReplaceChildren(t, id, children))
    BY <1>5 DEF SetChildren
  <2>2. children \in Seq(Known(t))
    BY <1>5, LayoutAssumption, ListOfKnown
  <2> HIDE DEF t
  <2>3. TreeFresh(ReplaceChildren(t, id, children))
    BY <1>1, <1>5, <2>1, <2>2, ReplaceChildrenFresh DEF ValidChildren
  <2> QED BY <2>1, <2>3, EditFresh
<1>6. ASSUME NEW id \in Known(t), RemoveNode(h, id) PROVE Goal
  <2>1. Edit(h, Removed(t, id))
    BY <1>6 DEF RemoveNode
  <2> HIDE DEF t
  <2>2. TreeFresh(Removed(t, id))
    BY <1>1, <1>6, RemovedFresh
  <2> QED BY <2>1, <2>2, EditFresh
<1>7. ASSUME NEW words \in Texts, InvalidateAll(h, words) PROVE Goal
  <2> DEFINE ids == Known(t)
             texted == [t EXCEPT !.nodes = Retext(@, ids, words), !.engine = MarkDirty(@, ids)]
  <2>1. Edit(h, Forget(texted))
    BY <1>7 DEF InvalidateAll
  <2>2. TreeInv(texted) /\ CachesFresh(texted)
    BY <1>1, <1>7, RetextedKeeps, RetextedFresh
  <2> HIDE DEF texted
  <2>3. TreeFresh(Forget(texted))
    BY <2>2, ForgetFresh
  <2> QED BY <2>1, <2>3, EditFresh
<1> QED BY <1>2, <1>3, <1>4, <1>5, <1>6, <1>7 DEF Mutate

LEMMA ComputeShowsFresh ==
    ASSUME FreshInv, NEW h \in Trees, NEW root \in Known(trees[h]), NEW viewport \in Viewports,
           Compute(h, root, viewport)
    PROVE  \A u \in Trees : TreeFresh(trees'[u])
<1> DEFINE t == Computed(trees[h], root, viewport)
           other(u) == [trees[u] EXCEPT !.engine = t.engine]
<1>1. trees' = [u \in Trees |-> IF u = h THEN t ELSE IF shared THEN other(u) ELSE trees[u]]
  BY DEF Compute
<1>2. /\ \A u \in Trees : TreeInv(trees[u]) /\ TreeFresh(trees[u])
      /\ shared => \A u \in Trees : trees[u].nodes = trees[h].nodes
  BY DEF FreshInv, LayoutInv, Trees
<1>3. TreeInv(t) /\ t.nodes = trees[h].nodes /\ TreeFresh(t)
  <2> DEFINE from == trees[h]
  <2>1. TreeInv(from) /\ CachesFresh(from) /\ root \in Known(from)
    BY <1>2 DEF TreeFresh
  <2> HIDE DEF from
  <2>2. /\ TreeInv(Computed(from, root, viewport)) /\ Computed(from, root, viewport).nodes = from.nodes
        /\ TreeFresh(Computed(from, root, viewport))
    BY <2>1, ComputedKeeps, ComputedFresh
  <2> QED BY <2>2 DEF from
<1> HIDE DEF t
<1>4. ASSUME NEW u \in Trees, shared PROVE TreeFresh(other(u))
  <2> DEFINE was == trees[u]
             new == other(u)
  <2>1. was.nodes = t.nodes /\ TreeInv(was) /\ TreeFresh(was)
    BY <1>2, <1>3, <1>4
  <2>2. EngineOK(t.engine, was.nodes)
    BY <1>3, <2>1 DEF TreeInv, Parts
  <2>3. new = [was EXCEPT !.engine = t.engine]
    OBVIOUS
  <2> HIDE DEF was, new
  <2>4. new.nodes = was.nodes /\ new.engine = t.engine /\ Replaced(new, was)
    BY <2>1, <2>2, <2>3, WithEngine
  <2>5. CachesFresh(new)
    BY <1>3, <2>1, <2>4 DEF TreeFresh, CachesFresh
  <2>6. TreeFresh(new)
    BY <2>1, <2>4, <2>5, LayoutsStayFresh DEF Replaced
  <2> QED BY <2>6 DEF new
<1> HIDE DEF other
<1> QED BY <1>1, <1>2, <1>3, <1>4

LEMMA ComputeWhileAddingFresh ==
    ASSUME FreshInv, NEW h \in Trees, NEW root \in Known(trees[h]), NEW viewport \in Viewports,
           NEW look \in NewLooks, ComputeWhileAdding(h, root, viewport, look)
    PROVE  \A u \in Trees : TreeFresh(trees'[u])
<1> DEFINE other == CHOOSE u \in Trees : u # h
           t == trees[other]
           from == trees[h]
           computed == Computed(from, root, viewport)
           added == Added([t EXCEPT !.engine = FromNodes(t.nodes)], look)
<1>1. HasSlot(t) /\ trees' = [u \in Trees |-> IF u = h THEN computed ELSE added]
  BY DEF ComputeWhileAdding
<1>2. other \in Trees
  BY DEF Trees
<1> HIDE DEF other
<1>3. TreeInv(t) /\ TreeFresh(t) /\ TreeInv(from) /\ CachesFresh(from) /\ root \in Known(from)
  BY <1>2 DEF FreshInv, LayoutInv, TreeFresh
<1> HIDE DEF t, from
<1>4. TreeFresh(computed)
  BY <1>3, ComputedFresh
<1>5. TreeFresh(added)
  <2>1. look \in [style : Styles, text : Texts]
    BY LayoutAssumption
  <2> QED BY <1>1, <1>3, <2>1, RebuiltFresh
<1> HIDE DEF computed, added
<1> QED BY <1>1, <1>4, <1>5

LEMMA FreshInvInitially == ASSUME LayoutInit PROVE FreshInv
<1>1. trees = [h \in Trees |-> EmptyTree]
  BY DEF LayoutInit
<1>2. LayoutInv /\ TreeFresh(EmptyTree)
  BY LayoutInvInitially, EmptyTreeFresh
<1> HIDE DEF EmptyTree
<1> QED BY <1>1, <1>2 DEF FreshInv

LEMMA FreshInvKept ==
    ASSUME FreshInv, [LayoutNext]_layoutVars
    PROVE  FreshInv'
<1> DEFINE Goal == \A u \in Trees : TreeFresh(trees'[u])
<1>1. LayoutInv' /\ LayoutInv
  BY LayoutInvKept DEF FreshInv
<1>2. ASSUME Mutate("staged") PROVE Goal
  BY <1>2, MutateFresh DEF Trees
<1>3. ASSUME NEW h \in Concerned, NEW id \in Known(trees[h]), staging, NEW words \in Texts,
             Invalidate(h, id, words)
      PROVE  Goal
  <2> DEFINE t == trees[h]
             ids == {id}
             texted == [t EXCEPT !.nodes = Retext(@, ids, words), !.engine = MarkDirty(@, ids)]
  <2>1. h \in Trees /\ TreeInv(t) /\ CachesFresh(t) /\ ids \in SUBSET Known(t)
    BY DEF Concerned, FreshInv, LayoutInv, TreeFresh
  <2>2. Edit(h, Forget(texted))
    BY <1>3 DEF Invalidate
  <2> HIDE DEF ids, t
  <2>3. TreeInv(texted) /\ CachesFresh(texted)
    BY <2>1, RetextedKeeps, RetextedFresh
  <2> HIDE DEF texted
  <2>4. TreeFresh(Forget(texted))
    BY <2>3, ForgetFresh
  <2> QED BY <2>1, <2>2, <2>4, EditFresh
<1>4. ASSUME NEW h \in Concerned, NEW id \in Known(trees[h]), NEW viewport \in Viewports,
             Compute(h, id, viewport)
      PROVE  Goal
  BY <1>4, ComputeShowsFresh DEF Concerned
<1>5. ASSUME NEW h \in Concerned, NEW id \in Known(trees[h]), NEW viewport \in Viewports,
             NEW look \in NewLooks, ComputeWhileAdding(h, id, viewport, look)
      PROVE  Goal
  BY <1>5, ComputeWhileAddingFresh DEF Concerned
<1>6. ASSUME Stage PROVE Goal
  <2>1. trees' = [trees EXCEPT !["staged"] = trees["committed"]]
    BY <1>6 DEF Stage
  <2>2. \A u \in Trees : trees'[u] = trees["committed"] /\ "committed" \in Trees
    BY <1>1, <2>1 DEF LayoutInv, Trees
  <2> QED BY <2>2 DEF FreshInv
<1>7. ASSUME NEW t, TreeFresh(t), Settle(t) PROVE Goal
  <2>1. trees' = [committed |-> t, staged |-> EmptyTree]
    BY <1>7 DEF Settle
  <2> HIDE DEF EmptyTree
  <2>2. \A u \in Trees : trees'[u] = t \/ trees'[u] = EmptyTree
    BY <2>1 DEF Trees
  <2>3. TreeFresh(EmptyTree)
    BY EmptyTreeFresh
  <2> QED BY <1>7, <2>2, <2>3
<1>8. Commit \/ Discard => Goal
  <2>1. TreeFresh(trees["staged"]) /\ TreeFresh(trees["committed"])
    BY DEF FreshInv, Trees
  <2> QED BY <1>7, <2>1 DEF Commit, Discard
<1>9. ASSUME UNCHANGED layoutVars PROVE Goal
  BY <1>9 DEF layoutVars, FreshInv
<1>10. Goal
  BY <1>2, <1>3, <1>4, <1>5, <1>6, <1>8, <1>9 DEF LayoutNext
<1> QED BY <1>1, <1>10 DEF FreshInv

LEMMA FreshInvGives == FreshInv => LayoutIsFresh
BY DEF FreshInv, TreeFresh, LayoutIsFresh

\* What layout() answers is what a computation from nothing gives for the tree's own nodes,
\* for every number of nodes, edits, texts and viewports: no output of an earlier root or
\* viewport, of the other tree or of a discarded frame shows through taffy's caches
\* (LayoutTree::compute and what invalidates its engine).
THEOREM LayoutsAreFresh == LayoutSpec => []LayoutIsFresh
<1>1. LayoutInit => FreshInv
  BY FreshInvInitially
<1>2. FreshInv /\ [LayoutNext]_layoutVars => FreshInv'
  BY FreshInvKept
<1>3. FreshInv => LayoutIsFresh
  BY FreshInvGives
<1> QED BY <1>1, <1>2, <1>3, PTL DEF LayoutSpec
================================================================================
