------------------------------ MODULE UiTree ------------------------------
(***************************************************************************)
(* The interaction state UiTree retains between frames: node identity,     *)
(* focus by scope, pointer capture and suppression, hover, and the focus   *)
(* transitions not yet delivered.                                          *)
(*                                                                         *)
(* prepare stages a copy of the tree: it reconciles the view and resolves  *)
(* focus and modality twice, with the old layout and with the new one.     *)
(* commit replaces the tree with the copy, and the host then refreshes the *)
(* hover.  The three are one step, Frame: a frame that is discarded, or    *)
(* rejected because the tree has moved on, changes nothing here.  dispatch *)
(* routes one event; what the handlers ask for is chosen freely.           *)
(*                                                                         *)
(* The elements of all views are slots of one tree, numbered in preorder.  *)
(* A NodeId is a slot and the number of nodes allocated for it so far.     *)
(* Siblings do not change places, and no element has a focus order.        *)
(***************************************************************************)
EXTENDS Naturals, FiniteSets

CONSTANTS N,           \* places of elements; 1 is the root
          Parent,      \* the parent of each slot, 0 for the root
          Views,       \* the views of the application: see ViewAssumption
          Points,      \* positions of the pointer
          Buttons,     \* pointer buttons
          MaxBorn      \* bound: nodes allocated for one slot

Slots == 1..N
View == [key : [Slots -> Nat],         \* the element's kind and key; 0 if there is none
         visible : SUBSET Slots,       \* effectively visible once laid out
         focusable : SUBSET Slots, scope : SUBSET Slots, modal : SUBSET Slots,
         hit : [Points -> Slots \union {0}]]  \* the topmost interactive element
Present(v) == {s \in Slots : v.key[s] # 0}

ASSUME ViewAssumption ==
    /\ N \in Nat \ {0} /\ MaxBorn \in Nat
    /\ Parent \in [Slots -> Slots \union {0}]
    /\ \A s \in Slots : Parent[s] < s /\ (Parent[s] = 0 <=> s = 1)
    /\ Views \subseteq View
    /\ \A v \in Views :
         /\ 1 \in Present(v) /\ v.visible \subseteq Present(v)
         /\ \A s \in Present(v) \ {1} : Parent[s] \in Present(v)
         /\ \A s \in v.visible \ {1} : Parent[s] \in v.visible
         /\ \A p \in Points : v.hit[p] \in v.visible \union {0}

VARIABLES
    tree,      \* the committed UiTree: see NewTree
    held,      \* per button: "up", "down", or "orphan" when its capture was taken away
    told,      \* history: nodes told FocusGained and not FocusLost since
    outcome    \* the last dispatch of a drag or release: its button's state, if it had a route

vars == <<tree, held, told, outcome>>

None == <<0, 0>>
NoChange == [previous |-> None, current |-> None]
NoView == [key |-> [s \in Slots |-> 0], visible |-> {}, focusable |-> {}, scope |-> {},
           modal |-> {}, hit |-> [p \in Points |-> 0]]
NewTree == [view |-> NoView, born |-> [s \in Slots |-> 0], shown |-> {},
            activeScope |-> None, focusedBy |-> <<>>, pending |-> NoChange,
            captured |-> None, suppressed |-> {}, hovered |-> None, lastPointer |-> {}]
NoOutcome == [press |-> "none", routed |-> FALSE]

Init ==
    /\ tree = NewTree
    /\ held = [b \in Buttons |-> "up"]
    /\ told = {}
    /\ outcome = NoOutcome
----------------------------------------------------------------------------
Node(t, s) == IF s = 0 THEN None ELSE <<s, t.born[s]>>
Alive(t) == {Node(t, s) : s \in Present(t.view)}

\* A slot and its ancestors: the least set around it that is closed under Parent.
Path == [s \in Slots |-> {a \in Slots : \A upward \in SUBSET Slots :
            s \in upward /\ (\A x \in upward \ {1} : Parent[x] \in upward) => a \in upward}]
Depth(s) == Cardinality(Path[s])
\* The deepest of some slots, and the last in preorder of those.
Deepest(slots) == CHOOSE s \in slots : \A o \in slots \ {s} :
                      Depth(o) < Depth(s) \/ (Depth(o) = Depth(s) /\ o < s)

ScopesOf(t) == (t.view.scope \union {1}) \intersect Present(t.view)
ScopeFor(t, s) == Deepest(Path[s] \intersect ScopesOf(t))
Focused(t) == IF t.activeScope \in DOMAIN t.focusedBy THEN t.focusedBy[t.activeScope] ELSE None

\* Live nodes that accept focus now, in the scope of a slot.
Candidates(t, scope) == {s \in t.view.focusable \intersect t.shown : ScopeFor(t, s) = scope}

\* Mutation: the second of two changes replaces the first.
RecordLast(t, from, to) ==
    IF from = to THEN t ELSE [t EXCEPT !.pending = [previous |-> from, current |-> to]]

\* record_focus_change: changes not delivered yet combine into one.
Record(t, from, to) ==
    LET origin == IF t.pending = NoChange THEN from ELSE t.pending.previous
    IN  IF from = to THEN t
        ELSE [t EXCEPT !.pending = IF origin = to THEN NoChange
                                   ELSE [previous |-> origin, current |-> to]]

\* Mutation: only the active scope keeps its focused node.
SyncActiveOnly(t) ==
    LET scopes == ScopesOf(t) \intersect t.shown
        active == IF scopes = {} THEN None ELSE Node(t, Deepest(scopes))
        kept == {i \in DOMAIN t.focusedBy :
                    /\ i = active /\ t.focusedBy[i] \in Alive(t)
                    /\ t.focusedBy[i][1] \in Candidates(t, i[1])}
    IN  Record([t EXCEPT !.activeScope = active,
                         !.focusedBy = [i \in kept |-> t.focusedBy[i]]],
               Focused(t),
               IF active \in kept THEN t.focusedBy[active] ELSE None)

\* FocusManager::sync: the deepest visible scope is active, and each visible
\* scope keeps its focused node while that can have the focus.
Sync(t) ==
    LET scopes == ScopesOf(t) \intersect t.shown
        active == IF scopes = {} THEN None ELSE Node(t, Deepest(scopes))
        kept == {i \in DOMAIN t.focusedBy :
                    /\ i \in Alive(t) /\ i[1] \in scopes
                    /\ t.focusedBy[i] \in Alive(t)
                    /\ t.focusedBy[i][1] \in Candidates(t, i[1])}
    IN  Record([t EXCEPT !.activeScope = active,
                         !.focusedBy = [i \in kept |-> t.focusedBy[i]]],
               Focused(t),
               IF active \in kept THEN t.focusedBy[active] ELSE None)

\* The active scope's focus moves to a slot.
SetFocus(t, s) ==
    Record([t EXCEPT !.focusedBy = [i \in DOMAIN @ \union {t.activeScope} |->
                                      IF i = t.activeScope THEN Node(t, s) ELSE @[i]]],
           Focused(t), Node(t, s))

First(slots) == CHOOSE s \in slots : \A o \in slots : s <= o
Last(slots) == CHOOSE s \in slots : \A o \in slots : s >= o

\* FocusManager::repair: a scope without focus gives it to its first candidate.
Repair(t) ==
    IF t.activeScope = None \/ Focused(t) # None \/ Candidates(t, t.activeScope[1]) = {}
    THEN t ELSE SetFocus(t, First(Candidates(t, t.activeScope[1])))

\* Mutation: any visible focusable node can be given the focus.
FocusAnywhere(t, s) ==
    IF s \in t.view.focusable \intersect t.shown THEN SetFocus(t, s) ELSE t

\* FocusManager::focus, whose refusals change nothing.
Focus(t, s) ==
    IF t.activeScope # None /\ s \in Candidates(t, t.activeScope[1]) THEN SetFocus(t, s) ELSE t

\* FocusManager::traverse, wrapping around the candidates of the scope.
Traverse(t, reverse) ==
    LET all == IF t.activeScope = None THEN {} ELSE Candidates(t, t.activeScope[1])
        at == Focused(t)[1]
        after == {s \in all : s > at}
        before == {s \in all : s < at}
    IN  IF all = {} THEN t
        ELSE IF at \notin all THEN SetFocus(t, IF reverse THEN Last(all) ELSE First(all))
        ELSE SetFocus(t, IF reverse THEN IF before = {} THEN Last(all) ELSE Last(before)
                         ELSE IF after = {} THEN First(all) ELSE First(after))
----------------------------------------------------------------------------
ActiveModal(t) == IF t.view.modal \intersect t.shown = {} THEN 0
                  ELSE Deepest(t.view.modal \intersect t.shown)
Under(t, s) == ActiveModal(t) = 0 \/ ActiveModal(t) \in Path[s]

\* pointer_target: a modal takes what is aimed outside of it, or nowhere.
PointerTarget(t, s) == IF s = 0 THEN ActiveModal(t)
                       ELSE IF Under(t, s) THEN s ELSE ActiveModal(t)

\* The node under a pointer position; `at' holds one position, or none yet.
Pointed(t, at) == PointerTarget(t, IF at = {} THEN 0 ELSE t.view.hit[CHOOSE p \in at : TRUE])

\* The rest of every press in flight is not for whatever is uncovered.
CancelCapture(t) == [t EXCEPT !.captured = None, !.suppressed = Buttons]
RepairModality(t) ==
    IF t.captured = None \/ Under(t, t.captured[1]) THEN t ELSE CancelCapture(t)

\* Mutation: interaction state of removed nodes is kept.
KeepRemoved(t) == t
\* remove_retained_subtree and repair_removed_interaction.
RepairRemoved(t) ==
    LET u == [t EXCEPT !.hovered = IF @ \in Alive(t) THEN @ ELSE None]
    IN  IF t.captured = None \/ t.captured \in Alive(t) THEN u ELSE CancelCapture(u)

\* reconcile: a node is reused when its parent is and kind and key are the same.
\* New nodes have no layout yet, and reused ones their old one.
Reconcile(t, v) ==
    LET reused == {s \in Slots : \A a \in Path[s] : v.key[a] # 0 /\ v.key[a] = t.view.key[a]}
        u == [t EXCEPT !.view = v, !.shown = @ \intersect reused,
                       !.born = [s \in Slots |-> IF s \in Present(v) \ reused
                                                 THEN @[s] + 1 ELSE @[s]]]
    IN  RepairModality(RepairRemoved(Sync(u)))

\* prepare: reconcile, lay out, and resolve focus and modality with the layout.
Staged(t, v) ==
    LET laidOut == [Reconcile(t, v) EXCEPT !.shown = v.visible]
    IN  RepairModality(RepairRemoved(Repair(Sync(laidOut))))
----------------------------------------------------------------------------
\* Delivery of FocusLost and FocusGained; a node that is gone hears nothing.
Deliver(change, alive) ==
    told' = IF change = NoChange THEN told \intersect alive
            ELSE ((told \ {change.previous}) \union {change.current}) \intersect alive

\* The nodes whose handlers hear of a change of focus, or of hover.
FocusMoved(change) == IF change = NoChange THEN {} ELSE {change.previous, change.current}
HoverMoved(t, hovered) == IF hovered = t.hovered THEN {} ELSE {hovered, t.hovered}

\* What the handlers of some nodes may leave as the capture.
CaptureChoices(t, nodes) == {t.captured, None} \union (nodes \intersect Alive(t))

HoverAfterCommit(t) == Node(t, Pointed(t, t.lastPointer))

\* UiTree::prepare and commit, and the refresh_hover that follows them.
Frame(v) ==
    LET t == Staged(tree, v)
        hovered == HoverAfterCommit(t)
        cancelled == tree.captured # None /\ t.captured = None
    IN  /\ \A s \in Slots : t.born[s] <= MaxBorn
        /\ \E captured \in CaptureChoices(t, FocusMoved(t.pending) \union HoverMoved(t, hovered)) :
             tree' = [t EXCEPT !.pending = NoChange, !.hovered = hovered, !.captured = captured]
        /\ Deliver(t.pending, Alive(t))
        /\ held' = [b \in Buttons |-> IF cancelled /\ held[b] = "down" THEN "orphan" ELSE held[b]]
        /\ outcome' = NoOutcome
----------------------------------------------------------------------------
\* The end of dispatch: t is the tree after default behaviour and requests,
\* the route's nodes and those that gain or lose focus or hover had handlers.
EndDispatch(t, route, at) ==
    LET origin == IF tree.pending = NoChange THEN Focused(tree) ELSE tree.pending.previous
        change == IF origin = Focused(t) THEN NoChange
                  ELSE [previous |-> origin, current |-> Focused(t)]
        hovered == IF at = {} THEN t.hovered ELSE Node(t, Pointed(t, at))
        handlers == {Node(t, s) : s \in route} \union FocusMoved(change) \union HoverMoved(t, hovered)
    IN  /\ \E captured \in CaptureChoices(t, handlers) :
             tree' = [t EXCEPT !.pending = NoChange, !.hovered = hovered, !.captured = captured]
        /\ Deliver(change, Alive(t))

\* A focus request of a handler on the route; slot 0 asks for nothing.
Requested(t, request) == IF request = 0 THEN t ELSE Focus(t, request)

\* Key, text or paste.  Tab and Shift-Tab traverse unless a handler prevents it;
\* the other events are those with `prevented'.
DispatchKey(reverse, prevented, request) ==
    LET target == IF Focused(tree) # None THEN Focused(tree)[1]
                  ELSE IF tree.activeScope # None THEN tree.activeScope[1] ELSE 1
        t == IF prevented THEN tree ELSE Traverse(tree, reverse)
    IN  /\ tree.view # NoView
        /\ request \in Path[target] \union {0}
        /\ EndDispatch(Requested(t, request), Path[target], {})
        /\ outcome' = NoOutcome
        /\ UNCHANGED held

\* Mutation: a release is not suppressed.
DragSuppressed(kind, b) == kind = "drag" /\ b \in tree.suppressed
Suppressed(kind, b) == kind \in {"drag", "up"} /\ b \in tree.suppressed

\* Mutation: a consumed event leaves the hover where it was.
ConsumeOnly(b, p, kind) ==
    /\ tree' = [tree EXCEPT !.lastPointer = {p},
                            !.suppressed = IF kind = "up" THEN @ \ {b} ELSE @]
    /\ UNCHANGED told

\* The event moves the pointer and nothing else: no route is invoked.
Consume(b, p, kind) ==
    LET hovered == Node(tree, Pointed(tree, {p}))
    IN  /\ \E captured \in CaptureChoices(tree, HoverMoved(tree, hovered)) :
             tree' = [tree EXCEPT !.lastPointer = {p}, !.hovered = hovered, !.captured = captured,
                                  !.suppressed = IF kind = "up" THEN @ \ {b} ELSE @]
        /\ UNCHANGED told

DispatchSuppressed(kind, b, p) ==
    /\ tree.view # NoView /\ Suppressed(kind, b) /\ held[b] # "up"
    /\ Consume(b, p, kind)
    /\ held' = IF kind = "up" THEN [held EXCEPT ![b] = "up"] ELSE held
    /\ outcome' = [press |-> held[b], routed |-> FALSE]

NearestFocusable(t, s) == IF Path[s] \intersect t.view.focusable = {} THEN 0
                          ELSE Deepest(Path[s] \intersect t.view.focusable)

\* The routing of a pointer event with candidate s, default behaviour included.
Route(kind, s, p, released, prevented, request) ==
    LET target == IF PointerTarget(tree, s) = 0 THEN 1 ELSE PointerTarget(tree, s)
        t == [tree EXCEPT !.lastPointer = {p}, !.suppressed = @ \ released]
        u == IF prevented \/ kind # "down" THEN t
             ELSE Requested(t, NearestFocusable(t, target))
    IN  /\ request \in Path[target] \union {0}
        /\ EndDispatch(Requested(u, request), Path[target], {p})

\* The buttons whose suppression a routed event ends.
Released(kind, b) == IF kind = "down" THEN {b} ELSE {}

\* Down, drag and up, in the order one pointer can send them.  A capture takes drags
\* and releases from what they hit.
DispatchPointer(kind, b, p, prevented, request) ==
    LET s == IF kind \in {"drag", "up"} /\ tree.captured # None THEN tree.captured[1]
             ELSE tree.view.hit[p]
    IN  /\ tree.view # NoView /\ ~Suppressed(kind, b)
        /\ Route(kind, s, p, Released(kind, b), prevented, request)
        /\ (kind = "down") <=> (held[b] = "up")
        /\ held' = [held EXCEPT ![b] = IF kind = "drag" THEN @ ELSE kind]
        /\ outcome' = IF kind = "down" THEN NoOutcome
                      ELSE [press |-> held[b], routed |-> TRUE]

\* Moves and scrolls.
DispatchMove(p, request) ==
    /\ tree.view # NoView
    /\ Route("move", tree.view.hit[p], p, {}, TRUE, request)
    /\ outcome' = NoOutcome
    /\ UNCHANGED held

\* focus_node and focus_key, called by the host: the change is delivered later.
FocusNode(s) ==
    /\ Focus(tree, s) # tree
    /\ tree' = Focus(tree, s)
    /\ outcome' = NoOutcome
    /\ UNCHANGED <<held, told>>

Requests == Slots \union {0}

Next ==
    \/ \E v \in Views : Frame(v)
    \/ \E s \in Slots : FocusNode(s)
    \/ \E kind \in {"drag", "up"}, b \in Buttons, p \in Points : DispatchSuppressed(kind, b, p)
    \/ \E request \in Requests, p \in Points : DispatchMove(p, request)
    \/ \E request \in Requests, prevented \in BOOLEAN :
         \/ \E reverse \in BOOLEAN : DispatchKey(reverse, prevented, request)
         \/ \E kind \in {"down", "drag", "up"}, b \in Buttons, p \in Points :
                DispatchPointer(kind, b, p, prevented, request)

Spec == Init /\ [][Next]_vars
----------------------------------------------------------------------------
\* Every node the interaction state names is alive.
TypeOK ==
    /\ tree.view \in Views \union {NoView} /\ tree.shown = tree.view.visible
    /\ tree.born \in [Slots -> 0..MaxBorn]
    /\ {tree.activeScope, tree.captured, tree.hovered} \subseteq Alive(tree) \union {None}
    /\ \A i \in DOMAIN tree.focusedBy : {i, tree.focusedBy[i]} \subseteq Alive(tree)
    /\ tree.suppressed \subseteq Buttons /\ tree.lastPointer \subseteq Points
    /\ held \in [Buttons -> {"up", "down", "orphan"}]
    /\ told \subseteq Alive(tree)

\* Of the committed tree: the deepest visible scope is active, its focus is a
\* node that can have it, and there is one if any node can.
FocusIsLegal ==
    tree.view # NoView /\ tree.shown # {} =>
        LET scope == Deepest(ScopesOf(tree) \intersect tree.shown)
        IN  /\ tree.activeScope = Node(tree, scope)
            /\ IF Focused(tree) = None THEN Candidates(tree, scope) = {}
               ELSE Focused(tree)[1] \in Candidates(tree, scope)

\* FocusGained and FocusLost come in pairs: the node with the focus, or the one
\* that had it before the changes still to be delivered, has been told so, and
\* no other node believes it has the focus -- over focus requests, scopes that
\* open and close, and nodes that are hidden or replaced.
FocusEventsPair ==
    told = {IF tree.pending = NoChange THEN Focused(tree) ELSE tree.pending.previous}
              \intersect Alive(tree)

\* "Each scope keeps its focused node": a frame does not take a scope's focus
\* from a node that can still have it, whatever other scopes open or close.
ScopesKeepFocus ==
    [][\A i \in DOMAIN tree.focusedBy :
         LET n == tree.focusedBy[i]
         IN  tree'.view # tree.view /\ {i, n} \subseteq Alive(tree') /\ {i[1], n[1]} \subseteq tree'.shown
                /\ n[1] \in Candidates(tree', i[1])
             => i \in DOMAIN tree'.focusedBy /\ tree'.focusedBy[i] = n]_vars

\* "The remaining drag and release events for each in-flight pointer button are
\* consumed" when its capture is taken away, and no event of any other press is.
OrphansAreConsumed ==
    (outcome.press = "orphan" => ~outcome.routed) /\ (outcome.press = "down" => outcome.routed)

\* The hovered node is the one the committed hit map and modality give for the
\* last position of the pointer, also when a frame moved under a pointer at rest
\* or the event that moved it was consumed.
HoverIsCurrent == tree.view # NoView => tree.hovered = Node(tree, Pointed(tree, tree.lastPointer))

\* hovered: "the node currently under the last pointer position" -- none while
\* there has been no pointer.
NoHoverWithoutPointer == tree.lastPointer = {} => tree.hovered = None
============================================================================
