------------------------------ MODULE LayoutTree -------------------------------
(***************************************************************************)
(* LayoutTree of arborui-layout as UiTree uses it: the committed tree and  *)
(* the staged clone of a frame being prepared.  Each has its own nodes and *)
(* layouts; the engine (taffy's tree with its caches) is derived from the  *)
(* nodes and shared by the two until one of them is mutated.  The caller   *)
(* owns what leaves measure (text) and invalidates a node whose text has   *)
(* changed, as the contract of compute says (tree.rs:362-365).             *)
(*                                                                         *)
(* Taffy is external: a node's cached output is reused for the same input, *)
(* marking a node dirty clears its cache and those of its ancestors, and   *)
(* the parent that is laid out writes the place and size of its children.  *)
(* Geometry is abstracted to the data it depends on: the output of a node  *)
(* is the term of the styles, texts and inputs it was computed from.       *)
(***************************************************************************)
EXTENDS NodeStore, Loops, FiniteSets, Functions

CONSTANTS MaxSlots,     \* bound of this model: slots of a store
          Texts,        \* what a leaf may measure
          Viewports,
          NewLooks,     \* bound of this model: styles and texts that nodes are added with
          MaxEdits      \* bound of this model: mutations of a behaviour

Trees == {"committed", "staged"}
Styles == {"auto", "fixed"}

\* An id that is absent; whatever else may be absent is a set of at most one.
NoId == <<0, 0>>
NodeIds == (1..MaxSlots) \X (0..MaxGeneration)
LayoutNodes == [style : Styles, text : Texts, parent : NodeIds \cup {NoId}, children : Seq(NodeIds)]

ASSUME LayoutAssumption ==
    /\ MaxSlots \in Nat /\ MaxEdits \in Nat
    /\ NewLooks \subseteq [style : Styles, text : Texts]
    /\ Viewports \cap Styles = {}
    /\ NoNode \notin LayoutNodes

VARIABLES trees,        \* per tree: nodes, engine, layouts; last and removed are ghosts
          staging,      \* the staged tree exists
          shared,       \* both hold the same engine (Rc)
          edits         \* mutations so far

layoutVars == <<trees, staging, shared, edits>>

--------------------------------------------------------------------------------
(* Nodes, linked both ways.                                                *)

NodeWith(look) == [style |-> look.style, text |-> look.text, parent |-> NoId, children |-> <<>>]

ParentIn(s, id) == NodeAt(s, id).parent
ChildrenIn(s) == [id \in Live(s) |-> NodeAt(s, id).children]

\* What is below an id, above some ids, or on an id's way up its links to parents: with
\* the ids themselves.
Below(kids, id) == Reach([x \in DOMAIN kids |-> Range(kids[x])], {id})
Above(kids, ids) == Reach([x \in DOMAIN kids |-> {p \in DOMAIN kids : x \in Range(kids[p])}], ids)
Ancestors(s, id) ==
    Reach([x \in Live(s) \cup {NoId} |-> IF x = NoId THEN {} ELSE {ParentIn(s, x)}], {id})

Without(ids, gone) == Pick(ids, {k \in 1..Len(ids) : ids[k] \notin gone})

\* Children that leave the list lose their parent, new ones leave their old parent's list.
Linked(s, parent, children) ==
    LET new == Range(children)
        Link(id, n) ==
            [style |-> n.style, text |-> n.text,
             parent |-> IF id \in new THEN parent ELSE IF n.parent = parent THEN NoId ELSE n.parent,
             children |-> IF id = parent THEN children ELSE Without(n.children, new)]
    IN  [s EXCEPT !.node = [i \in DOMAIN @ |-> IF @[i] = NoNode THEN NoNode
                                               ELSE Link(IdAt(s, i), @[i])]]

--------------------------------------------------------------------------------
(* The engine: functions over the ids it has backend nodes for.            *)

NoRoot == [id |-> NoId, style |-> "auto"]
NoEngine == [made |-> FALSE, kids |-> <<>>, style |-> <<>>, cache |-> <<>>, geometry |-> <<>>,
             root |-> NoRoot]

EngineAdd(e, id, style) ==
    LET Extended(f, value) == [x \in DOMAIN f \cup {id} |-> IF x = id THEN value ELSE f[x]]
    IN  [made |-> TRUE, kids |-> Extended(e.kids, <<>>), style |-> Extended(e.style, style),
         cache |-> Extended(e.cache, {}), geometry |-> Extended(e.geometry, {}), root |-> e.root]

FromNodes(s) ==
    [made |-> TRUE, kids |-> ChildrenIn(s), style |-> [id \in Live(s) |-> NodeAt(s, id).style],
     cache |-> [id \in Live(s) |-> {}], geometry |-> [id \in Live(s) |-> {}], root |-> NoRoot]

\* Geometry that will be written before it is read again is forgotten at once: that of a
\* dirty node (by its parent, which is dirty too, or as a root) and of its children.
MarkDirty(e, ids) ==
    LET dirty == Above(e.kids, ids)
        moved == dirty \cup UNION {Range(e.kids[id]) : id \in dirty}
    IN  [e EXCEPT !.cache = [id \in DOMAIN @ |-> IF id \in dirty THEN {} ELSE @[id]],
                  !.geometry = [id \in DOMAIN @ |-> IF id \in moved THEN {} ELSE @[id]]]

SetBackendStyle(e, id, style) ==
    IF e.style[id] = style THEN e ELSE MarkDirty([e EXCEPT !.style[id] = style], {id})

EngineSetStyle(e, id, style) ==
    SetBackendStyle(IF e.root.id = id THEN [e EXCEPT !.root.style = style] ELSE e, id, style)

\* Children that had another parent leave it, which makes that parent dirty as well.
EngineSetChildren(e, parent, children) ==
    LET lose == {p \in DOMAIN e.kids \ {parent} : Range(e.kids[p]) \cap Range(children) # {}}
        kids == [p \in DOMAIN e.kids |->
                    IF p = parent THEN children ELSE Without(e.kids[p], Range(children))]
    IN  IF e.kids[parent] = children THEN e
        ELSE [MarkDirty(e, lose \cup {parent}) EXCEPT !.kids = kids]

EngineRemove(e, id) ==
    LET Rest(f) == [x \in DOMAIN f \ {id} |-> f[x]]
    IN  [made |-> TRUE, kids |-> [p \in DOMAIN e.kids \ {id} |-> Without(e.kids[p], {id})],
         style |-> Rest(e.style), cache |-> Rest(e.cache), geometry |-> Rest(e.geometry),
         root |-> IF e.root.id = id THEN NoRoot ELSE e.root]

\* Mutation: only a style that differs makes the previous root dirty.
LeaveUnmarked(e, s, root) ==
    IF e.root.id = root \/ e.root.id \notin Live(s) THEN e
    ELSE SetBackendStyle(e, e.root.id, e.root.style)

\* The previous root gets its own style back, and is laid out again under its parent:
\* as a root it was placed at the origin.
LeavePreviousRoot(e, s, root) ==
    IF e.root.id = root \/ e.root.id \notin Live(s) THEN e
    ELSE MarkDirty(SetBackendStyle(e, e.root.id, e.root.style), {e.root.id})

Effective(style, viewport) == IF style = "auto" THEN viewport ELSE style

PrepareRoot(e, s, root, viewport) ==
    LET style == NodeAt(s, root).style
        left  == LeavePreviousRoot(e, s, root)
    IN  [SetBackendStyle(left, root, Effective(style, viewport))
            EXCEPT !.root = [id |-> root, style |-> style]]

--------------------------------------------------------------------------------
(* taffy: the parent of a node decides on its space and writes its place.  *)

\* The space that is left to a node: that of the nearest node above it that has its own.
\* The root always has (Effective).
SpaceAt(kids, style, root, viewport, id) ==
    LET over == {x \in (Above(kids, {id}) \cap Below(kids, root)) \ {id} : style[x] # "auto"}
    IN  IF id = root THEN {viewport}
        ELSE {style[x] : x \in {y \in over : over \subseteq Above(kids, {y})}}

Place(kids, id) ==
    LET list == kids[CHOOSE p \in DOMAIN kids : id \in Range(kids[p])]
    IN  CHOOSE k \in DOMAIN list : list[k] = id

\* What a node contributes to its own output and to those of the nodes above it.
Own(s, kids, style, id) ==
    [id |-> id, style |-> style[id], kids |-> kids[id],
     text |-> IF kids[id] = <<>> THEN {NodeAt(s, id).text} ELSE {}]

\* A node with a cached output for its space is not entered, whatever is below it; the
\* children of a node that is entered are visited, and then placed.
Perform(e, s, root, viewport) ==
    LET kids == e.kids
        space == [id \in Below(kids, root) |-> SpaceAt(kids, e.style, root, viewport, id)]
        stale == {id \in DOMAIN space : ~\E out \in e.cache[id] : out.space = space[id]}
        entered == Reach([id \in stale |-> Range(kids[id]) \cap stale], {root} \cap stale)
        visited == {root} \cup UNION {Range(kids[id]) : id \in entered}
        reads(id) == IF id \in entered THEN {Own(s, kids, e.style, id)}
                     ELSE UNION {out.reads : out \in e.cache[id]}
        output == [id \in visited |->
                      [space |-> space[id], reads |-> UNION {reads(x) : x \in Below(kids, id) \cap visited}]]
    IN  [e EXCEPT
            !.cache = [id \in DOMAIN @ |-> IF id \in entered THEN {output[id]} ELSE @[id]],
            !.geometry = [id \in DOMAIN @ |->
                IF id \in visited
                THEN {[place |-> IF id = root THEN 0 ELSE Place(kids, id), out |-> output[id]]}
                ELSE @[id]]]

EngineCompute(e, s, root, viewport) == Perform(PrepareRoot(e, s, root, viewport), s, root, viewport)

--------------------------------------------------------------------------------
(* The retained tree: values of trees[h], with an engine of their own.     *)

NothingComputed == [root |-> NoId, viewport |-> "none"]
EmptyTree == [nodes |-> EmptyStore, engine |-> NoEngine, layouts |-> <<>>,
              last |-> NothingComputed, removed |-> {}]

Known(t) == Live(t.nodes)
Entry(t, id) == NodeAt(t.nodes, id)
ParentOf(t, id) == Entry(t, id).parent

Forget(t) == [t EXCEPT !.layouts = [i \in DOMAIN @ |-> {}], !.last = NothingComputed]

Added(t, look) ==
    LET id == NextId(t.nodes)
    IN  [t EXCEPT !.nodes = InsertNode(@, NodeWith(look)),
                  !.engine = EngineAdd(@, id, look.style),
                  !.layouts = IF id[1] > Len(@) THEN Append(@, {}) ELSE [@ EXCEPT ![id[1]] = {}]]

Dropped(t, id) ==
    [t EXCEPT !.nodes = RemoveId(@, id), !.engine = EngineRemove(@, id),
              !.layouts[id[1]] = {}, !.removed = @ \cup {id}]

\* remove_subtree, for a list of calls: an id, and the parent it must still have.  A call
\* that removes its id makes the same calls for the children, before those that wait.
RemoveStep(w) ==
    IF w.calls = <<>> THEN w
    ELSE LET id == w.calls[1][1]
             parent == w.calls[1][2]
             children == Entry(w.tree, id).children
         IN  IF id \in Known(w.tree) /\ ParentOf(w.tree, id) = parent
             THEN [tree |-> Dropped(w.tree, id),
                   calls |-> [k \in 1..Len(children) |-> <<children[k], id>>] \o Tail(w.calls)]
             ELSE [w EXCEPT !.calls = Tail(@)]

RemoveSubtrees(t, calls) ==
    Iterate(LAMBDA w, k : RemoveStep(w), [tree |-> t, calls |-> calls],
            Len(t.nodes.node) + Len(calls)).tree

ValidChildren(t, parent, children) ==
    /\ Range(children) \subseteq Known(t)
    /\ IsInjective(children)
    /\ Range(children) \cap Ancestors(t.nodes, parent) = {}

\* The children that are left over, without a parent, are removed with what is below them.
ReplaceChildren(t, parent, children) ==
    LET old == Entry(t, parent).children
        linked == [t EXCEPT !.nodes = Linked(@, parent, children),
                            !.engine = EngineSetChildren(@, parent, children)]
    IN  Forget(RemoveSubtrees(linked, [k \in 1..Len(old) |-> <<old[k], NoId>>]))

Removed(t, id) ==
    LET parent == ParentOf(t, id)
        rest   == Without(Entry(t, parent).children, {id})
        apart  == IF parent = NoId THEN t
                  ELSE [t EXCEPT
                          !.nodes = SetNode(@, parent, [Entry(t, parent) EXCEPT !.children = rest]),
                          !.engine = EngineSetChildren(@, parent, rest)]
    IN  Forget(RemoveSubtrees(apart, << <<id, parent>> >>))

\* compute: collect_layouts reads the geometry of every node below the root.
Computed(t, root, viewport) ==
    LET e == EngineCompute(t.engine, t.nodes, root, viewport)
    IN  [t EXCEPT
            !.engine = e, !.last = [root |-> root, viewport |-> viewport],
            !.layouts = [i \in DOMAIN t.nodes.node |->
                IF IdAt(t.nodes, i) \in Below(ChildrenIn(t.nodes), root)
                THEN e.geometry[IdAt(t.nodes, i)] ELSE {}]]

--------------------------------------------------------------------------------
(* Actions.                                                                *)

\* Mutation: a mutation writes through to the engine that both trees hold.
WriteThrough(h, t) ==
    /\ trees' = [u \in Trees |-> IF u = h THEN t
                               ELSE IF shared THEN [trees[u] EXCEPT !.engine = t.engine] ELSE trees[u]]
    /\ UNCHANGED shared

\* Every mutation detaches a shared engine first: only the tree that is mutated sees it.
Write(h, t) ==
    /\ trees' = [trees EXCEPT ![h] = t]
    /\ shared' = FALSE

Edit(h, t) ==
    /\ edits < MaxEdits
    /\ edits' = edits + 1
    /\ Write(h, t)
    /\ UNCHANGED staging

HasSlot(t) == t.nodes.free # <<>> \/ Len(t.nodes.node) < MaxSlots

LayoutInit ==
    /\ trees = [h \in Trees |-> EmptyTree]
    /\ staging = FALSE /\ shared = FALSE /\ edits = 0

Add(h, look) ==
    /\ HasSlot(trees[h])
    /\ Edit(h, Added(trees[h], look))

AddWithChildren(h, look, children) ==
    /\ HasSlot(trees[h])
    /\ ValidChildren(trees[h], NoId, children)
    /\ LET t == Added(trees[h], look)
       IN  Edit(h, ReplaceChildren(t, NextId(trees[h].nodes), children))

SetStyle(h, id, style) ==
    LET t == trees[h]
    IN  Edit(h, Forget([t EXCEPT !.nodes = SetNode(@, id, [Entry(t, id) EXCEPT !.style = style]),
                                 !.engine = EngineSetStyle(@, id, style)]))

SetChildren(h, parent, children) ==
    /\ ValidChildren(trees[h], parent, children)
    /\ Edit(h, ReplaceChildren(trees[h], parent, children))

\* The caller changes what a leaf measures, and invalidates the node.
Retext(s, ids, text) ==
    [s EXCEPT !.node = [i \in DOMAIN @ |-> IF IdAt(s, i) \in ids /\ @[i] # NoNode
                                           THEN [@[i] EXCEPT !.text = text] ELSE @[i]]]

Invalidate(h, id, text) ==
    LET t == trees[h]
    IN  Edit(h, Forget([t EXCEPT !.nodes = Retext(@, {id}, text),
                                 !.engine = MarkDirty(@, {id})]))

\* The caller changes what every leaf measures (another width policy).
InvalidateAll(h, text) ==
    LET t == trees[h]
    IN  /\ Known(t) # {}
        /\ Edit(h, Forget([t EXCEPT !.nodes = Retext(@, Known(t), text),
                                    !.engine = MarkDirty(@, Known(t))]))

RemoveNode(h, id) == Edit(h, Removed(trees[h], id))

\* compute works on the engine that is shared, without detaching it.
Compute(h, root, viewport) ==
    LET t == Computed(trees[h], root, viewport)
    IN  /\ trees' = [u \in Trees |-> IF u = h THEN t
                                   ELSE IF shared THEN [trees[u] EXCEPT !.engine = t.engine]
                                   ELSE trees[u]]
        /\ UNCHANGED <<staging, shared, edits>>

\* A measurement callback of h adds a node to the other tree, whose engine is borrowed:
\* add rebuilds it from the nodes.  Every other mutation answers with an error there.
ComputeWhileAdding(h, root, viewport, look) ==
    LET other == CHOOSE u \in Trees : u # h
        t     == trees[other]
    IN  /\ shared /\ HasSlot(t) /\ edits < MaxEdits
        /\ trees' = [u \in Trees |-> IF u = h THEN Computed(trees[h], root, viewport)
                       ELSE Added([t EXCEPT !.engine = FromNodes(t.nodes)], look)]
        /\ shared' = FALSE
        /\ edits' = edits + 1
        /\ UNCHANGED staging

\* clone_for_staging.  (clone, which copies the engine, gives what detaching gives later.)
Stage ==
    /\ ~staging
    /\ staging' = TRUE
    /\ trees' = [trees EXCEPT !["staged"] = trees["committed"]]
    /\ shared' = trees["committed"].engine.made
    /\ UNCHANGED edits

Settle(t) ==
    /\ staging
    /\ trees' = [committed |-> t, staged |-> EmptyTree]
    /\ staging' = FALSE /\ shared' = FALSE /\ UNCHANGED edits

Commit == Settle(trees["staged"])
Discard == Settle(trees["committed"])

\* UiTree mutates only the staged tree; on the committed one it calls invalidate (tree.rs:387)
\* while frames are prepared.
Mutate(h) ==
    \/ \E look \in NewLooks :
        \/ Add(h, look)
        \/ \E n \in 1..MaxSlots : \E children \in [1..n -> Known(trees[h])] :
              AddWithChildren(h, look, children)
    \/ \E id \in Known(trees[h]) :
        \/ \E style \in Styles : SetStyle(h, id, style)
        \/ \E n \in 0..MaxSlots : \E children \in [1..n -> Known(trees[h])] :
              SetChildren(h, id, children)
        \/ RemoveNode(h, id)
    \/ \E text \in Texts : InvalidateAll(h, text)

\* Once the engines are apart, what is done to one tree does not concern the other: steps
\* of the committed tree are then left to the time when no frame is staged.
Concerned == {h \in Trees : IF staging THEN h = "staged" \/ shared ELSE h = "committed"}

LayoutNext ==
    \/ staging /\ Mutate("staged")
    \/ \E h \in Concerned : \E id \in Known(trees[h]) :
        \/ staging /\ \E text \in Texts : Invalidate(h, id, text)
        \/ \E viewport \in Viewports :
            \/ Compute(h, id, viewport)
            \/ \E look \in NewLooks : ComputeWhileAdding(h, id, viewport, look)
    \/ Stage
    \/ Commit
    \/ Discard

LayoutSpec == LayoutInit /\ [][LayoutNext]_layoutVars

--------------------------------------------------------------------------------
(* Properties                                                              *)

\* The engine is derived from the nodes; only the last root may have a style of its own.
Mirrors(e, t) ==
    /\ DOMAIN e.kids = Known(t) /\ (~e.made => Known(t) = {})
    /\ \A id \in Known(t) :
        /\ e.kids[id] = Entry(t, id).children
        /\ Entry(t, id).style = IF e.root.id = id THEN e.root.style ELSE e.style[id]

TreeOK(t) ==
    /\ Len(t.nodes.node) = Len(t.nodes.generation) /\ Len(t.nodes.node) <= MaxSlots
    /\ Len(t.layouts) = Len(t.nodes.node)
    /\ Range(t.nodes.generation) \subseteq 0..MaxGeneration
    /\ Range(t.nodes.free) \subseteq {i \in DOMAIN t.nodes.node : t.nodes.node[i] = NoNode}
    /\ IsInjective(t.nodes.free)
    /\ t.removed \subseteq NodeIds
    /\ Mirrors(t.engine, t)
    /\ \A id \in Known(t) :
        /\ Entry(t, id).style \in Styles /\ Entry(t, id).text \in Texts
        /\ IsInjective(Entry(t, id).children)
        /\ Range(Entry(t, id).children) = {c \in Known(t) : ParentOf(t, c) = id}
        /\ ParentOf(t, id) \in Known(t) \cup {NoId}

\* Type invariant: the nodes of a tree are linked both ways, and its engine has a backend
\* node for each with the same children and style, whatever became of the tree it was
\* shared with; otherwise the expects on engine operations could fail.
LayoutTypeOK ==
    /\ staging \in BOOLEAN /\ shared \in BOOLEAN /\ edits \in 0..MaxEdits
    /\ \A h \in Trees : TreeOK(trees[h])
    /\ shared => staging /\ trees["staged"].engine = trees["committed"].engine

\* An id that was removed from a tree never names a node of it again, however often its
\* slot is used (tree.rs:14: a stable identity), and a removed generation is never reused.
RemovedStayUnknown == \A h \in Trees : trees[h].removed \cap Known(trees[h]) = {}

\* The reference: the layouts of the nodes below the root, computed from nothing.
FreshLayouts(t) ==
    LET root == t.last.root
        kids == ChildrenIn(t.nodes)
        style == [id \in Known(t) |-> IF id = root THEN Effective(Entry(t, id).style, t.last.viewport)
                                      ELSE Entry(t, id).style]
        Layout(id) == [place |-> IF id = root THEN 0 ELSE Place(kids, id),
                       out |-> [space |-> SpaceAt(kids, style, root, t.last.viewport, id),
                                reads |-> {Own(t.nodes, kids, style, x) : x \in Below(kids, id)}]]
    IN  [i \in DOMAIN t.nodes.node |-> IF IdAt(t.nodes, i) \in Below(kids, root)
                                       THEN {Layout(IdAt(t.nodes, i))} ELSE {}]

\* What layout() answers is what a computation from nothing would give for the tree's own
\* nodes: no cache of a shared engine, of an earlier root or viewport, or of a discarded
\* frame shows through, and after a mutation nothing is answered.
LayoutIsFresh ==
    \A h \in Trees : trees[h].layouts =
        IF trees[h].last = NothingComputed THEN [i \in DOMAIN trees[h].layouts |-> {}]
        ELSE FreshLayouts(trees[h])
================================================================================
