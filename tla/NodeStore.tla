------------------------------- MODULE NodeStore -------------------------------
(***************************************************************************)
(* NodeStore of arborui-layout: a vector of slots with generations and a   *)
(* stack of free slots.  A LayoutNodeId is a pair of index and generation; *)
(* a slot whose generation is exhausted (u64::MAX, here MaxGeneration) is  *)
(* retired instead of recycled.  The store is a value, and its methods are *)
(* operators on it.                                                        *)
(***************************************************************************)
EXTENDS Naturals, Sequences

CONSTANTS MaxGeneration, NoNode

ASSUME GenerationAssumption == MaxGeneration \in Nat

EmptyStore == [generation |-> <<>>, node |-> <<>>, free |-> <<>>]

IdAt(s, i) == <<i, s.generation[i]>>
Live(s) == {IdAt(s, i) : i \in {j \in DOMAIN s.node : s.node[j] # NoNode}}

\* Only for an id in Live(s): get answers None for every other.
NodeAt(s, id) == s.node[id[1]]
SetNode(s, id, node) == [s EXCEPT !.node[id[1]] = node]

\* The id that the next insertion hands out.
NextId(s) ==
    IF s.free = <<>> THEN <<Len(s.node) + 1, 0>> ELSE IdAt(s, s.free[Len(s.free)])

InsertNode(s, node) ==
    IF s.free = <<>>
    THEN [generation |-> Append(s.generation, 0), node |-> Append(s.node, node), free |-> <<>>]
    ELSE [s EXCEPT !.node[s.free[Len(s.free)]] = node,
                   !.free = SubSeq(@, 1, Len(@) - 1)]

\* Mutation: a recycled slot keeps its generation.
RemoveKeeps(s, id) ==
    IF id \notin Live(s) THEN s
    ELSE [s EXCEPT !.node[id[1]] = NoNode, !.free = Append(@, id[1])]

RemoveId(s, id) ==
    IF id \notin Live(s) THEN s
    ELSE IF s.generation[id[1]] < MaxGeneration
    THEN [generation |-> [s.generation EXCEPT ![id[1]] = @ + 1],
          node |-> [s.node EXCEPT ![id[1]] = NoNode],
          free |-> Append(s.free, id[1])]
    ELSE [s EXCEPT !.node[id[1]] = NoNode]
================================================================================
