--------------------------------- MODULE Loops ---------------------------------
(***************************************************************************)
(* What the loops of the models are written with: a number of steps, the   *)
(* elements of a sequence at some indices, and the least set that is       *)
(* closed under a function.                                                *)
(***************************************************************************)
EXTENDS Integers, Sequences

\* n steps, the first of them from c.
Iterate(Step(_, _), c, n) ==
    LET after[m \in 0..n] == IF m = 0 THEN c ELSE Step(after[m - 1], m)
    IN  after[n]

\* What is at some indices, in its order.
Pick(scene, indices) ==
    Iterate(LAMBDA picked, k : IF k \in indices THEN Append(picked, scene[k]) ELSE picked,
            <<>>, Len(scene))

\* The points of a graph that can be reached from some of them: no closed set keeps them out.
Reach(to, from) ==
    {x \in DOMAIN to : \A S \in SUBSET (DOMAIN to \ {x}) :
                          from \subseteq S => \E y \in S : ~(to[y] \subseteq S)}
================================================================================
