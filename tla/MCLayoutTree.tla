----------------------------- MODULE MCLayoutTree ------------------------------
(* Three slots, each with two lives, so that reparenting, pruning, recycling  *)
(* and retiring happen within MaxEdits mutations.                             *)
EXTENDS LayoutTree, TLC

PlainLook == {[style |-> "auto", text |-> 1]}
\* Nothing orders the viewports.
ViewportSymmetry == Permutations(Viewports)
================================================================================
