-------------------------- MODULE BoundedChannel --------------------------
(***************************************************************************)
(* What the external message ingress of the runtime promises its callers:  *)
(* a first-in first-out channel of bounded depth that can be shut once.    *)
(* `history' is everything ever admitted and `taken' counts how much of it *)
(* the single receiver has had, so the waiting messages are the rest of    *)
(* `history'.  Shutting the channel gives up the messages still waiting.   *)
(***************************************************************************)
EXTENDS Naturals, Sequences

CONSTANTS Message,   \* what a producer may send
          Depth      \* most messages that may wait at once

VARIABLES history, taken, open

chan == <<history, taken, open>>

Init ==
    /\ history = <<>>
    /\ taken = 0
    /\ open = TRUE

Put(m) ==
    /\ open
    /\ Len(history) - taken < Depth
    /\ history' = Append(history, m)
    /\ UNCHANGED <<taken, open>>

Take ==
    /\ open
    /\ taken < Len(history)
    /\ taken' = taken + 1
    /\ UNCHANGED <<history, open>>

Shut ==
    /\ open
    /\ open' = FALSE
    /\ UNCHANGED <<history, taken>>

Next == (\E m \in Message : Put(m)) \/ Take \/ Shut

Spec == Init /\ [][Next]_chan

\* An admitted message is delivered unless the channel is shut first.
FairSpec == Spec /\ WF_chan(Take)
===========================================================================
