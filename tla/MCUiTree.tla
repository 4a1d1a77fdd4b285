------------------------------ MODULE MCUiTree ------------------------------
(* A background (1) that takes keys, a control (2), and a dialog (3) with a     *)
(* control of its own (4).  The dialog covers the control, but not all of the   *)
(* background.  The control may be replaced or hidden, and the terminal may be  *)
(* too small for the dialog.                                                    *)
EXTENDS UiTree, TLC

MCParent == <<0, 1, 1, 3>>
Base == [key |-> <<1, 1, 0, 0>>, visible |-> {1, 2}, focusable |-> {1, 2},
         scope |-> {}, modal |-> {}, hit |-> <<2, 1>>]
Open == [key |-> <<1, 1, 1, 1>>, visible |-> 1..4, focusable |-> {1, 2, 4},
         scope |-> {3}, modal |-> {3}, hit |-> <<4, 1>>]
Replaced == [Base EXCEPT !.key[2] = 2]
Collapsed == [Open EXCEPT !.visible = {1}, !.hit = <<1, 1>>]
MCViews == {Base, Open, Replaced, Collapsed}

Symmetry == Permutations(Buttons)
============================================================================
