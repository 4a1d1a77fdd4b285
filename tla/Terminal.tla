------------------------------- MODULE Terminal -------------------------------
(***************************************************************************)
(* The terminal at the far end of the crossterm backend's writer, as far   *)
(* as that backend relies on it: modes, a keyboard stack and an image      *)
(* store per screen, and a parser that a control string cut short leaves   *)
(* inside that string.  A command is a pair of its kind and its argument;  *)
(* <<"torn", kind, argument>> is a command of which only a part was sent,  *)
(* and a "note" is no command, and leaves no trace.                        *)
(* Images are pairs of a wire id and a picture.                            *)
(***************************************************************************)
EXTENDS Naturals, Sequences

Screens == {"main", "alternate"}
Fresh == [screen |-> "main", keyboard |-> [s \in Screens |-> 0], mouse |-> "off",
          paste |-> FALSE, nowrap |-> FALSE, title |-> "shell", cursor |-> "shown",
          sync |-> FALSE, parser |-> "ground", images |-> {}, upload |-> <<>>,
          foreign |-> TRUE, cells |-> "lost"]

Kitty == {"delete", "first", "last"}   \* APC strings, each with its terminator

\* An image command on the main screen hits what another client keeps there.
Graphics(t, kind, arg) ==
    IF t.screen = "main" THEN [t EXCEPT !.foreign = FALSE]
    ELSE CASE kind = "delete" -> [t EXCEPT !.images = {i \in @ : i[1] # arg}, !.upload = <<>>]
           [] kind = "first"  -> [t EXCEPT !.upload = IF @ = <<>> THEN arg ELSE <<0, "mixed">>]
           [] kind = "last"   -> IF t.upload = arg
                                 THEN [t EXCEPT !.images = {i \in @ : i[1] # arg[1]} \cup {arg},
                                                !.upload = <<>>]
                                 ELSE [t EXCEPT !.upload = <<0, "mixed">>]

Understood(t, kind, arg) ==
    CASE kind \in Kitty -> Graphics(t, kind, arg)
      [] kind = "screen" -> [t EXCEPT !.screen = arg, !.cells = IF t.screen = arg THEN @ ELSE "lost"]
      [] kind = "keyboard" ->
            [t EXCEPT !.keyboard[t.screen] = IF arg = "push" THEN @ + 1 ELSE IF @ > 0 THEN @ - 1 ELSE 0]
      [] kind = "mouse"  -> [t EXCEPT !.mouse = arg]
      [] kind = "paste"  -> [t EXCEPT !.paste = arg]
      [] kind = "nowrap" -> [t EXCEPT !.nowrap = arg]
      [] kind = "title"  -> [t EXCEPT !.title = arg]
      [] kind = "cursor" -> [t EXCEPT !.cursor = arg]
      [] kind = "sync"   -> [t EXCEPT !.sync = arg]
      [] kind = "erase"  -> [t EXCEPT !.cells = "erased"]
      [] kind = "cells"  -> [t EXCEPT !.cells = IF @ = (IF arg THEN "erased" ELSE "good")
                                                   THEN "good" ELSE "lost"]
      [] OTHER -> t

\* Only the strings and the text leave something behind when they are cut; of
\* the several modes of one mouse command some are set.
Cut(t, kind, arg) ==
    CASE kind = "title" -> [t EXCEPT !.parser = "osc"]
      [] kind \in Kitty -> [t EXCEPT !.parser = "apc",
                                     !.upload = IF kind = "first" THEN arg ELSE @]
      [] kind = "mouse" -> [t EXCEPT !.mouse = "partial"]
      [] kind = "cells" -> [t EXCEPT !.cells = "lost"]
      [] OTHER -> t

\* Inside a string everything up to its terminator is swallowed.
Ended(t) == [t EXCEPT !.parser = "ground", !.title = IF t.parser = "osc" THEN "garbled" ELSE @]
Swallowed(t, kind) ==
    IF kind \in Kitty \cup {"ST"} \/ (kind = "title" /\ t.parser = "osc") THEN Ended(t)
    ELSE IF kind = "cells" THEN [t EXCEPT !.cells = "lost"] ELSE t

Receive(t, c) ==
    IF c[1] = "torn" THEN IF t.parser = "ground" THEN Cut(t, c[2], c[3]) ELSE t
    ELSE IF t.parser = "ground" THEN Understood(t, c[1], c[2]) ELSE Swallowed(t, c[1])

ReceiveAll(t, commands) ==
    LET after[n \in 0..Len(commands)] ==
            IF n = 0 THEN t ELSE Receive(after[n - 1], commands[n])
    IN  after[Len(commands)]
=============================================================================
