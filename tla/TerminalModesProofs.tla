------------------------- MODULE TerminalModesProofs -------------------------
(***************************************************************************)
(* For any wanted states, pictures, width of the wire ids and number of    *)
(* faults, at any byte, and with a buffered writer or an unbuffered one: a *)
(* terminal given back is clean, a state applied and a frame written are   *)
(* on the terminal, the main screen's images are left alone, and one fault *)
(* at the end is survived.  The owner is a careful one.                    *)
(***************************************************************************)
EXTENDS TerminalApplyProofs

-----------------------------------------------------------------------------
(* Clear.                                                                  *)

LEMMA FailedIs ==
    ASSUME b \in Backends, NEW k \in Backends, NEW j, j = ClearFailed(k)
    PROVE  /\ j \in Backends /\ j.active = k.active /\ j.confirmed = k.confirmed /\ j.pushed = k.pushed
           /\ j.owned = k.owned /\ j.mapping = k.mapping /\ j.syncPending = k.syncPending /\ j.raw = k.raw
           /\ j.mouseUnconfirmed = k.mouseUnconfirmed /\ j.titleUnconfirmed = k.titleUnconfirmed
           /\ j.lifecycleUncertain = k.lifecycleUncertain
           /\ (j.kittyUncertain <=> k.kittyUncertain \/ b.owned # {})
<1>1. PICK r \in BOOLEAN : r <=> k.kittyUncertain \/ b.owned # {}
  OBVIOUS
<1>2. j = [k EXCEPT !.kittyUncertain = r]
  <2>1. r = (k.kittyUncertain \/ b.owned # {})
    BY <1>1 DEF Backends
  <2> QED BY <2>1 DEF ClearFailed
<1> QED BY <1>1, <1>2 DEF Backends

\* What holds wherever the commands of restore are stopped.
ClearBase(t, k) ==
    /\ Known(t, ClearFailed(k), TRUE) /\ k.active = b.active /\ k.confirmed = b.confirmed
    /\ k.mapping = b.mapping /\ k.owned = b.owned /\ k.raw = b.raw
    /\ k.kittyUncertain = b.kittyUncertain /\ k.syncPending = b.syncPending

\* The images and the keyboard are cleared, and n of the other modes.
Emptied(t, k) ==
    /\ ClearBase(t, k) /\ t.parser = "ground" /\ ~t.sync /\ t.images = {} /\ t.upload = <<>>
    /\ t.keyboard["main"] = 0 /\ t.keyboard["alternate"] = 0 /\ ~k.pushed
Cleared(t, k, n) ==
    /\ Emptied(t, k)
    /\ n >= 1 => t.mouse = "off"
    /\ n < 1 => k.mouseUnconfirmed = b.mouseUnconfirmed
    /\ n >= 2 => ~t.paste
    /\ n >= 3 => t.screen = "main"
    /\ n >= 4 => ~t.nowrap
    /\ n >= 5 => TitleIs(t.title, "none")
    /\ n < 5 => k.titleUnconfirmed = b.titleUnconfirmed
    /\ n >= 6 => t.cursor = "shown"

ClearR == {z \in Terminals \X Backends : ClearBase(z[1], z[2])}
ClearPairs(n) == {z \in Terminals \X Backends : Cleared(z[1], z[2], n)}

LEMMA ClearPairsAre ==
    /\ \A n : \A z \in ClearPairs(n) : /\ <<z[1], z[2]>> = z /\ z[1] \in Terminals /\ z[2] \in Backends
                                       /\ Cleared(z[1], z[2], n)
    /\ \A n : \A t \in Terminals, k \in Backends : Cleared(t, k, n) => <<t, k>> \in ClearPairs(n)
    /\ \A t \in Terminals, k \in Backends : ClearBase(t, k) => <<t, k>> \in ClearR
BY DEF ClearPairs, ClearR

\* A command of a mode, when the images and the keyboard are cleared.
LEMMA ClearedBase ==
    ASSUME b \in Backends, NEW t \in Terminals, NEW k \in Backends, NEW u \in Terminals, NEW j \in Backends,
           ClearBase(t, k), t.images = {}, t.upload = <<>>,
           t.keyboard["main"] = 0, t.keyboard["alternate"] = 0, ~k.pushed,
           u.keyboard = t.keyboard, u.images = t.images, u.upload = t.upload, u.foreign = t.foreign,
           u.sync = t.sync, u.screen = t.screen \/ u.screen = "main", u.parser # "apc",
           u.parser = "osc" => j.lifecycleUncertain /\ j.titleUnconfirmed,
           j.active = k.active, j.confirmed = k.confirmed, j.mapping = k.mapping, j.owned = k.owned,
           j.raw = k.raw, j.kittyUncertain = k.kittyUncertain, j.syncPending = k.syncPending,
           j.pushed = k.pushed, KnowsModes(u, j, TRUE)
    PROVE  ClearBase(u, j)
<1> DEFINE x == ClearFailed(k)
           y == ClearFailed(j)
<1>1. /\ x \in Backends /\ x.active = k.active /\ x.confirmed = k.confirmed /\ x.pushed = k.pushed
      /\ x.owned = k.owned /\ x.syncPending = k.syncPending
      /\ (x.kittyUncertain <=> k.kittyUncertain \/ b.owned # {})
  BY FailedIs
<1>2. /\ y \in Backends /\ y.active = j.active /\ y.confirmed = j.confirmed /\ y.pushed = j.pushed
      /\ y.owned = j.owned /\ y.syncPending = j.syncPending
      /\ y.mouseUnconfirmed = j.mouseUnconfirmed /\ y.titleUnconfirmed = j.titleUnconfirmed
      /\ y.lifecycleUncertain = j.lifecycleUncertain
      /\ (y.kittyUncertain <=> j.kittyUncertain \/ b.owned # {})
  BY FailedIs
<1>3. Known(t, x, TRUE) /\ k.owned = b.owned
  BY DEF ClearBase
<1> HIDE DEF x, y
<1>4. KnowsWriting(u, y) /\ Enhanced(y)
  BY <1>1, <1>2, <1>3 DEF Known, KnowsWriting, Enhanced
<1>5. KnowsScreen(u, y, TRUE)
  <2>1. CASE y.kittyUncertain
    <3>1. x.kittyUncertain
      BY <1>1, <1>2, <2>1
    <3>2. y.active.screen = "alternate"
      BY <1>1, <1>2, <1>3, <3>1 DEF Known, KnowsScreen
    <3> QED BY <2>1, <3>2 DEF KnowsScreen
  <2>2. CASE ~y.kittyUncertain
    <3>1. ~x.kittyUncertain /\ b.owned = {}
      BY <1>1, <1>2, <2>2
    <3>2. Kept(t.screen, x.active.screen, x.confirmed.screen, "main", TRUE)
      BY <1>3, <3>1 DEF Known, KnowsScreen
    <3>3. u.screen = y.active.screen \/ u.screen = "main"
      BY <1>1, <1>2, <3>2 DEF Kept
    <3>4. Kept(u.screen, y.active.screen, y.confirmed.screen, "main", TRUE)
      BY <3>3 DEF Kept
    <3>5. Keys(u, u.screen, y.pushed)
      BY <1>2 DEF Keys, Screens, Terminals
    <3> QED BY <1>2, <1>3, <2>2, <3>1, <3>4, <3>5 DEF KnowsScreen
  <2> QED BY <2>1, <2>2
<1>6. KnowsModes(u, y, TRUE)
  BY <1>2 DEF KnowsModes
<1>7. KnowsImages(u, y)
  BY <1>1, <1>2, <1>3 DEF Known, KnowsImages, Ids
<1>8. Known(u, y, TRUE)
  BY <1>4, <1>5, <1>6, <1>7 DEF Known
<1> QED BY <1>8 DEF ClearBase, y

LEMMA ClearedModes ==
    ASSUME b \in Backends, NEW t, NEW k \in Backends, ClearBase(t, k)
    PROVE  KnowsModes(t, k, TRUE)
<1> DEFINE x == ClearFailed(k)
<1>1. x.active = k.active /\ x.confirmed = k.confirmed /\ x.mouseUnconfirmed = k.mouseUnconfirmed
      /\ x.titleUnconfirmed = k.titleUnconfirmed
  BY FailedIs
<1>2. KnowsModes(t, x, TRUE)
  BY DEF ClearBase, Known
<1> HIDE DEF x
<1> QED BY <1>1, <1>2 DEF KnowsModes

LEMMA ClearDone ==
    ASSUME NEW k, NEW c \in Given, c[1] \in {"mouse", "title"}
    PROVE  Done(k, c, "clear") = Attempt(k, c)
BY DoneIs

LEMMA ClearedParts ==
    ASSUME NEW t, NEW k, NEW n, Cleared(t, k, n)
    PROVE  /\ ClearBase(t, k) /\ t.parser = "ground" /\ ~t.sync /\ t.images = {} /\ t.upload = <<>>
           /\ t.keyboard["main"] = 0 /\ t.keyboard["alternate"] = 0 /\ ~k.pushed
<1>1. Emptied(t, k)
  BY DEF Cleared
<1> QED BY <1>1 DEF Emptied

LEMMA MouseOff ==
    ASSUME b \in Backends, NEW t \in Terminals, NEW k \in Backends, Cleared(t, k, 0),
           NEW c, c = <<"mouse", "off">>
    PROVE  /\ Cleared(Receive(t, c), Done(k, c, "clear"), 1)
           /\ ClearBase(t, Attempt(k, c)) /\ ClearBase(Receive(t, Torn(c)), Attempt(k, c))
<1> DEFINE u == Receive(t, c)
           v == Receive(t, Torn(c))
           j == Attempt(k, c)
           kind == "clear"
<1>1. c \in Given /\ c[1] = "mouse" /\ c[2] = "off"
  BY SomeCommands, CommandIsGiven
<1>2. /\ ClearBase(t, k) /\ t.parser = "ground" /\ ~t.sync /\ t.images = {} /\ t.upload = <<>>
      /\ t.keyboard["main"] = 0 /\ t.keyboard["alternate"] = 0 /\ ~k.pushed
  BY ClearedParts
<1>3. /\ u = [t EXCEPT !.mouse = "off"] /\ v = [t EXCEPT !.mouse = "partial"]
      /\ u \in Terminals /\ v \in Terminals
  <2>1. v = [t EXCEPT !.mouse = "partial"]
    BY <1>1, <1>2, TornGrounded, ZenonT(40)
  <2>2. u = [t EXCEPT !.mouse = c[2]]
    BY <1>1, <1>2, Grounded
  <2>3. u \in Terminals /\ v \in Terminals
    BY <1>1, GivenTyped, TornTyped
  <2> HIDE DEF u, v
  <2> QED BY <1>1, <2>1, <2>2, <2>3
<1>4. Done(k, c, kind) = j /\ j = [k EXCEPT !.mouseUnconfirmed = TRUE]
  <2>1. Done(k, c, kind) = j
    BY <1>1, ClearDone
  <2>2. j = [k EXCEPT !.mouseUnconfirmed = TRUE]
    BY <1>1, AttemptTyped
  <2> QED BY <2>1, <2>2
<1> HIDE DEF u, v, j
<1>5. /\ u.screen = t.screen /\ u.keyboard = t.keyboard /\ u.images = t.images
      /\ u.upload = t.upload /\ u.foreign = t.foreign /\ u.sync = t.sync /\ u.parser = t.parser
      /\ u.paste = t.paste /\ u.nowrap = t.nowrap /\ u.title = t.title /\ u.cursor = t.cursor
      /\ u.mouse = "off"
  BY <1>3 DEF Terminals
<1>6. /\ v.screen = t.screen /\ v.keyboard = t.keyboard /\ v.images = t.images
      /\ v.upload = t.upload /\ v.foreign = t.foreign /\ v.sync = t.sync /\ v.parser = t.parser
      /\ v.paste = t.paste /\ v.nowrap = t.nowrap /\ v.title = t.title
  BY <1>3 DEF Terminals
<1>7. /\ j \in Backends /\ j.active = k.active /\ j.confirmed = k.confirmed /\ j.pushed = k.pushed
      /\ j.owned = k.owned /\ j.mapping = k.mapping /\ j.syncPending = k.syncPending /\ j.raw = k.raw
      /\ j.mouseUnconfirmed /\ j.titleUnconfirmed = k.titleUnconfirmed
      /\ j.lifecycleUncertain = k.lifecycleUncertain /\ j.kittyUncertain = k.kittyUncertain
  BY <1>4 DEF Backends
<1>8. KnowsModes(t, k, TRUE)
  BY <1>2, ClearedModes
<1>9. KnowsModes(u, j, TRUE) /\ KnowsModes(v, j, TRUE) /\ KnowsModes(t, j, TRUE)
  BY <1>5, <1>6, <1>7, <1>8 DEF KnowsModes
<1>10. ClearBase(u, j)
  BY <1>2, <1>3, <1>5, <1>7, <1>9, ClearedBase
<1>11. ClearBase(v, j)
  BY <1>2, <1>3, <1>6, <1>7, <1>9, ClearedBase
<1>12. ClearBase(t, j)
  BY <1>2, <1>7, <1>9, ClearedBase
<1>20. Emptied(u, j)
  BY <1>2, <1>5, <1>7, <1>10 DEF Emptied
<1>13. Cleared(u, j, 1)
  BY <1>5, <1>7, <1>20 DEF Cleared
<1> QED BY <1>4, <1>11, <1>12, <1>13 DEF u, v, j

LEMMA PasteOff ==
    ASSUME b \in Backends, NEW t \in Terminals, NEW k \in Backends, Cleared(t, k, 1),
           NEW c, c = <<"paste", FALSE>>
    PROVE  /\ Cleared(Receive(t, c), Done(k, c, "clear"), 2)
           /\ ClearBase(t, Attempt(k, c)) /\ ClearBase(Receive(t, Torn(c)), Attempt(k, c))
<1> DEFINE u == Receive(t, c)
           v == Receive(t, Torn(c))
           kind == "clear"
<1>1. c \in Given /\ c[1] = "paste" /\ c[2] = FALSE
  BY SomeCommands, CommandIsGiven DEF Screens
<1>2. /\ ClearBase(t, k) /\ t.parser = "ground" /\ ~t.sync /\ t.images = {} /\ t.upload = <<>>
      /\ t.keyboard["main"] = 0 /\ t.keyboard["alternate"] = 0 /\ ~k.pushed
  BY ClearedParts
<1>3. /\ u \in Terminals /\ v = t /\ u.screen = t.screen /\ u.keyboard = t.keyboard /\ u.images = t.images
      /\ u.upload = t.upload /\ u.foreign = t.foreign /\ u.sync = t.sync /\ u.parser = t.parser
      /\ u.mouse = t.mouse /\ u.nowrap = t.nowrap /\ u.title = t.title /\ u.cursor = t.cursor
      /\ u.paste = FALSE
  <2>1. u = [t EXCEPT !.paste = c[2]]
    BY <1>1, <1>2, Grounded
  <2>2. v = t
    BY <1>1, <1>2, TornGrounded, ZenonT(40)
  <2>3. u \in Terminals
    BY <1>1, GivenTyped
  <2> HIDE DEF u, v
  <2> QED BY <1>1, <2>1, <2>2, <2>3, ZenonT(40) DEF Terminals
<1>4. Done(k, c, kind) = k /\ Attempt(k, c) = k
  BY <1>1, Silent
<1> HIDE DEF u, v
<1>5. KnowsModes(t, k, TRUE)
  BY <1>2, ClearedModes
<1>6. KnowsModes(u, k, TRUE)
  BY <1>3, <1>5 DEF KnowsModes, Kept, TitleKept
<1>7. ClearBase(u, k)
  BY <1>2, <1>3, <1>6, ClearedBase
<1>20. Emptied(u, k)
  BY <1>2, <1>3, <1>7 DEF Emptied
<1>8. Cleared(u, k, 2)
  <2>1. t.mouse = "off"
    BY DEF Cleared
  <2>2. k.titleUnconfirmed = b.titleUnconfirmed
    BY DEF Cleared
  <2> QED BY <1>3, <1>20, <2>1, <2>2 DEF Cleared
<1> QED BY <1>2, <1>3, <1>4, <1>8 DEF u, v

LEMMA ScreenOff ==
    ASSUME b \in Backends, NEW t \in Terminals, NEW k \in Backends, Cleared(t, k, 2),
           NEW c, c = <<"screen", "main">>
    PROVE  /\ Cleared(Receive(t, c), Done(k, c, "clear"), 3)
           /\ ClearBase(t, Attempt(k, c)) /\ ClearBase(Receive(t, Torn(c)), Attempt(k, c))
<1> DEFINE u == Receive(t, c)
           v == Receive(t, Torn(c))
           kind == "clear"
<1>1. c \in Given /\ c[1] = "screen" /\ c[2] = "main"
  BY SomeCommands, CommandIsGiven DEF Screens
<1>2. /\ ClearBase(t, k) /\ t.parser = "ground" /\ ~t.sync /\ t.images = {} /\ t.upload = <<>>
      /\ t.keyboard["main"] = 0 /\ t.keyboard["alternate"] = 0 /\ ~k.pushed
  BY ClearedParts
<1>3. /\ u \in Terminals /\ v = t /\ u.screen = "main" /\ u.keyboard = t.keyboard /\ u.images = t.images
      /\ u.upload = t.upload /\ u.foreign = t.foreign /\ u.sync = t.sync /\ u.parser = t.parser
      /\ u.mouse = t.mouse /\ u.paste = t.paste /\ u.nowrap = t.nowrap /\ u.title = t.title
      /\ u.cursor = t.cursor
  BY <1>1, <1>2, Switches DEF Screens
<1>4. Done(k, c, kind) = k /\ Attempt(k, c) = k
  BY <1>1, Silent
<1> HIDE DEF u, v
<1>5. KnowsModes(t, k, TRUE)
  BY <1>2, ClearedModes
<1>6. KnowsModes(u, k, TRUE)
  BY <1>3, <1>5 DEF KnowsModes, Kept, TitleKept
<1>7. ClearBase(u, k)
  BY <1>2, <1>3, <1>6, ClearedBase
<1>20. Emptied(u, k)
  BY <1>2, <1>3, <1>7 DEF Emptied
<1>8. Cleared(u, k, 3)
  <2>1. t.mouse = "off" /\ ~t.paste
    BY DEF Cleared
  <2>2. k.titleUnconfirmed = b.titleUnconfirmed
    BY DEF Cleared
  <2> QED BY <1>3, <1>20, <2>1, <2>2 DEF Cleared
<1> QED BY <1>2, <1>3, <1>4, <1>8 DEF u, v

LEMMA NowrapOff ==
    ASSUME b \in Backends, NEW t \in Terminals, NEW k \in Backends, Cleared(t, k, 3),
           NEW c, c = <<"nowrap", FALSE>>
    PROVE  /\ Cleared(Receive(t, c), Done(k, c, "clear"), 4)
           /\ ClearBase(t, Attempt(k, c)) /\ ClearBase(Receive(t, Torn(c)), Attempt(k, c))
<1> DEFINE u == Receive(t, c)
           v == Receive(t, Torn(c))
           kind == "clear"
<1>1. c \in Given /\ c[1] = "nowrap" /\ c[2] = FALSE
  BY SomeCommands, CommandIsGiven DEF Screens
<1>2. /\ ClearBase(t, k) /\ t.parser = "ground" /\ ~t.sync /\ t.images = {} /\ t.upload = <<>>
      /\ t.keyboard["main"] = 0 /\ t.keyboard["alternate"] = 0 /\ ~k.pushed
  BY ClearedParts
<1>3. /\ u \in Terminals /\ v = t /\ u.screen = t.screen /\ u.keyboard = t.keyboard /\ u.images = t.images
      /\ u.upload = t.upload /\ u.foreign = t.foreign /\ u.sync = t.sync /\ u.parser = t.parser
      /\ u.mouse = t.mouse /\ u.paste = t.paste /\ u.title = t.title /\ u.cursor = t.cursor
      /\ u.nowrap = FALSE
  <2>1. u = [t EXCEPT !.nowrap = c[2]]
    BY <1>1, <1>2, Grounded
  <2>2. v = t
    BY <1>1, <1>2, TornGrounded, ZenonT(40)
  <2>3. u \in Terminals
    BY <1>1, GivenTyped
  <2> HIDE DEF u, v
  <2> QED BY <1>1, <2>1, <2>2, <2>3, ZenonT(40) DEF Terminals
<1>4. Done(k, c, kind) = k /\ Attempt(k, c) = k
  BY <1>1, Silent
<1> HIDE DEF u, v
<1>5. KnowsModes(t, k, TRUE)
  BY <1>2, ClearedModes
<1>6. KnowsModes(u, k, TRUE)
  BY <1>3, <1>5 DEF KnowsModes, Kept, TitleKept
<1>7. ClearBase(u, k)
  BY <1>2, <1>3, <1>6, ClearedBase
<1>20. Emptied(u, k)
  BY <1>2, <1>3, <1>7 DEF Emptied
<1>8. Cleared(u, k, 4)
  <2>1. t.mouse = "off" /\ ~t.paste /\ t.screen = "main"
    BY DEF Cleared
  <2>2. k.titleUnconfirmed = b.titleUnconfirmed
    BY DEF Cleared
  <2> QED BY <1>3, <1>20, <2>1, <2>2 DEF Cleared
<1> QED BY <1>2, <1>3, <1>4, <1>8 DEF u, v

LEMMA TitleCleared ==
    ASSUME NEW t, NEW k, Cleared(t, k, 4), NEW u, NEW j, Emptied(u, j), u.mouse = t.mouse,
           u.paste = t.paste, u.screen = t.screen, u.nowrap = t.nowrap, TitleIs(u.title, "none")
    PROVE  Cleared(u, j, 5)
<1>1. t.mouse = "off"
  BY DEF Cleared
<1>2. ~t.paste
  BY DEF Cleared
<1>3. t.screen = "main"
  BY DEF Cleared
<1>4. ~t.nowrap
  BY DEF Cleared
<1> QED BY <1>1, <1>2, <1>3, <1>4 DEF Cleared

LEMMA TitleOff ==
    ASSUME b \in Backends, NEW t \in Terminals, NEW k \in Backends, Cleared(t, k, 4),
           NEW c, c = <<"title", "">>
    PROVE  /\ Cleared(Receive(t, c), Done(k, c, "clear"), 5)
           /\ ClearBase(t, Attempt(k, c)) /\ ClearBase(Receive(t, Torn(c)), Attempt(k, c))
<1> DEFINE u == Receive(t, c)
           v == Receive(t, Torn(c))
           j == Attempt(k, c)
           kind == "clear"
<1>1. c \in Given /\ c[1] = "title" /\ c[2] = ""
  <2>1. "" \in Titles
    BY DEF Titles
  <2> HIDE DEF Titles
  <2> QED BY <2>1, SomeCommands, CommandIsGiven
<1>2. /\ ClearBase(t, k) /\ t.parser = "ground" /\ ~t.sync /\ t.images = {} /\ t.upload = <<>>
      /\ t.keyboard["main"] = 0 /\ t.keyboard["alternate"] = 0 /\ ~k.pushed
  BY ClearedParts
<1>3. /\ u = [t EXCEPT !.title = ""] /\ v = [t EXCEPT !.parser = "osc"]
      /\ u \in Terminals /\ v \in Terminals
  <2>1. v = [t EXCEPT !.parser = "osc"]
    BY <1>1, <1>2, TornGrounded, ZenonT(40)
  <2>2. u = [t EXCEPT !.title = c[2]]
    BY <1>1, <1>2, Grounded
  <2>3. u \in Terminals /\ v \in Terminals
    BY <1>1, GivenTyped, TornTyped
  <2> HIDE DEF u, v
  <2> QED BY <1>1, <2>1, <2>2, <2>3
<1>4. Done(k, c, kind) = j /\ j = [k EXCEPT !.titleUnconfirmed = TRUE, !.lifecycleUncertain = TRUE]
  <2>1. Done(k, c, kind) = j
    BY <1>1, ClearDone
  <2>2. j = [k EXCEPT !.titleUnconfirmed = TRUE, !.lifecycleUncertain = TRUE]
    BY <1>1, AttemptTyped
  <2> QED BY <2>1, <2>2
<1> HIDE DEF u, v, j
<1>5. /\ u.screen = t.screen /\ u.keyboard = t.keyboard /\ u.images = t.images
      /\ u.upload = t.upload /\ u.foreign = t.foreign /\ u.sync = t.sync /\ u.parser = t.parser
      /\ u.paste = t.paste /\ u.nowrap = t.nowrap /\ u.mouse = t.mouse /\ u.cursor = t.cursor
      /\ u.title = ""
  BY <1>3, ZenonT(40) DEF Terminals
<1>6. /\ v.screen = t.screen /\ v.keyboard = t.keyboard /\ v.images = t.images
      /\ v.upload = t.upload /\ v.foreign = t.foreign /\ v.sync = t.sync /\ v.parser = "osc"
      /\ v.paste = t.paste /\ v.nowrap = t.nowrap /\ v.mouse = t.mouse
  BY <1>3, ZenonT(40) DEF Terminals
<1>7. /\ j \in Backends /\ j.active = k.active /\ j.confirmed = k.confirmed /\ j.pushed = k.pushed
      /\ j.owned = k.owned /\ j.mapping = k.mapping /\ j.syncPending = k.syncPending /\ j.raw = k.raw
      /\ j.mouseUnconfirmed = k.mouseUnconfirmed /\ j.titleUnconfirmed
      /\ j.lifecycleUncertain /\ j.kittyUncertain = k.kittyUncertain
  BY <1>4 DEF Backends
<1>8. KnowsModes(t, k, TRUE)
  BY <1>2, ClearedModes
<1>9. KnowsModes(u, j, TRUE) /\ KnowsModes(v, j, TRUE) /\ KnowsModes(t, j, TRUE)
  BY <1>5, <1>6, <1>7, <1>8 DEF KnowsModes
<1>10. ClearBase(u, j)
  BY <1>2, <1>3, <1>5, <1>7, <1>9, ClearedBase
<1>11. ClearBase(v, j)
  BY <1>2, <1>3, <1>6, <1>7, <1>9, ClearedBase
<1>12. ClearBase(t, j)
  BY <1>2, <1>7, <1>9, ClearedBase
<1>20. Emptied(u, j)
  BY <1>2, <1>5, <1>7, <1>10 DEF Emptied
<1>13. Cleared(u, j, 5)
  <2>1. TitleIs(u.title, "none")
    BY <1>5 DEF TitleIs
  <2> QED BY <1>5, <1>20, <2>1, TitleCleared
<1> QED BY <1>4, <1>11, <1>12, <1>13 DEF u, v, j

LEMMA CursorOn ==
    ASSUME b \in Backends, NEW t \in Terminals, NEW k \in Backends, Cleared(t, k, 5),
           NEW c, c = <<"cursor", "shown">>
    PROVE  /\ Cleared(Receive(t, c), Done(k, c, "clear"), 6)
           /\ ClearBase(t, Attempt(k, c)) /\ ClearBase(Receive(t, Torn(c)), Attempt(k, c))
<1> DEFINE u == Receive(t, c)
           v == Receive(t, Torn(c))
           kind == "clear"
<1>1. c \in Given /\ c[1] = "cursor" /\ c[2] = "shown"
  BY SomeCommands, CommandIsGiven DEF Screens
<1>2. /\ ClearBase(t, k) /\ t.parser = "ground" /\ ~t.sync /\ t.images = {} /\ t.upload = <<>>
      /\ t.keyboard["main"] = 0 /\ t.keyboard["alternate"] = 0 /\ ~k.pushed
  BY ClearedParts
<1>3. /\ u \in Terminals /\ v = t /\ u.screen = t.screen /\ u.keyboard = t.keyboard /\ u.images = t.images
      /\ u.upload = t.upload /\ u.foreign = t.foreign /\ u.sync = t.sync /\ u.parser = t.parser
      /\ u.mouse = t.mouse /\ u.paste = t.paste /\ u.nowrap = t.nowrap /\ u.title = t.title
      /\ u.cursor = "shown"
  <2>1. u = [t EXCEPT !.cursor = c[2]]
    BY <1>1, <1>2, Grounded
  <2>2. v = t
    BY <1>1, <1>2, TornGrounded, ZenonT(40)
  <2>3. u \in Terminals
    BY <1>1, GivenTyped
  <2> HIDE DEF u, v
  <2> QED BY <1>1, <2>1, <2>2, <2>3 DEF Terminals
<1>4. Done(k, c, kind) = k /\ Attempt(k, c) = k
  BY <1>1, Silent
<1> HIDE DEF u, v
<1>5. KnowsModes(t, k, TRUE)
  BY <1>2, ClearedModes
<1>6. KnowsModes(u, k, TRUE)
  BY <1>3, <1>5 DEF KnowsModes, Kept, TitleKept
<1>7. ClearBase(u, k)
  BY <1>2, <1>3, <1>6, ClearedBase
<1>20. Emptied(u, k)
  BY <1>2, <1>3, <1>7 DEF Emptied
<1>8. Cleared(u, k, 6)
  <2>1. t.mouse = "off"
    BY DEF Cleared
  <2>2. ~t.paste
    BY DEF Cleared
  <2>3. t.screen = "main"
    BY DEF Cleared
  <2>4. ~t.nowrap
    BY DEF Cleared
  <2>5. TitleIs(t.title, "none")
    BY DEF Cleared
  <2> QED BY <1>3, <1>20, <2>1, <2>2, <2>3, <2>4, <2>5 DEF Cleared
<1> QED BY <1>2, <1>3, <1>4, <1>8 DEF u, v

\* What restore starts from, when nothing is left to recover.
Clears ==
    /\ b \in Backends /\ Virtual \in KnownTerminals(b, FALSE)
    /\ ~b.lifecycleUncertain /\ ~b.syncPending
Uncertain == b.kittyUncertain \/ b.owned # {}

\* The terminal, wherever the first commands of restore are stopped.
Uncleared == KnownTerminals(ClearFailed(b), TRUE)

LEMMA UnclearedIs ==
    ASSUME Clears
    PROVE  /\ ClearFailed(b) \in Backends /\ (ClearFailed(b).kittyUncertain <=> Uncertain)
           /\ Virtual \in Uncleared
           /\ \A t \in Uncleared :
                 /\ t \in Terminals /\ Known(t, ClearFailed(b), TRUE) /\ ~t.sync /\ t.parser # "osc"
                 /\ t.parser = "apc" => Uncertain
                 /\ Ids(t) \subseteq b.owned /\ (t.upload # <<>> => b.owned # {})
                 /\ Uncertain => /\ t.keyboard["main"] = 0 /\ t.keyboard["alternate"] \in {0, 1}
                                 /\ t.keyboard["alternate"] = 1 => b.pushed
                 /\ ~Uncertain => Keys(t, t.screen, b.pushed)
<1> DEFINE j == ClearFailed(b)
<1>1. b \in Backends /\ Virtual \in Terminals /\ Known(Virtual, b, FALSE)
  BY DEF Clears, KnownTerminals
<1>2. /\ j \in Backends /\ j.active = b.active /\ j.confirmed = b.confirmed /\ j.pushed = b.pushed
      /\ j.owned = b.owned /\ j.syncPending = b.syncPending
      /\ j.lifecycleUncertain = b.lifecycleUncertain
      /\ (j.kittyUncertain <=> b.kittyUncertain \/ b.owned # {})
  BY <1>1, FailedIs
<1>3. Known(Virtual, j, TRUE)
  <2>1. j = [b EXCEPT !.kittyUncertain = @ \/ b.owned # {}]
    BY DEF ClearFailed
  <2> QED BY <1>1, <1>2, <2>1, StillKnown
<1> HIDE DEF j
<1>4. ASSUME NEW t, t \in Terminals, Known(t, j, TRUE)
      PROVE  /\ ~t.sync /\ t.parser # "osc"
             /\ t.parser = "apc" => Uncertain
             /\ Ids(t) \subseteq b.owned /\ (t.upload # <<>> => b.owned # {})
             /\ Uncertain => /\ t.keyboard["main"] = 0 /\ t.keyboard["alternate"] \in {0, 1}
                             /\ t.keyboard["alternate"] = 1 => b.pushed
             /\ ~Uncertain => Keys(t, t.screen, b.pushed)
  <2>1. ~b.lifecycleUncertain /\ ~b.syncPending
    BY DEF Clears
  <2>2. ~t.sync /\ t.parser # "osc" /\ (t.parser = "apc" => Uncertain)
    BY <1>2, <1>4, <2>1 DEF Known, KnowsWriting, Uncertain
  <2>3. Ids(t) \subseteq b.owned /\ (t.upload # <<>> => b.owned # {})
    BY <1>2, <1>4 DEF Known, KnowsImages
  <2>4. Uncertain => /\ t.keyboard["main"] = 0 /\ t.keyboard["alternate"] \in {0, 1}
                     /\ t.keyboard["alternate"] = 1 => b.pushed
    BY <1>2, <1>4 DEF Known, KnowsScreen, Uncertain
  <2>5. ~Uncertain => Keys(t, t.screen, b.pushed)
    BY <1>2, <1>4 DEF Known, KnowsScreen, Uncertain
  <2> QED BY <2>2, <2>3, <2>4, <2>5
<1>5. \A t \in Uncleared : t \in Terminals /\ Known(t, j, TRUE)
  BY DEF Uncleared, KnownTerminals, j
<1>6. Virtual \in Uncleared
  BY <1>1, <1>3 DEF Uncleared, KnownTerminals, j
<1>7. j \in Backends /\ (j.kittyUncertain <=> Uncertain)
  BY <1>2 DEF Uncertain
<1> QED BY <1>4, <1>5, <1>6, <1>7 DEF j

\* Without pictures, on the screen that had them.
Unpictured ==
    {t \in Uncleared : /\ t.parser = "ground" /\ (Uncertain => t.screen = "alternate")
                       /\ t.images = {} /\ t.upload = <<>>}

LEMMA PicturesPath ==
    ASSUME Clears, NEW K, NEW kind, kind = "clear", K = {b}
    PROVE  \A cs : cs = (KittyRecovery(b.kittyUncertain) \o If(b.kittyUncertain, << <<"screen", "alternate">> >>))
                          \o Deletions(b.owned) =>
              cs \in Seq(Given) /\ Path({Virtual} \X K, cs, kind, Unpictured \X K, Uncleared \X K)
<1> DEFINE R == Uncleared
           T0 == {Virtual}
           T1 == {t \in R : t.parser = "ground" /\ (~b.kittyUncertain /\ b.owned # {} => t.screen = "alternate")}
           T2 == {t \in R : t.parser = "ground" /\ (Uncertain => t.screen = "alternate")}
           T3 == Unpictured
           alternate == <<"screen", "alternate">>
           k == ClearFailed(b)
           S == R \X K
<1>1. b \in Backends /\ Known(Virtual, b, FALSE) /\ b.kittyUncertain \in BOOLEAN /\ b.owned \in SUBSET (1..MaxId)
  BY DEF Clears, KnownTerminals, Backends
<1>2. /\ k \in Backends /\ (k.kittyUncertain <=> Uncertain) /\ Virtual \in R
      /\ \A t \in R :
            /\ t \in Terminals /\ Known(t, k, TRUE) /\ ~t.sync /\ t.parser # "osc"
            /\ t.parser = "apc" => Uncertain
            /\ Ids(t) \subseteq b.owned /\ (t.upload # <<>> => b.owned # {})
  BY UnclearedIs
<1>3. \A t \in Terminals : Known(t, k, TRUE) => t \in R
  BY DEF Uncleared, KnownTerminals
<1>4. alternate \in Commands /\ alternate \in Given
  BY SomeCommands, CommandIsGiven DEF Screens
<1>5. \A t \in T3 : t \in T2 /\ t.images = {} /\ t.upload = <<>>
  BY DEF Unpictured
<1>6. \A t \in T2 : t.images = {} /\ t.upload = <<>> => t \in T3
  BY DEF Unpictured
<1> HIDE DEF T3, k, R
<1>20. /\ Path(T0 \X K, KittyRecovery(b.kittyUncertain), kind, T1 \X K, R \X K)
       /\ KittyRecovery(b.kittyUncertain) \in Seq(Given)
  <2>0. ~b.kittyUncertain /\ b.owned # {} => Virtual.screen = "alternate"
    BY <1>1 DEF Known, KnowsScreen
  <2>1. ~b.kittyUncertain => T0 \subseteq T1
    <3>1. ~b.kittyUncertain => Virtual.parser = "ground"
      <4>1. Virtual.parser # "apc" \/ b.kittyUncertain
        BY <1>1 DEF Known, KnowsWriting
      <4> QED BY <1>2, <4>1 DEF Terminals
    <3> QED BY <1>2, <2>0, <3>1
  <2>2. \A t \in T0, u \in Unheld(Ready(KnownTerminals(k, TRUE))) : Alike(u, t) => u \in T1
    <3>1. ASSUME NEW u \in Unheld(Ready(KnownTerminals(k, TRUE))), Alike(u, Virtual)
          PROVE  u \in T1
      <4>1. u \in Terminals /\ Known(u, k, TRUE) /\ u.parser = "ground" /\ u.screen = Virtual.screen
        BY <3>1 DEF Unheld, Ready, KnownTerminals, Alike
      <4> QED BY <1>3, <2>0, <4>1
    <3> QED BY <3>1
  <2>3. T0 \subseteq KnownTerminals(k, TRUE) /\ KnownTerminals(k, TRUE) = R
    BY <1>2 DEF KnownTerminals, k, R, Uncleared
  <2> HIDE DEF T0, T1
  <2>4. Path(T0 \X K, KittyRecovery(b.kittyUncertain), kind, T1 \X K, KnownTerminals(k, TRUE) \X K)
    BY <1>1, <2>1, <2>2, <2>3, KittyPath
  <2> QED BY <1>1, <2>3, <2>4, KittyTyped
<1>21. /\ Path(T1 \X K, If(b.kittyUncertain, <<alternate>>), kind, T2 \X K, R \X K)
       /\ If(b.kittyUncertain, <<alternate>>) \in Seq(Given)
  <2>1. ASSUME b.kittyUncertain, NEW t \in T1
        PROVE  Receive(t, alternate) \in T2 /\ t \in R /\ Receive(t, Torn(alternate)) \in R
    <3> DEFINE u == Receive(t, alternate)
    <3>1. t \in R /\ t.parser = "ground" /\ t \in Terminals /\ Known(t, k, TRUE)
      BY <1>2
    <3>2. /\ u \in Terminals /\ Receive(t, Torn(alternate)) = t
          /\ u.screen = "alternate" /\ u.keyboard = t.keyboard /\ u.mouse = t.mouse /\ u.paste = t.paste
          /\ u.nowrap = t.nowrap /\ u.title = t.title /\ u.cursor = t.cursor /\ u.sync = t.sync
          /\ u.parser = t.parser /\ u.images = t.images /\ u.upload = t.upload /\ u.foreign = t.foreign
      BY <3>1, Switches DEF Screens
    <3> HIDE DEF u
    <3>3. k.kittyUncertain
      BY <1>2, <2>1 DEF Uncertain
    <3>4. Known(u, k, TRUE)
      BY <3>1, <3>2, <3>3, UncertainAlike
    <3>5. u \in T2
      BY <1>3, <3>1, <3>2, <3>4
    <3> QED BY <3>1, <3>2, <3>5 DEF u
  <2>2. ~b.kittyUncertain => T1 \subseteq T2
    BY DEF Uncertain
  <2>3. \A x \in K : Done(x, alternate, kind) \in K /\ Attempt(x, alternate) \in K
    BY <1>4, Silent, SMTT(30)
  <2> HIDE DEF T1, T2, alternate
  <2> QED BY <1>1, <1>4, <2>1, <2>2, <2>3, PathIf
<1>22. Path(T2 \X K, Deletions(b.owned), kind, T3 \X K, R \X K) /\ Deletions(b.owned) \in Seq(Given)
  <2>1. CASE b.owned = {}
    <3>1. Deletions(b.owned) = <<>>
      BY <2>1, NoDeletions
    <3>2. T2 \subseteq T3
      <4>1. \A t \in T2 : t.upload = <<>> /\ t.images = {}
        BY <1>2, <2>1, ZenonT(40) DEF Ids
      <4> QED BY <1>6, <4>1
    <3> HIDE DEF T2
    <3>3. Path(T2 \X K, <<>>, kind, T3 \X K, R \X K)
      BY <3>2, PathTermEmpty
    <3>4. <<>> \in Seq(Given)
      BY EmptySeq
    <3> QED BY <3>1, <3>3, <3>4, Zenon
  <2>2. CASE b.owned # {}
    <3>0. Uncertain /\ k.kittyUncertain
      BY <1>2, <2>2 DEF Uncertain
    <3>1. T2 \subseteq Terminals /\ T2 \subseteq R
      BY <1>2
    <3>2. \A t \in T2 : /\ t.parser = "ground" /\ t.screen = "alternate" /\ Ids(t) \subseteq b.owned
                        /\ t.upload # <<>> => b.owned # {}
      BY <1>2, <3>0
    <3>3. ASSUME NEW t \in T2, NEW u \in Terminals,
                 SameButImages(u, t), u.images \subseteq t.images, u.upload = <<>>
          PROVE  u \in T2
      <4>1. t \in R /\ Known(t, k, TRUE) /\ t.parser = "ground" /\ t.screen = "alternate"
        BY <1>2, <3>2
      <4>2. /\ u.screen = "alternate" /\ u.keyboard = t.keyboard /\ u.mouse = t.mouse /\ u.paste = t.paste
            /\ u.nowrap = t.nowrap /\ u.title = t.title /\ u.sync = t.sync
            /\ u.parser = t.parser /\ u.foreign = t.foreign
        BY <3>3, <4>1 DEF SameButImages
      <4>3. Known(u, k, TRUE)
        BY <3>0, <3>3, <4>1, <4>2, UncertainAlike
      <4> QED BY <1>3, <4>1, <4>2, <4>3
    <3>4. ASSUME NEW t \in T2, NEW u \in Terminals, u = [t EXCEPT !.parser = "apc"]
          PROVE  u \in R
      <4>1. t \in R /\ Known(t, k, TRUE) /\ t \in Terminals
        BY <1>2
      <4>2. /\ u.keyboard = t.keyboard /\ u.mouse = t.mouse /\ u.paste = t.paste
            /\ u.nowrap = t.nowrap /\ u.title = t.title /\ u.sync = t.sync /\ u.parser = "apc"
            /\ u.foreign = t.foreign /\ u.images = t.images /\ u.upload = t.upload
        BY <3>4, <4>1 DEF Terminals
      <4>3. Known(u, k, TRUE)
        BY <3>0, <4>1, <4>2, UncertainAlike
      <4> QED BY <1>3, <4>3
    <3>5. {t \in T2 : t.images = {} /\ t.upload = <<>>} \subseteq T3
      BY <1>6
    <3> HIDE DEF T2
    <3> DEFINE Z == {t \in T2 : t.images = {} /\ t.upload = <<>>}
    <3>6. Path(T2 \X K, Deletions(b.owned), kind, Z \X K, R \X K)
      BY <1>1, <3>1, <3>2, <3>3, <3>4, DeletionsPath
    <3>7. Z \X K \subseteq T3 \X K
      BY <3>5
    <3> DEFINE A == T2 \X K
               B == Z \X K
               C == T3 \X K
    <3> HIDE DEF A, B, C, S
    <3>8. Path(A, Deletions(b.owned), kind, B, S) /\ B \subseteq C
      BY <3>6, <3>7 DEF A, B, C, S
    <3>9. Path(A, Deletions(b.owned), kind, C, S)
      BY <3>8, PathWeaker
    <3>10. Deletions(b.owned) \in Seq(Given)
      BY <1>1, DeletionsAre
    <3> QED BY <3>9, <3>10 DEF A, C, S
  <2> QED BY <2>1, <2>2
<1> DEFINE s1 == KittyRecovery(b.kittyUncertain)
           s2 == If(b.kittyUncertain, <<alternate>>)
           s3 == Deletions(b.owned)
<1> HIDE DEF T0, T1, T2, S, s1, s2, s3
<1>31. /\ Path(T0 \X K, s1, kind, T1 \X K, S) /\ s1 \in Seq(Given)
       /\ Path(T1 \X K, s2, kind, T2 \X K, S) /\ s2 \in Seq(Given)
       /\ Path(T2 \X K, s3, kind, T3 \X K, S) /\ s3 \in Seq(Given)
  BY <1>20, <1>21, <1>22 DEF s1, s2, s3, S
<1>32. Path(T0 \X K, s1 \o s2, kind, T2 \X K, S) /\ s1 \o s2 \in Seq(Given)
  BY <1>31, PathThen
<1>33. Path(T0 \X K, (s1 \o s2) \o s3, kind, T3 \X K, S) /\ (s1 \o s2) \o s3 \in Seq(Given)
  BY <1>31, <1>32, PathThen
<1> QED BY <1>33 DEF T0, T3, S, R, s1, s2, s3

LEMMA PopsPath ==
    ASSUME Clears, NEW K, NEW kind, kind = "clear", K = {b}
    PROVE  \A cs : cs = If(b.pushed, << <<"keyboard", "pop">> >>) =>
              cs \in Seq(Given) /\ Path(Unpictured \X K, cs, kind, ClearPairs(0), ClearR)
<1> DEFINE P == Unpictured \X K
           Q == ClearPairs(0)
           R == ClearR
           c == <<"keyboard", "pop">>
           k == ClearFailed(b)
           j == [b EXCEPT !.pushed = FALSE]
           h == ClearFailed(j)
<1>1. b \in Backends /\ b.pushed \in BOOLEAN
  BY DEF Clears, Backends
<1>2. /\ k \in Backends /\ (k.kittyUncertain <=> Uncertain)
      /\ \A t \in Uncleared :
            /\ t \in Terminals /\ Known(t, k, TRUE) /\ ~t.sync
            /\ Uncertain => /\ t.keyboard["main"] = 0 /\ t.keyboard["alternate"] \in {0, 1}
                            /\ t.keyboard["alternate"] = 1 => b.pushed
            /\ ~Uncertain => Keys(t, t.screen, b.pushed)
  BY UnclearedIs
<1>3. c \in Given /\ c[1] = "keyboard" /\ c[2] = "pop"
  BY SomeCommands, CommandIsGiven
<1>4. /\ j \in Backends /\ j.active = b.active /\ j.confirmed = b.confirmed /\ ~j.pushed
      /\ j.owned = b.owned /\ j.mapping = b.mapping /\ j.syncPending = b.syncPending /\ j.raw = b.raw
      /\ j.mouseUnconfirmed = b.mouseUnconfirmed /\ j.titleUnconfirmed = b.titleUnconfirmed
      /\ j.lifecycleUncertain = b.lifecycleUncertain /\ j.kittyUncertain = b.kittyUncertain
  BY <1>1 DEF Backends
<1>5. Done(b, c, kind) = j /\ Attempt(b, c) = b
  <2>1. Done(b, c, kind) = j
    BY <1>3, PopDone
  <2>2. Attempt(b, c) = b
    BY <1>1, <1>3, AttemptTyped
  <2> QED BY <2>1, <2>2
<1>6. /\ k.active = b.active /\ k.confirmed = b.confirmed /\ k.pushed = b.pushed
      /\ k.owned = b.owned /\ k.syncPending = b.syncPending
      /\ k.mouseUnconfirmed = b.mouseUnconfirmed /\ k.titleUnconfirmed = b.titleUnconfirmed
      /\ k.lifecycleUncertain = b.lifecycleUncertain
  BY <1>1, FailedIs
<1>7. /\ h.active = b.active /\ h.confirmed = b.confirmed /\ ~h.pushed
      /\ h.owned = b.owned /\ h.syncPending = b.syncPending
      /\ h.mouseUnconfirmed = b.mouseUnconfirmed /\ h.titleUnconfirmed = b.titleUnconfirmed
      /\ h.lifecycleUncertain = b.lifecycleUncertain
      /\ (h.kittyUncertain <=> Uncertain)
  <2> HIDE DEF j
  <2>1. /\ h.active = j.active /\ h.confirmed = j.confirmed /\ h.pushed = j.pushed
        /\ h.owned = j.owned /\ h.syncPending = j.syncPending
        /\ h.mouseUnconfirmed = j.mouseUnconfirmed /\ h.titleUnconfirmed = j.titleUnconfirmed
        /\ h.lifecycleUncertain = j.lifecycleUncertain
        /\ (h.kittyUncertain <=> j.kittyUncertain \/ b.owned # {})
    BY <1>1, <1>4, FailedIs
  <2> QED BY <1>4, <2>1 DEF Uncertain
<1> HIDE DEF c, j, k, h
<1>8. ASSUME NEW t \in Unpictured
      PROVE  /\ ~b.pushed => Cleared(t, b, 0)
             /\ Cleared(Receive(t, c), j, 0)
             /\ ClearBase(t, b) /\ Receive(t, Torn(c)) = t
             /\ t \in Terminals /\ Receive(t, c) \in Terminals
  <2> DEFINE u == Receive(t, c)
  <2>1. t \in Uncleared /\ t.parser = "ground" /\ (Uncertain => t.screen = "alternate")
        /\ t.images = {} /\ t.upload = <<>>
    BY DEF Unpictured
  <2>2. /\ t \in Terminals /\ Known(t, k, TRUE) /\ ~t.sync
        /\ Uncertain => /\ t.keyboard["main"] = 0 /\ t.keyboard["alternate"] \in {0, 1}
                        /\ t.keyboard["alternate"] = 1 => b.pushed
        /\ ~Uncertain => Keys(t, t.screen, b.pushed)
    BY <1>2, <2>1
  <2>3. t.screen \in Screens /\ t.keyboard[t.screen] \in {0, 1}
    <3>1. t.screen \in Screens
      BY <2>2 DEF Terminals
    <3>2. CASE Uncertain
      BY <2>1, <2>2, <3>1, <3>2
    <3>3. CASE ~Uncertain
      BY <2>2, <3>1, <3>3 DEF Keys
    <3> QED BY <3>1, <3>2, <3>3
  <2>4. ~b.pushed => t.keyboard["main"] = 0 /\ t.keyboard["alternate"] = 0
    <3>1. CASE Uncertain
      BY <2>2, <3>1
    <3>2. CASE ~Uncertain
      BY <2>2, <2>3, <3>2 DEF Keys, Screens
    <3> QED BY <3>1, <3>2
  <2>5. \A s \in Screens : s # t.screen => t.keyboard[s] = 0
    <3>1. CASE Uncertain
      BY <2>1, <2>2, <3>1 DEF Screens
    <3>2. CASE ~Uncertain
      BY <2>2, <2>3, <3>2 DEF Keys, Screens
    <3> QED BY <3>1, <3>2
  <2>6. /\ u \in Terminals /\ Receive(t, Torn(c)) = t
        /\ u.screen = t.screen /\ u.mouse = t.mouse /\ u.paste = t.paste
        /\ u.nowrap = t.nowrap /\ u.title = t.title /\ u.cursor = t.cursor /\ u.sync = t.sync
        /\ u.parser = t.parser /\ u.images = t.images /\ u.upload = t.upload /\ u.foreign = t.foreign
        /\ \A s \in Screens : s # t.screen => u.keyboard[s] = t.keyboard[s]
        /\ u.keyboard[t.screen] = 0
    BY <1>3, <2>1, <2>2, <2>3, Keyboards
  <2> HIDE DEF u
  <2>7. \A s \in Screens : u.keyboard[s] = 0
    BY <2>5, <2>6
  <2>8. ClearBase(t, b)
    BY <2>2 DEF ClearBase, k
  <2>9. Known(u, h, TRUE)
    <3>1. KnowsWriting(u, h) /\ Enhanced(h)
      <4>1. t.foreign
        BY <2>2 DEF Known, KnowsWriting
      <4>2. u.parser = "ground" /\ ~u.sync /\ u.foreign
        BY <2>1, <2>2, <2>6, <4>1
      <4> QED BY <1>7, <4>2 DEF KnowsWriting, Enhanced
    <3>2. KnowsScreen(u, h, TRUE)
      <4>1. CASE Uncertain
        <5>1. u.keyboard["main"] = 0 /\ u.keyboard["alternate"] = 0
          BY <2>7 DEF Screens
        <5>2. h.active.screen = "alternate"
          BY <1>2, <1>6, <1>7, <2>2, <4>1 DEF Known, KnowsScreen
        <5>3. h.kittyUncertain
          BY <1>7, <4>1
        <5>4. u.keyboard["alternate"] \in {0, 1} /\ u.keyboard["alternate"] # 1
          BY <5>1
        <5> QED BY <5>1, <5>2, <5>3, <5>4 DEF KnowsScreen
      <4>2. CASE ~Uncertain
        <5>1. Kept(t.screen, k.active.screen, k.confirmed.screen, "main", TRUE)
              /\ (k.owned # {} => t.screen = "alternate")
          BY <1>2, <2>2, <4>2 DEF Known, KnowsScreen
        <5>2. Keys(u, u.screen, h.pushed)
          BY <1>7, <2>3, <2>6, <2>7 DEF Keys
        <5> QED BY <1>6, <1>7, <2>6, <4>2, <5>1, <5>2 DEF KnowsScreen
      <4> QED BY <4>1, <4>2
    <3>3. KnowsModes(u, h, TRUE)
      <4>1. KnowsModes(t, k, TRUE)
        BY <2>2 DEF Known
      <4> QED BY <1>6, <1>7, <2>6, <4>1 DEF KnowsModes
    <3>4. KnowsImages(u, h)
      <4>1. KnowsImages(t, k)
        BY <2>2 DEF Known
      <4> QED BY <1>6, <1>7, <2>6, <4>1 DEF KnowsImages, Ids
    <3> QED BY <3>1, <3>2, <3>3, <3>4 DEF Known
  <2>10. ClearBase(u, j)
    BY <1>4, <2>9 DEF ClearBase, h
  <2>11. Cleared(u, j, 0)
    <3>1. Emptied(u, j)
      BY <1>4, <2>1, <2>2, <2>6, <2>7, <2>10 DEF Emptied, Screens
    <3> QED BY <1>4, <3>1 DEF Cleared
  <2>12. ~b.pushed => Cleared(t, b, 0)
    <3>1. ~b.pushed => Emptied(t, b)
      BY <2>1, <2>2, <2>4, <2>8 DEF Emptied
    <3> QED BY <3>1 DEF Cleared
  <2> QED BY <2>2, <2>6, <2>8, <2>11, <2>12 DEF u
<1>9. ASSUME NEW z \in P
      PROVE  /\ <<z[1], z[2]>> = z
             /\ ~b.pushed => z \in Q
             /\ <<Receive(z[1], c), Done(z[2], c, kind)>> \in Q
             /\ <<z[1], Attempt(z[2], c)>> \in R
             /\ <<Receive(z[1], Torn(c)), Attempt(z[2], c)>> \in R
  <2> DEFINE t == z[1]
  <2>1. t \in Unpictured /\ z[2] = b /\ <<t, b>> = z
    OBVIOUS
  <2> HIDE DEF t, P, Q, R
  <2>2. /\ ~b.pushed => Cleared(t, b, 0)
        /\ Cleared(Receive(t, c), j, 0)
        /\ ClearBase(t, b) /\ Receive(t, Torn(c)) = t
        /\ t \in Terminals /\ Receive(t, c) \in Terminals
    BY <1>8, <2>1
  <2>3. <<Receive(t, c), j>> \in Q
    BY <1>4, <2>2, ClearPairsAre DEF Q
  <2>4. ~b.pushed => <<t, b>> \in Q
    BY <1>1, <2>2, ClearPairsAre DEF Q
  <2>5. <<t, b>> \in R
    BY <1>1, <2>2, ClearPairsAre DEF R
  <2> QED BY <1>5, <2>1, <2>2, <2>3, <2>4, <2>5 DEF t
<1> HIDE DEF P, Q, R
<1>10. ~b.pushed => P \subseteq Q
  BY <1>9
<1>11. Path(P, If(b.pushed, <<c>>), kind, Q, R) /\ If(b.pushed, <<c>>) \in Seq(Given)
  BY <1>1, <1>3, <1>9, <1>10, PairIf
<1> QED BY <1>11 DEF P, Q, R, c

\* A mode that is cleared already.
LEMMA ClearSkipped ==
    ASSUME b \in Backends, NEW t \in Terminals, NEW k \in Backends
    PROVE  /\ Cleared(t, k, 0) /\ ~(b.mouseUnconfirmed \/ "capture" \in {b.active.mouse, b.confirmed.mouse})
                 => Cleared(t, k, 1)
           /\ Cleared(t, k, 1) /\ ~(b.active.paste \/ b.confirmed.paste) => Cleared(t, k, 2)
           /\ Cleared(t, k, 2) /\ ~(b.kittyUncertain \/ "alternate" \in {b.active.screen, b.confirmed.screen})
                 => Cleared(t, k, 3)
           /\ Cleared(t, k, 3) /\ ~(b.active.nowrap \/ b.confirmed.nowrap) => Cleared(t, k, 4)
           /\ Cleared(t, k, 4) /\ ~(b.titleUnconfirmed \/ b.active.title # "none" \/ b.confirmed.title # "none")
                 => Cleared(t, k, 5)
<1>1. ASSUME NEW n, Cleared(t, k, n)
      PROVE  /\ Emptied(t, k) /\ KnowsModes(t, k, TRUE) /\ k.active = b.active /\ k.confirmed = b.confirmed
             /\ k.kittyUncertain = b.kittyUncertain /\ Known(t, ClearFailed(k), TRUE)
  <2>1. Emptied(t, k) /\ ClearBase(t, k)
    BY <1>1 DEF Cleared, Emptied
  <2>2. KnowsModes(t, k, TRUE)
    BY <2>1, ClearedModes
  <2> QED BY <2>1, <2>2 DEF ClearBase
<1>2. b.active \in ModeStates /\ b.active.mouse \in {"off", "capture"} /\ b.active.screen \in {"main", "alternate"}
  BY DEF Backends, ModeStates, Screens
<1>3. ASSUME Cleared(t, k, 0), ~(b.mouseUnconfirmed \/ "capture" \in {b.active.mouse, b.confirmed.mouse})
      PROVE  Cleared(t, k, 1)
  <2>1. ~k.mouseUnconfirmed /\ k.titleUnconfirmed = b.titleUnconfirmed
    BY <1>3 DEF Cleared
  <2>2. t.mouse = "off"
    BY <1>1, <1>2, <1>3, <2>1 DEF KnowsModes, Kept
  <2>3. Emptied(t, k)
    BY <1>1, <1>3
  <2> QED BY <2>1, <2>2, <2>3 DEF Cleared
<1>4. ASSUME Cleared(t, k, 1), ~(b.active.paste \/ b.confirmed.paste)
      PROVE  Cleared(t, k, 2)
  <2>1. t.mouse = "off" /\ k.titleUnconfirmed = b.titleUnconfirmed
    BY <1>4 DEF Cleared
  <2>2. ~t.paste
    BY <1>1, <1>2, <1>4 DEF KnowsModes, Kept
  <2>3. Emptied(t, k)
    BY <1>1, <1>4
  <2> QED BY <2>1, <2>2, <2>3 DEF Cleared
<1>5. ASSUME Cleared(t, k, 2), ~(b.kittyUncertain \/ "alternate" \in {b.active.screen, b.confirmed.screen})
      PROVE  Cleared(t, k, 3)
  <2>1. t.mouse = "off" /\ ~t.paste /\ k.titleUnconfirmed = b.titleUnconfirmed
    BY <1>5 DEF Cleared
  <2>2. t.screen = "main"
    <3> DEFINE j == ClearFailed(k)
    <3>1. j.active = k.active /\ j.confirmed = k.confirmed
      BY FailedIs
    <3>2. Known(t, j, TRUE) /\ j.active.screen = "main"
      BY <1>1, <1>2, <1>5, <3>1
    <3> HIDE DEF j
    <3> QED BY <3>2 DEF Known, KnowsScreen, Kept
  <2>3. Emptied(t, k)
    BY <1>1, <1>5
  <2> QED BY <2>1, <2>2, <2>3 DEF Cleared
<1>6. ASSUME Cleared(t, k, 3), ~(b.active.nowrap \/ b.confirmed.nowrap)
      PROVE  Cleared(t, k, 4)
  <2>1. t.mouse = "off" /\ ~t.paste /\ t.screen = "main" /\ k.titleUnconfirmed = b.titleUnconfirmed
    BY <1>6 DEF Cleared
  <2>2. ~t.nowrap
    BY <1>1, <1>2, <1>6 DEF KnowsModes, Kept
  <2>3. Emptied(t, k)
    BY <1>1, <1>6
  <2> QED BY <2>1, <2>2, <2>3 DEF Cleared
<1>7. ASSUME Cleared(t, k, 4),
             ~(b.titleUnconfirmed \/ b.active.title # "none" \/ b.confirmed.title # "none")
      PROVE  Cleared(t, k, 5)
  <2>1. k.titleUnconfirmed = b.titleUnconfirmed
    BY <1>7 DEF Cleared
  <2>2. TitleIs(t.title, "none")
    BY <1>1, <1>7, <2>1 DEF KnowsModes, TitleKept
  <2>3. Emptied(t, k)
    BY <1>1, <1>7
  <2> QED BY <1>7, <2>2, <2>3, TitleCleared
<1> QED BY <1>3, <1>4, <1>5, <1>6, <1>7

\* One of the modes, from stage m to stage n.
LEMMA ClearMode ==
    ASSUME NEW kind, kind = "clear", NEW m, NEW n, NEW condition \in BOOLEAN, NEW c \in Commands,
           \A t \in Terminals, k \in Backends : Cleared(t, k, m) /\ ~condition => Cleared(t, k, n),
           \A t \in Terminals, k \in Backends : Cleared(t, k, m) =>
               /\ Cleared(Receive(t, c), Done(k, c, "clear"), n)
               /\ ClearBase(t, Attempt(k, c)) /\ ClearBase(Receive(t, Torn(c)), Attempt(k, c))
    PROVE  /\ If(condition, <<c>>) \in Seq(Given)
           /\ Path(ClearPairs(m), If(condition, <<c>>), kind, ClearPairs(n), ClearR)
<1> DEFINE P == ClearPairs(m)
           Q == ClearPairs(n)
           R == ClearR
<1>0. c \in Given /\ c \notin Notes /\ kind # "body" /\ kind = "clear"
  BY CommandIsGiven
<1>1. ASSUME NEW z \in P
      PROVE  /\ <<z[1], z[2]>> = z
             /\ ~condition => z \in Q
             /\ <<Receive(z[1], c), Done(z[2], c, kind)>> \in Q
             /\ <<z[1], Attempt(z[2], c)>> \in R
             /\ <<Receive(z[1], Torn(c)), Attempt(z[2], c)>> \in R
  <2> DEFINE t == z[1]
             k == z[2]
  <2>1. t \in Terminals /\ k \in Backends /\ Cleared(t, k, m) /\ <<t, k>> = z
    BY ClearPairsAre
  <2> HIDE DEF t, k
  <2>2. /\ Cleared(Receive(t, c), Done(k, c, kind), n)
        /\ ClearBase(t, Attempt(k, c)) /\ ClearBase(Receive(t, Torn(c)), Attempt(k, c))
        /\ ~condition => Cleared(t, k, n)
    BY <1>0, <2>1, SMTT(30)
  <2>3. /\ Receive(t, c) \in Terminals /\ Receive(t, Torn(c)) \in Terminals
        /\ Done(k, c, kind) \in Backends /\ Attempt(k, c) \in Backends
    BY <1>0, <2>1, GivenTyped, TornTyped, DoneTyped, AttemptTyped
  <2>4. <<Receive(t, c), Done(k, c, kind)>> \in Q
    BY <2>2, <2>3, ClearPairsAre
  <2>5. ~condition => <<t, k>> \in Q
    BY <2>1, <2>2, ClearPairsAre
  <2>6. <<t, Attempt(k, c)>> \in R /\ <<Receive(t, Torn(c)), Attempt(k, c)>> \in R
    BY <2>1, <2>2, <2>3, ClearPairsAre
  <2> QED BY <2>1, <2>4, <2>5, <2>6 DEF t, k
<1> HIDE DEF P, Q, R
<1>2. ~condition => P \subseteq Q
  BY <1>1
<1>3. Path(P, If(condition, <<c>>), kind, Q, R) /\ If(condition, <<c>>) \in Seq(Given)
  BY <1>0, <1>1, <1>2, PairIf
<1> QED BY <1>3 DEF P, Q, R

LEMMA ClearModesPath ==
    ASSUME Clears, NEW kind, kind = "clear"
    PROVE  /\ \A cs : cs = If(b.mouseUnconfirmed \/ "capture" \in {b.active.mouse, b.confirmed.mouse}, << <<"mouse", "off">> >>) =>
                 cs \in Seq(Given) /\ Path(ClearPairs(0), cs, kind, ClearPairs(1), ClearR)
           /\ \A cs : cs = If(b.active.paste \/ b.confirmed.paste, << <<"paste", FALSE>> >>) =>
                 cs \in Seq(Given) /\ Path(ClearPairs(1), cs, kind, ClearPairs(2), ClearR)
           /\ \A cs : cs = If(b.kittyUncertain \/ "alternate" \in {b.active.screen, b.confirmed.screen}, << <<"screen", "main">> >>) =>
                 cs \in Seq(Given) /\ Path(ClearPairs(2), cs, kind, ClearPairs(3), ClearR)
           /\ \A cs : cs = If(b.active.nowrap \/ b.confirmed.nowrap, << <<"nowrap", FALSE>> >>) =>
                 cs \in Seq(Given) /\ Path(ClearPairs(3), cs, kind, ClearPairs(4), ClearR)
           /\ \A cs : cs = If(b.titleUnconfirmed \/ b.active.title # "none" \/ b.confirmed.title # "none", << <<"title", "">> >>) =>
                 cs \in Seq(Given) /\ Path(ClearPairs(4), cs, kind, ClearPairs(5), ClearR)
           /\ \A cs : cs = << <<"cursor", "shown">> >> =>
                 cs \in Seq(Given) /\ Path(ClearPairs(5), cs, kind, ClearPairs(6), ClearR)
<1>1. b \in Backends
  BY DEF Clears
<1>2. ASSUME NEW cs, cs = If(b.mouseUnconfirmed \/ "capture" \in {b.active.mouse, b.confirmed.mouse}, << <<"mouse", "off">> >>)
      PROVE  cs \in Seq(Given) /\ Path(ClearPairs(0), cs, kind, ClearPairs(1), ClearR)
  <2> DEFINE c == <<"mouse", "off">>
  <2>1. c \in Commands
    BY SomeCommands DEF Screens
  <2>2. PICK condition \in BOOLEAN : condition <=> b.mouseUnconfirmed \/ "capture" \in {b.active.mouse, b.confirmed.mouse}
    OBVIOUS
  <2>3. \A t \in Terminals, x \in Backends : Cleared(t, x, 0) /\ ~condition => Cleared(t, x, 1)
    BY <1>1, <2>2, ClearSkipped
  <2>4. \A t \in Terminals, x \in Backends : Cleared(t, x, 0) =>
                 /\ Cleared(Receive(t, c), Done(x, c, "clear"), 1)
                 /\ ClearBase(t, Attempt(x, c)) /\ ClearBase(Receive(t, Torn(c)), Attempt(x, c))
    BY <1>1, MouseOff
  <2>5. cs = If(condition, <<c>>)
    BY <1>2, <2>2 DEF If
  <2> HIDE DEF c
  <2> QED BY <2>1, <2>3, <2>4, <2>5, ClearMode
<1>3. ASSUME NEW cs, cs = If(b.active.paste \/ b.confirmed.paste, << <<"paste", FALSE>> >>)
      PROVE  cs \in Seq(Given) /\ Path(ClearPairs(1), cs, kind, ClearPairs(2), ClearR)
  <2> DEFINE c == <<"paste", FALSE>>
  <2>1. c \in Commands
    BY SomeCommands DEF Screens
  <2>2. PICK condition \in BOOLEAN : condition <=> b.active.paste \/ b.confirmed.paste
    OBVIOUS
  <2>3. \A t \in Terminals, x \in Backends : Cleared(t, x, 1) /\ ~condition => Cleared(t, x, 2)
    BY <1>1, <2>2, ClearSkipped
  <2>4. \A t \in Terminals, x \in Backends : Cleared(t, x, 1) =>
                 /\ Cleared(Receive(t, c), Done(x, c, "clear"), 2)
                 /\ ClearBase(t, Attempt(x, c)) /\ ClearBase(Receive(t, Torn(c)), Attempt(x, c))
    BY <1>1, PasteOff
  <2>5. cs = If(condition, <<c>>)
    BY <1>3, <2>2 DEF If
  <2> HIDE DEF c
  <2> QED BY <2>1, <2>3, <2>4, <2>5, ClearMode
<1>4. ASSUME NEW cs, cs = If(b.kittyUncertain \/ "alternate" \in {b.active.screen, b.confirmed.screen}, << <<"screen", "main">> >>)
      PROVE  cs \in Seq(Given) /\ Path(ClearPairs(2), cs, kind, ClearPairs(3), ClearR)
  <2> DEFINE c == <<"screen", "main">>
  <2>1. c \in Commands
    BY SomeCommands DEF Screens
  <2>2. PICK condition \in BOOLEAN : condition <=> b.kittyUncertain \/ "alternate" \in {b.active.screen, b.confirmed.screen}
    OBVIOUS
  <2>3. \A t \in Terminals, x \in Backends : Cleared(t, x, 2) /\ ~condition => Cleared(t, x, 3)
    BY <1>1, <2>2, ClearSkipped
  <2>4. \A t \in Terminals, x \in Backends : Cleared(t, x, 2) =>
                 /\ Cleared(Receive(t, c), Done(x, c, "clear"), 3)
                 /\ ClearBase(t, Attempt(x, c)) /\ ClearBase(Receive(t, Torn(c)), Attempt(x, c))
    BY <1>1, ScreenOff
  <2>5. cs = If(condition, <<c>>)
    BY <1>4, <2>2 DEF If
  <2> HIDE DEF c
  <2> QED BY <2>1, <2>3, <2>4, <2>5, ClearMode
<1>5. ASSUME NEW cs, cs = If(b.active.nowrap \/ b.confirmed.nowrap, << <<"nowrap", FALSE>> >>)
      PROVE  cs \in Seq(Given) /\ Path(ClearPairs(3), cs, kind, ClearPairs(4), ClearR)
  <2> DEFINE c == <<"nowrap", FALSE>>
  <2>1. c \in Commands
    BY SomeCommands DEF Screens
  <2>2. PICK condition \in BOOLEAN : condition <=> b.active.nowrap \/ b.confirmed.nowrap
    OBVIOUS
  <2>3. \A t \in Terminals, x \in Backends : Cleared(t, x, 3) /\ ~condition => Cleared(t, x, 4)
    BY <1>1, <2>2, ClearSkipped
  <2>4. \A t \in Terminals, x \in Backends : Cleared(t, x, 3) =>
                 /\ Cleared(Receive(t, c), Done(x, c, "clear"), 4)
                 /\ ClearBase(t, Attempt(x, c)) /\ ClearBase(Receive(t, Torn(c)), Attempt(x, c))
    BY <1>1, NowrapOff
  <2>5. cs = If(condition, <<c>>)
    BY <1>5, <2>2 DEF If
  <2> HIDE DEF c
  <2> QED BY <2>1, <2>3, <2>4, <2>5, ClearMode
<1>6. ASSUME NEW cs, cs = If(b.titleUnconfirmed \/ b.active.title # "none" \/ b.confirmed.title # "none", << <<"title", "">> >>)
      PROVE  cs \in Seq(Given) /\ Path(ClearPairs(4), cs, kind, ClearPairs(5), ClearR)
  <2> DEFINE c == <<"title", "">>
  <2>1. c \in Commands
    <3>1. "" \in Titles
      BY DEF Titles
    <3> HIDE DEF Titles
    <3> QED BY <3>1, SomeCommands
  <2>2. PICK condition \in BOOLEAN : condition <=> b.titleUnconfirmed \/ b.active.title # "none" \/ b.confirmed.title # "none"
    OBVIOUS
  <2>3. \A t \in Terminals, x \in Backends : Cleared(t, x, 4) /\ ~condition => Cleared(t, x, 5)
    BY <1>1, <2>2, ClearSkipped
  <2>4. \A t \in Terminals, x \in Backends : Cleared(t, x, 4) =>
                 /\ Cleared(Receive(t, c), Done(x, c, "clear"), 5)
                 /\ ClearBase(t, Attempt(x, c)) /\ ClearBase(Receive(t, Torn(c)), Attempt(x, c))
    BY <1>1, TitleOff
  <2>5. cs = If(condition, <<c>>)
    BY <1>6, <2>2 DEF If
  <2> HIDE DEF c
  <2> QED BY <2>1, <2>3, <2>4, <2>5, ClearMode
<1>7. ASSUME NEW cs, cs = << <<"cursor", "shown">> >>
      PROVE  cs \in Seq(Given) /\ Path(ClearPairs(5), cs, kind, ClearPairs(6), ClearR)
  <2> DEFINE c == <<"cursor", "shown">>
  <2>1. c \in Commands
    BY SomeCommands DEF Screens
  <2>2. PICK condition \in BOOLEAN : condition
    OBVIOUS
  <2>3. \A t \in Terminals, x \in Backends : Cleared(t, x, 5) /\ ~condition => Cleared(t, x, 6)
    BY <2>2
  <2>4. \A t \in Terminals, x \in Backends : Cleared(t, x, 5) =>
                 /\ Cleared(Receive(t, c), Done(x, c, "clear"), 6)
                 /\ ClearBase(t, Attempt(x, c)) /\ ClearBase(Receive(t, Torn(c)), Attempt(x, c))
    BY <1>1, CursorOn
  <2>5. cs = If(condition, <<c>>)
    BY <1>7, <2>2 DEF If
  <2> HIDE DEF c
  <2> QED BY <2>1, <2>3, <2>4, <2>5, ClearMode
<1> QED BY <1>2, <1>3, <1>4, <1>5, <1>6, <1>7

LEMMA ClearingPath ==
    ASSUME Clears, NEW kind, kind = "clear"
    PROVE  Clearing \in Seq(Given) /\ Path({<<Virtual, b>>}, Clearing, kind, ClearPairs(6), ClearR)
<1> DEFINE K == {b}
           P == {<<Virtual, b>>}
           P0 == Unpictured \X K
           Q0 == ClearPairs(0)
           Q1 == ClearPairs(1)
           Q2 == ClearPairs(2)
           Q3 == ClearPairs(3)
           Q4 == ClearPairs(4)
           Q5 == ClearPairs(5)
           Q6 == ClearPairs(6)
           R == ClearR
           s1 == (KittyRecovery(b.kittyUncertain) \o If(b.kittyUncertain, << <<"screen", "alternate">> >>))
                   \o Deletions(b.owned)
           s2 == If(b.pushed, << <<"keyboard", "pop">> >>)
           s3 == If(b.mouseUnconfirmed \/ "capture" \in {b.active.mouse, b.confirmed.mouse}, << <<"mouse", "off">> >>)
           s4 == If(b.active.paste \/ b.confirmed.paste, << <<"paste", FALSE>> >>)
           s5 == If(b.kittyUncertain \/ "alternate" \in {b.active.screen, b.confirmed.screen}, << <<"screen", "main">> >>)
           s6 == If(b.active.nowrap \/ b.confirmed.nowrap, << <<"nowrap", FALSE>> >>)
           s7 == If(b.titleUnconfirmed \/ b.active.title # "none" \/ b.confirmed.title # "none", << <<"title", "">> >>)
           s8 == << <<"cursor", "shown">> >>
<1>1. Clearing = ((((((s1 \o s2) \o s3) \o s4) \o s5) \o s6) \o s7) \o s8
  BY DEF Clearing
<1>2. Path(P, s1, kind, P0, R) /\ s1 \in Seq(Given)
  <2> DEFINE S == Uncleared \X K
  <2>1. s1 \in Seq(Given) /\ Path({Virtual} \X K, s1, kind, P0, S)
    BY PicturesPath
  <2>2. P \subseteq {Virtual} \X K
    OBVIOUS
  <2>3. S \subseteq R
    <3>1. ASSUME NEW z \in S PROVE z \in R
      <4>1. z[1] \in Uncleared /\ z = <<z[1], b>>
        OBVIOUS
      <4>2. b \in Backends
        BY DEF Clears
      <4>3. z[1] \in Terminals /\ ClearBase(z[1], b)
        BY <4>1, UnclearedIs DEF ClearBase
      <4>4. <<z[1], b>> \in R
        BY <4>2, <4>3, ClearPairsAre
      <4> QED BY <4>1, <4>4
    <3> QED BY <3>1
  <2> DEFINE A == {Virtual} \X K
  <2> HIDE DEF A, P, P0, R, S, s1
  <2>4. Path(A, s1, kind, P0, S) /\ P \subseteq A
    BY <2>1, <2>2 DEF A
  <2>5. Path(P, s1, kind, P0, R)
    BY <2>3, <2>4, PathWeaker
  <2> QED BY <2>1, <2>5
<1>3. Path(P0, s2, kind, Q0, R) /\ s2 \in Seq(Given)
  BY PopsPath
<1>4. Path(Q0, s3, kind, Q1, R) /\ s3 \in Seq(Given)
  BY ClearModesPath
<1>5. Path(Q1, s4, kind, Q2, R) /\ s4 \in Seq(Given)
  BY ClearModesPath
<1>6. Path(Q2, s5, kind, Q3, R) /\ s5 \in Seq(Given)
  BY ClearModesPath
<1>7. Path(Q3, s6, kind, Q4, R) /\ s6 \in Seq(Given)
  BY ClearModesPath
<1>8. Path(Q4, s7, kind, Q5, R) /\ s7 \in Seq(Given)
  BY ClearModesPath
<1>9. Path(Q5, s8, kind, Q6, R) /\ s8 \in Seq(Given)
  BY ClearModesPath
<1> HIDE DEF P, P0, Q0, Q1, Q2, Q3, Q4, Q5, Q6, R, s1, s2, s3, s4, s5, s6, s7, s8
<1>10. Path(P, s1 \o s2, kind, Q0, R) /\ s1 \o s2 \in Seq(Given)
  BY <1>2, <1>3, PairThen
<1>11. Path(P, (s1 \o s2) \o s3, kind, Q1, R) /\ (s1 \o s2) \o s3 \in Seq(Given)
  BY <1>2, <1>4, <1>10, PairThen
<1>12. Path(P, ((s1 \o s2) \o s3) \o s4, kind, Q2, R) /\ ((s1 \o s2) \o s3) \o s4 \in Seq(Given)
  BY <1>2, <1>5, <1>11, PairThen
<1>13. Path(P, (((s1 \o s2) \o s3) \o s4) \o s5, kind, Q3, R) /\ (((s1 \o s2) \o s3) \o s4) \o s5 \in Seq(Given)
  BY <1>2, <1>6, <1>12, PairThen
<1>14. Path(P, ((((s1 \o s2) \o s3) \o s4) \o s5) \o s6, kind, Q4, R) /\ ((((s1 \o s2) \o s3) \o s4) \o s5) \o s6 \in Seq(Given)
  BY <1>2, <1>7, <1>13, PairThen
<1>15. Path(P, (((((s1 \o s2) \o s3) \o s4) \o s5) \o s6) \o s7, kind, Q5, R) /\ (((((s1 \o s2) \o s3) \o s4) \o s5) \o s6) \o s7 \in Seq(Given)
  BY <1>2, <1>8, <1>14, PairThen
<1>16. Path(P, ((((((s1 \o s2) \o s3) \o s4) \o s5) \o s6) \o s7) \o s8, kind, Q6, R) /\ ((((((s1 \o s2) \o s3) \o s4) \o s5) \o s6) \o s7) \o s8 \in Seq(Given)
  BY <1>2, <1>9, <1>15, PairThen
<1> QED BY <1>1, <1>16 DEF P, Q6, R

LEMMA ClearsFacts ==
    ASSUME Inv, phase = "clear"
    PROVE  Clears /\ Restoring /\ ~applied /\ call \in {"suspend", "undo open", "undo resume", "drop"}
<1>1. ControlOK /\ b \in Backends /\ AppliedOK
  BY InvTo
<1>2. PhaseOK /\ RunningOK
  BY <1>1 DEF ControlOK
<1>3. Restoring
  BY <1>2 DEF PhaseOK
<1>4. ~b.lifecycleUncertain /\ ~b.syncPending
  BY <1>2 DEF RunningOK
<1>5. Virtual \in KnownTerminals(b, FALSE)
  BY VirtualKnown
<1>6. call \in {"suspend", "undo open", "undo resume", "drop"}
  BY <1>3 DEF Restoring
<1>7. ~applied
  BY <1>1, <1>6 DEF AppliedOK
<1> QED BY <1>1, <1>3, <1>4, <1>5, <1>6, <1>7 DEF Clears

\* What restore makes of the backend.
LEMMA RestoredIs ==
    ASSUME NEW k \in Backends, NEW j,
           j = [ConfirmCleanup(Confirmed(k)) EXCEPT !.active = NoState, !.confirmed = NoState, !.sync = FALSE]
    PROVE  /\ j \in Backends /\ j.active = NoState /\ j.confirmed = NoState /\ j.mapping = <<>> /\ j.owned = {}
           /\ ~j.kittyUncertain /\ j.pushed = k.pushed /\ j.syncPending = k.syncPending /\ j.raw = k.raw
           /\ ~j.mouseUnconfirmed /\ ~j.titleUnconfirmed
<1> DEFINE x == Confirmed(k)
           y == ConfirmCleanup(x)
<1>1. /\ x \in Backends /\ ~x.mouseUnconfirmed /\ ~x.titleUnconfirmed /\ x.pushed = k.pushed
      /\ x.syncPending = k.syncPending /\ x.raw = k.raw
  <2>1. x = [k EXCEPT !.mouseUnconfirmed = FALSE, !.lifecycleUncertain = FALSE, !.titleUnconfirmed = FALSE]
    BY DEF Confirmed
  <2> HIDE DEF x
  <2> QED BY <2>1 DEF Backends
<1> HIDE DEF x
<1>2. /\ y \in Backends /\ ~y.mouseUnconfirmed /\ ~y.titleUnconfirmed /\ y.pushed = k.pushed
      /\ y.syncPending = k.syncPending /\ y.raw = k.raw /\ y.mapping = <<>> /\ y.owned = {}
      /\ ~y.kittyUncertain
  <2>1. y = [x EXCEPT !.mapping = <<>>, !.owned = {}, !.kittyUncertain = FALSE]
    BY DEF ConfirmCleanup
  <2> HIDE DEF y
  <2> QED BY <1>1, <2>1, NoMapping DEF Backends
<1>3. j = [y EXCEPT !.active = NoState, !.confirmed = NoState, !.sync = FALSE]
  BY DEF x
<1> HIDE DEF y
<1> QED BY <1>2, <1>3, NoStateTyped, ZenonT(40) DEF Backends

\* The terminal is as it was found, and the backend knows it.
LEMMA RestoredKnown ==
    ASSUME b \in Backends, ~b.syncPending, NEW t \in Terminals, NEW k \in Backends, Cleared(t, k, 6), NEW j,
           j = [ConfirmCleanup(Confirmed(k)) EXCEPT !.active = NoState, !.confirmed = NoState, !.sync = FALSE]
    PROVE  Known(t, j, FALSE) /\ Clean(t) /\ j.raw = b.raw
<1>1. /\ j \in Backends /\ j.active = NoState /\ j.confirmed = NoState /\ j.mapping = <<>> /\ j.owned = {}
      /\ ~j.kittyUncertain /\ j.pushed = k.pushed /\ j.syncPending = k.syncPending /\ j.raw = k.raw
      /\ ~j.mouseUnconfirmed /\ ~j.titleUnconfirmed
  BY RestoredIs
<1>2. /\ ClearBase(t, k) /\ t.parser = "ground" /\ ~t.sync /\ t.images = {} /\ t.upload = <<>>
      /\ t.keyboard["main"] = 0 /\ t.keyboard["alternate"] = 0 /\ ~k.pushed
  BY ClearedParts
<1>3. t.mouse = "off" /\ ~t.paste /\ t.screen = "main" /\ ~t.nowrap
  <2>1. t.mouse = "off"
    BY DEF Cleared
  <2>2. ~t.paste
    BY DEF Cleared
  <2>3. t.screen = "main"
    BY DEF Cleared
  <2>4. ~t.nowrap
    BY DEF Cleared
  <2> QED BY <2>1, <2>2, <2>3, <2>4
<1>4. TitleIs(t.title, "none")
  BY DEF Cleared
<1>5. t.cursor = "shown"
  BY DEF Cleared
<1>6. t.foreign /\ k.raw = b.raw
  BY <1>2 DEF ClearBase, Known, KnowsWriting
<1>7. /\ NoState.screen = "main" /\ NoState.mouse = "off" /\ NoState.paste = FALSE /\ NoState.nowrap = FALSE
      /\ NoState.title = "none"
  BY DEF NoState
<1>8. Known(t, j, FALSE)
  <2>1. KnowsWriting(t, j) /\ Enhanced(j) /\ KnowsImages(t, j)
    <3>1. KnowsWriting(t, j)
      BY <1>2, <1>6 DEF KnowsWriting
    <3>2. Enhanced(j)
      BY <1>1, <1>2 DEF Enhanced
    <3>3. KnowsImages(t, j)
      BY <1>1, <1>2 DEF KnowsImages, Ids
    <3> QED BY <3>1, <3>2, <3>3
  <2>2. KnowsScreen(t, j, FALSE)
    <3>1. Keys(t, t.screen, j.pushed)
      BY <1>1, <1>2, <1>3 DEF Keys, Screens
    <3> QED BY <1>1, <1>3, <1>7, <3>1 DEF KnowsScreen, Kept
  <2>3. KnowsModes(t, j, FALSE)
    <3>1. Kept(t.mouse, j.active.mouse, j.confirmed.mouse, "off", FALSE)
      BY <1>1, <1>3, <1>7 DEF Kept
    <3>2. Kept(t.paste, j.active.paste, j.confirmed.paste, FALSE, FALSE)
      BY <1>1, <1>3, <1>7 DEF Kept, Terminals
    <3>3. Kept(t.nowrap, j.active.nowrap, j.confirmed.nowrap, FALSE, FALSE)
      BY <1>1, <1>3, <1>7 DEF Kept, Terminals
    <3>4. TitleKept(t.title, j.active.title, j.confirmed.title, FALSE)
      BY <1>1, <1>4, <1>7 DEF TitleKept
    <3> QED BY <3>1, <3>2, <3>3, <3>4 DEF KnowsModes
  <2> QED BY <2>1, <2>2, <2>3 DEF Known
<1>9. Clean(t)
  <2>1. t.title \in {"shell", ""}
    BY <1>4 DEF TitleIs
  <2>2. \A s \in Screens : t.keyboard[s] = 0
    BY <1>2 DEF Screens
  <2> QED BY <1>2, <1>3, <1>5, <2>1, <2>2 DEF Clean
<1> QED BY <1>1, <1>6, <1>8, <1>9

LEMMA ClearKeeps == ASSUME Inv, Clear PROVE Inv'
<1>1. /\ ControlOK /\ term \in Terminals /\ pipe \in Seq(Sent) /\ b \in Backends /\ raw \in BOOLEAN
      /\ KnownOK /\ AppliedOK /\ MapOK /\ RawOK
  BY InvTo
<1>2. phase = "clear" /\ Steady /\ NoFault /\ raw' = raw /\ Sends(Clearing) /\ Goes("cook")
  BY DEF Clear
<1>3. Clears /\ Restoring /\ ~applied /\ call \in {"suspend", "undo open", "undo resume", "drop"}
  BY <1>2, ClearsFacts
<1> DEFINE k == AllDone(b, Clearing, "clear")
<1>4. b' = [ConfirmCleanup(Confirmed(k)) EXCEPT !.active = NoState, !.confirmed = NoState, !.sync = FALSE]
  BY DEF Clear
<1> HIDE DEF k
<1>5. term' \in Terminals /\ k \in Backends /\ Cleared(term', k, 6) /\ pipe' = <<>> /\ Virtual' = term'
  <2> DEFINE P == {<<Virtual, b>>}
             Q == ClearPairs(6)
             R == ClearR
             cs == Clearing
             kind == "clear"
  <2>1. cs \in Seq(Given) /\ Path(P, cs, kind, Q, R)
    BY <1>3, ClearingPath
  <2>2. <<Virtual, b>> \in P
    OBVIOUS
  <2>3. Sends(cs) /\ k = AllDone(b, cs, kind)
    BY <1>2 DEF k
  <2> HIDE DEF P, Q, R, cs, kind
  <2>4. /\ <<Virtual', AllDone(b, cs, kind)>> \in Q /\ term' \in Terminals /\ pipe' = <<>> /\ Virtual' = term'
    BY <1>1, <2>1, <2>2, <2>3, PathSends
  <2>5. <<term', k>> \in Q
    BY <2>3, <2>4
  <2> QED BY <2>4, <2>5 DEF Q, ClearPairs
<1>6. Known(term', b', FALSE) /\ Clean(term') /\ b'.raw = b.raw
  BY <1>3, <1>4, <1>5, RestoredKnown DEF Clears
<1>7. b' \in Backends /\ b'.mapping = <<>> /\ b'.owned = {}
  BY <1>4, <1>5, RestoredIs
<1>8. SessionTypes /\ FrameOK /\ PatchOK /\ PhaseOK /\ RunningOK /\ SuspendedOK /\ ClosingOK
  BY <1>1 DEF ControlOK
<1>9. /\ phase' = "cook" /\ call' = call /\ suspended' = suspended /\ cleanup' = cleanup
      /\ fullRepaint' = fullRepaint /\ applied' = applied /\ goal' = goal /\ shown' = shown
      /\ desired' = desired /\ closing' = closing
  BY <1>2 DEF Goes, Steady, NoFault
<1>10. KnownOK' /\ AppliedOK'
  <2>1. KnownOK'
    BY <1>5, <1>6, <1>9 DEF KnownOK
  <2>2. AppliedOK'
    BY <1>3, <1>9 DEF AppliedOK
  <2> QED BY <2>1, <2>2
<1>11. SessionTypes' /\ FrameOK' /\ PatchOK'
  <2>1. SessionTypes'
    BY <1>3, <1>8, <1>9 DEF SessionTypes
  <2>2. FrameOK' /\ PatchOK'
    BY <1>3, <1>9 DEF FrameOK, PatchOK
  <2> QED BY <2>1, <2>2
<1>12. PhaseOK'
  BY <1>3, <1>9 DEF PhaseOK, Restoring
<1>13. RunningOK'
  BY <1>3, <1>5, <1>6, <1>9 DEF RunningOK, Restoring
<1>14. SuspendedOK'
  BY <1>3, <1>8, <1>9 DEF SuspendedOK
<1>15. ClosingOK'
  BY <1>3, <1>8, <1>9 DEF ClosingOK
<1>16. MapOK' /\ RawOK'
  BY <1>1, <1>2, <1>6, <1>7, EmptyMap DEF MapOK, RawOK
<1>17. (pipe \in Seq(Sent))' /\ (raw \in BOOLEAN)'
  BY <1>1, <1>2, <1>5
<1> QED BY <1>5, <1>7, <1>10, <1>11, <1>12, <1>13, <1>14, <1>15, <1>16, <1>17, InvFrom DEF ControlOK

LEMMA ClearFailsKeeps == ASSUME Inv, ClearFails PROVE Inv'
<1>1. /\ ControlOK /\ term \in Terminals /\ pipe \in Seq(Sent) /\ b \in Backends /\ raw \in BOOLEAN
      /\ KnownOK /\ AppliedOK /\ MapOK /\ RawOK
  BY InvTo
<1>2. phase = "clear" /\ Steady /\ Fault /\ raw' = raw /\ Goes("cook after error")
  BY DEF ClearFails
<1>3. Clears /\ Restoring /\ ~applied /\ call \in {"suspend", "undo open", "undo resume", "drop"}
  BY <1>2, ClearsFacts
<1>4. PICK i \in 1 .. Len(Clearing) + 1 :
          StopsAt(Clearing, i) /\ b' = ClearFailed(StoppedAt(Clearing, i, "clear"))
  BY DEF ClearFails
<1> DEFINE k == StoppedAt(Clearing, i, "clear")
<1>5. Virtual' \in Terminals /\ k \in Backends /\ ClearBase(Virtual', k) /\ term' \in Terminals /\ pipe' \in Seq(Sent)
  <2> DEFINE P == {<<Virtual, b>>}
             Q == ClearPairs(6)
             R == ClearR
             cs == Clearing
             kind == "clear"
  <2>1. cs \in Seq(Given) /\ Path(P, cs, kind, Q, R)
    BY <1>3, ClearingPath
  <2>2. <<Virtual, b>> \in P
    OBVIOUS
  <2>3. Q \subseteq R
    <3>1. ASSUME NEW z \in Q PROVE z \in R
      <4>1. <<z[1], z[2]>> = z /\ z[1] \in Terminals /\ z[2] \in Backends /\ Cleared(z[1], z[2], 6)
        BY ClearPairsAre
      <4>2. ClearBase(z[1], z[2])
        BY <4>1, ClearedParts
      <4>3. <<z[1], z[2]>> \in R
        BY <4>1, <4>2, ClearPairsAre
      <4> QED BY <4>1, <4>3
    <3> QED BY <3>1
  <2>4. i \in 1 .. Len(cs) + 1 /\ StopsAt(cs, i) /\ k = StoppedAt(cs, i, kind)
    BY <1>4
  <2> HIDE DEF P, Q, R, cs, kind, k
  <2>5. <<Virtual', StoppedAt(cs, i, kind)>> \in R /\ term' \in Terminals /\ pipe' \in Seq(Sent)
    BY <1>1, <2>1, <2>2, <2>3, <2>4, PathStops
  <2>6. <<Virtual', k>> \in R
    BY <2>4, <2>5
  <2> QED BY <2>5, <2>6 DEF R, ClearR
<1>6. b' = ClearFailed(k)
  BY <1>4
<1> HIDE DEF k
<1>7. b' \in Backends /\ b'.mapping = b.mapping /\ b'.owned = b.owned /\ b'.raw = b.raw
  BY <1>1, <1>5, <1>6, FailedIs DEF ClearBase
<1>8. Known(Virtual', b', TRUE)
  BY <1>5, <1>6 DEF ClearBase
<1>9. ControlOK' /\ ~applied' /\ phase' = "cook after error"
  BY <1>1, <1>2, <1>3, ErrorGoes
<1>10. KnownOK' /\ AppliedOK'
  BY <1>8, <1>9 DEF KnownOK, AppliedOK
<1>11. MapOK' /\ RawOK'
  BY <1>1, <1>2, <1>7 DEF MapOK, RawOK
<1> QED BY <1>1, <1>2, <1>5, <1>7, <1>9, <1>10, <1>11, InvFrom

\* The image ids are as before.
LEMMA MapKeeps ==
  ASSUME MapOK, b'.mapping = b.mapping, b'.owned = b.owned
  PROVE  MapOK'
BY DEF MapOK


-----------------------------------------------------------------------------
(* The end of restore.                                                     *)

LEMMA FailsCount ==
    ASSUME closing \in Int, closing >= -1, NEW fails \in BOOLEAN, fails => Fault, ~fails => closing' = closing
    PROVE  /\ closing' \in Int /\ closing' >= -1 /\ (closing >= 0 <=> closing' >= 0)
           /\ closing >= 1 => closing' >= 1
           /\ closing >= 2 => closing' >= 2
           /\ fails /\ closing >= 0 => closing' >= 1
           /\ fails /\ closing >= 1 => closing' >= 2
           /\ closing' >= 2 => ~(closing' < 2)
<1>1. fails => closing' = IF closing >= 0 THEN closing + 1 ELSE closing
  BY DEF Fault
<1> QED BY <1>1

LEMMA RestoreReturns ==
    ASSUME ControlOK, AppliedOK, RawOK, raw \in BOOLEAN, Restoring, phase \in {"cook", "cook after error"},
           Steady, NEW fails \in BOOLEAN, fails => b.raw,
           IF b.raw THEN Cooks(fails) ELSE NoFault /\ UNCHANGED raw,
           UNCHANGED <<term, pipe>>, Returns(phase = "cook" /\ ~fails)
    PROVE  ControlOK' /\ ~applied' /\ phase' = "idle" /\ (raw' => fails) /\ raw' \in BOOLEAN
<1> DEFINE ok == phase = "cook" /\ ~fails
<1>1. SessionTypes /\ FrameOK /\ PatchOK /\ PhaseOK /\ RunningOK /\ SuspendedOK /\ ClosingOK
  BY DEF ControlOK
<1>2. call \in {"suspend", "undo open", "undo resume", "drop"}
  BY DEF Restoring
<1>3. /\ call' = IF call \in {"undo open", "drop"} THEN "gone" ELSE "none"
      /\ phase' = "idle" /\ (suspended' <=> suspended) /\ fullRepaint' /\ shown' = NoFrame
      /\ ~applied' /\ applied' \in BOOLEAN /\ fullRepaint' \in BOOLEAN
  <2>1. ~Undoes
    BY <1>2 DEF Undoes
  <2>2. fullRepaint' = (fullRepaint \/ call # "patch" \/ ~ok)
    BY <2>1 DEF Returns
  <2>3. fullRepaint' /\ fullRepaint' \in BOOLEAN
    BY <1>2, <2>2
  <2>4. shown' = IF fullRepaint' THEN NoFrame ELSE shown
    BY <2>1 DEF Returns
  <2>5. suspended' = (suspended /\ ~(call = "resume" /\ ok))
    BY <2>1 DEF Returns
  <2>6. applied' = FALSE
    BY <1>2, <2>1 DEF Returns
  <2>7. call' = (IF call \in {"undo open", "drop"} THEN "gone" ELSE "none") /\ phase' = "idle"
    BY <2>1 DEF Returns
  <2> QED BY <1>2, <2>3, <2>4, <2>5, <2>6, <2>7
<1>4. /\ call = "suspend" => (cleanup' <=> ~ok)
      /\ call = "undo resume" => (cleanup' <=> ~ok)
      /\ call = "undo open" => ~cleanup'
      /\ call = "drop" => cleanup'
      /\ cleanup' \in BOOLEAN /\ suspended' \in BOOLEAN
  <2>1. ~Undoes
    BY <1>2 DEF Undoes
  <2>2. cleanup' = CASE call \in {"open", "resume", "suspend"} -> cleanup /\ ~ok
                     [] call = "undo resume" -> ~ok
                     [] OTHER -> cleanup
    BY <2>1 DEF Returns
  <2>3. /\ call = "suspend" => cleanup' = (cleanup /\ ~ok)
        /\ call = "undo resume" => cleanup' = ~ok
        /\ call \in {"undo open", "drop"} => cleanup' = cleanup
    BY <2>2
  <2>4. /\ call \in {"suspend", "drop"} => cleanup
        /\ call = "undo open" => ~cleanup
        /\ cleanup \in BOOLEAN
    BY <1>1 DEF SuspendedOK, SessionTypes
  <2>5. suspended' = (suspended /\ ~(call = "resume" /\ ok))
    BY <2>1 DEF Returns
  <2>6. call = "suspend" => (cleanup' <=> ~ok)
    BY <2>3, <2>4
  <2>7. call = "undo resume" => (cleanup' <=> ~ok)
    BY <2>3
  <2>8. call = "undo open" => ~cleanup'
    BY <2>3, <2>4
  <2>9. call = "drop" => cleanup'
    BY <2>3, <2>4
  <2>10. ok \in BOOLEAN
    OBVIOUS
  <2>11. cleanup' \in BOOLEAN
    BY <1>2, <2>3, <2>4, <2>10
  <2> QED BY <2>5, <2>6, <2>7, <2>8, <2>9, <2>11
<1>5. desired' = desired /\ term' = term /\ pipe' = pipe
  BY DEF Steady
<1>6. raw' \in BOOLEAN /\ (raw' => fails) /\ (ok => ~raw')
  <2>1. CASE b.raw /\ fails
    BY <2>1 DEF Cooks
  <2>2. CASE b.raw /\ ~fails
    BY <2>2 DEF Cooks
  <2>3. CASE ~b.raw
    BY <2>3 DEF RawOK
  <2> QED BY <2>1, <2>2, <2>3
<1>7. ok => Clean(term') /\ pipe' = <<>>
  <2>1. phase = "cook" => Clean(term) /\ pipe = <<>>
    BY <1>1 DEF RunningOK
  <2>2. ok => Clean(term) /\ pipe = <<>>
    BY <2>1
  <2> QED BY <1>5, <2>2
<1>8. closing \in Int /\ closing >= -1
  BY <1>1 DEF SessionTypes, ClosingOK
<1>9. /\ closing' \in Int /\ closing' >= -1 /\ (closing >= 0 <=> closing' >= 0)
      /\ closing >= 1 => closing' >= 1
      /\ closing >= 2 => closing' >= 2
      /\ fails /\ closing >= 0 => closing' >= 1
      /\ fails /\ closing >= 1 => closing' >= 2
      /\ closing' >= 2 => ~(closing' < 2)
  <2>1. fails => Fault
    BY DEF Cooks
  <2>2. ~fails => closing' = closing
    BY DEF Cooks, NoFault
  <2> QED BY <1>8, <2>1, <2>2, FailsCount
<1>10. phase = "cook after error" \/ fails \/ ok
  OBVIOUS
<1> HIDE DEF ok
<1>11. SessionTypes'
  <2>1. desired' \in Desired
    BY <1>1, <1>5 DEF SessionTypes
  <2>2. shown' \in Frames
    BY <1>3, NoFrameTyped
  <2>3. call' # "patch"
    BY <1>3
  <2> QED BY <1>3, <1>4, <1>9, <2>1, <2>2, <2>3 DEF SessionTypes
<1>12. FrameOK' /\ PatchOK'
  BY <1>3 DEF FrameOK, PatchOK
<1>13. PhaseOK'
  BY <1>3 DEF PhaseOK, Restoring
<1>14. RunningOK'
  BY <1>3 DEF RunningOK
<1>15. SuspendedOK'
  <2>0. /\ call = "undo open" => ~suspended
        /\ call \in {"undo resume", "suspend", "drop"} => suspended
    BY <1>1 DEF SuspendedOK
  <2>1. cleanup' => suspended'
    BY <1>2, <1>3, <1>4, <2>0
  <2>2. suspended' /\ ~cleanup' => Clean(term') /\ ~raw' /\ pipe' = <<>>
    BY <1>2, <1>3, <1>4, <1>6, <1>7, <2>0
  <2> QED BY <1>3, <2>1, <2>2 DEF SuspendedOK
<1>16. ClosingOK'
  <2>1. closing >= 0 => call \in {"suspend", "drop"} /\ suspended
    BY <1>1, <1>2 DEF ClosingOK
  <2>2. closing >= 0 /\ call = "suspend" /\ cleanup' => closing' >= 1
    <3>1. closing >= 0 /\ call = "suspend" /\ phase = "cook after error" => closing >= 1
      BY <1>1 DEF ClosingOK
    <3> QED BY <1>4, <1>9, <1>10, <3>1
  <2>3. closing >= 0 /\ call = "drop" /\ ~ok => closing' >= 2
    <3>1. closing >= 0 /\ call = "drop" => closing >= 1
      BY <1>1 DEF ClosingOK
    <3>2. closing >= 0 /\ call = "drop" /\ phase = "cook after error" => closing >= 2
      BY <1>1 DEF ClosingOK
    <3> QED BY <1>9, <1>10, <3>1, <3>2
  <2>4. closing' >= 0 => call' \in {"none", "gone"} /\ suspended'
    BY <1>3, <1>9, <2>1
  <2>5. closing' >= 0 /\ call' = "none" /\ cleanup' => closing' >= 1
    BY <1>3, <1>9, <2>1, <2>2
  <2>6. closing' >= 0 /\ call' = "gone" /\ closing' < 2 => Clean(term') /\ ~raw'
    <3>1. closing' >= 0 /\ call' = "gone" => closing >= 0 /\ call = "drop"
      BY <1>3, <1>9, <2>1
    <3> QED BY <1>6, <1>7, <1>9, <2>3, <3>1
  <2> QED BY <1>9, <2>4, <2>5, <2>6 DEF ClosingOK
<1> QED BY <1>3, <1>6, <1>11, <1>12, <1>13, <1>14, <1>15, <1>16 DEF ControlOK

LEMMA RestoreEndsKeeps == ASSUME Inv, NEW fails \in BOOLEAN, RestoreEnds(fails) PROVE Inv'
<1>1. /\ ControlOK /\ term \in Terminals /\ pipe \in Seq(Sent) /\ b \in Backends /\ raw \in BOOLEAN
      /\ KnownOK /\ AppliedOK /\ MapOK /\ RawOK
  BY InvTo
<1>2. /\ phase \in {"cook", "cook after error"} /\ Restoring /\ Steady /\ (fails => b.raw)
      /\ IF b.raw THEN Cooks(fails) ELSE NoFault /\ UNCHANGED raw
      /\ term' = term /\ pipe' = pipe
      /\ b' = [b EXCEPT !.raw = fails, !.confirmed = IF phase = "cook" THEN @ ELSE NoState]
      /\ Returns(phase = "cook" /\ ~fails)
  BY DEF RestoreEnds
<1>3. ControlOK' /\ ~applied' /\ phase' = "idle" /\ (raw' => fails) /\ raw' \in BOOLEAN
  BY <1>1, <1>2, RestoreReturns
<1>4. /\ b' \in Backends /\ b'.active = b.active /\ b'.pushed = b.pushed
      /\ b'.owned = b.owned /\ b'.mapping = b.mapping /\ b'.kittyUncertain = b.kittyUncertain
      /\ b'.syncPending = b.syncPending /\ b'.raw = fails /\ b'.mouseUnconfirmed = b.mouseUnconfirmed
      /\ b'.titleUnconfirmed = b.titleUnconfirmed /\ b'.lifecycleUncertain = b.lifecycleUncertain
      /\ phase = "cook" => b'.confirmed = b.confirmed
      /\ phase = "cook after error" => b'.confirmed = NoState
  BY <1>1, <1>2, NoStateTyped, ZenonT(40) DEF Backends
<1>5. Virtual' = Virtual
  BY <1>2 DEF Virtual
<1>6. Known(Virtual, b', FALSE)
  <2>1. CASE phase = "cook"
    <3>1. Known(Virtual, b, FALSE)
      BY <2>1, VirtualKnown DEF KnownTerminals
    <3> QED BY <1>4, <2>1, <3>1 DEF Known, KnowsWriting, KnowsScreen, KnowsModes, KnowsImages, Enhanced
  <2>2. CASE phase = "cook after error"
    <3>1. Known(Virtual, b, TRUE)
      BY <1>1, <2>2 DEF KnownOK
    <3>2. /\ NoState.screen = "main" /\ NoState.mouse = "off" /\ NoState.paste = FALSE
          /\ NoState.nowrap = FALSE /\ NoState.title = "none"
      BY DEF NoState
    <3>3. KnowsWriting(Virtual, b') /\ KnowsImages(Virtual, b') /\ Enhanced(b')
      BY <1>4, <3>1 DEF Known, KnowsWriting, KnowsImages, Enhanced
    <3>4. KnowsScreen(Virtual, b', FALSE)
      <4>1. KnowsScreen(Virtual, b, TRUE)
        BY <3>1 DEF Known
      <4> QED BY <1>4, <2>2, <3>2, <4>1 DEF KnowsScreen, Kept
    <3>5. KnowsModes(Virtual, b', FALSE)
      <4>1. KnowsModes(Virtual, b, TRUE)
        BY <3>1 DEF Known
      <4> QED BY <1>4, <2>2, <3>2, <4>1 DEF KnowsModes, Kept, TitleKept
    <3> QED BY <3>3, <3>4, <3>5 DEF Known
  <2> QED BY <1>2, <2>1, <2>2
<1>7. KnownOK' /\ AppliedOK'
  BY <1>3, <1>5, <1>6 DEF KnownOK, AppliedOK
<1>8. MapOK' /\ RawOK'
  <2>1. MapOK'
    <3>1. MapOK /\ b'.mapping = b.mapping /\ b'.owned = b.owned
      BY <1>1, <1>4
    <3> QED BY <3>1, MapKeeps
  <2>2. RawOK'
    BY <1>3, <1>4 DEF RawOK
  <2> QED BY <2>1, <2>2
<1> QED BY <1>1, <1>2, <1>3, <1>4, <1>7, <1>8, InvFrom

-----------------------------------------------------------------------------
(* The owner's calls that do not reach the backend at once.                *)

\* An owner's call other than a patch.
LEMMA OwnerKeeps ==
    ASSUME Inv, call = "none", UNCHANGED <<term, raw, pipe, b>>, (SessionTypes)', FrameOK', PhaseOK',
           SuspendedOK', ClosingOK', phase' \in {"idle", "recover"}, call' # "patch", ~applied' \/
           (applied' = applied /\ desired' = desired /\ call' = "none" /\ suspended' = suspended)
    PROVE  Inv'
<1>1. Inv /\ phase = "idle"
  BY DEF Inv, PhaseOK
<1>2. /\ term' = term /\ raw' = raw /\ pipe' = pipe /\ b' = b /\ Virtual' = Virtual
  BY DEF Virtual
<1>3. /\ term \in Terminals /\ pipe \in Seq(Sent) /\ b \in Backends /\ raw \in BOOLEAN
      /\ KnownOK /\ AppliedOK /\ MapOK /\ RawOK
  BY <1>1, InvTo
<1>4. KnownOK'
  <2>1. Known(Virtual, b, FALSE)
    BY <1>1, VirtualKnown DEF KnownTerminals
  <2>2. (phase' = "cook after error") = FALSE
    OBVIOUS
  <2> QED BY <1>2, <2>1, <2>2 DEF KnownOK
<1>5. AppliedOK'
  BY <1>2, <1>3 DEF AppliedOK
<1>6. MapOK'
  BY <1>2, <1>3, MapKeeps
<1>7. RawOK'
  BY <1>2, <1>3 DEF RawOK
<1>8. RunningOK' /\ PatchOK'
  BY DEF RunningOK, PatchOK
<1>9. ControlOK'
  BY <1>8 DEF ControlOK
<1> QED BY <1>2, <1>3, <1>4, <1>5, <1>6, <1>7, <1>9, InvFrom

LEMMA IdleFacts ==
    ASSUME Inv, call = "none"
    PROVE  /\ phase = "idle" /\ SessionTypes /\ SuspendedOK /\ ClosingOK
           /\ ~fullRepaint => applied /\ ~suspended
           /\ closing = -1 => ~(closing >= 0)
           /\ applied => ~suspended
<1>1. closing \in Int
  BY DEF Inv, TypesOK
<1> QED BY <1>1 DEF Inv, TypesOK, PhaseOK, FrameOK, AppliedOK, SessionTypes, SuspendedOK

LEMMA ApplyStateKeeps == ASSUME Inv, NEW d \in Desired, ApplyState(d) PROVE Inv'
<1>1. /\ call = "none" /\ closing = -1 /\ desired' = d
      /\ UNCHANGED <<term, raw, writer, pipe, b, suspended, cleanup, shown, closing, faults>>
  BY DEF ApplyState, Idle
<1>2. /\ phase = "idle" /\ SessionTypes /\ SuspendedOK /\ ClosingOK
      /\ ~fullRepaint => applied /\ ~suspended
      /\ ~(closing >= 0)
      /\ applied => ~suspended
  BY <1>1, IdleFacts
<1>3. CASE suspended
  <2>1. UNCHANGED <<call, phase, goal, fullRepaint, applied>>
    BY <1>3 DEF ApplyState
  <2>2. fullRepaint /\ ~applied
    BY <1>2, <1>3
  <2>3. SessionTypes'
    BY <1>1, <1>2, <2>1 DEF SessionTypes
  <2>4. FrameOK' /\ PhaseOK'
    BY <1>1, <1>2, <2>1, <2>2 DEF FrameOK, PhaseOK
  <2>5. SuspendedOK'
    BY <1>1, <1>2, <2>1 DEF SuspendedOK
  <2>6. ClosingOK'
    BY <1>1, <1>2, <2>1 DEF ClosingOK
  <2> QED BY <1>1, <1>2, <2>1, <2>2, <2>3, <2>4, <2>5, <2>6, OwnerKeeps
<1>4. CASE ~suspended
  <2>1. call' = "apply" /\ phase' = "recover" /\ goal' = d /\ fullRepaint' = TRUE /\ applied' = FALSE
    BY <1>4 DEF ApplyState
  <2>3. SessionTypes'
    BY <1>1, <1>2, <2>1 DEF SessionTypes
  <2>4. FrameOK' /\ PhaseOK'
    BY <1>1, <1>2, <2>1 DEF FrameOK, PhaseOK, Restoring
  <2>5. SuspendedOK'
    BY <1>1, <1>2, <1>4, <2>1 DEF SuspendedOK
  <2>6. ClosingOK'
    BY <1>1, <1>2, <2>1 DEF ClosingOK
  <2> QED BY <1>1, <2>1, <2>3, <2>4, <2>5, <2>6, OwnerKeeps
<1> QED BY <1>3, <1>4

\* A restore that begins.
LEMMA StartsRestore ==
    ASSUME Inv, call = "none", StartRestore("suspend"), UNCHANGED <<term, raw, pipe, b, desired, shown>>,
           closing' \in {closing, 0}, closing = -1
    PROVE  Inv'
<1>1. /\ call' = "suspend" /\ phase' = "recover" /\ suspended' = TRUE /\ cleanup' = TRUE
      /\ fullRepaint' = TRUE /\ applied' = FALSE
  BY DEF StartRestore
<1>2. SessionTypes
  BY IdleFacts
<1>3. SessionTypes'
  <2>1. desired' = desired /\ shown' = shown /\ (closing' = closing \/ closing' = 0)
    OBVIOUS
  <2>2. closing' \in Int
    BY <1>2, <2>1 DEF SessionTypes
  <2> QED BY <1>1, <1>2, <2>1, <2>2, Zenon DEF SessionTypes
<1>4. FrameOK' /\ PhaseOK' /\ SuspendedOK'
  BY <1>1 DEF FrameOK, PhaseOK, SuspendedOK, Restoring
<1>5. closing' >= -1
  OBVIOUS
<1>6. ClosingOK'
  BY <1>1, <1>5 DEF ClosingOK
<1> QED BY <1>1, <1>3, <1>4, <1>6, OwnerKeeps

LEMMA SuspendKeeps == ASSUME Inv, Suspend PROVE Inv'
<1>1. call = "none" /\ closing = -1 /\ StartRestore("suspend")
      /\ UNCHANGED <<term, raw, pipe, b, desired, shown, closing>>
  BY DEF Suspend, Idle
<1> QED BY <1>1, StartsRestore

LEMMA ResumeKeeps == ASSUME Inv, Resume PROVE Inv'
<1>1. call = "none" /\ closing = -1 /\ suspended /\ call' = "resume" /\ phase' = "recover" /\ goal' = desired
  BY DEF Resume, Idle
<1>2. /\ UNCHANGED <<term, raw, pipe, b>> /\ UNCHANGED <<desired, suspended, cleanup, fullRepaint>>
      /\ UNCHANGED <<shown, applied, closing>>
  BY DEF Resume, session, history
<1>3. /\ SessionTypes /\ SuspendedOK /\ ~applied /\ fullRepaint /\ ~(closing >= 0) /\ ClosingOK
  BY <1>1, IdleFacts
<1>4. SessionTypes'
  BY <1>1, <1>2, <1>3 DEF SessionTypes
<1>5. FrameOK' /\ PhaseOK'
  BY <1>1, <1>2, <1>3 DEF FrameOK, PhaseOK, Restoring
<1>6. SuspendedOK'
  BY <1>1, <1>2, <1>3 DEF SuspendedOK
<1>7. ClosingOK'
  BY <1>1, <1>2, <1>3 DEF ClosingOK
<1> QED BY <1>1, <1>2, <1>3, <1>4, <1>5, <1>6, <1>7, OwnerKeeps

LEMMA CloseKeeps == ASSUME Inv, Close PROVE Inv'
<1>1. call = "none" /\ closing = -1 /\ closing' = 0 /\ UNCHANGED <<term, raw, pipe, b, goal, shown>>
  BY DEF Close, Idle
<1>2. CASE suspended /\ ~cleanup
  <2>1. UNCHANGED <<call, phase, desired, suspended, cleanup, fullRepaint, applied>>
    BY <1>2 DEF Close, session
  <2>2. /\ phase = "idle" /\ SessionTypes /\ SuspendedOK /\ ~applied /\ fullRepaint
    BY <1>1, <1>2, IdleFacts
  <2>3. SessionTypes'
    BY <1>1, <2>1, <2>2 DEF SessionTypes
  <2>4. FrameOK' /\ PhaseOK'
    BY <1>1, <2>1, <2>2 DEF FrameOK, PhaseOK
  <2>5. SuspendedOK'
    BY <1>1, <2>1, <2>2 DEF SuspendedOK
  <2>6. closing' >= -1
    BY <1>1
  <2>7. ClosingOK'
    BY <1>1, <1>2, <2>1, <2>6 DEF ClosingOK
  <2> QED BY <1>1, <2>1, <2>2, <2>3, <2>4, <2>5, <2>7, OwnerKeeps
<1>3. CASE ~(suspended /\ ~cleanup)
  <2>1. StartRestore("suspend") /\ UNCHANGED desired
    BY <1>3 DEF Close
  <2> QED BY <1>1, <2>1, StartsRestore
<1> QED BY <1>2, <1>3

LEMMA DropKeeps == ASSUME Inv, Drop PROVE Inv'
<1>1. /\ call = "none" /\ closing >= 0 /\ UNCHANGED <<term, raw, pipe, b, goal>>
      /\ UNCHANGED <<desired, suspended, cleanup, fullRepaint>> /\ UNCHANGED <<shown, applied, closing>>
  BY DEF Drop, session, history
<1>2. /\ phase = "idle" /\ SessionTypes /\ SuspendedOK /\ ClosingOK /\ (applied => ~suspended)
      /\ ~fullRepaint => applied /\ ~suspended
  BY <1>1, IdleFacts
<1>3. suspended /\ (cleanup => closing >= 1) /\ ~applied /\ fullRepaint /\ closing >= -1
  BY <1>1, <1>2 DEF ClosingOK
<1>4. SessionTypes'
  <2>1. call' # "patch"
    BY <1>1 DEF Drop
  <2> QED BY <1>1, <1>2, <2>1 DEF SessionTypes
<1>5. CASE ~cleanup
  <2>1. call' = "gone" /\ phase' = phase
    BY <1>3, <1>5 DEF Drop
  <2>2. Clean(term) /\ ~raw /\ pipe = <<>>
    BY <1>1, <1>2, <1>3, <1>5 DEF SuspendedOK
  <2>3. Clean(term)' /\ ~raw'
    BY <1>1, <2>2 DEF Clean
  <2>4. FrameOK' /\ PhaseOK'
    BY <1>1, <1>2, <1>3, <2>1 DEF FrameOK, PhaseOK
  <2>5. SuspendedOK'
    BY <1>1, <1>2, <2>1, <2>2, <2>3 DEF SuspendedOK
  <2>6. ClosingOK'
    BY <1>1, <1>3, <2>1, <2>3 DEF ClosingOK
  <2> QED BY <1>1, <1>2, <1>3, <1>4, <2>1, <2>4, <2>5, <2>6, OwnerKeeps
<1>6. CASE cleanup
  <2>1. call' = "drop" /\ phase' = "recover"
    BY <1>3, <1>6 DEF Drop
  <2>4. FrameOK' /\ PhaseOK'
    BY <1>1, <1>2, <1>3, <2>1 DEF FrameOK, PhaseOK, Restoring
  <2>5. SuspendedOK'
    BY <1>1, <1>2, <1>3, <1>6, <2>1 DEF SuspendedOK
  <2>6. ClosingOK'
    BY <1>1, <1>3, <1>6, <2>1 DEF ClosingOK
  <2> QED BY <1>1, <1>2, <1>3, <1>4, <2>1, <2>4, <2>5, <2>6, OwnerKeeps
<1> QED BY <1>2, <1>5, <1>6 DEF SessionTypes

-----------------------------------------------------------------------------
(* A patch begins.                                                         *)

\* The mapping gives each picture an id of its own.
MapGood(k) ==
    /\ \A i, j \in DOMAIN k.mapping : k.mapping[i] = k.mapping[j] => i = j
    /\ k.owned \subseteq {k.mapping[i] : i \in DOMAIN k.mapping}

\* There are more ids than pictures.
LEMMA SomeIdFree ==
    ASSUME NEW D, D \subseteq Images, NEW f, f \in [D -> 1..MaxId]
    PROVE  \E x \in 1..MaxId : \A i \in D : x # f[i]
<1> DEFINE ids == {f[i] : i \in D}
<1>1. IsFiniteSet(Images) /\ MaxId \in Nat /\ MaxId > Cardinality(Images) /\ Cardinality(Images) \in Nat
  BY ModesAssumption, FS_CardinalityType
<1>2. IsFiniteSet(D) /\ Cardinality(D) <= Cardinality(Images) /\ Cardinality(D) \in Nat
  BY <1>1, FS_Subset, FS_CardinalityType
<1>3. f \in Surjection(D, ids)
  BY DEF Surjection
<1>4. IsFiniteSet(ids) /\ Cardinality(ids) <= Cardinality(D) /\ Cardinality(ids) \in Nat
  BY <1>2, <1>3, FS_Surjection, FS_CardinalityType
<1>5. Cardinality(1..MaxId) = MaxId
  <2>1. Cardinality(1..MaxId) = IF 1 > MaxId THEN 0 ELSE MaxId - 1 + 1
    BY <1>1, FS_Interval
  <2> QED BY <1>1, <2>1, MaxIdIs
<1>6. ids # 1..MaxId
  <2> HIDE DEF ids
  <2>1. Cardinality(ids) # MaxId
    BY <1>1, <1>2, <1>4
  <2> QED BY <1>5, <2>1, Zenon
<1>7. ids \subseteq 1..MaxId
  BY SMTT(30)
<1> QED BY <1>6, <1>7

LEMMA FreeIdIs ==
    ASSUME NEW k \in Backends, MapGood(k)
    PROVE  FreeId(k) \in 1..MaxId /\ \A i \in DOMAIN k.mapping : FreeId(k) # k.mapping[i]
<1> DEFINE D == DOMAIN k.mapping
           ids == {k.mapping[i] : i \in DOMAIN k.mapping}
           taken == k.owned \cup {k.mapping[i] : i \in DOMAIN k.mapping}
           after(n) == IF k.nextId + n <= MaxId THEN k.nextId + n ELSE k.nextId + n - MaxId
           S == {n \in 0..MaxId - 1 : after(n) \notin taken}
           skipped == CHOOSE n \in 0..MaxId - 1 : after(n) \notin taken
                                                /\ \A m \in 0..n - 1 : after(m) \in taken
<1>1. k.nextId \in 1..MaxId /\ D \subseteq Images /\ k.mapping \in [D -> 1..MaxId] /\ MaxId \in Nat
  BY MaxIdIs DEF Backends, Mappings
<1>2. PICK x \in 1..MaxId : x \notin ids
  <2>1. \E x \in 1..MaxId : \A i \in D : x # k.mapping[i]
    <3> HIDE DEF D
    <3> QED BY <1>1, SomeIdFree
  <2> QED BY <2>1
<1>3. taken = ids
  BY DEF MapGood
<1>4. \E n \in 0..MaxId - 1 : after(n) = x
  <2>1. CASE x >= k.nextId
    <3>1. x - k.nextId \in 0..MaxId - 1 /\ after(x - k.nextId) = x
      BY <1>1, <2>1
    <3> QED BY <3>1
  <2>2. CASE x < k.nextId
    <3>1. x - k.nextId + MaxId \in 0..MaxId - 1 /\ after(x - k.nextId + MaxId) = x
      BY <1>1, <2>2
    <3> QED BY <3>1
  <2>3. x >= k.nextId \/ x < k.nextId
    BY <1>1
  <2> QED BY <2>1, <2>2, <2>3
<1>5. \E n \in 0..MaxId - 1 : after(n) \notin taken /\ \A m \in 0..n - 1 : after(m) \in taken
  <2>1. S # {} /\ S \subseteq Nat
    BY <1>2, <1>3, <1>4
  <2>2. PICK n \in S : \A y \in S : n <= y
    <3> HIDE DEF S
    <3> QED BY <2>1, LeastExists
  <2>3. ASSUME NEW m \in 0..n - 1 PROVE after(m) \in taken
    <3>1. m \in 0..MaxId - 1 /\ ~(n <= m)
      BY <1>1, <2>2
    <3> QED BY <2>2, <3>1
  <2> QED BY <2>2, <2>3
<1>6. skipped \in 0..MaxId - 1 /\ after(skipped) \notin taken
  <2> HIDE DEF taken, after
  <2> QED BY <1>5
<1>7. FreeId(k) = after(skipped)
  BY DEF FreeId
<1>8. after(skipped) \in 1..MaxId
  <2> HIDE DEF skipped
  <2> QED BY <1>1, <1>6
<1> QED BY <1>3, <1>6, <1>7, <1>8

\* The same backend but for the ids of its pictures.
SameButMap(j, k) ==
    /\ j.active = k.active /\ j.confirmed = k.confirmed /\ j.raw = k.raw /\ j.sync = k.sync
    /\ j.pushed = k.pushed /\ j.mouseUnconfirmed = k.mouseUnconfirmed
    /\ j.titleUnconfirmed = k.titleUnconfirmed /\ j.lifecycleUncertain = k.lifecycleUncertain
    /\ j.syncPending = k.syncPending /\ j.owned = k.owned /\ j.kittyUncertain = k.kittyUncertain

\* j knows the ids that k does, and those of the pictures S.
MapGrows(j, k, S) ==
    /\ j \in Backends /\ MapGood(j) /\ SameButMap(j, k)
    /\ DOMAIN j.mapping = DOMAIN k.mapping \cup S

LEMMA WireIdIs ==
    ASSUME NEW k \in Backends, MapGood(k), NEW image \in Images, NEW j, j = WireId(k, image)
    PROVE  MapGrows(j, k, {image})
<1>1. CASE image \in DOMAIN k.mapping
  <2>1. j = k
    BY <1>1 DEF WireId
  <2> QED BY <1>1, <2>1 DEF MapGrows, SameButMap
<1>2. CASE image \notin DOMAIN k.mapping
  <2> DEFINE D == DOMAIN k.mapping
             id == FreeId(k)
             next == IF id = MaxId THEN 1 ELSE id + 1
             map == Maps(k.mapping, image, id)
  <2>1. D \subseteq Images /\ k.mapping \in [D -> 1..MaxId] /\ MaxId \in Nat
    BY MaxIdIs DEF Backends, Mappings
  <2>2. id \in 1..MaxId /\ \A i \in D : id # k.mapping[i]
    BY FreeIdIs
  <2>3. j = [k EXCEPT !.mapping = map, !.nextId = next]
    BY <1>2 DEF WireId
  <2>4. next \in 1..MaxId
    <3> HIDE DEF id
    <3> QED BY <2>1, <2>2
  <2>5. /\ map \in [{image} \cup D -> 1..MaxId] /\ map[image] = id
        /\ \A i \in D : map[i] = k.mapping[i]
    <3>1. k.mapping \in [D -> 1..MaxId] /\ id \in 1..MaxId /\ \A i \in D : i # image
      BY <1>2, <2>1, <2>2
    <3> HIDE DEF id, D
    <3>2. map = [i \in {image} \cup D |-> IF i = image THEN id ELSE k.mapping[i]]
      BY DEF Maps, D
    <3> HIDE DEF map
    <3> QED BY <3>1, <3>2
  <2> HIDE DEF map, id, next
  <2>6. map \in Mappings
    <3>1. {image} \cup D \in SUBSET Images
      BY <2>1
    <3> QED BY <2>5, <3>1 DEF Mappings
  <2>7. j \in Backends /\ SameButMap(j, k) /\ j.mapping = map
    BY <2>3, <2>4, <2>6 DEF Backends, SameButMap
  <2>8. DOMAIN j.mapping = D \cup {image}
    BY <2>5, <2>7
  <2>9. \A a, c \in DOMAIN j.mapping : j.mapping[a] = j.mapping[c] => a = c
    BY <2>2, <2>5, <2>7, <2>8 DEF MapGood
  <2>10. j.owned \subseteq {j.mapping[i] : i \in DOMAIN j.mapping}
    <3>1. \A i \in D : i \in DOMAIN j.mapping /\ j.mapping[i] = k.mapping[i]
      BY <2>5, <2>7, <2>8
    <3>2. j.owned = k.owned /\ k.owned \subseteq {k.mapping[i] : i \in D}
      BY <2>7 DEF MapGood, SameButMap
    <3> QED BY <3>1, <3>2
  <2> QED BY <2>7, <2>8, <2>9, <2>10 DEF MapGrows, MapGood
<1> QED BY <1>1, <1>2

\* The backend on the way through the pictures of a scene.
IsMapping(r, scene) ==
    r = [n \in 0..Cardinality(scene) |->
            IF n = 0 THEN b ELSE WireId(r[n - 1], Ordered(scene)[n])]

LEMMA MappingExists ==
    ASSUME NEW scene, Cardinality(scene) \in Nat
    PROVE  \E r : IsMapping(r, scene)
<1> DEFINE Upto(r, m) == r = [n \in 0..m |-> IF n = 0 THEN b ELSE WireId(r[n - 1], Ordered(scene)[n])]
           S == {m \in 0..Cardinality(scene) : \E r : Upto(r, m)}
<1>1. 0 \in S
  <2> DEFINE r == [n \in {0} |-> b]
  <2>1. Upto(r, 0)
    <3>1. 0..0 = {0}
      OBVIOUS
    <3> QED BY <3>1
  <2> HIDE DEF r
  <2> QED BY <2>1
<1>2. ASSUME NEW m \in 0 .. Cardinality(scene) - 1, m \in S PROVE m + 1 \in S
  <2>1. PICK r : Upto(r, m)
    BY <1>2
  <2> DEFINE q == [n \in 0 .. m + 1 |-> IF n = m + 1 THEN WireId(r[m], Ordered(scene)[m + 1]) ELSE r[n]]
  <2>2. \A n \in 0 .. m + 1 : q[n] = IF n = 0 THEN b ELSE WireId(q[n - 1], Ordered(scene)[n])
    BY <2>1
  <2>3. Upto(q, m + 1)
    BY <2>2
  <2> HIDE DEF q
  <2> QED BY <1>2, <2>3, SMTT(30)
<1>3. \A m \in 0..Cardinality(scene) : m \in S
  <2> HIDE DEF S
  <2> QED BY <1>1, <1>2, Induction
<1>4. Cardinality(scene) \in S
  BY <1>3
<1> QED BY <1>4 DEF IsMapping

LEMMA MappedIs ==
    ASSUME b \in Backends, MapGood(b), NEW scene \in SUBSET Images
    PROVE  MapGrows(Mapped(scene), b, scene)
<1> DEFINE n == Cardinality(scene)
           f == Ordered(scene)
<1>1. /\ n \in Nat /\ f \in [1..n -> scene] /\ \A x \in scene : \E i \in 1..n : f[i] = x
  <2>1. IsFiniteSet(scene)
    BY ModesAssumption, FS_Subset
  <2> QED BY <2>1, OrderedIs
<1>2. PICK r : IsMapping(r, scene)
  <2>1. Cardinality(scene) \in Nat
    BY <1>1
  <2> QED BY <2>1, MappingExists
<1>3. Mapped(scene) = r[n]
  <2>1. \E q : IsMapping(q, scene) /\ Mapped(scene) = q[Cardinality(scene)]
    BY <1>2 DEF Mapped, IsMapping
  <2>2. PICK q : IsMapping(q, scene) /\ Mapped(scene) = q[n]
    BY <2>1
  <2> DEFINE S == {m \in 0..n : q[m] = r[m]}
  <2>3. 0 \in S
    BY <1>1, <1>2, <2>2 DEF IsMapping
  <2>4. ASSUME NEW m \in 0 .. n - 1, m \in S PROVE m + 1 \in S
    <3> HIDE DEF n, f
    <3>1. m + 1 \in 0..n /\ m + 1 # 0 /\ (m + 1) - 1 = m
      BY <1>1
    <3>2. q[m + 1] = WireId(q[m], f[m + 1]) /\ r[m + 1] = WireId(r[m], f[m + 1])
      BY <1>2, <2>2, <3>1 DEF IsMapping, n, f
    <3> QED BY <2>4, <3>1, <3>2
  <2>5. n \in S
    <3>1. n \in Nat
      BY <1>1
    <3>2. \A m \in 0 .. n - 1 : m \in S => m + 1 \in S
      BY <2>4
    <3> HIDE DEF S, n
    <3>3. \A m \in 0..n : m \in S
      BY <2>3, <3>1, <3>2, Induction
    <3> QED BY <3>1, <3>3
  <2> QED BY <2>2, <2>5
<1> HIDE DEF n, f
<1> DEFINE S == {m \in 0..n : MapGrows(r[m], b, {f[i] : i \in 1..m})}
<1>4. 0 \in S
  <2>1. r[0] = b /\ 0 \in 0..n
    BY <1>1, <1>2 DEF IsMapping, n
  <2>2. {f[i] : i \in 1..0} = {}
    OBVIOUS
  <2>3. MapGrows(b, b, {})
    BY DEF MapGrows, SameButMap
  <2> QED BY <2>1, <2>2, <2>3
<1>5. ASSUME NEW m \in 0 .. n - 1, m \in S PROVE m + 1 \in S
  <2>1. m + 1 \in 0..n /\ m + 1 # 0 /\ (m + 1) - 1 = m /\ m + 1 \in 1..n
    BY <1>1
  <2>2. r[m + 1] = WireId(r[m], f[m + 1])
    BY <1>2, <2>1 DEF IsMapping, n, f
  <2>3. f[m + 1] \in Images
    BY <1>1, <2>1
  <2> DEFINE A == {f[i] : i \in 1..m}
             B == {f[i] : i \in 1..m + 1}
  <2>4. MapGrows(r[m], b, A)
    BY <1>5
  <2>5. r[m] \in Backends /\ MapGood(r[m])
    BY <2>4 DEF MapGrows
  <2>6. MapGrows(r[m + 1], r[m], {f[m + 1]})
    BY <2>2, <2>3, <2>5, WireIdIs
  <2>7. B = A \cup {f[m + 1]}
    <3>1. \A i : i \in 1..m + 1 <=> i \in 1..m \/ i = m + 1
      BY <2>1
    <3> QED BY <3>1
  <2> HIDE DEF A, B
  <2>8. MapGrows(r[m + 1], b, B)
    BY <2>4, <2>6, <2>7 DEF MapGrows, SameButMap
  <2> QED BY <2>1, <2>8 DEF B
<1>6. n \in S
  <2>1. n \in Nat
    BY <1>1
  <2>2. \A m \in 0 .. n - 1 : m \in S => m + 1 \in S
    BY <1>5
  <2> HIDE DEF S
  <2>3. \A m \in 0..n : m \in S
    BY <1>4, <2>1, <2>2, Induction
  <2> QED BY <2>1, <2>3
<1>7. {f[i] : i \in 1..n} = scene
  BY <1>1
<1> QED BY <1>3, <1>6, <1>7

MappedIds(k) == {k.mapping[i] : i \in DOMAIN k.mapping}

\* The ids of the pictures of an update, in the mapping.
LEMMA UpdateIs ==
    ASSUME b \in Backends, NEW scene \in SUBSET Images, NEW k, MapGrows(k, b, scene), NEW u, u = Update(k, scene)
    PROVE  /\ u \in Updates /\ u.recover = b.kittyUncertain /\ u.delete = b.owned /\ u.scene = scene
           /\ scene \subseteq DOMAIN k.mapping /\ \A i \in scene : u.id[i] = k.mapping[i]
           /\ Wire(u) \subseteq 1..MaxId /\ Wire(u) \subseteq MappedIds(k)
<1>1. /\ k \in Backends /\ scene \subseteq DOMAIN k.mapping
      /\ \A i \in DOMAIN k.mapping : k.mapping[i] \in 1..MaxId
  BY DEF MapGrows, Backends, Mappings
<1>2. /\ b.kittyUncertain \in BOOLEAN /\ b.owned \in SUBSET (1..MaxId)
  BY DEF Backends
<1> DEFINE id == [i \in scene |-> k.mapping[i]]
<1>3. id \in Mappings
  <2>1. id \in [scene -> 1..MaxId]
    BY <1>1
  <2> HIDE DEF id
  <2> QED BY <2>1 DEF Mappings
<1>4. u.recover = b.kittyUncertain /\ u.delete = b.owned /\ u.scene = scene /\ u.id = id /\ u \in Updates
  <2>1. u = [recover |-> b.kittyUncertain, delete |-> b.owned, scene |-> scene, id |-> id]
    BY DEF Update
  <2> HIDE DEF id
  <2> QED BY <1>2, <1>3, <2>1 DEF Updates
<1>5. \A i \in scene : u.id[i] = k.mapping[i]
  BY <1>4
<1>6. ASSUME NEW w \in Wire(u) PROVE w \in 1..MaxId /\ w \in {k.mapping[i] : i \in DOMAIN k.mapping}
  <2>1. PICK i \in scene : w = u.id[i]
    BY <1>4 DEF Wire
  <2>2. i \in DOMAIN k.mapping /\ w = k.mapping[i]
    BY <1>1, <1>5, <2>1
  <2> QED BY <1>1, <2>2
<1> QED BY <1>1, <1>4, <1>5, <1>6 DEF MappedIds

LEMMA SceneUpdates ==
    ASSUME b \in Backends, MapGood(b), NEW scene \in SUBSET Images
    PROVE  LET k == Mapped(scene)
               u == Update(k, scene)
           IN  /\ k \in Backends /\ MapGood(k) /\ SameButMap(k, b)
               /\ u \in Updates /\ u.recover = b.kittyUncertain /\ u.delete = b.owned /\ u.scene = scene
               /\ scene \subseteq DOMAIN k.mapping /\ \A i \in scene : u.id[i] = k.mapping[i]
               /\ Wire(u) \subseteq 1..MaxId /\ Wire(u) \subseteq MappedIds(k)
<1> DEFINE k == Mapped(scene)
           u == Update(k, scene)
<1>1. MapGrows(k, b, scene)
  BY MappedIs
<1>2. u = Update(k, scene)
  OBVIOUS
<1> HIDE DEF k, u
<1>3. /\ u \in Updates /\ u.recover = b.kittyUncertain /\ u.delete = b.owned /\ u.scene = scene
      /\ scene \subseteq DOMAIN k.mapping /\ \A i \in scene : u.id[i] = k.mapping[i]
      /\ Wire(u) \subseteq 1..MaxId /\ Wire(u) \subseteq MappedIds(k)
  <2>1. u \in Updates
    BY <1>1, <1>2, UpdateIs
  <2>2. u.recover = b.kittyUncertain /\ u.delete = b.owned /\ u.scene = scene
    BY <1>1, <1>2, UpdateIs
  <2>3. scene \subseteq DOMAIN k.mapping
    BY <1>1, <1>2, UpdateIs
  <2>4. \A i \in scene : u.id[i] = k.mapping[i]
    <3> TAKE i \in scene
    <3> QED BY <1>1, <1>2, UpdateIs
  <2>5. Wire(u) \subseteq 1..MaxId
    BY <1>1, <1>2, UpdateIs
  <2>6. Wire(u) \subseteq MappedIds(k)
    BY <1>1, <1>2, UpdateIs
  <2> QED BY <2>1, <2>2, <2>3, <2>4, <2>5, <2>6
<1> QED BY <1>1, <1>3 DEF MapGrows, k, u

LEMMA NoUpdateIs ==
    /\ NoUpdate \in Updates /\ Wire(NoUpdate) = {} /\ ~HasOutput(NoUpdate)
<1>1. NoUpdate \in Updates
  BY NoMapping DEF NoUpdate, Updates
<1>2. NoUpdate.scene = {} /\ NoUpdate.delete = {} /\ NoUpdate.recover = FALSE
  BY DEF NoUpdate
<1> QED BY <1>1, <1>2 DEF Wire, HasOutput

\* More ids may be owned on the alternate screen.
LEMMA KnownOwning ==
    ASSUME NEW t, NEW k, Known(t, k, FALSE), NEW j,
           j.active = k.active, j.confirmed = k.confirmed, j.pushed = k.pushed,
           j.mouseUnconfirmed = k.mouseUnconfirmed, j.titleUnconfirmed = k.titleUnconfirmed,
           j.lifecycleUncertain = k.lifecycleUncertain, j.syncPending = k.syncPending,
           j.kittyUncertain = k.kittyUncertain, k.owned \subseteq j.owned,
           j.owned # k.owned => t.screen = "alternate" /\ k.active.screen = "alternate"
    PROVE  Known(t, j, FALSE)
<1>1. KnowsWriting(t, j) /\ Enhanced(j)
  BY DEF Known, KnowsWriting, Enhanced
<1>2. KnowsScreen(t, j, FALSE)
  BY DEF Known, KnowsScreen
<1>3. KnowsModes(t, j, FALSE)
  BY DEF Known, KnowsModes
<1>4. KnowsImages(t, j)
  BY DEF Known, KnowsImages
<1> QED BY <1>1, <1>2, <1>3, <1>4 DEF Known

\* The terminal at the end of its pipe, while apply_state stands.
LEMMA VirtualReal ==
    ASSUME Inv, applied
    PROVE  /\ Virtual \in Terminals /\ Real(Virtual, desired) /\ Real(term, desired)
           /\ Virtual.screen = b.active.screen /\ term.screen = b.active.screen
<1>1. /\ term \in Terminals /\ Real(term, desired) /\ pipe \in Seq(FrameCommands)
      /\ b.active.screen = desired.screen
  BY DEF Inv, TypesOK, AppliedOK
<1>2. Virtual \in Terminals /\ Real(Virtual, desired)
  BY <1>1, FrameKeepsReal DEF Virtual
<1> QED BY <1>1, <1>2 DEF Real

LEMMA StartPatchKeeps ==
    ASSUME Inv, Careful, NEW full \in BOOLEAN, NEW runs \in BOOLEAN, NEW scene \in SUBSET Images,
           NEW cursor \in {"hidden", "shown"}, NEW refused \in BOOLEAN,
           StartPatch(full, runs, scene, cursor, refused)
    PROVE  Inv'
<1> DEFINE new == [scene |-> scene, cursor |-> cursor]
           updates == b.active.screen = "alternate" /\ (full \/ scene # shown.scene)
           k == IF updates THEN Mapped(scene) ELSE b
           update == IF updates THEN Update(k, scene) ELSE NoUpdate
           silent == ~runs /\ new.cursor = shown.cursor /\ ~HasOutput(update)
           patch == [full |-> full, runs |-> runs, cursor |-> cursor, updates |-> updates,
                     update |-> update, silent |-> silent]
<1>1. /\ call = "none" /\ closing = -1 /\ ~suspended /\ applied
      /\ fullRepaint => full
      /\ full => runs
  BY DEF StartPatch
<1>2. /\ shown' = new
      /\ b' = [k EXCEPT !.owned = @ \cup Wire(update)]
      /\ UNCHANGED <<term, raw, pipe, desired, suspended, cleanup, applied>>
  BY DEF StartPatch
<1>3. \/ refused /\ fullRepaint' = TRUE /\ call' = call /\ phase' = phase /\ closing' = closing
      \/ ~refused /\ goal' = patch /\ call' = "patch" /\ phase' = "recover" /\ fullRepaint' = FALSE
         /\ closing' = closing
  <2>1. CASE refused
    <3>1. Fault /\ fullRepaint' = TRUE /\ call' = call /\ phase' = phase
      BY <2>1 DEF StartPatch
    <3>2. ~(closing >= 0)
      BY <1>1
    <3> QED BY <2>1, <3>1, <3>2 DEF Fault
  <2>2. CASE ~refused
    BY <2>2 DEF StartPatch, NoFault
  <2> QED BY <2>1, <2>2
<1>4. /\ phase = "idle" /\ SessionTypes
  BY <1>1, IdleFacts
<1>5. /\ term \in Terminals /\ pipe \in Seq(Sent) /\ b \in Backends /\ raw \in BOOLEAN
      /\ AppliedOK /\ MapOK /\ RawOK
  BY InvTo
<1>6. Known(Virtual, b, FALSE) /\ Virtual' = Virtual
  <2>1. Virtual \in KnownTerminals(b, FALSE)
    BY <1>4, VirtualKnown
  <2> QED BY <1>2, <2>1 DEF KnownTerminals, Virtual
<1>7. Virtual.screen = b.active.screen /\ term.screen = b.active.screen
  BY <1>1, VirtualReal
<1>8. ~full => Shows(term, shown) /\ pipe = <<>> /\ ~b.kittyUncertain
  BY <1>1 DEF Inv, FrameOK
<1>9. MapGood(b)
  BY <1>5 DEF MapOK, MapGood
<1> HIDE DEF silent
<1>10. /\ k \in Backends /\ MapGood(k) /\ SameButMap(k, b) /\ update \in Updates
       /\ Wire(update) \subseteq 1..MaxId /\ Wire(update) \subseteq MappedIds(k)
       /\ updates => /\ update.recover = b.kittyUncertain /\ update.delete = b.owned /\ update.scene = scene
                     /\ scene \subseteq DOMAIN k.mapping /\ \A i \in scene : update.id[i] = k.mapping[i]
       /\ ~updates => update = NoUpdate /\ Wire(update) = {}
  <2>1. CASE updates
    <3>1. k = Mapped(scene) /\ update = Update(Mapped(scene), scene)
      BY <2>1
    <3> HIDE DEF k, update, updates
    <3> QED BY <1>5, <1>9, <2>1, <3>1, SceneUpdates
  <2>2. CASE ~updates
    <3>1. k = b /\ update = NoUpdate
      BY <2>2
    <3> HIDE DEF k, update, updates
    <3>2. Wire(update) = {} /\ update \in Updates
      BY <3>1, NoUpdateIs
    <3>3. SameButMap(k, b)
      BY <3>1 DEF SameButMap
    <3> QED BY <1>5, <1>9, <2>2, <3>1, <3>2, <3>3
  <2> HIDE DEF updates
  <2> QED BY <2>1, <2>2
<1>11. /\ updates \in BOOLEAN /\ (updates => b.active.screen = "alternate")
       /\ ~updates /\ b.active.screen = "alternate" => ~full /\ scene = shown.scene
  OBVIOUS
<1>12. silent \in BOOLEAN /\ (silent => ~runs /\ cursor = shown.cursor /\ ~HasOutput(update))
  BY DEF silent
<1> HIDE DEF k, update, updates
<1>13. /\ b' \in Backends /\ SameButMap([b' EXCEPT !.owned = b.owned], b) /\ b'.mapping = k.mapping
       /\ b'.owned = b.owned \cup Wire(update)
  <2>1. k.owned = b.owned
    BY <1>10 DEF SameButMap
  <2>2. b'.owned = b.owned \cup Wire(update) /\ b'.mapping = k.mapping
    BY <1>2, <1>10, <2>1 DEF Backends
  <2>3. b.owned \cup Wire(update) \in SUBSET (1..MaxId)
    BY <1>5, <1>10 DEF Backends
  <2>4. b' \in Backends
    BY <1>2, <1>10, <2>1, <2>3 DEF Backends
  <2>5. SameButMap([b' EXCEPT !.owned = b.owned], b)
    BY <1>2, <1>10 DEF SameButMap, Backends
  <2> QED BY <2>2, <2>4, <2>5
<1>14. /\ b'.active = b.active /\ b'.confirmed = b.confirmed /\ b'.raw = b.raw /\ b'.pushed = b.pushed
       /\ b'.mouseUnconfirmed = b.mouseUnconfirmed /\ b'.titleUnconfirmed = b.titleUnconfirmed
       /\ b'.lifecycleUncertain = b.lifecycleUncertain /\ b'.syncPending = b.syncPending
       /\ b'.kittyUncertain = b.kittyUncertain
  BY <1>13 DEF SameButMap, Backends
<1>15. KnownOK'
  <2>1. b'.owned # b.owned => Virtual.screen = "alternate" /\ b.active.screen = "alternate"
    BY <1>7, <1>10, <1>11, <1>13
  <2>2. b.owned \subseteq b'.owned
    BY <1>13
  <2>3. Known(Virtual, b', FALSE)
    BY <1>6, <1>14, <2>1, <2>2, KnownOwning
  <2>4. (phase' = "cook after error") = FALSE
    BY <1>3, <1>4
  <2> QED BY <1>6, <2>3, <2>4 DEF KnownOK
<1>16. AppliedOK'
  <2>1. call' \in {"none", "patch"}
    BY <1>1, <1>3
  <2> QED BY <1>1, <1>2, <1>5, <1>14, <2>1 DEF AppliedOK
<1>17. MapOK'
  <2>1. \A i, j \in DOMAIN b'.mapping : b'.mapping[i] = b'.mapping[j] => i = j
    BY <1>10, <1>13 DEF MapGood
  <2>2. b.owned \subseteq {k.mapping[i] : i \in DOMAIN k.mapping}
    BY <1>10 DEF MapGood, SameButMap
  <2>3. b'.owned \subseteq {b'.mapping[i] : i \in DOMAIN b'.mapping}
    BY <1>10, <1>13, <2>2 DEF MappedIds
  <2> QED BY <2>1, <2>3 DEF MapOK
<1>18. RawOK'
  BY <1>2, <1>5, <1>14 DEF RawOK
<1>19. SessionTypes'
  <2>1. shown' \in Frames
    BY <1>2 DEF Frames
  <2>2. call' = "patch" => goal' \in Patches
    <3>1. patch \in Patches
      BY <1>10, <1>11, <1>12 DEF Patches
    <3>2. call' = "patch" => goal' = patch
      BY <1>1, <1>3
    <3> QED BY <3>1, <3>2
  <2>3. fullRepaint' \in BOOLEAN /\ closing' = closing
    BY <1>3
  <2> QED BY <1>2, <1>4, <2>1, <2>2, <2>3 DEF SessionTypes
<1>20. FrameOK'
  BY <1>1, <1>3 DEF FrameOK
<1>21. PhaseOK'
  BY <1>1, <1>3, <1>4 DEF PhaseOK, Restoring
<1>22. RunningOK'
  BY <1>3, <1>4 DEF RunningOK
<1>23. SuspendedOK'
  <2>1. ~suspended' /\ ~cleanup' /\ call' \in {"none", "patch"}
    BY <1>1, <1>2, <1>3 DEF Inv, SuspendedOK
  <2> QED BY <2>1 DEF SuspendedOK
<1>24. ClosingOK'
  <2>1. closing' = -1
    BY <1>1, <1>3
  <2>2. closing' >= -1 /\ ~(closing' >= 0)
    BY <2>1
  <2> QED BY <2>2 DEF ClosingOK
<1>25. PatchOK'
  <2> SUFFICES ASSUME call' = "patch" PROVE PatchModeOK' /\ PatchImagesOK'
    BY DEF PatchOK
  <2>1. goal' = patch /\ phase' = "recover" /\ fullRepaint' = FALSE /\ closing' = -1
    BY <1>1, <1>3
  <2>2. /\ goal'.full = full /\ goal'.runs = runs /\ goal'.cursor = cursor /\ goal'.updates = updates
        /\ goal'.update = update /\ goal'.silent = silent
    BY <2>1
  <2> HIDE DEF patch
  <2>3. shown'.scene = scene /\ shown'.cursor = cursor
    BY <1>2
  <2>4. PatchModeOK'
    <3>1. silent => term.cursor = shown.cursor
      BY <1>1, <1>8, <1>12 DEF Shows
    <3>2. ~full => /\ term.cells = "good" /\ term.parser = "ground" /\ ~term.sync
                   /\ pipe = <<>> /\ ~b.kittyUncertain
      BY <1>8 DEF Shows
    <3> QED BY <1>1, <1>2, <1>12, <1>14, <2>1, <2>2, <2>3, <3>1, <3>2 DEF PatchModeOK
  <2>5. CASE ~updates
    <3>1. b.active.screen = "alternate" => ~full /\ term.upload = <<>> /\ Pictures(term) = scene
      BY <1>7, <1>8, <1>11, <2>5 DEF Shows
    <3>2. PatchImagesOK'
      BY <1>2, <1>10, <1>14, <2>2, <2>3, <2>5, <3>1 DEF PatchImagesOK, Pictures
    <3> QED BY <2>4, <3>2
  <2>6. CASE updates
    <3>1. Ids(Virtual) \subseteq b.owned /\ (Virtual.upload # <<>> => b.owned # {})
      BY <1>6 DEF Known, KnowsImages
    <3>2. /\ goal'.update.scene = shown'.scene /\ goal'.update.recover = b'.kittyUncertain
          /\ goal'.update.delete = b.owned /\ b'.active.screen = "alternate"
          /\ goal'.update.scene \subseteq DOMAIN b'.mapping
          /\ \A i \in goal'.update.scene : goal'.update.id[i] = b'.mapping[i]
      BY <1>10, <1>11, <1>13, <1>14, <2>2, <2>3, <2>6
    <3>3. goal'.update.delete \cup Wire(goal'.update) = b'.owned
      BY <1>13, <2>2, <3>2
    <3>4. Ids(Virtual') \subseteq goal'.update.delete
          /\ (Virtual'.upload # <<>> => goal'.update.delete # {})
      BY <1>6, <3>1, <3>2
    <3>5. goal'.updates
      BY <2>2, <2>6
    <3>6. PatchImagesOK'
      BY <3>2, <3>3, <3>4, <3>5 DEF PatchImagesOK, Wire, Ids
    <3> QED BY <2>4, <3>6
  <2> QED BY <2>5, <2>6
<1>26. ControlOK'
  BY <1>19, <1>20, <1>21, <1>22, <1>23, <1>24, <1>25 DEF ControlOK
<1> QED BY <1>2, <1>5, <1>13, <1>15, <1>16, <1>17, <1>18, <1>26, InvFrom

-----------------------------------------------------------------------------
(* A frame.                                                                *)

\* What a frame is written from.
Writes ==
    /\ b \in Backends /\ goal \in Patches /\ Virtual \in Terminals /\ Known(Virtual, b, FALSE)
    /\ Virtual.screen = b.active.screen /\ ~Virtual.sync /\ Virtual.parser # "osc"
    /\ Virtual.parser = "apc" => b.kittyUncertain
    /\ goal.update.recover = b.kittyUncertain
    /\ goal.updates => b.active.screen = "alternate"
    /\ ~goal.updates => goal.update = NoUpdate
    /\ b.kittyUncertain => b.active.screen = "alternate"

LEMMA WritesFacts ==
    ASSUME Inv, phase = "frame"
    PROVE  /\ Writes /\ PatchModeOK /\ PatchImagesOK /\ call = "patch" /\ ~Restoring /\ applied
           /\ ~b.lifecycleUncertain /\ ~b.syncPending /\ Real(Virtual, desired) /\ Real(term, desired)
           /\ closing = -1 /\ ~suspended /\ ~cleanup /\ ~fullRepaint
           /\ b.active.screen = desired.screen /\ (b.pushed <=> desired.keyboard = "enhanced")
           /\ term.screen = b.active.screen
<1>1. /\ call = "patch" /\ ~Restoring /\ ~b.lifecycleUncertain /\ ~b.syncPending /\ PatchModeOK
      /\ PatchImagesOK /\ b \in Backends /\ goal \in Patches
  BY DEF Inv, PhaseOK, RunningOK, PatchOK, TypesOK, Restoring
<1>2. applied /\ closing = -1 /\ ~suspended /\ ~cleanup /\ ~fullRepaint
  BY <1>1 DEF PatchModeOK, Inv, SuspendedOK
<1>3. b.active.screen = desired.screen /\ (b.pushed <=> desired.keyboard = "enhanced")
  BY <1>2 DEF Inv, AppliedOK
<1>4. /\ Virtual \in Terminals /\ Real(Virtual, desired) /\ Real(term, desired)
      /\ Virtual.screen = b.active.screen /\ term.screen = b.active.screen
  BY <1>2, VirtualReal
<1>5. Known(Virtual, b, FALSE)
  BY VirtualKnown DEF KnownTerminals
<1>6. ~Virtual.sync /\ (Virtual.parser = "apc" => b.kittyUncertain)
  BY <1>1, <1>5 DEF Known, KnowsWriting
<1>7. Virtual.parser # "osc"
  BY <1>4 DEF Real
<1>8. b.kittyUncertain => b.active.screen = "alternate"
  BY <1>5 DEF Known, KnowsScreen
<1>9. /\ goal.updates => b.active.screen = "alternate" /\ goal.update.recover = b.kittyUncertain
      /\ ~goal.updates => goal.update = NoUpdate
      /\ ~goal.updates /\ b.active.screen = "alternate" => ~goal.full
      /\ ~goal.full => ~b.kittyUncertain
  BY <1>1 DEF PatchModeOK, PatchImagesOK
<1>10. goal.update.recover = b.kittyUncertain
  <2>1. NoUpdate.recover = FALSE
    BY DEF NoUpdate
  <2>2. b.kittyUncertain \in BOOLEAN
    BY <1>1 DEF Backends
  <2>3. CASE goal.updates
    BY <1>9, <2>3
  <2>4. CASE ~goal.updates
    <3>1. ~b.kittyUncertain
      BY <1>8, <1>9, <2>4
    <3> QED BY <1>9, <2>1, <2>2, <2>4, <3>1
  <2> QED BY <2>3, <2>4
<1> QED BY <1>1, <1>2, <1>3, <1>4, <1>5, <1>6, <1>7, <1>8, <1>9, <1>10 DEF Writes

\* The commands of this frame.
FrameOuts ==
    {c \in Commands :
        \/ c[1] \in {"ST", "erase", "cells", "cursor"}
        \/ c[1] = "sync" /\ (c[2] => b.sync)
        \/ c[1] = "delete" /\ goal.updates
        \/ c[1] \in {"first", "last"} /\ goal.updates /\ c[2][1] \in b.owned}

LEMMA FrameOutsAre ==
    /\ FrameOuts \subseteq Given \cap FrameCommands
    /\ \A c \in FrameOuts : Torn(c) \in FrameCommands /\ Torn(c) \in Sent
<1>1. ASSUME NEW c \in FrameOuts PROVE c \in Given /\ c \in Sent /\ c[1] \in FrameKinds /\ c[1] # "torn"
  <2>1. c \in Given /\ c \in Sent /\ c[1] # "torn"
    BY CommandIsGiven, GivenIsSent DEF FrameOuts
  <2>2. c[1] \in FrameKinds
    BY DEF FrameOuts, FrameKinds
  <2> QED BY <2>1, <2>2
<1>2. ASSUME NEW c \in FrameOuts PROVE Torn(c) \in FrameCommands /\ Torn(c) \in Sent
  <2>1. Torn(c)[1] = "torn" /\ Torn(c)[2] = c[1] /\ Torn(c) \in Sent
    BY <1>1, TornIsSent DEF Torn
  <2> QED BY <1>1, <2>1 DEF FrameCommands
<1> QED BY <1>1, <1>2 DEF FrameCommands

\* The terminal, wherever the frame is stopped.
Held ==
    {u \in Terminals :
        /\ u.screen = Virtual.screen /\ u.keyboard = Virtual.keyboard /\ u.mouse = Virtual.mouse
        /\ u.paste = Virtual.paste /\ u.nowrap = Virtual.nowrap /\ u.title = Virtual.title
        /\ u.parser # "osc" /\ (u.parser = "apc" => b.kittyUncertain \/ goal.updates)
        /\ u.foreign /\ (u.sync => b.sync)
        /\ Ids(u) \subseteq b.owned /\ (u.upload # <<>> => b.owned # {})}

\* Its images.
LEMMA HeldImages ==
    ASSUME Writes, NEW u \in Held, NEW c \in FrameOuts, NEW w, w = Receive(u, c) \/ w = Receive(u, Torn(c))
    PROVE  /\ u.screen = "main" => w.foreign
           /\ Ids(w) \subseteq b.owned /\ (w.upload # <<>> => b.owned # {})
<1>1. /\ u \in Terminals /\ Ids(u) \subseteq b.owned /\ (u.upload # <<>> => b.owned # {})
      /\ u.foreign /\ u.screen = b.active.screen
  BY DEF Held, Writes
<1>2. /\ c[1] \in {"ST", "erase", "cells", "cursor", "sync"} \/ (c[1] \in Kitty /\ goal.updates)
      /\ c[1] \in {"first", "last"} => c[2][1] \in b.owned /\ c[2] \in Parts
      /\ c[1] \notin {"note", "torn"} /\ c \in Given
  <2>1. c \in Given /\ c[1] \notin {"note", "torn"}
    BY CommandIsGiven DEF FrameOuts
  <2>2. c[1] \in {"first", "last"} => c[2] \in Parts
    BY <2>1, Kinds
  <2> QED BY <2>1, <2>2 DEF FrameOuts, Kitty
<1>3. c[1] \in Kitty => u.screen # "main"
  BY <1>1, <1>2 DEF Writes, Kitty
<1>4. CASE w = u
  BY <1>1, <1>4
<1>5. CASE w.foreign = u.foreign /\ w.images = u.images /\ (w.upload = u.upload \/ b.owned # {})
  BY <1>1, <1>5 DEF Ids
<1>6. CASE u.parser # "ground" /\ w = Receive(u, c)
  <2>1. w = Swallowed(u, c[1])
    BY <1>2, <1>6, InString
  <2>2. w = u \/ w = [u EXCEPT !.cells = "lost"] \/ w = Ended(u)
    BY <2>1 DEF Swallowed
  <2>3. w.foreign = u.foreign /\ w.images = u.images /\ w.upload = u.upload
    <3>1. CASE w = u
      BY <3>1
    <3>2. CASE w = [u EXCEPT !.cells = "lost"]
      BY <1>1, <3>2 DEF Terminals
    <3>3. CASE w = Ended(u)
      BY <1>1, <3>3 DEF Ended, Terminals
    <3> QED BY <2>2, <3>1, <3>2, <3>3
  <2> QED BY <1>5, <2>3
<1>7. CASE u.parser # "ground" /\ w = Receive(u, Torn(c))
  <2>1. w = u
    BY <1>7, InString DEF Torn
  <2> QED BY <1>4, <2>1
<1>8. CASE u.parser = "ground" /\ w = Receive(u, Torn(c))
  <2>1. CASE c[1] \in {"ST", "erase", "sync", "cursor"}
    <3>1. w = u
      BY <1>8, <2>1, TornGrounded
    <3> QED BY <1>4, <3>1
  <2>2. CASE c[1] = "cells"
    <3>1. w = [u EXCEPT !.cells = "lost"]
      BY <1>8, <2>2, TornGrounded
    <3>2. w.foreign = u.foreign /\ w.images = u.images /\ w.upload = u.upload
      BY <1>1, <3>1 DEF Terminals
    <3> QED BY <1>5, <3>2
  <2>3. CASE c[1] = "first"
    <3>1. w = [u EXCEPT !.parser = "apc", !.upload = c[2]]
      BY <1>8, <2>3, TornGrounded
    <3>2. w.foreign = u.foreign /\ w.images = u.images
      BY <1>1, <3>1 DEF Terminals
    <3>3. b.owned # {}
      BY <1>2, <2>3
    <3> QED BY <1>5, <3>2, <3>3
  <2>4. CASE c[1] \in {"delete", "last"}
    <3>1. w = [u EXCEPT !.parser = "apc"]
      BY <1>8, <2>4, TornGrounded
    <3>2. w.foreign = u.foreign /\ w.images = u.images /\ w.upload = u.upload
      BY <1>1, <3>1 DEF Terminals
    <3> QED BY <1>5, <3>2
  <2> QED BY <1>2, <2>1, <2>2, <2>3, <2>4, SMTT(30) DEF Kitty
<1>9. CASE u.parser = "ground" /\ w = Receive(u, c)
  <2>1. CASE c[1] = "ST"
    <3>1. w = u
      BY <1>9, <2>1, Grounded
    <3> QED BY <1>4, <3>1
  <2>2. CASE c[1] \in {"erase", "cells"}
    <3>1. \E x : w = [u EXCEPT !.cells = x]
      BY <1>9, <2>2 DEF Receive, Understood, Kitty
    <3>2. w.foreign = u.foreign /\ w.images = u.images /\ w.upload = u.upload
      BY <1>1, <3>1 DEF Terminals
    <3> QED BY <1>5, <3>2
  <2>3. CASE c[1] = "cursor"
    <3>1. w = [u EXCEPT !.cursor = c[2]]
      BY <1>9, <2>3, Grounded
    <3>2. w.foreign = u.foreign /\ w.images = u.images /\ w.upload = u.upload
      BY <1>1, <3>1 DEF Terminals
    <3> QED BY <1>5, <3>2
  <2>4. CASE c[1] = "sync"
    <3>1. w = [u EXCEPT !.sync = c[2]]
      BY <1>9, <2>4, Grounded
    <3>2. w.foreign = u.foreign /\ w.images = u.images /\ w.upload = u.upload
      BY <1>1, <3>1 DEF Terminals
    <3> QED BY <1>5, <3>2
  <2>5. CASE c[1] = "delete"
    <3>1. u.screen # "main" /\ w = Graphics(u, c[1], c[2])
      BY <1>3, <1>9, <2>5, Grounded DEF Kitty
    <3>2. w = [u EXCEPT !.images = {i \in @ : i[1] # c[2]}, !.upload = <<>>]
      BY <2>5, <3>1 DEF Graphics
    <3>3. w.images \subseteq u.images /\ w.upload = <<>>
      BY <1>1, <3>2 DEF Terminals
    <3>4. Ids(w) \subseteq Ids(u)
      BY <3>3 DEF Ids
    <3> QED BY <1>1, <3>1, <3>3, <3>4
  <2>6. CASE c[1] = "first"
    <3>1. u.screen # "main" /\ w = Graphics(u, c[1], c[2])
      BY <1>3, <1>9, <2>6, Grounded DEF Kitty
    <3>2. \E x : w = [u EXCEPT !.upload = x]
      BY <2>6, <3>1 DEF Graphics
    <3>3. w.images = u.images /\ w.foreign = u.foreign
      BY <1>1, <3>2 DEF Terminals
    <3>4. b.owned # {}
      BY <1>2, <2>6
    <3> QED BY <1>5, <3>3, <3>4
  <2>7. CASE c[1] = "last"
    <3>1. u.screen # "main" /\ w = Graphics(u, c[1], c[2])
      BY <1>3, <1>9, <2>7, Grounded DEF Kitty
    <3>2. b.owned # {} /\ c[2][1] \in b.owned
      BY <1>2, <2>7
    <3>3. CASE u.upload = c[2]
      <4>1. w = [u EXCEPT !.images = {i \in @ : i[1] # c[2][1]} \cup {c[2]}, !.upload = <<>>]
        BY <2>7, <3>1, <3>3 DEF Graphics
      <4>2. w.images \subseteq u.images \cup {c[2]}
        BY <1>1, <4>1 DEF Terminals
      <4>3. Ids(w) \subseteq Ids(u) \cup {c[2][1]}
        BY <4>2 DEF Ids
      <4> QED BY <1>1, <3>1, <3>2, <4>3
    <3>4. CASE u.upload # c[2]
      <4>1. \E x : w = [u EXCEPT !.upload = x]
        BY <2>7, <3>1, <3>4 DEF Graphics
      <4>2. w.images = u.images /\ w.foreign = u.foreign
        BY <1>1, <4>1 DEF Terminals
      <4> QED BY <1>5, <3>2, <4>2
    <3> QED BY <3>3, <3>4
  <2> QED BY <1>2, <2>1, <2>2, <2>3, <2>4, <2>5, <2>6, <2>7 DEF Kitty
<1> QED BY <1>6, <1>7, <1>8, <1>9

\* Each command of a frame, or a part of it, keeps the terminal in hand.
LEMMA HeldKeeps ==
    ASSUME Writes, NEW u \in Held, NEW c \in FrameOuts
    PROVE  Receive(u, c) \in Held /\ Receive(u, Torn(c)) \in Held
<1>1. ASSUME NEW e, e = c \/ e = Torn(c) PROVE Receive(u, e) \in Held
  <2> DEFINE w == Receive(u, e)
  <2>1. e \in FrameCommands /\ e \in Sent
    BY <1>1, FrameOutsAre DEF FrameCommands
  <2>2. /\ u \in Terminals /\ u.parser # "osc" /\ (u.parser = "apc" => b.kittyUncertain \/ goal.updates)
        /\ u.foreign /\ (u.sync => b.sync)
    BY DEF Held
  <2>3. w \in Terminals
    BY <2>1, <2>2, SentTyped
  <2>4. /\ w.screen = u.screen /\ w.keyboard = u.keyboard /\ w.mouse = u.mouse /\ w.paste = u.paste
        /\ w.nowrap = u.nowrap /\ w.title = u.title /\ w.parser # "osc"
        /\ w.parser = "apc" => u.parser = "apc" \/ (e[1] = "torn" /\ e[2] \in Kitty)
        /\ u.screen # "main" => w.foreign = u.foreign
        /\ w.sync => u.sync \/ (e[1] = "sync" /\ e[2])
    BY <2>1, <2>2, FrameCommandsKeep
  <2>5. /\ u.screen = "main" => w.foreign
        /\ Ids(w) \subseteq b.owned /\ (w.upload # <<>> => b.owned # {})
    BY <1>1, HeldImages
  <2>6. e[1] = "torn" /\ e[2] \in Kitty => goal.updates
    BY <1>1, FrameOutsAre DEF FrameOuts, Torn, Kitty
  <2>7. e[1] = "sync" /\ e[2] => b.sync
    BY <1>1 DEF FrameOuts, Torn
  <2> HIDE DEF w
  <2> QED BY <2>2, <2>3, <2>4, <2>5, <2>6, <2>7 DEF Held, w
<1> QED BY <1>1

\* The commands of this frame, and the parts of them that may be sent.
Pieces == FrameOuts \cup {Torn(c) : c \in FrameOuts}

LEMMA PiecesAre ==
    /\ FrameOuts \subseteq Pieces /\ Pieces \subseteq Sent /\ Pieces \subseteq FrameCommands
    /\ \A c \in FrameOuts : Torn(c) \in Pieces
BY FrameOutsAre, GivenIsSent DEF Pieces

\* And so do any number of them.
LEMMA HeldAll ==
    ASSUME Writes, NEW ds \in Seq(Pieces)
    PROVE  ReceiveAll(Virtual, ds) \in Held
<1>1. Virtual \in Held
  BY DEF Writes, Held, Known, KnowsWriting, KnowsImages
<1>2. ASSUME NEW u \in Held, NEW e \in Pieces PROVE Receive(u, e) \in Held
  BY HeldKeeps DEF Pieces
<1>3. \A u \in Held : \A i \in DOMAIN ds : Receive(u, ds[i]) \in Held
  <2>1. \A i \in DOMAIN ds : ds[i] \in Pieces
    OBVIOUS
  <2> QED BY <1>2, <2>1
<1> QED BY <1>1, <1>3, ReceivesAllKeep

LEMMA HalfIs ==
    ASSUME NEW n \in Nat, NEW m \in Nat
    PROVE  /\ m \in 1..2 * n => (m + 1) \div 2 \in 1..n
           /\ (2 * n + 1) % 2 = 1 /\ (2 * n + 2) % 2 = 0
           /\ ((2 * n + 1) + 1) \div 2 = n + 1 /\ ((2 * n + 2) + 1) \div 2 = n + 1
OBVIOUS

\* The ids of the pictures of this frame.
LEMMA UpdateTyped ==
    ASSUME Writes, PatchImagesOK, MapOK
    PROVE  /\ goal.update \in Updates /\ goal.update.delete \in SUBSET (1..MaxId)
           /\ goal.update.scene \in SUBSET Images /\ IsFiniteSet(goal.update.scene)
           /\ \A i \in goal.update.scene :
                 /\ goal.updates /\ i \in Images
                 /\ goal.update.id[i] \in 1..MaxId /\ goal.update.id[i] \in b.owned
                 /\ goal.update.id[i] \in Wire(goal.update)
                 /\ <<goal.update.id[i], i>> \in Parts
           /\ \A i, j \in goal.update.scene : goal.update.id[i] = goal.update.id[j] => i = j
           /\ goal.update.delete # {} => goal.updates
<1>1. /\ goal.update \in Updates /\ goal.update.delete \in SUBSET (1..MaxId)
      /\ goal.update.scene \in SUBSET Images
  BY DEF Writes, Patches, Updates
<1>2. IsFiniteSet(goal.update.scene)
  BY <1>1, ModesAssumption, FS_Subset
<1>3. ~goal.updates => goal.update.scene = {} /\ goal.update.delete = {}
  <2>1. NoUpdate.scene = {} /\ NoUpdate.delete = {}
    BY DEF NoUpdate
  <2> QED BY <2>1 DEF Writes
<1>4. ASSUME NEW i \in goal.update.scene
      PROVE  /\ goal.updates /\ i \in Images
             /\ goal.update.id[i] \in 1..MaxId /\ goal.update.id[i] \in b.owned
             /\ goal.update.id[i] \in Wire(goal.update)
             /\ <<goal.update.id[i], i>> \in Parts
  <2>1. goal.updates /\ i \in Images
    BY <1>1, <1>3
  <2>2. goal.update.id[i] \in Wire(goal.update)
    BY DEF Wire
  <2>3. goal.update.id[i] \in b.owned
    BY <2>1, <2>2 DEF PatchImagesOK
  <2>4. goal.update.id[i] \in 1..MaxId
    BY <2>3 DEF Writes, Backends
  <2> QED BY <2>1, <2>2, <2>3, <2>4 DEF Parts
<1>5. ASSUME NEW i \in goal.update.scene, NEW j \in goal.update.scene,
             goal.update.id[i] = goal.update.id[j]
      PROVE  i = j
  <2>1. goal.updates
    BY <1>4
  <2>2. /\ i \in DOMAIN b.mapping /\ j \in DOMAIN b.mapping
        /\ goal.update.id[i] = b.mapping[i] /\ goal.update.id[j] = b.mapping[j]
    BY <2>1 DEF PatchImagesOK
  <2> QED BY <1>5, <2>2 DEF MapOK
<1> QED BY <1>1, <1>2, <1>3, <1>4, <1>5

LEMMA FrameOutIs ==
    ASSUME Writes
    PROVE  /\ <<"ST", "">> \in FrameOuts /\ <<"erase", "">> \in FrameOuts /\ <<"sync", FALSE>> \in FrameOuts
           /\ b.sync => <<"sync", TRUE>> \in FrameOuts
           /\ <<"cells", goal.full>> \in FrameOuts /\ <<"cursor", goal.cursor>> \in FrameOuts
           /\ goal.updates => \A x \in 1..MaxId : <<"delete", x>> \in FrameOuts
           /\ goal.updates => \A x \in Parts : x[1] \in b.owned =>
                 <<"first", x>> \in FrameOuts /\ <<"last", x>> \in FrameOuts
<1>1. goal.full \in BOOLEAN /\ goal.cursor \in {"hidden", "shown"}
  BY DEF Writes, Patches
<1>2. <<"cells", goal.full>> \in Commands /\ <<"cursor", goal.cursor>> \in Commands
  BY <1>1, SomeCommands
<1>3. /\ <<"ST", "">> \in FrameOuts /\ <<"erase", "">> \in FrameOuts /\ <<"sync", FALSE>> \in FrameOuts
      /\ b.sync => <<"sync", TRUE>> \in FrameOuts
  BY SomeCommands DEF FrameOuts
<1>4. <<"cells", goal.full>> \in FrameOuts /\ <<"cursor", goal.cursor>> \in FrameOuts
  BY <1>2 DEF FrameOuts
<1>5. goal.updates => \A x \in 1..MaxId : <<"delete", x>> \in FrameOuts
  BY SomeCommands DEF FrameOuts
<1>6. goal.updates => \A x \in Parts : x[1] \in b.owned =>
                 <<"first", x>> \in FrameOuts /\ <<"last", x>> \in FrameOuts
  BY SomeCommands DEF FrameOuts
<1> QED BY <1>3, <1>4, <1>5, <1>6

\* A function on 1..m is a sequence of length m.
LEMMA ListIs ==
    ASSUME NEW S, NEW m \in Nat, NEW q \in [1..m -> S]
    PROVE  q \in Seq(S) /\ Len(q) = m
  OBVIOUS

\* The uploads, two by two.
LEMMA UploadsAre ==
    ASSUME Writes, PatchImagesOK, MapOK, NEW n, n = Cardinality(goal.update.scene),
           NEW f, f = Ordered(goal.update.scene)
    PROVE  /\ n \in Nat /\ Uploads(goal.update) \in Seq(FrameOuts) /\ Len(Uploads(goal.update)) = 2 * n
           /\ f \in [1..n -> goal.update.scene] /\ (\A i, j \in 1..n : f[i] = f[j] => i = j)
           /\ \A x \in goal.update.scene : \E i \in 1..n : f[i] = x
           /\ \A m \in 0..n - 1 :
                 /\ Uploads(goal.update)[2 * m + 1] = <<"first", <<goal.update.id[f[m + 1]], f[m + 1]>> >>
                 /\ Uploads(goal.update)[2 * m + 2] = <<"last", <<goal.update.id[f[m + 1]], f[m + 1]>> >>
<1>0. goal.updates => \A x \in Parts : x[1] \in b.owned =>
         <<"first", x>> \in FrameOuts /\ <<"last", x>> \in FrameOuts
  BY FrameOutIs
<1>1. /\ n \in Nat /\ f \in [1..n -> goal.update.scene] /\ (\A i, j \in 1..n : f[i] = f[j] => i = j)
      /\ \A x \in goal.update.scene : \E i \in 1..n : f[i] = x
  BY UpdateTyped, OrderedIs
<1>2. Len(f) = n
  BY <1>1
<1> DEFINE part(m) == <<goal.update.id[f[(m + 1) \div 2]], f[(m + 1) \div 2]>>
           e(m) == <<IF m % 2 = 1 THEN "first" ELSE "last", part(m)>>
           U == [m \in 1..2 * n |-> e(m)]
<1>3. Uploads(goal.update) = U
  BY <1>2 DEF Uploads
<1>4. ASSUME NEW m \in 1..2 * n PROVE e(m) \in FrameOuts
  <2>1. (m + 1) \div 2 \in 1..n
    BY <1>1, HalfIs
  <2> DEFINE o == f[(m + 1) \div 2]
             p == <<goal.update.id[o], o>>
  <2>2. o \in goal.update.scene
    BY <1>1, <2>1
  <2> HIDE DEF o
  <2>3. p \in Parts /\ goal.updates /\ p[1] \in b.owned
    BY <2>2, UpdateTyped
  <2>4. e(m) = <<"first", p>> \/ e(m) = <<"last", p>>
    BY DEF o
  <2> HIDE DEF e, p
  <2>5. <<"first", p>> \in FrameOuts /\ <<"last", p>> \in FrameOuts
    <3>1. \A x \in Parts : x[1] \in b.owned => <<"first", x>> \in FrameOuts /\ <<"last", x>> \in FrameOuts
      BY <1>0, <2>3
    <3> QED BY <2>3, <3>1
  <2> QED BY <2>4, <2>5
<1>5. U \in Seq(FrameOuts) /\ Len(U) = 2 * n
  <2>1. 2 * n \in Nat
    BY <1>1
  <2>2. U \in [1..2 * n -> FrameOuts]
    <3> HIDE DEF e
    <3> QED BY <1>4, SMTT(30)
  <2> HIDE DEF U
  <2> QED BY <2>1, <2>2, ListIs
<1>6. ASSUME NEW m \in 0..n - 1
      PROVE  /\ U[2 * m + 1] = <<"first", <<goal.update.id[f[m + 1]], f[m + 1]>> >>
             /\ U[2 * m + 2] = <<"last", <<goal.update.id[f[m + 1]], f[m + 1]>> >>
  <2>1. m \in Nat /\ 2 * m + 1 \in 1..2 * n /\ 2 * m + 2 \in 1..2 * n
    BY <1>1
  <2>2. /\ (2 * m + 1) % 2 = 1 /\ (2 * m + 2) % 2 = 0
        /\ ((2 * m + 1) + 1) \div 2 = m + 1 /\ ((2 * m + 2) + 1) \div 2 = m + 1
    BY <2>1, HalfIs, SMTT(30)
  <2>3. U[2 * m + 1] = e(2 * m + 1) /\ U[2 * m + 2] = e(2 * m + 2)
    BY <2>1
  <2>4. e(2 * m + 1) = <<"first", <<goal.update.id[f[m + 1]], f[m + 1]>> >>
    BY <2>2
  <2>5. e(2 * m + 2) = <<"last", <<goal.update.id[f[m + 1]], f[m + 1]>> >>
    BY <2>2
  <2> QED BY <2>3, <2>4, <2>5
<1> HIDE DEF U
<1> QED BY <1>1, <1>3, <1>5, <1>6

\* The commands that begin no synchronized update.
Recoveries == {c \in FrameOuts : c[1] = "sync" => ~c[2]}

LEMMA RecoveryUnheld ==
    ASSUME Writes, NEW cs \in Seq(Recoveries)
    PROVE  /\ ~ReceiveAll(Virtual, cs).sync
           /\ \A c \in Recoveries : ~ReceiveAll(Virtual, Append(cs, Torn(c))).sync
<1> DEFINE S == Recoveries \cup {Torn(c) : c \in Recoveries}
           T == {u \in Held : ~u.sync}
<1>1. Virtual \in T
  <2>1. Virtual \in Held
    BY DEF Writes, Held, Known, KnowsWriting, KnowsImages
  <2> QED BY <2>1 DEF Writes
<1>2. ASSUME NEW u \in T, NEW e \in S PROVE Receive(u, e) \in T
  <2>1. PICK c \in Recoveries : e = c \/ e = Torn(c)
    OBVIOUS
  <2>2. Receive(u, e) \in Held
    BY <2>1, HeldKeeps DEF Recoveries
  <2>3. e \in FrameCommands
    BY <2>1, FrameOutsAre DEF Recoveries
  <2>4. e[1] = "sync" => ~e[2]
    BY <2>1 DEF Recoveries, Torn
  <2>5. ~Receive(u, e).sync
    BY <2>3, <2>4, FrameCommandsKeep DEF Held
  <2> QED BY <2>2, <2>5
<1>3. ASSUME NEW ds \in Seq(S) PROVE ~ReceiveAll(Virtual, ds).sync
  <2>1. \A u \in T : \A i \in DOMAIN ds : Receive(u, ds[i]) \in T
    <3>1. \A i \in DOMAIN ds : ds[i] \in S
      <4> HIDE DEF S
      <4> QED OBVIOUS
    <3> QED BY <1>2, <3>1
  <2> HIDE DEF T
  <2>2. ReceiveAll(Virtual, ds) \in T
    BY <1>1, <2>1, ReceivesAllKeep
  <2> QED BY <2>2 DEF T
<1>4. cs \in Seq(S)
  <2>1. Recoveries \subseteq S
    OBVIOUS
  <2> HIDE DEF S
  <2> QED BY <2>1, SeqMonotonic
<1>5. ASSUME NEW c \in Recoveries PROVE ~ReceiveAll(Virtual, Append(cs, Torn(c))).sync
  <2>1. Torn(c) \in S
    OBVIOUS
  <2> HIDE DEF S
  <2>2. Append(cs, Torn(c)) \in Seq(S)
    BY <1>4, <2>1
  <2> QED BY <1>3, <2>2
<1> QED BY <1>3, <1>4, <1>5

LEMMA IfTyped ==
    ASSUME NEW C, NEW condition \in BOOLEAN, NEW c, condition => c \in C
    PROVE  /\ If(condition, <<c>>) \in Seq(C)
           /\ condition => Len(If(condition, <<c>>)) = 1
<1>1. CASE condition
  <2>1. If(condition, <<c>>) = <<c>>
    BY <1>1 DEF If
  <2>2. <<c>> \in Seq(C) /\ Len(<<c>>) = 1
    BY <1>1
  <2> QED BY <2>1, <2>2, Zenon
<1>2. CASE ~condition
  <2>1. If(condition, <<c>>) = <<>>
    BY <1>2 DEF If
  <2>2. <<>> \in Seq(C)
    BY EmptySeq
  <2> QED BY <1>2, <2>1, <2>2, Zenon
<1> QED BY <1>1, <1>2

LEMMA OutputIs ==
    ASSUME Writes, PatchImagesOK, MapOK
    PROVE  /\ KittyRecovery(goal.update.recover) \in Seq(Recoveries)
           /\ KittyRecovery(goal.update.recover) \in Seq(FrameOuts)
           /\ If(b.sync, << <<"sync", TRUE>> >>) \in Seq(FrameOuts) /\ Begin \in Seq(FrameOuts)
           /\ b.sync => Len(Begin) = Len(KittyRecovery(goal.update.recover)) + 1
           /\ Deletions(goal.update.delete) \in Seq(FrameOuts)
           /\ If(goal.full, << <<"erase", "">> >>) \in Seq(FrameOuts)
           /\ If(goal.runs, << <<"cells", goal.full>> >>) \in Seq(FrameOuts)
           /\ Uploads(goal.update) \in Seq(FrameOuts) /\ << <<"cursor", goal.cursor>> >> \in Seq(FrameOuts)
           /\ FrameBody \in Seq(FrameOuts) /\ End \in Seq(FrameOuts) /\ Output \in Seq(FrameOuts)
<1>1. b.sync \in BOOLEAN /\ b.kittyUncertain \in BOOLEAN /\ goal.full \in BOOLEAN /\ goal.runs \in BOOLEAN
  BY DEF Writes, Backends, Patches
<1> DEFINE F == FrameOuts
           k == KittyRecovery(goal.update.recover)
           y == If(b.sync, << <<"sync", TRUE>> >>)
           d == Deletions(goal.update.delete)
           e == If(goal.full, << <<"erase", "">> >>)
           c == If(goal.runs, << <<"cells", goal.full>> >>)
           u == Uploads(goal.update)
           r == << <<"cursor", goal.cursor>> >>
           z == If(b.sync, << <<"sync", FALSE>> >>)
<1>2. k \in Seq(Recoveries)
  <2>1. <<"ST", "">> \in Recoveries /\ <<"sync", FALSE>> \in Recoveries
    BY FrameOutIs DEF Recoveries
  <2>2. CASE goal.update.recover
    <3>1. k = << <<"ST", "">>, <<"sync", FALSE>> >>
      BY <2>2 DEF KittyRecovery, If
    <3> DEFINE v == <<"ST", "">>
               w == <<"sync", FALSE>>
    <3>2. v \in Recoveries /\ w \in Recoveries /\ k = <<v, w>>
      BY <2>1, <3>1
    <3> HIDE DEF v, w, k
    <3>3. <<v, w>> \in Seq(Recoveries)
      BY <3>2
    <3> QED BY <3>2, <3>3, Zenon
  <2>3. CASE ~goal.update.recover
    <3>1. k = <<>>
      BY <2>3 DEF KittyRecovery, If
    <3>2. <<>> \in Seq(Recoveries)
      BY EmptySeq
    <3> QED BY <3>1, <3>2, Zenon
  <2> QED BY <2>2, <2>3
<1>3. k \in Seq(F)
  <2>1. Recoveries \subseteq F
    BY DEF Recoveries
  <2> HIDE DEF k, F
  <2> QED BY <1>2, <2>1, SeqMonotonic
<1>4. y \in Seq(F) /\ (b.sync => Len(y) = 1)
  BY <1>1, FrameOutIs, IfTyped
<1>5. z \in Seq(F)
  BY <1>1, FrameOutIs, IfTyped
<1>6. e \in Seq(F)
  BY <1>1, FrameOutIs, IfTyped
<1>7. c \in Seq(F)
  BY <1>1, FrameOutIs, IfTyped
<1>8. r \in Seq(F)
  <2> DEFINE w == <<"cursor", goal.cursor>>
  <2>1. w \in F
    BY FrameOutIs
  <2> HIDE DEF w, F
  <2>2. <<w>> \in Seq(F)
    BY <2>1
  <2> QED BY <2>2 DEF w
<1>9. u \in Seq(F)
  BY UploadsAre
<1>10. d \in Seq(F)
  <2> DEFINE ids == goal.update.delete
             n == Cardinality(ids)
  <2>1. ids \in SUBSET (1..MaxId) /\ (ids # {} => goal.updates)
    BY UpdateTyped
  <2>2. /\ d \in Seq(Given) /\ Len(d) = n /\ n \in Nat
        /\ \A i \in 1..n : d[i] = <<"delete", Ordered(ids)[i]>> /\ Ordered(ids)[i] \in ids
    <3> HIDE DEF ids
    <3> QED BY <2>1, DeletionsAre DEF ids
  <2>3. ASSUME NEW i \in 1..n PROVE d[i] \in F
    <3>1. d[i] = <<"delete", Ordered(ids)[i]>> /\ Ordered(ids)[i] \in ids
      BY <2>2
    <3>2. Ordered(ids)[i] \in 1..MaxId /\ goal.updates
      BY <2>1, <3>1
    <3> QED BY <3>1, <3>2, FrameOutIs
  <2> HIDE DEF d, n, ids
  <2>4. d = [i \in 1..n |-> d[i]]
    BY <2>2
  <2> HIDE DEF F
  <2> QED BY <2>2, <2>3, <2>4
<1>11. Begin = k \o y /\ FrameBody = (((d \o e) \o c) \o u) \o r /\ End = z /\ Output = (Begin \o FrameBody) \o End
  BY DEF Begin, FrameBody, End, Output
<1> HIDE DEF k, y, d, e, c, u, r, z, F
<1>12. Begin \in Seq(F) /\ FrameBody \in Seq(F) /\ End \in Seq(F)
  BY <1>3, <1>4, <1>5, <1>6, <1>7, <1>8, <1>9, <1>10, <1>11
<1>13. Output \in Seq(F)
  BY <1>11, <1>12
<1>14. b.sync => Len(Begin) = Len(k) + 1
  <2> SUFFICES ASSUME b.sync PROVE Len(Begin) = Len(k) + 1
    OBVIOUS
  <2>1. Len(y) = 1 /\ Begin = k \o y
    BY <1>4, <1>11
  <2>2. Len(k \o y) = Len(k) + Len(y)
    BY <1>3, <1>4
  <2> QED BY <2>1, <2>2
<1> QED BY <1>2, <1>3, <1>4, <1>5, <1>6, <1>7, <1>8, <1>9, <1>10, <1>12, <1>13, <1>14
        DEF k, y, d, e, c, u, r, z, F

\* What reaches the writer of a frame that stops.
LEMMA FrameGiven ==
    ASSUME Writes, term \in Terminals, Real(term, desired), pipe \in Seq(FrameCommands),
           NEW ds \in Seq(Pieces), Delivers(ds)
    PROVE  /\ Virtual' = ReceiveAll(Virtual, ds) /\ Virtual' \in Held /\ term' \in Terminals
           /\ pipe' \in Seq(Sent) /\ Real(term', desired) /\ pipe' \in Seq(FrameCommands)
<1>1. FrameCommands \subseteq Sent
  BY DEF FrameCommands
<1>2. pipe \in Seq(Sent) /\ ds \in Seq(Sent) /\ ds \in Seq(FrameCommands)
  <2>1. pipe \in Seq(Sent)
    BY <1>1, SeqMonotonic
  <2>2. ds \in Seq(Sent)
    BY PiecesAre, SeqMonotonic
  <2>3. ds \in Seq(FrameCommands)
    BY PiecesAre, SeqMonotonic
  <2> QED BY <2>1, <2>2, <2>3
<1>3. Virtual' = ReceiveAll(Virtual, ds)
  BY <1>2, DeliversAll
<1>4. Virtual' \in Held
  BY <1>3, HeldAll
<1>5. term' \in Terminals /\ pipe' \in Seq(Sent)
  BY <1>2, DeliversTyped
<1>6. Real(term', desired) /\ pipe' \in Seq(FrameCommands)
  BY <1>2, FrameDelivers
<1> QED BY <1>3, <1>4, <1>5, <1>6

LEMMA FrameStopped ==
    ASSUME NEW cs \in Seq(FrameOuts), NEW i \in 1..Len(cs) + 1, StopsAt(cs, i)
    PROVE  \E ds \in Seq(Pieces) :
              /\ Delivers(ds)
              /\ \/ ds = SubSeq(cs, 1, i - 1)
                 \/ i <= Len(cs) /\ ds = Append(SubSeq(cs, 1, i - 1), Torn(cs[i]))
<1> DEFINE before == SubSeq(cs, 1, i - 1)
<1>1. before \in Seq(Pieces)
  <2>1. i - 1 \in Nat /\ i - 1 <= Len(cs)
    OBVIOUS
  <2>2. before \in Seq(FrameOuts)
    BY <2>1, SubSeqTyped
  <2> QED BY <2>2, PiecesAre, SeqMonotonic
<1>2. CASE Delivers(before)
  BY <1>1, <1>2
<1>3. CASE i <= Len(cs) /\ Delivers(Append(before, Torn(cs[i])))
  <2> DEFINE ds == Append(before, Torn(cs[i]))
  <2>1. cs[i] \in FrameOuts
    BY <1>3, ElementOfSeq
  <2>2. ds \in Seq(Pieces)
    BY <1>1, <2>1, PiecesAre
  <2>3. Delivers(ds)
    BY <1>3
  <2> QED BY <1>3, <2>2, <2>3
<1> QED BY <1>2, <1>3 DEF StopsAt

\* What is known of a terminal in hand when the frame has stopped.
LEMMA HeldKnown ==
    ASSUME Writes, Real(Virtual, desired), b.active.screen = desired.screen,
           b.pushed <=> desired.keyboard = "enhanced", NEW u \in Held, NEW pending \in BOOLEAN,
           u.sync => pending, NEW j,
           j = [b EXCEPT !.kittyUncertain = @ \/ goal.updates, !.syncPending = @ \/ pending]
    PROVE  /\ Known(u, j, FALSE) /\ j \in Backends /\ j.mapping = b.mapping /\ j.owned = b.owned
           /\ j.raw = b.raw /\ j.active = b.active /\ j.pushed = b.pushed
<1>1. b \in Backends /\ goal.updates \in BOOLEAN /\ Known(Virtual, b, FALSE)
  BY DEF Writes, Patches
<1>2. /\ j.kittyUncertain = (b.kittyUncertain \/ goal.updates) /\ j.syncPending = (b.syncPending \/ pending)
      /\ j.active = b.active /\ j.confirmed = b.confirmed /\ j.pushed = b.pushed
      /\ j.mouseUnconfirmed = b.mouseUnconfirmed /\ j.titleUnconfirmed = b.titleUnconfirmed
      /\ j.lifecycleUncertain = b.lifecycleUncertain /\ j.owned = b.owned /\ j.mapping = b.mapping
      /\ j.raw = b.raw
  <2>1. /\ j.kittyUncertain = (b.kittyUncertain \/ goal.updates) /\ j.syncPending = (b.syncPending \/ pending)
        /\ j.active = b.active /\ j.confirmed = b.confirmed /\ j.pushed = b.pushed
    BY <1>1 DEF Backends
  <2>2. /\ j.mouseUnconfirmed = b.mouseUnconfirmed /\ j.titleUnconfirmed = b.titleUnconfirmed
        /\ j.lifecycleUncertain = b.lifecycleUncertain /\ j.owned = b.owned /\ j.mapping = b.mapping
        /\ j.raw = b.raw
    BY <1>1 DEF Backends
  <2> QED BY <2>1, <2>2
<1>3. j \in Backends
  <2>1. (b.kittyUncertain \/ goal.updates) \in BOOLEAN /\ (b.syncPending \/ pending) \in BOOLEAN
    OBVIOUS
  <2> QED BY <1>1, <2>1, ZenonT(40) DEF Backends
<1>4. /\ u.screen = Virtual.screen /\ u.keyboard = Virtual.keyboard /\ u.mouse = Virtual.mouse
      /\ u.paste = Virtual.paste /\ u.nowrap = Virtual.nowrap /\ u.title = Virtual.title
      /\ u.parser # "osc" /\ (u.parser = "apc" => b.kittyUncertain \/ goal.updates) /\ u.foreign
      /\ Ids(u) \subseteq b.owned /\ (u.upload # <<>> => b.owned # {})
  BY DEF Held
<1>5. KnowsWriting(u, j)
  BY <1>2, <1>4 DEF KnowsWriting
<1>6. KnowsImages(u, j)
  BY <1>1, <1>2, <1>4 DEF KnowsImages, Known
<1>7. Enhanced(j)
  BY <1>1, <1>2 DEF Enhanced, Known
<1>8. KnowsModes(u, j, FALSE)
  BY <1>1, <1>2, <1>4 DEF KnowsModes, Known
<1>9. KnowsScreen(u, j, FALSE)
  <2>1. Keys(Virtual, desired.screen, desired.keyboard = "enhanced") /\ Virtual.screen = desired.screen
    BY DEF Real
  <2>2. CASE b.kittyUncertain \/ goal.updates
    <3>1. j.active.screen = "alternate" /\ desired.screen = "alternate"
      BY <1>2, <2>2 DEF Writes
    <3>2. /\ u.keyboard["main"] = 0 /\ u.keyboard["alternate"] \in {0, 1}
          /\ u.keyboard["alternate"] = 1 => j.pushed
      BY <1>2, <1>4, <2>1, <3>1 DEF Keys, Screens
    <3> QED BY <1>2, <2>2, <3>1, <3>2 DEF KnowsScreen
  <2>3. CASE ~(b.kittyUncertain \/ goal.updates)
    <3>1. KnowsScreen(Virtual, b, FALSE) /\ ~b.kittyUncertain /\ ~j.kittyUncertain
      BY <1>1, <1>2, <2>3 DEF Known
    <3>2. /\ Kept(Virtual.screen, b.active.screen, b.confirmed.screen, "main", FALSE)
          /\ Keys(Virtual, Virtual.screen, b.pushed)
          /\ b.owned # {} => Virtual.screen = "alternate"
      BY <3>1 DEF KnowsScreen
    <3>3. Keys(u, u.screen, j.pushed)
      BY <1>2, <1>4, <3>2 DEF Keys
    <3>4. Kept(u.screen, j.active.screen, j.confirmed.screen, "main", FALSE)
      BY <1>2, <1>4, <3>2
    <3> QED BY <1>2, <1>4, <3>1, <3>2, <3>3, <3>4 DEF KnowsScreen
  <2> QED BY <2>2, <2>3
<1> QED BY <1>2, <1>3, <1>5, <1>6, <1>7, <1>8, <1>9 DEF Known

\* A frame that stops before its synchronized update has begun.
LEMMA OutputBegins ==
    ASSUME Writes, PatchImagesOK, MapOK, b.sync, NEW i \in 1..Len(Output) + 1, i < Len(Begin)
    PROVE  /\ i <= Len(Output) /\ SubSeq(Output, 1, i - 1) \in Seq(Recoveries) /\ Output[i] \in Recoveries
<1> DEFINE k == KittyRecovery(goal.update.recover)
           y == If(b.sync, << <<"sync", TRUE>> >>)
           front == Begin \o FrameBody
<1>1. /\ k \in Seq(Recoveries) /\ k \in Seq(FrameOuts) /\ y \in Seq(FrameOuts) /\ Begin \in Seq(FrameOuts)
      /\ FrameBody \in Seq(FrameOuts) /\ End \in Seq(FrameOuts) /\ Len(Begin) = Len(k) + 1
  BY OutputIs
<1>2. Begin = k \o y /\ Output = front \o End
  BY DEF Begin, Output
<1> HIDE DEF k, y
<1>3. i \in 1..Len(k) /\ i \in 1..Len(Begin)
  BY <1>1
<1>4. SubSeq(Begin, 1, i - 1) = SubSeq(k, 1, i - 1) /\ Begin[i] = k[i]
  BY <1>1, <1>2, <1>3, BeforeOne
<1>5. SubSeq(front, 1, i - 1) = SubSeq(Begin, 1, i - 1) /\ front[i] = Begin[i]
  BY <1>1, <1>3, BeforeOne
<1>6. front \in Seq(FrameOuts) /\ i \in 1..Len(front)
  BY <1>1, <1>3
<1> HIDE DEF front
<1>7. SubSeq(Output, 1, i - 1) = SubSeq(front, 1, i - 1) /\ Output[i] = front[i]
  BY <1>1, <1>2, <1>6, BeforeOne
<1>8. i <= Len(Output)
  BY <1>1, <1>2, <1>6
<1>9. SubSeq(k, 1, i - 1) \in Seq(Recoveries)
  <2>1. i - 1 \in Nat /\ i - 1 <= Len(k)
    BY <1>1, <1>3
  <2> QED BY <1>1, <2>1, SubSeqTyped
<1>10. k[i] \in Recoveries
  BY <1>1, <1>3, ElementOfSeq
<1> QED BY <1>4, <1>5, <1>7, <1>8, <1>9, <1>10

LEMMA FrameFailsGives ==
    ASSUME Writes, PatchImagesOK, MapOK, NEW i \in 1..Len(Output) + 1,
           \/ StopsAt(Output, i)
           \/ /\ b.sync /\ i \in Len(Begin) + 1..Len(Output) - 1
              /\ \E torn \in BOOLEAN :
                    Delivers(SubSeq(Output, 1, i - 1)
                             \o If(torn, << Torn(Output[i]) >>) \o End)
    PROVE  \E ds \in Seq(Pieces) : /\ Delivers(ds)
                                   /\ b.sync /\ i < Len(Begin) => ~ReceiveAll(Virtual, ds).sync
<1>1. Output \in Seq(FrameOuts) /\ End \in Seq(FrameOuts) /\ Begin \in Seq(FrameOuts)
  BY OutputIs
<1>2. CASE StopsAt(Output, i)
  <2>1. PICK ds \in Seq(Pieces) :
              /\ Delivers(ds)
              /\ \/ ds = SubSeq(Output, 1, i - 1)
                 \/ i <= Len(Output) /\ ds = Append(SubSeq(Output, 1, i - 1), Torn(Output[i]))
    BY <1>1, <1>2, FrameStopped
  <2>2. ASSUME b.sync, i < Len(Begin) PROVE ~ReceiveAll(Virtual, ds).sync
    <3>1. SubSeq(Output, 1, i - 1) \in Seq(Recoveries) /\ Output[i] \in Recoveries
      BY <2>2, OutputBegins
    <3>2. /\ ~ReceiveAll(Virtual, SubSeq(Output, 1, i - 1)).sync
          /\ ~ReceiveAll(Virtual, Append(SubSeq(Output, 1, i - 1), Torn(Output[i]))).sync
      BY <3>1, RecoveryUnheld
    <3> QED BY <2>1, <3>2
  <2> QED BY <2>1, <2>2
<1>3. CASE /\ b.sync /\ i \in Len(Begin) + 1..Len(Output) - 1
           /\ \E torn \in BOOLEAN :
                 Delivers(SubSeq(Output, 1, i - 1) \o If(torn, << Torn(Output[i]) >>) \o End)
  <2>1. PICK torn \in BOOLEAN :
           Delivers(SubSeq(Output, 1, i - 1) \o If(torn, << Torn(Output[i]) >>) \o End)
    BY <1>3
  <2> DEFINE p == SubSeq(Output, 1, i - 1)
             q == If(torn, << Torn(Output[i]) >>)
  <2>2. ~(i < Len(Begin)) /\ i \in 1..Len(Output) /\ i - 1 \in Nat /\ i - 1 <= Len(Output)
    BY <1>1, <1>3
  <2>3. p \in Seq(Pieces)
    <3>1. p \in Seq(FrameOuts)
      BY <1>1, <2>2, SubSeqTyped
    <3> QED BY <3>1, PiecesAre, SeqMonotonic
  <2>4. q \in Seq(Pieces)
    <3>1. Output[i] \in FrameOuts
      BY <1>1, <2>2, ElementOfSeq
    <3>2. Torn(Output[i]) \in Pieces
      BY <3>1, PiecesAre
    <3> QED BY <3>2, IfTyped
  <2>5. End \in Seq(Pieces)
    BY <1>1, PiecesAre, SeqMonotonic
  <2>6. Delivers((p \o q) \o End)
    BY <2>1
  <2> HIDE DEF p, q
  <2>7. (p \o q) \o End \in Seq(Pieces)
    BY <2>3, <2>4, <2>5
  <2> QED BY <2>2, <2>6, <2>7
<1> QED BY <1>2, <1>3

LEMMA WriteFrameFailsKeeps == ASSUME Inv, WriteFrameFails PROVE Inv'
<1>1. phase = "frame" /\ Steady /\ Fault /\ raw' = raw /\ Returns(FALSE)
  BY DEF WriteFrameFails
<1>2. /\ Writes /\ PatchImagesOK /\ call = "patch" /\ ~Restoring /\ applied
      /\ Real(Virtual, desired) /\ Real(term, desired)
      /\ b.active.screen = desired.screen /\ (b.pushed <=> desired.keyboard = "enhanced")
  BY <1>1, WritesFacts
<1>3. /\ ControlOK /\ term \in Terminals /\ pipe \in Seq(Sent) /\ b \in Backends /\ raw \in BOOLEAN
      /\ AppliedOK /\ MapOK /\ RawOK
  BY InvTo
<1>4. pipe \in Seq(FrameCommands) /\ raw = desired.raw
  BY <1>2, <1>3 DEF AppliedOK
<1>5. PICK i \in 1..Len(Output) + 1 :
          /\ \/ StopsAt(Output, i)
             \/ /\ b.sync /\ i \in Len(Begin) + 1..Len(Output) - 1
                /\ \E torn \in BOOLEAN :
                      Delivers(SubSeq(Output, 1, i - 1)
                               \o If(torn, << Torn(Output[i]) >>) \o End)
          /\ b' = [b EXCEPT !.kittyUncertain = @ \/ goal.updates,
                            !.syncPending = @ \/ (b.sync /\ i >= Len(Begin))]
  BY DEF WriteFrameFails
<1>6. PICK ds \in Seq(Pieces) : /\ Delivers(ds)
                                /\ b.sync /\ i < Len(Begin) => ~ReceiveAll(Virtual, ds).sync
  BY <1>2, <1>3, <1>5, FrameFailsGives
<1>7. /\ Virtual' = ReceiveAll(Virtual, ds) /\ Virtual' \in Held /\ term' \in Terminals
      /\ pipe' \in Seq(Sent) /\ Real(term', desired) /\ pipe' \in Seq(FrameCommands)
  BY <1>2, <1>3, <1>4, <1>6, FrameGiven
<1> DEFINE pending == b.sync /\ i >= Len(Begin)
<1>8. pending \in BOOLEAN
  OBVIOUS
<1>9. Virtual'.sync => pending
  <2>1. Virtual'.sync => b.sync
    BY <1>7 DEF Held
  <2>2. Len(Begin) \in Nat
    <3>1. Begin \in Seq(FrameOuts)
      BY <1>2, <1>3, OutputIs
    <3> QED BY <3>1
  <2> DEFINE n == Len(Begin)
  <2> HIDE DEF n
  <2>3. i < n \/ i >= n
    BY <2>2 DEF n
  <2>4. b.sync /\ i < n => ~Virtual'.sync
    BY <1>6, <1>7 DEF n
  <2>5. b.sync /\ i >= n => pending
    BY DEF n
  <2> QED BY <2>1, <2>3, <2>4, <2>5
<1>10. b' = [b EXCEPT !.kittyUncertain = @ \/ goal.updates, !.syncPending = @ \/ pending]
  BY <1>5
<1> HIDE DEF pending
<1>11. /\ Known(Virtual', b', FALSE) /\ b' \in Backends /\ b'.mapping = b.mapping /\ b'.owned = b.owned
       /\ b'.raw = b.raw /\ b'.active = b.active /\ b'.pushed = b.pushed
  BY <1>2, <1>7, <1>8, <1>9, <1>10, HeldKnown, ZenonT(40)
<1>12. /\ ControlOK' /\ phase' # "cook after error" /\ (applied' => call' \in {"none", "patch"} /\ ~suspended')
  <2>1. phase # "idle"
    BY <1>1
  <2> QED BY <1>1, <1>2, <1>3, <2>1, FailsReturn
<1>13. KnownOK'
  <2>1. (phase' = "cook after error") = FALSE
    BY <1>12
  <2> QED BY <1>11, <2>1 DEF KnownOK
<1>14. desired' = desired
  BY <1>1 DEF Steady
<1>15. AppliedOK'
  <2>1. Real(term, desired)'
    BY <1>7, <1>14 DEF Real, Keys
  <2> QED BY <1>1, <1>2, <1>4, <1>7, <1>11, <1>12, <1>14, <2>1 DEF AppliedOK
<1>16. MapOK'
  BY <1>3, <1>11, MapKeeps
<1>17. RawOK'
  BY <1>1, <1>3, <1>11 DEF RawOK
<1>18. raw' \in BOOLEAN
  BY <1>1, <1>3
<1> QED BY <1>7, <1>11, <1>12, <1>13, <1>15, <1>16, <1>17, <1>18, InvFrom

-----------------------------------------------------------------------------
(* A frame that is written.                                                *)

\* From every terminal of T the commands lead to one of U.
Leads(T, cs, U) == \A t \in T : ReceiveAll(t, cs) \in U

LEMMA LeadsBoth ==
    ASSUME NEW C, NEW front \in Seq(C), NEW cs \in Seq(C), NEW T, NEW U, NEW V,
           Leads(T, front, U), Leads(U, cs, V)
    PROVE  Leads(T, front \o cs, V)
<1>1. ASSUME NEW t \in T PROVE ReceiveAll(t, front \o cs) \in V
  <2>1. ReceiveAll(t, front \o cs) = ReceiveAll(ReceiveAll(t, front), cs)
    BY ReceivesBoth
  <2> QED BY <2>1 DEF Leads
<1> QED BY <1>1 DEF Leads

LEMMA LeadsIf ==
    ASSUME NEW T, NEW U, NEW condition \in BOOLEAN, NEW c, ~condition => T \subseteq U,
           condition => \A t \in T : Receive(t, c) \in U
    PROVE  Leads(T, If(condition, <<c>>), U)
<1>1. CASE condition
  <2>1. If(condition, <<c>>) = <<c>>
    BY <1>1 DEF If
  <2>2. ASSUME NEW t \in T PROVE ReceiveAll(t, <<c>>) \in U
    BY <1>1, OneReceived
  <2> QED BY <2>1, <2>2, Zenon DEF Leads
<1>2. CASE ~condition
  <2>1. If(condition, <<c>>) = <<>>
    BY <1>2 DEF If
  <2>2. ASSUME NEW t \in T PROVE ReceiveAll(t, <<>>) \in U
    BY <1>2, ReceivesNothing
  <2> QED BY <2>1, <2>2, Zenon DEF Leads
<1> QED BY <1>1, <1>2

LEMMA LeadsPath ==
    ASSUME NEW T, NEW cs, NEW U, NEW R, NEW kind, NEW k, Path(T \X {k}, cs, kind, U \X {k}, R)
    PROVE  Leads(T, cs, U)
<1>1. ASSUME NEW t \in T PROVE ReceiveAll(t, cs) \in U
  <2> DEFINE z == <<t, k>>
  <2>1. z \in T \X {k} /\ z[1] = t
    OBVIOUS
  <2> HIDE DEF z
  <2>2. <<ReceiveAll(z[1], cs), AllDone(z[2], cs, kind)>> \in U \X {k}
    BY <2>1 DEF Path
  <2> QED BY <2>1, <2>2
<1> QED BY <1>1 DEF Leads

\* The stages of a frame, its images first.
OnScreen == {u \in Terminals : u.parser = "ground" /\ u.screen = b.active.screen /\ (u.sync => b.sync)}
ImagesKept(u) == u.screen = "alternate" => u.upload = <<>> /\ Pictures(u) = shown.scene
ImagesBefore(u) ==
    /\ goal.updates => /\ Ids(u) \subseteq goal.update.delete
                       /\ u.upload # <<>> => goal.update.delete # {}
    /\ ~goal.updates => ImagesKept(u)
ImagesGone(u) ==
    /\ goal.updates => u.images = {} /\ u.upload = <<>>
    /\ ~goal.updates => ImagesKept(u)
ImagesPlaced(u) ==
    /\ goal.updates => /\ Ids(u) \subseteq Wire(goal.update) /\ u.upload = <<>>
                       /\ Pictures(u) = goal.update.scene
    /\ ~goal.updates => ImagesKept(u)

Begun == {u \in OnScreen : (~goal.full => u.cells = "good") /\ ImagesBefore(u)}
Deleted == {u \in OnScreen : (~goal.full => u.cells = "good") /\ ImagesGone(u)}
Erased == {u \in OnScreen : /\ (goal.full => u.cells = "erased") /\ (~goal.full => u.cells = "good")
                            /\ ImagesGone(u)}
Drawn == {u \in OnScreen : u.cells = "good" /\ ImagesGone(u)}
Placed == {u \in OnScreen : u.cells = "good" /\ ImagesPlaced(u)}
Pointed == {u \in Placed : u.cursor = goal.cursor}

\* Nothing that the images depend on has changed.
LEMMA ImagesAlike ==
    ASSUME NEW u, NEW t, u.images = t.images, u.upload = t.upload, u.screen = t.screen
    PROVE  /\ ImagesBefore(t) => ImagesBefore(u)
           /\ ImagesGone(t) => ImagesGone(u)
           /\ ImagesPlaced(t) => ImagesPlaced(u)
<1>1. Ids(u) = Ids(t) /\ Pictures(u) = Pictures(t)
  BY DEF Ids, Pictures
<1>2. ImagesKept(t) => ImagesKept(u)
  BY <1>1 DEF ImagesKept
<1> QED BY <1>1, <1>2 DEF ImagesBefore, ImagesGone, ImagesPlaced

LEMMA BeginLeads ==
    ASSUME Writes, PatchModeOK, PatchImagesOK, MapOK, Virtual \in KnownTerminals(b, FALSE)
    PROVE  Leads({Virtual}, Begin, Begun)
<1> DEFINE k == KittyRecovery(goal.update.recover)
           y == If(b.sync, << <<"sync", TRUE>> >>)
           F == {u \in Begun : ~u.sync}
<1>1. k \in Seq(FrameOuts) /\ y \in Seq(FrameOuts)
  BY OutputIs
<1>2. b.sync \in BOOLEAN /\ b.kittyUncertain \in BOOLEAN /\ goal.update.recover = b.kittyUncertain
  BY DEF Writes, Backends
<1>3. ~goal.full => Virtual = term /\ term.cells = "good"
  <2>1. ~goal.full => pipe = <<>> /\ term.cells = "good"
    BY DEF PatchModeOK
  <2> QED BY <2>1, ReceivesNothing DEF Virtual
<1>4. ImagesBefore(Virtual)
  <2>1. CASE goal.updates
    BY <2>1 DEF PatchImagesOK, ImagesBefore
  <2>2. CASE ~goal.updates
    <3>1. b.active.screen = "alternate" => ~goal.full /\ term.upload = <<>> /\ Pictures(term) = shown.scene
      BY <2>2 DEF PatchImagesOK
    <3>2. ImagesKept(Virtual)
      BY <1>3, <3>1 DEF ImagesKept, Writes
    <3> QED BY <2>2, <3>2 DEF ImagesBefore
  <2> QED BY <2>1, <2>2
<1>5. ~goal.update.recover => {Virtual} \subseteq F
  <2> SUFFICES ASSUME ~goal.update.recover PROVE Virtual \in F
    OBVIOUS
  <2>1. Virtual.parser = "ground"
    BY <1>2 DEF Writes, Terminals
  <2> QED BY <1>3, <1>4, <2>1 DEF Begun, OnScreen, Writes
<1>6. ASSUME NEW t \in {Virtual}, NEW u \in Unheld(Ready(KnownTerminals(b, FALSE))), Alike(u, t)
      PROVE  u \in F
  <2>1. /\ u \in Terminals /\ u.parser = "ground" /\ ~u.sync /\ u.screen = Virtual.screen
        /\ u.images = Virtual.images /\ u.upload = Virtual.upload /\ u.cells = Virtual.cells
    BY <1>6 DEF Unheld, Ready, KnownTerminals, Alike
  <2>2. ImagesBefore(u)
    BY <1>4, <2>1, ImagesAlike
  <2> QED BY <1>3, <2>1, <2>2 DEF Begun, OnScreen, Writes
<1>7. Leads({Virtual}, k, F)
  <2> DEFINE T == {Virtual}
  <2>1. T \subseteq KnownTerminals(b, FALSE)
    OBVIOUS
  <2>2. goal.update.recover \in BOOLEAN
    BY <1>2
  <2> HIDE DEF T, F
  <2>3. Path(T \X {b}, k, "frame", F \X {b}, KnownTerminals(b, FALSE) \X {b})
    BY <1>5, <1>6, <2>1, <2>2, KittyPath DEF T
  <2>4. Leads(T, k, F)
    BY <2>3, LeadsPath
  <2> QED BY <2>4 DEF T
<1>8. Leads(F, y, Begun)
  <2> DEFINE c == <<"sync", TRUE>>
  <2>1. ~b.sync => F \subseteq Begun
    OBVIOUS
  <2>2. ASSUME b.sync, NEW t \in F PROVE Receive(t, c) \in Begun
    <3> DEFINE w == Receive(t, c)
    <3>1. t \in Terminals /\ t \in OnScreen /\ t.parser = "ground" /\ (~goal.full => t.cells = "good") /\ ImagesBefore(t)
          /\ t.screen = b.active.screen
      BY DEF Begun, OnScreen
    <3>2. w = [t EXCEPT !.sync = c[2]] /\ w \in Terminals
      <4>1. c[1] = "sync" /\ c \in Given
        BY SomeCommands, CommandIsGiven
      <4> HIDE DEF c
      <4> QED BY <3>1, <4>1, Grounded, GivenTyped
    <3> HIDE DEF w
    <3>3. /\ w.parser = "ground" /\ w.screen = t.screen /\ w.cells = t.cells
          /\ w.images = t.images /\ w.upload = t.upload
      BY <3>1, <3>2 DEF Terminals
    <3>4. ImagesBefore(w)
      BY <3>1, <3>3, ImagesAlike
    <3> QED BY <2>2, <3>1, <3>2, <3>3, <3>4 DEF Begun, OnScreen, w
  <2> HIDE DEF c, F
  <2>3. Leads(F, If(b.sync, <<c>>), Begun)
    BY <1>2, <2>1, <2>2, LeadsIf
  <2> QED BY <2>3 DEF c
<1>9. Begin = k \o y
  BY DEF Begin
<1> HIDE DEF k, y, F
<1> QED BY <1>1, <1>7, <1>8, <1>9, LeadsBoth

LEMMA DeletionsLead ==
    ASSUME Writes, PatchImagesOK, MapOK
    PROVE  Leads(Begun, Deletions(goal.update.delete), Deleted)
<1> DEFINE ids == goal.update.delete
           G == {t \in Begun : t.images = {} /\ t.upload = <<>>}
<1>1. ids \in SUBSET (1..MaxId) /\ (ids # {} => goal.updates)
  BY UpdateTyped
<1>2. CASE goal.updates
  <2>1. b.active.screen = "alternate"
    BY <1>2 DEF Writes
  <2>2. Begun \subseteq Terminals
    BY DEF Begun, OnScreen
  <2>3. ASSUME NEW t \in Begun
        PROVE  /\ t.parser = "ground" /\ t.screen = "alternate" /\ Ids(t) \subseteq ids
               /\ t.upload # <<>> => ids # {}
    BY <1>2, <2>1 DEF Begun, OnScreen, ImagesBefore
  <2>4. ASSUME NEW t \in Begun, NEW u \in Terminals,
               SameButImages(u, t), u.images \subseteq t.images, u.upload = <<>>
        PROVE  u \in Begun
    <3>1. Ids(u) \subseteq Ids(t)
      BY <2>4 DEF Ids
    <3>2. ImagesBefore(u)
      BY <1>2, <2>3, <2>4, <3>1 DEF ImagesBefore
    <3> QED BY <2>4, <3>2 DEF Begun, OnScreen, SameButImages
  <2>5. \A t \in Begun, u \in Terminals : u = [t EXCEPT !.parser = "apc"] => u \in Terminals
    OBVIOUS
  <2> DEFINE T == Begun
             K == {b}
  <2>6. T \subseteq Terminals
    BY <2>2
  <2>7. \A t \in T : /\ t.parser = "ground" /\ t.screen = "alternate" /\ Ids(t) \subseteq ids
                     /\ t.upload # <<>> => ids # {}
    BY <2>3
  <2>8. \A t \in T, u \in Terminals :
           SameButImages(u, t) /\ u.images \subseteq t.images /\ u.upload = <<>> => u \in T
    BY <2>4
  <2>9. \A t \in T, u \in Terminals : u = [t EXCEPT !.parser = "apc"] => u \in Terminals
    OBVIOUS
  <2> HIDE DEF T, K, ids
  <2>10. Path(T \X K, Deletions(ids), "frame", {t \in T : t.images = {} /\ t.upload = <<>>} \X K, Terminals \X K)
    BY <1>1, <2>6, <2>7, <2>8, <2>9, DeletionsPath
  <2>11. Path(T \X {b}, Deletions(ids), "frame", G \X {b}, Terminals \X K)
    BY <2>10 DEF K, T
  <2> HIDE DEF G
  <2>12. Leads(T, Deletions(ids), G)
    BY <2>11, LeadsPath
  <2>13. G \subseteq Deleted
    BY <1>2 DEF G, Begun, Deleted, ImagesGone
  <2> QED BY <2>12, <2>13 DEF Leads, T, ids
<1>3. CASE ~goal.updates
  <2>1. ids = {} /\ Deletions(goal.update.delete) = <<>>
    BY <1>1, <1>3, NoDeletions
  <2>2. Begun \subseteq Deleted
    BY <1>3 DEF Begun, Deleted, ImagesBefore, ImagesGone
  <2>3. \A t : ReceiveAll(t, <<>>) = t
    BY ReceivesNothing
  <2> QED BY <2>1, <2>2, <2>3 DEF Leads
<1> QED BY <1>2, <1>3

LEMMA EraseLeads ==
    ASSUME Writes
    PROVE  Leads(Deleted, If(goal.full, << <<"erase", "">> >>), Erased)
<1> DEFINE c == <<"erase", "">>
<1>1. goal.full \in BOOLEAN
  BY DEF Writes, Patches
<1>2. ~goal.full => Deleted \subseteq Erased
  BY DEF Deleted, Erased
<1>3. c[1] = "erase" /\ c \in Given
  BY SomeCommands, CommandIsGiven
<1> HIDE DEF c
<1>4. ASSUME goal.full, NEW t \in Deleted PROVE Receive(t, c) \in Erased
  <2> DEFINE w == Receive(t, c)
  <2>1. t \in Terminals /\ t \in OnScreen /\ t.parser = "ground" /\ ImagesGone(t)
        /\ t.screen = b.active.screen
    BY DEF Deleted, OnScreen
  <2>2. w = [t EXCEPT !.cells = "erased"] /\ w \in Terminals
    BY <1>3, <2>1, Grounded, GivenTyped
  <2> HIDE DEF w
  <2>3. /\ w.parser = "ground" /\ w.screen = t.screen /\ w.cells = "erased" /\ w.sync = t.sync
        /\ w.images = t.images /\ w.upload = t.upload
    BY <2>1, <2>2 DEF Terminals
  <2>4. ImagesGone(w)
    BY <2>1, <2>3, ImagesAlike
  <2> QED BY <1>4, <2>1, <2>2, <2>3, <2>4 DEF Erased, OnScreen, w
<1>5. Leads(Deleted, If(goal.full, <<c>>), Erased)
  BY <1>1, <1>2, <1>4, LeadsIf
<1> QED BY <1>5 DEF c

LEMMA CellsAre ==
    ASSUME NEW t, t.parser = "ground", NEW c, c[1] = "cells", c[2] \in BOOLEAN,
           c[2] => t.cells = "erased", ~c[2] => t.cells = "good"
    PROVE  Receive(t, c) = [t EXCEPT !.cells = "good"]
<1>1. Receive(t, c) = [t EXCEPT !.cells = IF @ = (IF c[2] THEN "erased" ELSE "good") THEN "good" ELSE "lost"]
  BY DEF Receive, Understood, Kitty
<1>2. CASE c[2]
  BY <1>1, <1>2
<1>3. CASE ~c[2]
  BY <1>1, <1>3
<1> QED BY <1>2, <1>3

LEMMA CellsLead ==
    ASSUME Writes, PatchModeOK
    PROVE  Leads(Erased, If(goal.runs, << <<"cells", goal.full>> >>), Drawn)
<1> DEFINE c == <<"cells", goal.full>>
<1>1. goal.full \in BOOLEAN /\ goal.runs \in BOOLEAN
  BY DEF Writes, Patches
<1>2. ~goal.runs => Erased \subseteq Drawn
  <2>1. ~goal.runs => ~goal.full
    BY DEF PatchModeOK
  <2> QED BY <2>1 DEF Erased, Drawn
<1>3. c[1] = "cells" /\ c \in Given /\ c[2] = goal.full
  BY <1>1, SomeCommands, CommandIsGiven
<1> HIDE DEF c
<1>4. ASSUME goal.runs, NEW t \in Erased PROVE Receive(t, c) \in Drawn
  <2> DEFINE w == Receive(t, c)
  <2>1. /\ t \in Terminals /\ t \in OnScreen /\ t.parser = "ground" /\ ImagesGone(t)
        /\ t.screen = b.active.screen
        /\ goal.full => t.cells = "erased"
        /\ ~goal.full => t.cells = "good"
    BY DEF Erased, OnScreen
  <2>2. w = [t EXCEPT !.cells = "good"] /\ w \in Terminals
    BY <1>1, <1>3, <2>1, CellsAre, GivenTyped
  <2> HIDE DEF w
  <2>3. /\ w.parser = "ground" /\ w.screen = t.screen /\ w.cells = "good" /\ w.sync = t.sync
        /\ w.images = t.images /\ w.upload = t.upload
    BY <2>1, <2>2 DEF Terminals
  <2>4. ImagesGone(w)
    BY <2>1, <2>3, ImagesAlike
  <2> QED BY <2>1, <2>2, <2>3, <2>4 DEF Drawn, OnScreen, w
<1>5. Leads(Erased, If(goal.runs, <<c>>), Drawn)
  BY <1>1, <1>2, <1>4, LeadsIf
<1> QED BY <1>5 DEF c

LEMMA CursorLeads ==
    ASSUME Writes
    PROVE  Leads(Placed, << <<"cursor", goal.cursor>> >>, Pointed)
<1> DEFINE c == <<"cursor", goal.cursor>>
<1>1. goal.cursor \in {"hidden", "shown"}
  BY DEF Writes, Patches
<1>2. c[1] = "cursor" /\ c \in Given /\ c[2] = goal.cursor
  BY <1>1, SomeCommands, CommandIsGiven
<1> HIDE DEF c
<1>3. ASSUME NEW t \in Placed PROVE ReceiveAll(t, <<c>>) \in Pointed
  <2> DEFINE w == Receive(t, c)
  <2>1. t \in Terminals /\ t \in OnScreen /\ t.parser = "ground" /\ ImagesPlaced(t) /\ t.cells = "good"
        /\ t.screen = b.active.screen
    BY DEF Placed, OnScreen
  <2>2. w = [t EXCEPT !.cursor = c[2]] /\ w \in Terminals
    BY <1>2, <2>1, Grounded, GivenTyped
  <2> HIDE DEF w
  <2>3. /\ w.parser = "ground" /\ w.screen = t.screen /\ w.cells = "good" /\ w.sync = t.sync
        /\ w.images = t.images /\ w.upload = t.upload /\ w.cursor = c[2]
    BY <2>1, <2>2 DEF Terminals
  <2>4. ImagesPlaced(w)
    BY <2>1, <2>3, ImagesAlike
  <2>5. w \in Pointed
    BY <1>2, <2>1, <2>2, <2>3, <2>4 DEF Pointed, Placed, OnScreen
  <2> QED BY <2>5, OneReceived DEF w
<1> QED BY <1>3 DEF Leads, c

LEMMA EndLeads ==
    ASSUME Writes
    PROVE  Leads(Pointed, End, {u \in Pointed : ~u.sync})
<1> DEFINE c == <<"sync", FALSE>>
           U == {u \in Pointed : ~u.sync}
<1>1. b.sync \in BOOLEAN
  BY DEF Writes, Backends
<1>2. ~b.sync => Pointed \subseteq U
  BY DEF Pointed, Placed, OnScreen
<1>3. c[1] = "sync" /\ c \in Given /\ c[2] = FALSE
  BY SomeCommands, CommandIsGiven
<1> HIDE DEF c
<1>4. ASSUME b.sync, NEW t \in Pointed PROVE Receive(t, c) \in U
  <2> DEFINE w == Receive(t, c)
  <2>1. t \in Terminals /\ t \in OnScreen /\ t.parser = "ground" /\ ImagesPlaced(t) /\ t.cells = "good"
        /\ t.screen = b.active.screen /\ t.cursor = goal.cursor
    BY DEF Pointed, Placed, OnScreen
  <2>2. w = [t EXCEPT !.sync = c[2]] /\ w \in Terminals
    BY <1>3, <2>1, Grounded, GivenTyped
  <2> HIDE DEF w
  <2>3. /\ w.parser = "ground" /\ w.screen = t.screen /\ w.cells = "good" /\ w.sync = FALSE
        /\ w.images = t.images /\ w.upload = t.upload /\ w.cursor = t.cursor
    BY <1>3, <2>1, <2>2 DEF Terminals
  <2>4. ImagesPlaced(w)
    BY <2>1, <2>3, ImagesAlike
  <2> QED BY <2>1, <2>2, <2>3, <2>4 DEF Pointed, Placed, OnScreen, w
<1> HIDE DEF U
<1>5. Leads(Pointed, If(b.sync, <<c>>), U)
  BY <1>1, <1>2, <1>4, LeadsIf
<1> QED BY <1>5 DEF c, U, End

LEMMA LastPart ==
    ASSUME NEW u \in Terminals, u.screen = "alternate", NEW x, u.upload = x, NEW kind, kind = "last",
           NEW w, w = Graphics(u, kind, x)
    PROVE  /\ SameButImages(w, u) /\ w.images = {i \in u.images : i[1] # x[1]} \cup {x}
           /\ w.upload = <<>>
<1> DEFINE y == {i \in u.images : i[1] # x[1]} \cup {x}
           e == <<>>
<1>1. w = [u EXCEPT !.images = y, !.upload = e]
  BY DEF Graphics
<1> HIDE DEF y, e
<1>2. w.images = y /\ w.upload = e
  BY <1>1 DEF Terminals
<1>3. w.screen = u.screen /\ w.keyboard = u.keyboard /\ w.mouse = u.mouse
  BY <1>1 DEF Terminals
<1>4. w.paste = u.paste /\ w.nowrap = u.nowrap /\ w.title = u.title /\ w.cursor = u.cursor
  BY <1>1 DEF Terminals
<1>5. w.sync = u.sync /\ w.parser = u.parser /\ w.foreign = u.foreign /\ w.cells = u.cells
  BY <1>1 DEF Terminals
<1> QED BY <1>2, <1>3, <1>4, <1>5 DEF SameButImages, y, e

\* A picture is placed when its last part has come.
LEMMA UploadOne ==
    ASSUME NEW t \in Terminals, t.parser = "ground", t.screen = "alternate", t.upload = <<>>,
           NEW x \in Parts, x[1] \notin Ids(t),
           NEW c \in Given, c[1] = "first", c[2] = x, NEW d \in Given, d[1] = "last", d[2] = x,
           NEW u, u = Receive(t, c), NEW w, w = Receive(u, d)
    PROVE  w \in Terminals /\ SameButImages(w, t) /\ w.images = t.images \cup {x} /\ w.upload = <<>>
<1>1. c[1] \in Kitty
  BY DEF Kitty
<1>2. d[1] \in Kitty
  BY DEF Kitty
<1>3. u = Graphics(t, c[1], c[2]) /\ u \in Terminals
  BY <1>1, Grounded, GivenTyped
<1>4. u = [t EXCEPT !.upload = x]
  BY <1>1, <1>3 DEF Graphics
<1>5. SameButImages(u, t) /\ u.images = t.images /\ u.upload = x
  BY <1>4 DEF SameButImages, Terminals
<1>6. u.parser = "ground" /\ u.screen = "alternate"
  BY <1>5 DEF SameButImages
<1>8. w = Graphics(u, d[1], d[2]) /\ w \in Terminals
  BY <1>2, <1>3, <1>6, Grounded, GivenTyped
<1>9. w = Graphics(u, d[1], x)
  BY <1>2, <1>8
<1>10. SameButImages(w, u) /\ w.images = {i \in u.images : i[1] # x[1]} \cup {x} /\ w.upload = <<>>
  BY <1>2, <1>3, <1>5, <1>6, <1>9, LastPart
<1>11. {i \in u.images : i[1] # x[1]} = t.images
  BY <1>5 DEF Ids
<1> QED BY <1>5, <1>8, <1>10, <1>11 DEF SameButImages

\* The first m pictures, in the order of their uploads.
FirstOf(id, f, m) == {<<id[f[j]], f[j]>> : j \in 1..m}
PlacedFirst(t, id, f, m) ==
    {u \in Terminals : SameButImages(u, t) /\ u.images = FirstOf(id, f, m) /\ u.upload = <<>>}

LEMMA UploadNext ==
    ASSUME NEW C, C \subseteq Given, NEW cs \in Seq(C), NEW n \in Nat, Len(cs) = 2 * n, NEW id, NEW f,
           \A i, j \in 1..n : id[f[i]] = id[f[j]] => i = j,
           \A j \in 1..n : <<id[f[j]], f[j]>> \in Parts,
           \A m \in 0..n - 1 : /\ cs[2 * m + 1] = <<"first", <<id[f[m + 1]], f[m + 1]>> >>
                               /\ cs[2 * m + 2] = <<"last", <<id[f[m + 1]], f[m + 1]>> >>,
           NEW t \in Terminals, t.parser = "ground", t.screen = "alternate",
           NEW m \in 0..n - 1, ReceiveAll(t, SubSeq(cs, 1, 2 * m)) \in PlacedFirst(t, id, f, m)
    PROVE  ReceiveAll(t, SubSeq(cs, 1, 2 * (m + 1))) \in PlacedFirst(t, id, f, m + 1)
<1> DEFINE u == ReceiveAll(t, SubSeq(cs, 1, 2 * m))
           x == <<id[f[m + 1]], f[m + 1]>>
           c == cs[2 * m + 1]
           d == cs[2 * m + 2]
           w == Receive(Receive(u, c), d)
<1>1. m \in Nat /\ 2 * m \in 0..Len(cs) - 1 /\ 2 * m + 1 \in 0..Len(cs) - 1
  OBVIOUS
<1>2. /\ c \in C /\ SubSeq(cs, 1, 2 * m) \in Seq(C)
      /\ SubSeq(cs, 1, 2 * m + 1) = Append(SubSeq(cs, 1, 2 * m), c)
  <2>1. <<>> \in Seq(C)
    OBVIOUS
  <2> QED BY <1>1, <2>1, OneMore
<1>3. /\ d \in C /\ SubSeq(cs, 1, 2 * m + 1) \in Seq(C)
      /\ SubSeq(cs, 1, 2 * m + 2) = Append(SubSeq(cs, 1, 2 * m + 1), d)
  <2> DEFINE k == 2 * m + 1
  <2>1. <<>> \in Seq(C)
    OBVIOUS
  <2>2. k \in 0..Len(cs) - 1
    BY <1>1
  <2>3. k + 1 = 2 * m + 2
    BY <1>1
  <2> HIDE DEF k
  <2>4. /\ cs[k + 1] \in C /\ SubSeq(cs, 1, k) \in Seq(C)
        /\ SubSeq(cs, 1, k + 1) = Append(SubSeq(cs, 1, k), cs[k + 1])
    BY <2>1, <2>2, OneMore
  <2> QED BY <2>3, <2>4 DEF k
<1>4. ReceiveAll(t, SubSeq(cs, 1, 2 * m + 2)) = w
  <2> HIDE DEF c, d
  <2>1. ReceiveAll(t, SubSeq(cs, 1, 2 * m + 1)) = Receive(u, c)
    BY <1>2, ReceivesNext, ZenonT(40)
  <2>2. ReceiveAll(t, SubSeq(cs, 1, 2 * m + 2)) = Receive(ReceiveAll(t, SubSeq(cs, 1, 2 * m + 1)), d)
    BY <1>3, ReceivesNext, ZenonT(40)
  <2> QED BY <2>1, <2>2
<1>5. c = <<"first", x>> /\ d = <<"last", x>>
  OBVIOUS
<1>6. u \in Terminals /\ SameButImages(u, t) /\ u.images = FirstOf(id, f, m) /\ u.upload = <<>>
  BY DEF PlacedFirst
<1>7. m + 1 \in 1..n /\ \A j \in 1..m : j \in 1..n /\ j # m + 1
  OBVIOUS
<1>8. x \in Parts
  BY <1>7
<1>9. x[1] \notin Ids(u)
  <2>1. \A j \in 1..m : id[f[j]] # id[f[m + 1]]
    BY <1>7
  <2>2. \A i \in u.images : i[1] # x[1]
    <3>1. ASSUME NEW i \in FirstOf(id, f, m) PROVE i[1] # x[1]
      <4>1. PICK j \in 1..m : i = <<id[f[j]], f[j]>>
        BY <3>1 DEF FirstOf
      <4> QED BY <2>1, <4>1
    <3> QED BY <1>6, <3>1
  <2> QED BY <2>2 DEF Ids
<1> HIDE DEF u, c, d, x
<1>10. w \in Terminals /\ SameButImages(w, u) /\ w.images = u.images \cup {x} /\ w.upload = <<>>
  <2>1. u.parser = "ground" /\ u.screen = "alternate"
    BY <1>6 DEF SameButImages
  <2>2. c \in Given /\ c[1] = "first" /\ c[2] = x /\ d \in Given /\ d[1] = "last" /\ d[2] = x
    BY <1>5, <1>8, SomeCommands, CommandIsGiven
  <2>3. \A y : y = Receive(u, c) => \A z : z = Receive(y, d) =>
           z \in Terminals /\ SameButImages(z, u) /\ z.images = u.images \cup {x} /\ z.upload = <<>>
    BY <1>6, <1>8, <1>9, <2>1, <2>2, UploadOne
  <2> QED BY <2>3
<1>11. FirstOf(id, f, m + 1) = FirstOf(id, f, m) \cup {x}
  <2>1. 1..m + 1 = (1..m) \cup {m + 1}
    BY <1>1
  <2> QED BY <2>1 DEF FirstOf, x
<1>12. w \in PlacedFirst(t, id, f, m + 1)
  BY <1>6, <1>10, <1>11 DEF PlacedFirst, SameButImages
<1>13. 2 * (m + 1) = 2 * m + 2
  BY <1>1
<1> QED BY <1>4, <1>12, <1>13

LEMMA UploadsPlace ==
    ASSUME NEW C, C \subseteq Given, NEW cs \in Seq(C), NEW n \in Nat, Len(cs) = 2 * n, NEW id, NEW f,
           \A i, j \in 1..n : id[f[i]] = id[f[j]] => i = j,
           \A j \in 1..n : <<id[f[j]], f[j]>> \in Parts,
           \A m \in 0..n - 1 : /\ cs[2 * m + 1] = <<"first", <<id[f[m + 1]], f[m + 1]>> >>
                               /\ cs[2 * m + 2] = <<"last", <<id[f[m + 1]], f[m + 1]>> >>,
           NEW t \in Terminals, t.parser = "ground", t.screen = "alternate", t.images = {}, t.upload = <<>>
    PROVE  ReceiveAll(t, cs) \in PlacedFirst(t, id, f, n)
<1> DEFINE S == {m \in 0..n : ReceiveAll(t, SubSeq(cs, 1, 2 * m)) \in PlacedFirst(t, id, f, m)}
<1>1. SubSeq(cs, 1, 0) = <<>> /\ SubSeq(cs, 1, 2 * n) = cs
  <2>1. <<>> \in Seq(C)
    OBVIOUS
  <2> QED BY <2>1, NoMore
<1>2. 0 \in S
  <2>1. FirstOf(id, f, 0) = {}
    BY DEF FirstOf
  <2>2. t \in PlacedFirst(t, id, f, 0)
    BY <2>1 DEF PlacedFirst, SameButImages
  <2>3. 2 * 0 = 0 /\ 0 \in 0..n
    OBVIOUS
  <2> QED BY <1>1, <2>2, <2>3, ReceivesNothing, ZenonT(40)
<1>3. ASSUME NEW m \in 0..n - 1, m \in S PROVE m + 1 \in S
  <2>1. ReceiveAll(t, SubSeq(cs, 1, 2 * m)) \in PlacedFirst(t, id, f, m)
    BY <1>3
  <2>2. ReceiveAll(t, SubSeq(cs, 1, 2 * (m + 1))) \in PlacedFirst(t, id, f, m + 1)
    BY <2>1, UploadNext
  <2>3. m + 1 \in 0..n
    OBVIOUS
  <2> QED BY <2>2, <2>3
<1> HIDE DEF S
<1>4. \A m \in 0..n : m \in S
  BY <1>2, <1>3, Induction
<1>5. n \in S
  BY <1>4
<1> QED BY <1>1, <1>5 DEF S

LEMMA UploadsLead ==
    ASSUME Writes, PatchImagesOK, MapOK
    PROVE  Leads(Drawn, Uploads(goal.update), Placed)
<1> DEFINE id == goal.update.id
           scene == goal.update.scene
           n == Cardinality(scene)
           f == Ordered(scene)
           cs == Uploads(goal.update)
<1>1. /\ n \in Nat /\ cs \in Seq(FrameOuts) /\ Len(cs) = 2 * n
      /\ f \in [1..n -> scene] /\ (\A i, j \in 1..n : f[i] = f[j] => i = j)
      /\ \A x \in scene : \E i \in 1..n : f[i] = x
      /\ \A m \in 0..n - 1 :
            /\ cs[2 * m + 1] = <<"first", <<id[f[m + 1]], f[m + 1]>> >>
            /\ cs[2 * m + 2] = <<"last", <<id[f[m + 1]], f[m + 1]>> >>
  BY UploadsAre, SMTT(30)
<1>2. /\ \A i \in scene : goal.updates /\ id[i] \in Wire(goal.update) /\ <<id[i], i>> \in Parts
      /\ \A i, j \in scene : id[i] = id[j] => i = j
  BY UpdateTyped
<1> HIDE DEF id, scene, n, f, cs
<1>3. CASE goal.updates
  <2> SUFFICES ASSUME NEW t \in Drawn PROVE ReceiveAll(t, cs) \in Placed
    BY DEF Leads, cs
  <2>1. /\ t \in Terminals /\ t.parser = "ground" /\ t.screen = b.active.screen /\ t.screen = "alternate"
        /\ t.images = {} /\ t.upload = <<>> /\ t.cells = "good" /\ (t.sync => b.sync)
    BY <1>3 DEF Drawn, OnScreen, ImagesGone, Writes
  <2>2. FrameOuts \subseteq Given
    BY FrameOutsAre
  <2>3. \A i, j \in 1..n : id[f[i]] = id[f[j]] => i = j
    <3> SUFFICES ASSUME NEW i \in 1..n, NEW j \in 1..n, id[f[i]] = id[f[j]] PROVE i = j
      OBVIOUS
    <3>1. f[i] \in scene /\ f[j] \in scene
      BY <1>1
    <3>2. f[i] = f[j]
      BY <1>2, <3>1
    <3> QED BY <1>1, <3>2
  <2>4. \A j \in 1..n : f[j] \in scene /\ <<id[f[j]], f[j]>> \in Parts /\ id[f[j]] \in Wire(goal.update)
    <3> TAKE j \in 1..n
    <3>1. f[j] \in scene
      BY <1>1
    <3> QED BY <1>2, <3>1
  <2> DEFINE w == ReceiveAll(t, cs)
  <2>5. w \in PlacedFirst(t, id, f, n)
    BY <1>1, <2>1, <2>2, <2>3, <2>4, UploadsPlace
  <2> HIDE DEF w
  <2>6. w \in Terminals /\ SameButImages(w, t) /\ w.images = FirstOf(id, f, n) /\ w.upload = <<>>
    BY <2>5 DEF PlacedFirst
  <2>7. Ids(w) \subseteq Wire(goal.update)
    <3> SUFFICES ASSUME NEW i \in w.images PROVE i[1] \in Wire(goal.update)
      BY DEF Ids
    <3>1. PICK j \in 1..n : i = <<id[f[j]], f[j]>>
      BY <2>6 DEF FirstOf
    <3>2. i[1] = id[f[j]]
      BY <3>1
    <3> QED BY <2>4, <3>2
  <2>8. Pictures(w) = scene
    <3>1. ASSUME NEW i \in w.images PROVE i[2] \in scene
      <4>1. PICK j \in 1..n : i = <<id[f[j]], f[j]>>
        BY <2>6 DEF FirstOf
      <4>2. i[2] = f[j]
        BY <4>1
      <4> QED BY <2>4, <4>2
    <3>2. ASSUME NEW x \in scene PROVE \E i \in w.images : i[2] = x
      <4>1. PICK j \in 1..n : f[j] = x
        BY <1>1
      <4> DEFINE i == <<id[f[j]], f[j]>>
      <4>2. i \in w.images /\ i[2] = f[j]
        BY <2>6 DEF FirstOf
      <4> HIDE DEF i
      <4> QED BY <4>1, <4>2
    <3>3. \A x : x \in Pictures(w) <=> \E i \in w.images : x = i[2]
      BY DEF Pictures
    <3> HIDE DEF scene
    <3>4. \A x \in Pictures(w) : x \in scene
      BY <3>1, <3>3
    <3>5. \A x \in scene : x \in Pictures(w)
      BY <3>2, <3>3
    <3> QED BY <3>4, <3>5
  <2>9. ImagesPlaced(w)
    BY <1>3, <2>6, <2>7, <2>8 DEF ImagesPlaced, scene
  <2>10. /\ w.parser = "ground" /\ w.screen = b.active.screen /\ w.cells = "good" /\ (w.sync => b.sync)
    BY <2>1, <2>6 DEF SameButImages
  <2>11. w \in Placed
    BY <2>6, <2>9, <2>10 DEF Placed, OnScreen
  <2> QED BY <2>11 DEF w
<1>4. CASE ~goal.updates
  <2>1. scene = {}
    BY <1>2, <1>4
  <2>2. n = 0
    BY <2>1, FS_EmptySet DEF n
  <2>3. Len(cs) = 0
    BY <1>1, <2>2
  <2>4. cs = <<>>
    BY <1>1, <2>3, EmptySeq
  <2>5. Drawn \subseteq Placed
    BY <1>4 DEF Drawn, Placed, ImagesGone, ImagesPlaced
  <2>6. \A t : ReceiveAll(t, <<>>) = t
    BY ReceivesNothing
  <2> QED BY <2>4, <2>5, <2>6 DEF Leads, cs
<1> QED BY <1>3, <1>4

\* The whole frame.
LEMMA OutputLeads ==
    ASSUME Writes, PatchModeOK, PatchImagesOK, MapOK, Virtual \in KnownTerminals(b, FALSE)
    PROVE  Leads({Virtual}, Output, {u \in Pointed : ~u.sync})
<1> DEFINE d == Deletions(goal.update.delete)
           e == If(goal.full, << <<"erase", "">> >>)
           c == If(goal.runs, << <<"cells", goal.full>> >>)
           p == Uploads(goal.update)
           r == << <<"cursor", goal.cursor>> >>
           U == {u \in Pointed : ~u.sync}
           V == {Virtual}
<1>1. /\ Begin \in Seq(FrameOuts) /\ d \in Seq(FrameOuts) /\ e \in Seq(FrameOuts) /\ c \in Seq(FrameOuts)
      /\ p \in Seq(FrameOuts) /\ r \in Seq(FrameOuts) /\ FrameBody \in Seq(FrameOuts) /\ End \in Seq(FrameOuts)
  BY OutputIs
<1>2. Leads(V, Begin, Begun)
  BY BeginLeads
<1>3. Leads(Begun, d, Deleted)
  BY DeletionsLead
<1>4. Leads(Deleted, e, Erased)
  BY EraseLeads
<1>5. Leads(Erased, c, Drawn)
  BY CellsLead
<1>6. Leads(Drawn, p, Placed)
  BY UploadsLead
<1>7. Leads(Placed, r, Pointed)
  BY CursorLeads
<1>8. Leads(Pointed, End, U)
  BY EndLeads
<1>9. FrameBody = (((d \o e) \o c) \o p) \o r /\ Output = (Begin \o FrameBody) \o End
  BY DEF FrameBody, Output
<1> HIDE DEF d, e, c, p, r, U, V
<1> DEFINE x == d \o e
           y == x \o c
           z == y \o p
           o == Begin \o FrameBody
<1>10. x \in Seq(FrameOuts) /\ y \in Seq(FrameOuts) /\ z \in Seq(FrameOuts) /\ o \in Seq(FrameOuts)
  BY <1>1
<1>11. Leads(Begun, x, Erased)
  BY <1>1, <1>3, <1>4, LeadsBoth
<1> HIDE DEF x
<1>12. Leads(Begun, y, Drawn)
  BY <1>1, <1>5, <1>10, <1>11, LeadsBoth
<1> HIDE DEF y
<1>13. Leads(Begun, z, Placed)
  BY <1>1, <1>6, <1>10, <1>12, LeadsBoth
<1> HIDE DEF z
<1>14. Leads(Begun, z \o r, Pointed)
  BY <1>1, <1>7, <1>10, <1>13, LeadsBoth
<1>16. Leads(Begun, FrameBody, Pointed)
  BY <1>9, <1>14 DEF x, y, z
<1>17. Leads(V, o, Pointed)
  BY <1>1, <1>2, <1>16, LeadsBoth
<1> HIDE DEF o
<1>18. Leads(V, o \o End, U)
  BY <1>1, <1>8, <1>10, <1>17, LeadsBoth
<1>15. Leads(V, Output, U)
  BY <1>9, <1>18 DEF o
<1> QED BY <1>15 DEF U, V

LEMMA FrameWritten ==
    ASSUME Inv, phase = "frame", IF goal.silent THEN UNCHANGED <<term, pipe>> ELSE Sends(Output)
    PROVE  /\ term' \in Held /\ term' \in Pointed /\ ~term'.sync
           /\ pipe' = <<>> /\ Virtual' = term'
<1>1. Writes /\ PatchModeOK /\ PatchImagesOK /\ term.screen = b.active.screen
  BY WritesFacts
<1>2. MapOK /\ pipe \in Seq(Sent) /\ Virtual \in KnownTerminals(b, FALSE)
  BY InvTo, VirtualKnown
<1>3. CASE goal.silent
  <2>1. ~goal.runs /\ ~HasOutput(goal.update) /\ term.cursor = shown.cursor /\ goal.cursor = shown.cursor
    BY <1>1, <1>3 DEF PatchModeOK
  <2>2. /\ ~goal.full /\ term.cells = "good" /\ term.parser = "ground" /\ ~term.sync /\ pipe = <<>>
    BY <1>1, <2>1 DEF PatchModeOK
  <2>3. term' = term /\ pipe' = <<>> /\ Virtual = term
    BY <1>3, <2>2, ReceivesNothing DEF Virtual
  <2>4. Virtual' = term'
    <3>1. Virtual' = ReceiveAll(term', pipe')
      BY DEF Virtual
    <3> QED BY <2>3, <3>1, ReceivesNothing
  <2>5. term \in Held
    <3>1. <<>> \in Seq(Pieces)
      OBVIOUS
    <3>2. ReceiveAll(Virtual, <<>>) \in Held
      BY <1>1, <3>1, HeldAll
    <3> QED BY <2>3, <3>2, ReceivesNothing
  <2>6. goal.update.delete = {} /\ goal.update.scene = {}
    BY <2>1 DEF HasOutput
  <2>7. ImagesPlaced(term)
    <3>1. CASE goal.updates
      <4>1. Ids(term) = {} /\ term.upload = <<>>
        BY <1>1, <2>3, <2>6, <3>1 DEF PatchImagesOK
      <4>2. Pictures(term) = {}
        BY <4>1 DEF Ids, Pictures
      <4> QED BY <2>6, <3>1, <4>1, <4>2 DEF ImagesPlaced
    <3>2. CASE ~goal.updates
      <4>1. ImagesKept(term)
        BY <1>1, <3>2 DEF PatchImagesOK, ImagesKept
      <4> QED BY <3>2, <4>1 DEF ImagesPlaced
    <3> QED BY <3>1, <3>2
  <2>8. term \in Terminals
    BY <2>5 DEF Held
  <2>9. term \in Pointed
    BY <1>1, <2>1, <2>2, <2>7, <2>8 DEF Pointed, Placed, OnScreen
  <2> QED BY <2>2, <2>3, <2>4, <2>5, <2>9
<1>4. CASE ~goal.silent
  <2>1. Output \in Seq(FrameOuts) /\ Output \in Seq(Sent) /\ Output \in Seq(Pieces)
    <3>1. Output \in Seq(FrameOuts)
      BY <1>1, <1>2, OutputIs
    <3>2. FrameOuts \subseteq Sent /\ FrameOuts \subseteq Pieces
      BY PiecesAre
    <3> HIDE DEF Output
    <3> QED BY <3>1, <3>2
  <2>2. Sends(Output)
    BY <1>4
  <2>3. term' = ReceiveAll(Virtual, Output) /\ pipe' = <<>> /\ Virtual' = term'
    BY <1>2, <2>1, <2>2, SendsAll
  <2>4. term' \in Held
    BY <1>1, <2>1, <2>3, HeldAll
  <2>5. term' \in {u \in Pointed : ~u.sync}
    BY <1>1, <1>2, <2>3, OutputLeads DEF Leads
  <2> QED BY <2>3, <2>4, <2>5
<1> QED BY <1>3, <1>4

LEMMA WrittenIs ==
    ASSUME Writes, PatchImagesOK, MapOK, NEW j, j = Written
    PROVE  /\ j \in Backends
           /\ j.active.screen = b.active.screen /\ j.active.mouse = b.active.mouse
           /\ j.active.keyboard = b.active.keyboard /\ j.active.paste = b.active.paste
           /\ j.active.nowrap = b.active.nowrap /\ j.active.title = b.active.title
           /\ j.confirmed.screen = b.confirmed.screen /\ j.confirmed.mouse = b.confirmed.mouse
           /\ j.confirmed.paste = b.confirmed.paste /\ j.confirmed.nowrap = b.confirmed.nowrap
           /\ j.confirmed.title = b.confirmed.title
           /\ j.raw = b.raw /\ j.pushed = b.pushed /\ j.mouseUnconfirmed = b.mouseUnconfirmed
           /\ j.titleUnconfirmed = b.titleUnconfirmed /\ ~j.kittyUncertain
           /\ j.lifecycleUncertain = b.lifecycleUncertain
           /\ goal.updates => /\ j.owned = Wire(goal.update)
                              /\ j.mapping = [i \in DOMAIN b.mapping \cap goal.update.scene |-> b.mapping[i]]
           /\ ~goal.updates => j.owned = b.owned /\ j.mapping = b.mapping
<1> DEFINE w == Wire(goal.update)
           p == [i \in DOMAIN b.mapping \cap goal.update.scene |-> b.mapping[i]]
           k == IF goal.updates THEN [b EXCEPT !.kittyUncertain = FALSE, !.owned = w, !.mapping = p] ELSE b
<1>1. b \in Backends /\ goal \in Patches /\ goal.cursor \in {"hidden", "shown"} /\ goal.updates \in BOOLEAN
  BY DEF Writes, Patches
<1>2. w \in SUBSET (1..MaxId)
  BY UpdateTyped DEF Wire
<1>3. p \in Mappings
  <2>1. PICK S \in SUBSET Images : b.mapping \in [S -> 1..MaxId]
    BY <1>1 DEF Backends, Mappings
  <2> DEFINE Q == S \cap goal.update.scene
  <2>2. p = [i \in Q |-> b.mapping[i]]
    BY <2>1
  <2>3. p \in [Q -> 1..MaxId]
    BY <2>1, <2>2
  <2> QED BY <2>3 DEF Mappings
<1>4. ~goal.updates => ~b.kittyUncertain
  <2>1. NoUpdate.recover = FALSE
    BY DEF NoUpdate
  <2> QED BY <2>1 DEF Writes
<1>5. j = IF goal.silent THEN k
          ELSE [k EXCEPT !.syncPending = FALSE, !.active.cursor = goal.cursor,
                         !.confirmed.cursor = goal.cursor]
  BY DEF Written
<1> HIDE DEF w, p
<1>6. /\ k \in Backends /\ k.active = b.active /\ k.confirmed = b.confirmed /\ k.raw = b.raw
      /\ k.pushed = b.pushed /\ k.mouseUnconfirmed = b.mouseUnconfirmed
      /\ k.titleUnconfirmed = b.titleUnconfirmed /\ k.lifecycleUncertain = b.lifecycleUncertain
      /\ k.kittyUncertain = FALSE
      /\ goal.updates => k.owned = w /\ k.mapping = p
      /\ ~goal.updates => k.owned = b.owned /\ k.mapping = b.mapping
  <2>1. CASE goal.updates
    <3>1. k = [b EXCEPT !.kittyUncertain = FALSE, !.owned = w, !.mapping = p]
      BY <2>1
    <3> HIDE DEF k
    <3>2. k \in Backends
      BY <1>1, <1>2, <1>3, <3>1 DEF Backends
    <3>3. /\ k.active = b.active /\ k.confirmed = b.confirmed /\ k.raw = b.raw
          /\ k.pushed = b.pushed /\ k.mouseUnconfirmed = b.mouseUnconfirmed
          /\ k.titleUnconfirmed = b.titleUnconfirmed /\ k.lifecycleUncertain = b.lifecycleUncertain
          /\ k.kittyUncertain = FALSE /\ k.owned = w /\ k.mapping = p
      BY <1>1, <3>1 DEF Backends
    <3> QED BY <2>1, <3>2, <3>3
  <2>2. CASE ~goal.updates
    <3>1. k = b /\ b.kittyUncertain \in BOOLEAN
      BY <1>1, <2>2 DEF Backends
    <3> HIDE DEF k
    <3> QED BY <1>1, <1>4, <2>2, <3>1
  <2> QED BY <1>1, <2>1, <2>2
<1> HIDE DEF k
<1>7. k.active \in ModeStates /\ k.confirmed \in ModeStates
  BY <1>6 DEF Backends
<1>8. CASE goal.silent
  <2>1. j = k
    BY <1>5, <1>8
  <2> QED BY <1>6, <2>1 DEF w, p
<1>9. CASE ~goal.silent
  <2> DEFINE x == [k.active EXCEPT !.cursor = goal.cursor]
             y == [k.confirmed EXCEPT !.cursor = goal.cursor]
             l == [k EXCEPT !.syncPending = FALSE]
             m == [l EXCEPT !.active = x]
  <2>1. l \in Backends /\ l.active = k.active /\ l.confirmed = k.confirmed
    BY <1>6 DEF Backends
  <2>2. m.confirmed = l.confirmed
    BY <2>1 DEF Backends
  <2>10. [l EXCEPT !.active.cursor = goal.cursor] = m
    BY <2>1 DEF Backends
  <2>11. [m EXCEPT !.confirmed.cursor = goal.cursor] = [m EXCEPT !.confirmed = y]
    BY <2>1, <2>2
  <2>12. j = [[l EXCEPT !.active.cursor = goal.cursor] EXCEPT !.confirmed.cursor = goal.cursor]
    BY <1>5, <1>9
  <2>5. j = [k EXCEPT !.syncPending = FALSE, !.active = x, !.confirmed = y]
    BY <2>10, <2>11, <2>12
  <2>3. /\ x \in ModeStates /\ x.screen = k.active.screen /\ x.mouse = k.active.mouse
        /\ x.keyboard = k.active.keyboard /\ x.paste = k.active.paste /\ x.nowrap = k.active.nowrap
        /\ x.title = k.active.title
    BY <1>1, <1>7 DEF ModeStates
  <2>4. /\ y \in ModeStates /\ y.screen = k.confirmed.screen /\ y.mouse = k.confirmed.mouse
        /\ y.paste = k.confirmed.paste /\ y.nowrap = k.confirmed.nowrap /\ y.title = k.confirmed.title
    BY <1>1, <1>7 DEF ModeStates
  <2> HIDE DEF x, y
  <2>6. j \in Backends
    BY <1>6, <2>3, <2>4, <2>5 DEF Backends
  <2>7. /\ j.active = x /\ j.confirmed = y /\ j.raw = k.raw
        /\ j.pushed = k.pushed /\ j.mouseUnconfirmed = k.mouseUnconfirmed
        /\ j.titleUnconfirmed = k.titleUnconfirmed /\ j.lifecycleUncertain = k.lifecycleUncertain
        /\ j.kittyUncertain = k.kittyUncertain /\ j.owned = k.owned /\ j.mapping = k.mapping
    BY <1>6, <2>5 DEF Backends
  <2>8. /\ j.active.screen = b.active.screen /\ j.active.mouse = b.active.mouse
        /\ j.active.keyboard = b.active.keyboard /\ j.active.paste = b.active.paste
        /\ j.active.nowrap = b.active.nowrap /\ j.active.title = b.active.title
        /\ j.confirmed.screen = b.confirmed.screen /\ j.confirmed.mouse = b.confirmed.mouse
        /\ j.confirmed.paste = b.confirmed.paste /\ j.confirmed.nowrap = b.confirmed.nowrap
        /\ j.confirmed.title = b.confirmed.title
    BY <1>6, <2>3, <2>4, <2>7
  <2> QED BY <1>6, <2>6, <2>7, <2>8 DEF w, p
<1> QED BY <1>8, <1>9

LEMMA WrittenKnown ==
    ASSUME Writes, PatchImagesOK, MapOK, Real(Virtual, desired), b.active.screen = desired.screen,
           b.pushed <=> desired.keyboard = "enhanced", NEW u \in Held, u \in Pointed, ~u.sync,
           NEW j, j = Written
    PROVE  Known(u, j, FALSE) /\ Real(u, desired)
<1>1. /\ j.active.screen = b.active.screen /\ j.active.mouse = b.active.mouse
      /\ j.active.keyboard = b.active.keyboard /\ j.active.paste = b.active.paste
      /\ j.active.nowrap = b.active.nowrap /\ j.active.title = b.active.title
      /\ j.confirmed.screen = b.confirmed.screen /\ j.confirmed.mouse = b.confirmed.mouse
      /\ j.confirmed.paste = b.confirmed.paste /\ j.confirmed.nowrap = b.confirmed.nowrap
      /\ j.confirmed.title = b.confirmed.title
      /\ j.pushed = b.pushed /\ j.mouseUnconfirmed = b.mouseUnconfirmed
      /\ j.titleUnconfirmed = b.titleUnconfirmed /\ ~j.kittyUncertain
      /\ goal.updates => j.owned = Wire(goal.update)
      /\ ~goal.updates => j.owned = b.owned
  BY WrittenIs, ZenonT(40)
<1>2. /\ u.screen = Virtual.screen /\ u.keyboard = Virtual.keyboard /\ u.mouse = Virtual.mouse
      /\ u.paste = Virtual.paste /\ u.nowrap = Virtual.nowrap /\ u.title = Virtual.title
      /\ u.foreign /\ Ids(u) \subseteq b.owned /\ (u.upload # <<>> => b.owned # {})
  BY DEF Held
<1>3. u.parser = "ground" /\ u.screen = b.active.screen /\ ImagesPlaced(u)
  BY DEF Pointed, Placed, OnScreen
<1>4. Known(Virtual, b, FALSE)
  BY DEF Writes
<1>5. KnowsWriting(u, j)
  BY <1>2, <1>3 DEF KnowsWriting
<1>6. j.owned # {} => j.active.screen = "alternate"
  BY <1>1, <1>4 DEF Writes, Known, KnowsImages
<1>7. KnowsImages(u, j)
  <2>1. CASE goal.updates
    BY <1>1, <1>3, <1>6, <2>1 DEF KnowsImages, ImagesPlaced
  <2>2. CASE ~goal.updates
    BY <1>1, <1>2, <1>6, <2>2 DEF KnowsImages
  <2> QED BY <2>1, <2>2
<1>8. Enhanced(j)
  BY <1>1, <1>4 DEF Enhanced, Known
<1>9. KnowsModes(u, j, FALSE)
  BY <1>1, <1>2, <1>4 DEF KnowsModes, Known
<1>10. KnowsScreen(u, j, FALSE)
  <2>1. Keys(Virtual, desired.screen, desired.keyboard = "enhanced") /\ Virtual.screen = desired.screen
    BY DEF Real
  <2>2. Keys(u, u.screen, j.pushed)
    BY <1>1, <1>2, <2>1 DEF Keys
  <2>3. Kept(u.screen, j.active.screen, j.confirmed.screen, "main", FALSE)
    BY <1>1, <1>3 DEF Kept
  <2>4. j.owned # {} => u.screen = "alternate"
    BY <1>1, <1>3, <1>6
  <2> QED BY <1>1, <2>2, <2>3, <2>4 DEF KnowsScreen
<1>11. Real(u, desired)
  BY <1>2, <1>3 DEF Real, Keys
<1> QED BY <1>5, <1>7, <1>8, <1>9, <1>10, <1>11 DEF Known

LEMMA WrittenMap ==
    ASSUME Writes, PatchImagesOK, MapOK, b' = Written
    PROVE  MapOK'
<1>1. /\ goal.updates => /\ b'.owned = Wire(goal.update)
                         /\ b'.mapping = [i \in DOMAIN b.mapping \cap goal.update.scene |-> b.mapping[i]]
      /\ ~goal.updates => b'.owned = b.owned /\ b'.mapping = b.mapping
  BY WrittenIs
<1>2. CASE ~goal.updates
  BY <1>1, <1>2, MapKeeps
<1>3. CASE goal.updates
  <2> DEFINE S == DOMAIN b.mapping \cap goal.update.scene
  <2>1. b'.mapping = [i \in S |-> b.mapping[i]] /\ b'.owned = Wire(goal.update)
    BY <1>1, <1>3
  <2>2. DOMAIN b'.mapping = S /\ \A i \in S : b'.mapping[i] = b.mapping[i] /\ i \in DOMAIN b.mapping
    BY <2>1
  <2>3. /\ goal.update.scene \subseteq S
        /\ \A i \in goal.update.scene : goal.update.id[i] = b.mapping[i]
    BY <1>3 DEF PatchImagesOK
  <2> HIDE DEF S
  <2>4. \A i, j \in DOMAIN b'.mapping : b'.mapping[i] = b'.mapping[j] => i = j
    BY <2>2 DEF MapOK
  <2>5. b'.owned \subseteq {b'.mapping[i] : i \in DOMAIN b'.mapping}
    <3> SUFFICES ASSUME NEW x \in b'.owned PROVE \E i \in DOMAIN b'.mapping : x = b'.mapping[i]
      OBVIOUS
    <3>1. PICK i \in goal.update.scene : x = goal.update.id[i]
      BY <2>1 DEF Wire
    <3>2. i \in S /\ x = b.mapping[i]
      BY <2>3, <3>1
    <3> QED BY <2>2, <3>2
  <2> QED BY <2>4, <2>5 DEF MapOK
<1> QED BY <1>2, <1>3

\* What the frame shows is what the session believes it shows.
LEMMA WrittenShows ==
    ASSUME PatchModeOK, PatchImagesOK, NEW u \in Pointed, ~u.sync
    PROVE  Shows(u, shown)
<1>1. /\ u.parser = "ground" /\ u.cells = "good" /\ u.cursor = goal.cursor /\ ImagesPlaced(u)
  BY DEF Pointed, Placed, OnScreen
<1>2. goal.cursor = shown.cursor
  BY DEF PatchModeOK
<1>3. u.screen = "alternate" => u.upload = <<>> /\ Pictures(u) = shown.scene
  <2>1. CASE goal.updates
    <3>1. goal.update.scene = shown.scene
      BY <2>1 DEF PatchImagesOK
    <3> QED BY <1>1, <2>1, <3>1 DEF ImagesPlaced
  <2>2. CASE ~goal.updates
    BY <1>1, <2>2 DEF ImagesPlaced, ImagesKept
  <2> QED BY <2>1, <2>2
<1> QED BY <1>1, <1>2, <1>3 DEF Shows

LEMMA PatchReturns ==
    ASSUME ControlOK, call = "patch", closing = -1, ~suspended, ~cleanup, ~fullRepaint, applied,
           Steady, NoFault, Returns(TRUE), Shows(term', shown), pipe' = <<>>, ~b'.kittyUncertain
    PROVE  /\ ControlOK' /\ applied' /\ call' = "none" /\ ~suspended' /\ phase' = "idle"
           /\ desired' = desired
<1>0. SessionTypes /\ SuspendedOK
  BY DEF ControlOK
<1>1. /\ call' = "none" /\ phase' = "idle" /\ ~suspended' /\ ~cleanup' /\ ~fullRepaint'
      /\ shown' = shown /\ goal' = desired /\ applied'
  <2>1. call' = "none" /\ phase' = "idle" /\ goal' = desired
    BY DEF Returns
  <2>2. ~suspended'
    BY DEF Returns
  <2>3. ~cleanup' /\ applied'
    BY DEF Returns
  <2>4. ~fullRepaint'
    BY DEF Returns
  <2>5. shown' = shown
    BY <2>4 DEF Returns
  <2> QED BY <2>1, <2>2, <2>3, <2>4, <2>5
<1>2. desired' = desired /\ closing' = -1
  BY DEF Steady, NoFault
<1>4. SessionTypes'
  <2>1. suspended' \in BOOLEAN /\ cleanup' \in BOOLEAN /\ fullRepaint' \in BOOLEAN /\ applied' \in BOOLEAN
    <3>1. suspended' \in BOOLEAN /\ fullRepaint' \in BOOLEAN
      BY <1>0 DEF Returns, SessionTypes
    <3>2. cleanup' \in BOOLEAN /\ applied' \in BOOLEAN
      BY <1>0 DEF Returns, SessionTypes
    <3> QED BY <3>1, <3>2
  <2>2. desired' \in Desired /\ shown' \in Frames
    BY <1>0, <1>1, <1>2 DEF SessionTypes
  <2>3. closing' \in Int /\ call' # "patch"
    BY <1>1, <1>2
  <2> QED BY <2>1, <2>2, <2>3 DEF SessionTypes
<1>5. FrameOK'
  <2>1. Shows(term, shown)'
    BY <1>1 DEF Shows, Pictures
  <2> QED BY <1>1, <2>1 DEF FrameOK
<1>6. PatchOK' /\ PhaseOK' /\ RunningOK'
  <2>1. PatchOK'
    BY <1>1 DEF PatchOK
  <2>2. PhaseOK'
    BY <1>1 DEF PhaseOK
  <2>3. RunningOK'
    BY <1>1 DEF RunningOK
  <2> QED BY <2>1, <2>2, <2>3
<1>7. SuspendedOK' /\ ClosingOK'
  <2>1. SuspendedOK'
    BY <1>1 DEF SuspendedOK
  <2>2. ClosingOK'
    BY <1>2 DEF ClosingOK
  <2> QED BY <2>1, <2>2
<1> QED BY <1>1, <1>2, <1>4, <1>5, <1>6, <1>7 DEF ControlOK

LEMMA WriteFrameKeeps == ASSUME Inv, WriteFrame PROVE Inv'
<1>1. /\ phase = "frame" /\ Steady /\ NoFault /\ raw' = raw /\ Returns(TRUE) /\ b' = Written
      /\ IF goal.silent THEN UNCHANGED <<term, pipe>> ELSE Sends(Output)
  BY DEF WriteFrame
<1>2. /\ Writes /\ PatchModeOK /\ PatchImagesOK /\ call = "patch" /\ applied /\ Real(Virtual, desired)
      /\ closing = -1 /\ ~suspended /\ ~cleanup /\ ~fullRepaint
      /\ b.active.screen = desired.screen /\ (b.pushed <=> desired.keyboard = "enhanced")
  BY <1>1, WritesFacts
<1>3. ControlOK /\ raw \in BOOLEAN /\ AppliedOK /\ MapOK /\ RawOK
  BY InvTo
<1>4. term' \in Held /\ term' \in Pointed /\ ~term'.sync /\ pipe' = <<>> /\ Virtual' = term'
  BY <1>1, FrameWritten
<1>5. Known(term', b', FALSE) /\ Real(term', desired)
  BY <1>1, <1>2, <1>3, <1>4, WrittenKnown
<1>6. /\ b' \in Backends /\ ~b'.kittyUncertain /\ b'.raw = b.raw /\ b'.pushed = b.pushed
      /\ b'.active.screen = b.active.screen
  BY <1>1, <1>2, <1>3, WrittenIs
<1>7. Shows(term', shown)
  BY <1>2, <1>4, WrittenShows
<1>8. /\ ControlOK' /\ applied' /\ call' = "none" /\ ~suspended' /\ phase' = "idle"
      /\ desired' = desired
  BY <1>1, <1>2, <1>3, <1>4, <1>6, <1>7, PatchReturns
<1>9. KnownOK'
  <2>1. (phase' = "cook after error") = FALSE
    BY <1>8
  <2> QED BY <1>4, <1>5, <2>1 DEF KnownOK
<1>10. AppliedOK'
  <2>1. Real(term, desired)'
    BY <1>5, <1>8 DEF Real, Keys
  <2>2. pipe' \in Seq(FrameCommands)
    BY <1>4
  <2>3. raw = desired.raw
    BY <1>2, <1>3 DEF AppliedOK
  <2> QED BY <1>1, <1>2, <1>6, <1>8, <2>1, <2>2, <2>3 DEF AppliedOK
<1>11. MapOK'
  BY <1>1, <1>2, <1>3, WrittenMap
<1>12. RawOK'
  BY <1>1, <1>3, <1>6 DEF RawOK
<1>13. raw' \in BOOLEAN
  BY <1>1, <1>3
<1>14. term' \in Terminals
  BY <1>4 DEF Held
<1>15. pipe' \in Seq(Sent)
  BY <1>4
<1> QED BY <1>6, <1>8, <1>9, <1>10, <1>11, <1>12, <1>13, <1>14, <1>15, InvFrom

-----------------------------------------------------------------------------
(* The theorems.                                                           *)

LEMMA StutterKeeps == ASSUME Inv, UNCHANGED vars PROVE Inv'
<1>1. /\ term' = term /\ raw' = raw /\ pipe' = pipe /\ b' = b /\ desired' = desired
      /\ suspended' = suspended /\ cleanup' = cleanup /\ fullRepaint' = fullRepaint /\ call' = call
      /\ phase' = phase /\ goal' = goal /\ shown' = shown /\ applied' = applied /\ closing' = closing
  BY DEF vars, session, history
<1>2. /\ TypesOK /\ KnownOK /\ AppliedOK /\ FrameOK /\ PatchOK /\ PhaseOK /\ RunningOK
      /\ SuspendedOK /\ ClosingOK /\ MapOK /\ RawOK
  BY DEF Inv
<1>3. Virtual' = Virtual
  BY <1>1 DEF Virtual
<1>4. TypesOK'
  BY <1>1, <1>2 DEF TypesOK
<1>5. KnownOK'
  BY <1>1, <1>2, <1>3 DEF KnownOK
<1>6. AppliedOK'
  BY <1>1, <1>2 DEF AppliedOK, Real, Keys
<1>7. FrameOK'
  BY <1>1, <1>2 DEF FrameOK, Shows, Pictures
<1>8. PatchOK'
  <2>1. PatchModeOK => PatchModeOK'
    BY <1>1 DEF PatchModeOK
  <2>2. PatchImagesOK => PatchImagesOK'
    BY <1>1, <1>3 DEF PatchImagesOK, Pictures, Wire
  <2> QED BY <1>1, <1>2, <2>1, <2>2 DEF PatchOK
<1>9. PhaseOK'
  BY <1>1, <1>2 DEF PhaseOK, Restoring
<1>10. RunningOK'
  <2>1. (MustSettle(goal) => MustSettle(goal)') /\ (Leaving(goal)' => Leaving(goal))
    BY <1>1 DEF MustSettle, Leaving
  <2>2. Restoring' = Restoring /\ (Real(term, desired) => Real(term, desired)')
    BY <1>1 DEF Restoring, Real, Keys
  <2>3. Clean(term) => Clean(term)'
    BY <1>1 DEF Clean
  <2> QED BY <1>1, <1>2, <2>1, <2>2, <2>3 DEF RunningOK
<1>11. SuspendedOK'
  <2>1. Clean(term) => Clean(term)'
    BY <1>1 DEF Clean
  <2> QED BY <1>1, <1>2, <2>1 DEF SuspendedOK
<1>12. ClosingOK'
  <2>1. Clean(term) => Clean(term)'
    BY <1>1 DEF Clean
  <2> QED BY <1>1, <1>2, <2>1 DEF ClosingOK
<1>13. MapOK' /\ RawOK'
  BY <1>1, <1>2 DEF MapOK, RawOK
<1> QED BY <1>4, <1>5, <1>6, <1>7, <1>8, <1>9, <1>10, <1>11, <1>12, <1>13 DEF Inv

LEMMA NextKeeps == ASSUME Careful, Inv, [Next]_vars PROVE Inv'
<1>1. CASE UNCHANGED vars
  BY <1>1, StutterKeeps
<1>2. CASE BackendStep
  <2>1. CASE Recover BY <2>1, RecoverKeeps
  <2>2. CASE RecoverFails BY <2>2, RecoverFailsKeeps
  <2>3. CASE Settle BY <2>3, SettleKeeps
  <2>4. CASE SettleFails BY <2>4, SettleFailsKeeps
  <2>5. CASE Apply BY <2>5, ApplyKeeps
  <2>6. CASE ApplyFails BY <2>6, ApplyFailsKeeps
  <2>7. CASE Clear BY <2>7, ClearKeeps
  <2>8. CASE ClearFails BY <2>8, ClearFailsKeeps
  <2>9. CASE WriteFrame BY <2>9, WriteFrameKeeps
  <2>10. CASE WriteFrameFails BY <2>10, WriteFrameFailsKeeps
  <2>11. CASE \E fails \in BOOLEAN : Cook(fails)
    BY <2>11, CookKeeps
  <2>12. CASE \E fails \in BOOLEAN : RestoreEnds(fails)
    BY <2>12, RestoreEndsKeeps
  <2> QED BY <1>2, <2>1, <2>2, <2>3, <2>4, <2>5, <2>6, <2>7, <2>8, <2>9, <2>10, <2>11, <2>12 DEF BackendStep
<1>3. CASE \E d \in Desired : ApplyState(d)
  BY <1>3, ApplyStateKeeps
<1>4. CASE \E full, runs, refused \in BOOLEAN, scene \in SUBSET Images, cursor \in {"hidden", "shown"} :
              StartPatch(full, runs, scene, cursor, refused)
  <2>1. PICK full \in BOOLEAN, runs \in BOOLEAN, refused \in BOOLEAN, scene \in SUBSET Images,
             cursor \in {"hidden", "shown"} : StartPatch(full, runs, scene, cursor, refused)
    BY <1>4
  <2> QED BY <2>1, StartPatchKeeps
<1>5. CASE Suspend BY <1>5, SuspendKeeps
<1>6. CASE Resume BY <1>6, ResumeKeeps
<1>7. CASE Close BY <1>7, CloseKeeps
<1>8. CASE Drop BY <1>8, DropKeeps
<1> QED BY <1>1, <1>2, <1>3, <1>4, <1>5, <1>6, <1>7, <1>8 DEF Next

\* The inductive invariant holds of an owner that writes no patch after an
\* apply_state that failed.
THEOREM Invariant == Careful => (Spec => []Inv)
<1> SUFFICES ASSUME Careful PROVE Spec => []Inv
  OBVIOUS
<1>1. Init => Inv
  BY InitKeeps
<1>2. Inv /\ [Next]_vars => Inv'
  BY NextKeeps
<1> QED BY <1>1, <1>2, PTL DEF Spec

LEMMA InvTypes == Inv => TypeOK
<1> SUFFICES ASSUME Inv PROVE TypeOK
  OBVIOUS
<1>1. TypesOK /\ SuspendedOK /\ MapOK
  BY DEF Inv
<1>2. b.owned \subseteq 1..MaxId /\ b.nextId \in 1..MaxId /\ b.mapping \in Mappings
  BY <1>1 DEF TypesOK, Backends
<1>3. DOMAIN b.mapping \subseteq Images
  BY <1>2 DEF Mappings
<1> QED BY <1>1, <1>2, <1>3 DEF TypeOK, TypesOK, SuspendedOK, MapOK

LEMMA InvApplied == Inv => AppliedIsReal
<1> SUFFICES ASSUME Inv, applied PROVE AppliedIsReal
  BY DEF AppliedIsReal
<1>1. raw = desired.raw /\ Real(term, desired)
  BY DEF Inv, AppliedOK
<1>2. \A f \in {"screen", "mouse", "paste", "nowrap"} : term[f] = desired[f]
  BY <1>1 DEF Real
<1>3. \A s \in Screens : term.keyboard[s] =
         IF s = desired.screen /\ desired.keyboard = "enhanced" THEN 1 ELSE 0
  BY <1>1 DEF Real, Keys
<1>4. term.title \in IF desired.title = "none" THEN {"shell", ""} ELSE {desired.title}
  BY <1>1 DEF Real, TitleIs
<1> QED BY <1>1, <1>2, <1>3, <1>4 DEF AppliedIsReal

LEMMA InvFrame == Inv => FrameIsShown
<1> SUFFICES ASSUME Inv, Quiet, ~suspended, ~fullRepaint PROVE FrameIsShown
  BY DEF FrameIsShown
<1>1. Shows(term, shown) /\ pipe = <<>>
  BY DEF Inv, FrameOK, Quiet
<1> QED BY <1>1 DEF FrameIsShown, Shows, Pictures

\* What was overwritten on the main screen stays so.
LEMMA ForeignLost ==
    ASSUME NEW t \in Terminals, NEW c \in Sent, ~t.foreign
    PROVE  Receive(t, c) \in Terminals /\ ~Receive(t, c).foreign
<1>1. Receive(t, c) \in Terminals
  BY SentTyped
<1>2. \A k \in Kitty : \A a : ~Graphics(t, k, a).foreign
  <2> SUFFICES ASSUME NEW k \in Kitty, NEW a, NEW u, u = Graphics(t, k, a) PROVE ~u.foreign
    OBVIOUS
  <2>1. CASE t.screen = "main"
    BY <2>1 DEF Graphics, Terminals
  <2>2. CASE t.screen # "main" /\ k = "delete"
    <3> DEFINE y == {i \in t.images : i[1] # a}
    <3>1. u = [t EXCEPT !.images = y, !.upload = <<>>]
      BY <2>2 DEF Graphics
    <3> HIDE DEF y
    <3> QED BY <3>1 DEF Terminals
  <2>3. CASE t.screen # "main" /\ k = "first"
    <3> DEFINE y == IF t.upload = <<>> THEN a ELSE <<0, "mixed">>
    <3>1. u = [t EXCEPT !.upload = y]
      BY <2>3 DEF Graphics
    <3> HIDE DEF y
    <3> QED BY <3>1 DEF Terminals
  <2>4. CASE t.screen # "main" /\ k = "last"
    <3> DEFINE y == {i \in t.images : i[1] # a[1]} \cup {a}
               z == <<0, "mixed">>
    <3>1. u = [t EXCEPT !.images = y, !.upload = <<>>] \/ u = [t EXCEPT !.upload = z]
      BY <2>4 DEF Graphics
    <3> HIDE DEF y, z
    <3> QED BY <3>1 DEF Terminals
  <2> QED BY <2>1, <2>2, <2>3, <2>4 DEF Kitty
<1>3. \A k, a : ~Cut(t, k, a).foreign
  BY DEF Cut, Terminals
<1>4. \A k : ~Swallowed(t, k).foreign
  BY DEF Swallowed, Ended, Terminals
<1>5. \A k, a : ~Understood(t, k, a).foreign
  <2> SUFFICES ASSUME NEW k, NEW a PROVE ~Understood(t, k, a).foreign
    OBVIOUS
  <2>1. CASE k \in Kitty
    BY <1>2, <2>1 DEF Understood
  <2>2. CASE k \notin Kitty
    BY <2>2 DEF Understood, Terminals
  <2> QED BY <2>1, <2>2
<1> QED BY <1>1, <1>3, <1>4, <1>5 DEF Receive

LEMMA InvForeign == Inv => ForeignImagesKept
<1> SUFFICES ASSUME Inv, ~term.foreign PROVE FALSE
  BY DEF ForeignImagesKept
<1>1. term \in Terminals /\ pipe \in Seq(Sent) /\ Virtual.foreign
  BY DEF Inv, TypesOK, KnownOK, Known, KnowsWriting
<1> DEFINE T == {u \in Terminals : ~u.foreign}
<1>2. \A u \in T : \A i \in DOMAIN pipe : Receive(u, pipe[i]) \in T
  <2> SUFFICES ASSUME NEW u \in T, NEW i \in DOMAIN pipe PROVE Receive(u, pipe[i]) \in T
    OBVIOUS
  <2>1. pipe[i] \in Sent
    BY <1>1
  <2> QED BY <2>1, ForeignLost
<1>3. term \in T
  BY <1>1
<1> HIDE DEF T
<1>4. Virtual \in T
  BY <1>1, <1>2, <1>3, ReceivesAllKeep DEF Virtual
<1> QED BY <1>1, <1>4 DEF T

\* The state is of its types, and no two pictures have one wire id.
THEOREM TypeCorrect == Careful => (Spec => []TypeOK)
<1>1. Inv => TypeOK
  BY InvTypes
<1> QED BY <1>1, Invariant, PTL

\* A terminal that the session says it has given back is as it was found,
\* whatever failed before, at any byte.
THEOREM TerminalRestored == Careful => (Spec => []RestoredIsClean)
<1>1. Inv => RestoredIsClean
  BY DEF Inv, SuspendedOK, RestoredIsClean, Quiet
<1> QED BY <1>1, Invariant, PTL

\* An apply_state that succeeds leaves the terminal in the state asked for.
THEOREM StateApplied == Careful => (Spec => []AppliedIsReal)
<1>1. Inv => AppliedIsReal
  BY InvApplied
<1> QED BY <1>1, Invariant, PTL

\* A patch reported Applied is on the screen, with its images and no others.
THEOREM FrameShown == Careful => (Spec => []FrameIsShown)
<1>1. Inv => FrameIsShown
  BY InvFrame
<1> QED BY <1>1, Invariant, PTL

\* No image command ever reaches the main screen.
THEOREM ForeignKept == Careful => (Spec => []ForeignImagesKept)
<1>1. Inv => ForeignImagesKept
  BY InvForeign
<1> QED BY <1>1, Invariant, PTL

\* A single failure while run closes the session is survived.
THEOREM FaultSurvived == Careful => (Spec => []OneFaultSurvived)
<1>1. Inv => OneFaultSurvived
  <2> SUFFICES ASSUME ClosingOK PROVE OneFaultSurvived
    BY DEF Inv
  <2>1. closing \in {0, 1} => closing >= 0 /\ closing < 2
    OBVIOUS
  <2> QED BY <2>1 DEF ClosingOK, OneFaultSurvived
<1> QED BY <1>1, Invariant, PTL
=============================================================================
