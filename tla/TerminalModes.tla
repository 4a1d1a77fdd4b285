---------------------------- MODULE TerminalModes -----------------------------
(***************************************************************************)
(* CrosstermBackend (backend.rs, output.rs, kitty.rs) under the lifecycle  *)
(* of its TerminalSession (session.rs), writing to a Terminal through a    *)
(* writer that may fail at any byte.                                       *)
(*                                                                         *)
(* A call of the session is a chain of phases, each a run of commands that *)
(* ends in a flush; a phase either succeeds or stops at a command, which   *)
(* may have been sent in part.  An unbuffered writer has then delivered    *)
(* all it was given.  A buffered one (std's BufWriter and LineWriter, the  *)
(* latter in Stdout) has delivered some of it, and keeps the rest to be    *)
(* sent before anything later.                                             *)
(*                                                                         *)
(* Focus reporting is handled as bracketed paste is, and is left out, and  *)
(* so are cursor positions and the capability mask (effective_state): the  *)
(* states wanted are those the capabilities allow.  original_raw_mode is   *)
(* FALSE.  Wire ids are 1..MaxId instead of 32 bits wide.                  *)
(***************************************************************************)
EXTENDS Terminal, FiniteSets, SequencesExt

CONSTANTS Desired,    \* the terminal states the application asks for
          Images,     \* pictures
          MaxId,      \* width of a wire id
          Writers,    \* \subseteq {"buffered", "unbuffered"}
          Careful,    \* the owner writes no patch after an apply_state that failed
          MaxFaults   \* bound: failures of the writer or of the tty

TerminalState ==
    [raw : BOOLEAN, screen : Screens, mouse : {"off", "capture"}, keyboard : {"legacy", "enhanced"},
     paste : BOOLEAN, nowrap : BOOLEAN, title : STRING, cursor : {"hidden", "shown"},
     sync : BOOLEAN]

ASSUME ModesAssumption ==
    /\ Desired \subseteq TerminalState
    /\ IsFiniteSet(Images) /\ MaxId \in Nat /\ MaxId > Cardinality(Images)
    /\ MaxFaults \in Nat /\ Writers \subseteq {"buffered", "unbuffered"}
    /\ Careful \in BOOLEAN

VARIABLES
    term, raw,     \* the terminal; the raw mode of its tty
    writer, pipe,  \* the kind of writer, and the commands it holds back
    b,             \* CrosstermBackend
    desired, suspended, cleanup, fullRepaint,  \* TerminalSession
    call, phase,   \* the session's call in progress, and where it is in the backend
    goal,          \* its argument: a terminal state, or a patch with its image update
    shown,         \* the frame of the last patch
    applied,       \* history: the last apply_state of the open session succeeded
    closing,       \* history: faults since run began to close the session, or -1
    faults

session == <<desired, suspended, cleanup, fullRepaint>>
history == <<shown, applied, closing>>
vars == <<term, raw, writer, pipe, b, session, call, phase, goal, history, faults>>

NoState == [screen |-> "main", mouse |-> "off", keyboard |-> "legacy", paste |-> FALSE,
            nowrap |-> FALSE, title |-> "none", cursor |-> "shown"]
Fields == DOMAIN NoState
Modes(d) == [f \in Fields |-> d[f]]

NewBackend ==
    [active |-> NoState, confirmed |-> NoState, raw |-> FALSE, sync |-> FALSE,
     pushed |-> FALSE, mouseUnconfirmed |-> FALSE, titleUnconfirmed |-> FALSE,
     lifecycleUncertain |-> FALSE, syncPending |-> FALSE,
     mapping |-> <<>>, owned |-> {}, nextId |-> 1, kittyUncertain |-> FALSE]

NoFrame == [scene |-> {}, cursor |-> "shown"]

Init ==
    /\ term = Fresh /\ raw = FALSE
    /\ writer \in Writers /\ pipe = <<>>
    /\ b = NewBackend
    /\ desired \in Desired
    /\ suspended = FALSE /\ cleanup = FALSE /\ fullRepaint = TRUE
    /\ call = "open" /\ phase = "recover" /\ goal = desired
    /\ shown = NoFrame /\ applied = FALSE /\ closing = -1 /\ faults = 0
----------------------------------------------------------------------------
(* Writing.  "note" is an assignment between two commands, and no bytes.   *)

Torn(c) == <<"torn", c[1], c[2]>>

\* What is recorded before a command is handed to the writer, and after.
Attempt(k, c) ==
    CASE c[1] = "mouse" -> [k EXCEPT !.mouseUnconfirmed = TRUE]
      [] c[1] = "title" -> [k EXCEPT !.titleUnconfirmed = TRUE, !.lifecycleUncertain = TRUE]
      [] c[1] = "sync" /\ c[2] -> [k EXCEPT !.syncPending = TRUE]
      [] OTHER -> k

Done(k, c, kind) ==
    LET a == Attempt(k, c)
    IN CASE c[1] = "keyboard" -> [a EXCEPT !.pushed = (c[2] = "push")]
         [] c = <<"note", "sync">> -> [a EXCEPT !.sync = goal.sync]
         [] c = <<"note", "keyboard">> -> [a EXCEPT !.active.keyboard = goal.keyboard]
         [] kind = "body" /\ c[1] = "title" -> [a EXCEPT !.active.title = goal.title]
         [] kind = "body" /\ c[1] \in Fields \ {"keyboard", "title"} -> [a EXCEPT !.active[c[1]] = c[2]]
         [] OTHER -> a

AllDone(k, commands, kind) ==
    LET after[n \in 0..Len(commands)] ==
            IF n = 0 THEN k ELSE Done(after[n - 1], commands[n], kind)
    IN  after[Len(commands)]

Sends(commands) ==
    /\ term' = ReceiveAll(term, pipe \o commands)
    /\ pipe' = <<>>

Fault ==
    /\ faults < MaxFaults /\ faults' = faults + 1
    /\ closing' = IF closing >= 0 THEN closing + 1 ELSE closing

\* `given' went to the writer before its error.
Delivers(given) ==
    \E n \in 0..Len(pipe \o given) :
        /\ writer = "unbuffered" => n = Len(pipe \o given)
        /\ term' = ReceiveAll(term, SubSeq(pipe \o given, 1, n))
        /\ pipe' = SubSeq(pipe \o given, n + 1, Len(pipe \o given))

\* The writer's error comes at command i, or at the flush after them all.
StopsAt(commands, i) ==
    LET before == SubSeq(commands, 1, i - 1)
    IN  \/ i > Len(commands) /\ Delivers(before)
        \/ /\ i <= Len(commands) /\ commands[i][1] # "note"
           /\ Delivers(before) \/ Delivers(Append(before, Torn(commands[i])))
StoppedAt(commands, i, kind) ==
    LET k == AllDone(b, SubSeq(commands, 1, i - 1), kind)
    IN  IF i > Len(commands) THEN k ELSE Attempt(k, commands[i])

Ordered(set) == SetToSeq(set)
Deletions(ids) == [i \in 1..Cardinality(ids) |-> <<"delete", Ordered(ids)[i]>>]
If(condition, commands) == IF condition THEN commands ELSE <<>>
\* Mutation: a string cut short is not terminated.
KittyRecoveryNoST(needed) == If(needed, << <<"sync", FALSE>> >>)
KittyRecovery(needed) == If(needed, << <<"ST", "">>, <<"sync", FALSE>> >>)
----------------------------------------------------------------------------
(* apply_state                                                             *)

\* Mutation: an unfinished synchronized update is not remembered.
MustRecoverTitle == b.lifecycleUncertain

MustRecover == b.lifecycleUncertain \/ b.syncPending
Recovery == << <<"ST", "">> >> \o If(b.syncPending, << <<"sync", FALSE>> >>)

Leaving(d) == d.screen = "main" /\ "alternate" \in {b.active.screen, b.confirmed.screen}
MustSettle(d) == b.kittyUncertain \/ (Leaving(d) /\ b.owned # {})

\* Mutation: the alternate screen is not entered again before the deletions.
SettlementBlind(d) ==
    KittyRecovery(b.kittyUncertain) \o Deletions(b.owned)
      \o If(b.pushed \/ "enhanced" \in {b.active.keyboard, b.confirmed.keyboard},
            << <<"keyboard", "pop">> >>)
      \o If(d.screen = "main", << <<"screen", "main">> >>)
Settlement(d) ==
    KittyRecovery(b.kittyUncertain) \o << <<"screen", "alternate">> >> \o Deletions(b.owned)
      \o If(b.pushed \/ "enhanced" \in {b.active.keyboard, b.confirmed.keyboard},
            << <<"keyboard", "pop">> >>)
      \o If(d.screen = "main", << <<"screen", "main">> >>)
ConfirmCleanup(k) == [k EXCEPT !.mapping = <<>>, !.owned = {}, !.kittyUncertain = FALSE]
Settled(d) == [ConfirmCleanup(b) EXCEPT !.pushed = FALSE, !.active.screen = d.screen,
                                        !.confirmed = [NoState EXCEPT !.screen = d.screen]]

\* Mutation: a mode sent but not confirmed is taken for set.
ChangedActive(d, f) == d[f] # b.active[f]
Changed(d, f) == d[f] # b.active[f] \/ d[f] # b.confirmed[f]
TitleText(d) == IF d.title = "none" THEN "" ELSE d.title

\* The commands of apply_state for the modes that are not as wanted, in order.
Body(d) ==
    LET switch == Changed(d, "screen")
        pushed == b.pushed /\ ~switch
    IN  If(switch, If(b.pushed, << <<"keyboard", "pop">> >>)
                   \o If(Leaving(d), Deletions(b.owned)) \o << <<"screen", d.screen>> >>)
        \o If(b.mouseUnconfirmed \/ Changed(d, "mouse"), << <<"mouse", d.mouse>> >>)
        \o If(Changed(d, "paste"), << <<"paste", d.paste>> >>)
        \o If(Changed(d, "keyboard") \/ (d.keyboard = "enhanced" /\ ~pushed),
              If(pushed # (d.keyboard = "enhanced"),
                 << <<"keyboard", IF pushed THEN "pop" ELSE "push">> >>)
              \o << <<"note", "keyboard">> >>)
        \o If(Changed(d, "nowrap"), << <<"nowrap", d.nowrap>> >>)
        \o If(b.titleUnconfirmed \/ Changed(d, "title"), << <<"title", TitleText(d)>> >>)
        \o If(Changed(d, "cursor"), << <<"cursor", d.cursor>> >>)
        \o << <<"note", "sync">> >>

Confirmed(k) == [k EXCEPT !.mouseUnconfirmed = FALSE, !.lifecycleUncertain = FALSE,
                          !.titleUnconfirmed = FALSE]
----------------------------------------------------------------------------
(* What the session makes of the backend's answer.                         *)

\* A failed resume, and a failed open, restore the backend and report.
Undoes == call \in {"open", "resume"}
Returns(ok) ==
    IF ok \/ ~Undoes
    THEN /\ call' = IF call \in {"undo open", "drop"} THEN "gone" ELSE "none"
         /\ phase' = "idle"
         /\ suspended' = (suspended /\ ~(call = "resume" /\ ok))
         /\ cleanup' = CASE call \in {"open", "resume", "suspend"} -> cleanup /\ ~ok
                         [] call = "undo resume" -> ~ok
                         [] OTHER -> cleanup
         /\ fullRepaint' = (fullRepaint \/ call # "patch" \/ ~ok)
         /\ shown' = IF fullRepaint' THEN NoFrame ELSE shown
         /\ goal' = desired
         /\ applied' = CASE call \in {"open", "resume", "apply"} -> ok
                         [] call = "patch" -> applied
                         [] OTHER -> FALSE
    ELSE /\ call' = IF call = "open" THEN "undo open" ELSE "undo resume"
         /\ phase' = "recover"
         /\ UNCHANGED <<suspended, cleanup, fullRepaint, applied, goal, shown>>

Restoring == call \in {"suspend", "undo open", "undo resume", "drop"}

Goes(to) == phase' = to /\ UNCHANGED <<call, suspended, cleanup, fullRepaint, applied, goal, shown>>
Steady == UNCHANGED <<writer, desired>>
NoFault == UNCHANGED <<faults, closing>>

Recover ==
    /\ phase = "recover" /\ Steady /\ NoFault /\ UNCHANGED raw
    /\ IF MustRecover THEN Sends(Recovery) ELSE UNCHANGED <<term, pipe>>
    /\ b' = [b EXCEPT !.lifecycleUncertain = FALSE, !.syncPending = FALSE]
    /\ Goes(CASE Restoring -> "clear"
              [] call = "patch" -> "frame"
              [] OTHER -> IF MustSettle(goal) THEN "settle" ELSE "body")

\* Mutation: the modes are taken for cleared although the output failed.
ClearFailedForgets(k) == [k EXCEPT !.active = NoState, !.mouseUnconfirmed = FALSE]
\* An error of restore's output is followed by its attempt to leave raw mode.
ClearFailed(k) ==
    [k EXCEPT !.kittyUncertain = @ \/ b.owned # {}]

RecoverFails ==
    /\ phase = "recover" /\ MustRecover /\ Steady /\ Fault /\ UNCHANGED raw
    /\ \E i \in 1..Len(Recovery) + 1 : StopsAt(Recovery, i)
    /\ IF Restoring THEN b' = ClearFailed(b) /\ Goes("cook after error")
                    ELSE UNCHANGED b /\ Returns(FALSE)

Settle ==
    /\ phase = "settle" /\ Steady /\ NoFault /\ UNCHANGED raw
    /\ Sends(Settlement(goal))
    /\ b' = Settled(goal)
    /\ Goes("body")

SettleFails ==
    /\ phase = "settle" /\ Steady /\ Fault /\ UNCHANGED raw
    /\ \E i \in 1..Len(Settlement(goal)) + 1 : StopsAt(Settlement(goal), i)
    /\ b' = [b EXCEPT !.kittyUncertain = TRUE]
    /\ Returns(FALSE)

Apply ==
    /\ phase = "body" /\ Steady /\ NoFault
    /\ raw' = (raw \/ goal.raw)
    /\ Sends(Body(goal))
    /\ LET k == Confirmed(AllDone(b, Body(goal), "body"))
       IN  b' = [(IF Leaving(goal) THEN ConfirmCleanup(k) ELSE k) EXCEPT
                   !.raw = @ \/ goal.raw, !.confirmed = Modes(goal)]
    /\ IF goal.raw \/ ~b.raw THEN Returns(TRUE) ELSE Goes("cook")

\* enable_raw_mode fails before anything is written, or the output stops.
ApplyFails ==
    /\ phase = "body" /\ Steady /\ Fault
    /\ LET uncertain == b.kittyUncertain \/ (Leaving(goal) /\ b.owned # {})
       IN  \/ /\ goal.raw /\ ~b.raw
              /\ b' = [b EXCEPT !.kittyUncertain = uncertain]
              /\ UNCHANGED <<raw, term, pipe>>
           \/ /\ raw' = (raw \/ goal.raw)
              /\ \E i \in 1..Len(Body(goal)) + 1 :
                    /\ StopsAt(Body(goal), i)
                    /\ b' = [StoppedAt(Body(goal), i, "body") EXCEPT
                                !.raw = @ \/ goal.raw, !.kittyUncertain = uncertain]
    /\ Returns(FALSE)

\* disable_raw_mode, at the end of apply_state and of restore.
Cooks(fails) ==
    IF fails THEN Fault /\ UNCHANGED raw ELSE NoFault /\ raw' = FALSE
Cook(fails) ==
    /\ phase = "cook" /\ ~Restoring /\ Steady
    /\ Cooks(fails)
    /\ b' = [b EXCEPT !.raw = fails]
    /\ UNCHANGED <<term, pipe>>
    /\ Returns(~fails)
----------------------------------------------------------------------------
(* restore                                                                 *)

Clearing ==
    KittyRecovery(b.kittyUncertain)
      \o If(b.kittyUncertain, << <<"screen", "alternate">> >>)
      \o Deletions(b.owned)
      \o If(b.pushed, << <<"keyboard", "pop">> >>)
      \o If(b.mouseUnconfirmed \/ "capture" \in {b.active.mouse, b.confirmed.mouse},
            << <<"mouse", "off">> >>)
      \o If(b.active.paste \/ b.confirmed.paste, << <<"paste", FALSE>> >>)
      \o If(b.kittyUncertain \/ "alternate" \in {b.active.screen, b.confirmed.screen},
            << <<"screen", "main">> >>)
      \o If(b.active.nowrap \/ b.confirmed.nowrap, << <<"nowrap", FALSE>> >>)
      \o If(b.titleUnconfirmed \/ b.active.title # "none" \/ b.confirmed.title # "none",
            << <<"title", "">> >>)
      \o << <<"cursor", "shown">> >>

Clear ==
    /\ phase = "clear" /\ Steady /\ NoFault /\ UNCHANGED raw
    /\ Sends(Clearing)
    /\ b' = [ConfirmCleanup(Confirmed(AllDone(b, Clearing, "clear"))) EXCEPT
               !.active = NoState, !.confirmed = NoState, !.sync = FALSE]
    /\ Goes("cook")

ClearFails ==
    /\ phase = "clear" /\ Steady /\ Fault /\ UNCHANGED raw
    /\ \E i \in 1..Len(Clearing) + 1 :
          StopsAt(Clearing, i) /\ b' = ClearFailed(StoppedAt(Clearing, i, "clear"))
    /\ Goes("cook after error")

RestoreEnds(fails) ==
    /\ phase \in {"cook", "cook after error"} /\ Restoring /\ Steady
    /\ fails => b.raw
    /\ IF b.raw THEN Cooks(fails) ELSE NoFault /\ UNCHANGED raw
    /\ b' = [b EXCEPT !.raw = fails,
                      !.confirmed = IF phase = "cook" THEN @ ELSE NoState]
    /\ UNCHANGED <<term, pipe>>
    /\ Returns(phase = "cook" /\ ~fails)
----------------------------------------------------------------------------
(* write_patch                                                             *)

Maps(mapping, image, id) ==
    [i \in {image} \cup DOMAIN mapping |-> IF i = image THEN id ELSE mapping[i]]
\* Mutation: ids run on past their width.
WireIdUnwrapped(k, image) ==
    IF image \in DOMAIN k.mapping THEN k
    ELSE [k EXCEPT !.mapping = Maps(@, image, k.nextId), !.nextId = @ + 1]
\* KittyState::wire_id: the next id that neither an image nor the terminal has.
FreeId(k) ==
    LET taken == k.owned \cup {k.mapping[i] : i \in DOMAIN k.mapping}
        after(n) == IF k.nextId + n <= MaxId THEN k.nextId + n ELSE k.nextId + n - MaxId
        skipped == CHOOSE n \in 0..MaxId - 1 : after(n) \notin taken
                                             /\ \A m \in 0..n - 1 : after(m) \in taken
    IN  after(skipped)
WireId(k, image) ==
    IF image \in DOMAIN k.mapping THEN k
    ELSE [k EXCEPT !.mapping = Maps(@, image, FreeId(k)),
                   !.nextId = IF FreeId(k) = MaxId THEN 1 ELSE FreeId(k) + 1]
Mapped(scene) ==
    LET after[n \in 0..Cardinality(scene)] ==
            IF n = 0 THEN b ELSE WireId(after[n - 1], Ordered(scene)[n])
    IN  after[Cardinality(scene)]

\* KittyState::prepare.  Ids are recorded as owned before anything is sent.
Update(k, scene) ==
    [recover |-> b.kittyUncertain, delete |-> b.owned, scene |-> scene,
     id |-> [i \in scene |-> k.mapping[i]]]
NoUpdate == [recover |-> FALSE, delete |-> {}, scene |-> {}, id |-> <<>>]
Wire(update) == {update.id[i] : i \in update.scene}
HasOutput(update) == update.recover \/ update.delete # {} \/ update.scene # {}

\* The renderer sends a scene with a full repaint and when it has changed.
StartPatch(full, runs, scene, cursor, refused) ==
    LET new == [scene |-> scene, cursor |-> cursor]
        updates == b.active.screen = "alternate" /\ (full \/ scene # shown.scene)
        k == IF updates THEN Mapped(scene) ELSE b
        update == IF updates THEN Update(k, scene) ELSE NoUpdate
    IN  /\ call = "none" /\ closing = -1 /\ ~suspended
        /\ Careful => applied
        /\ fullRepaint => full
        /\ full => runs
        /\ goal' = IF refused THEN desired
                   ELSE [full |-> full, runs |-> runs, cursor |-> cursor, updates |-> updates,
                         update |-> update, silent |-> ~runs /\ new.cursor = shown.cursor
                                                       /\ ~HasOutput(update)]
        /\ b' = [k EXCEPT !.owned = @ \cup Wire(update)]
        /\ shown' = new
        /\ IF refused THEN /\ Fault /\ fullRepaint' = TRUE /\ UNCHANGED <<call, phase>>
           ELSE NoFault /\ call' = "patch" /\ phase' = "recover" /\ fullRepaint' = FALSE
        /\ UNCHANGED <<term, raw, writer, pipe, desired, suspended, cleanup, applied>>

Uploads(update) ==
    LET order == Ordered(update.scene)
        part(n) == <<update.id[order[(n + 1) \div 2]], order[(n + 1) \div 2]>>
    IN  [n \in 1..2 * Len(order) |-> <<IF n % 2 = 1 THEN "first" ELSE "last", part(n)>>]

FrameBody ==
    Deletions(goal.update.delete) \o If(goal.full, << <<"erase", "">> >>)
      \o If(goal.runs, << <<"cells", goal.full>> >>) \o Uploads(goal.update)
      \o << <<"cursor", goal.cursor>> >>
Begin == KittyRecovery(goal.update.recover) \o If(b.sync, << <<"sync", TRUE>> >>)
End == If(b.sync, << <<"sync", FALSE>> >>)
Output == Begin \o FrameBody \o End

Written ==
    LET k == IF goal.updates
             THEN [b EXCEPT !.kittyUncertain = FALSE, !.owned = Wire(goal.update),
                            !.mapping = [i \in DOMAIN @ \cap goal.update.scene |-> @[i]]]
             ELSE b
    IN  IF goal.silent THEN k
        ELSE [k EXCEPT !.syncPending = FALSE, !.active.cursor = goal.cursor,
                       !.confirmed.cursor = goal.cursor]

WriteFrame ==
    /\ phase = "frame" /\ Steady /\ NoFault /\ UNCHANGED raw
    /\ IF goal.silent THEN UNCHANGED <<term, pipe>> ELSE Sends(Output)
    /\ b' = Written
    /\ Returns(TRUE)

\* The body of a synchronized frame that fails is still followed by an attempt
\* to end the synchronized update, and to flush.
WriteFrameFails ==
    /\ phase = "frame" /\ ~goal.silent /\ Steady /\ Fault /\ UNCHANGED raw
    /\ \E i \in 1..Len(Output) + 1 :
          /\ \/ StopsAt(Output, i)
             \/ /\ b.sync /\ i \in Len(Begin) + 1..Len(Output) - 1
                /\ \E torn \in BOOLEAN :
                      Delivers(SubSeq(Output, 1, i - 1)
                               \o If(torn, << Torn(Output[i]) >>) \o End)
          /\ b' = [b EXCEPT !.kittyUncertain = @ \/ goal.updates,
                            !.syncPending = @ \/ (b.sync /\ i >= Len(Begin))]
    /\ Returns(FALSE)
----------------------------------------------------------------------------
(* The session's owner                                                     *)

Idle == call = "none" /\ closing = -1
StartRestore(c) ==
    /\ call' = c /\ phase' = "recover"
    /\ suspended' = TRUE /\ cleanup' = TRUE /\ fullRepaint' = TRUE
    /\ applied' = FALSE

ApplyState(d) ==
    /\ Idle /\ d # desired
    /\ desired' = d
    /\ IF suspended THEN UNCHANGED <<call, phase, goal, fullRepaint, applied>>
       ELSE call' = "apply" /\ phase' = "recover" /\ goal' = d /\ fullRepaint' = TRUE
            /\ applied' = FALSE
    /\ UNCHANGED <<term, raw, writer, pipe, b, suspended, cleanup, shown, closing, faults>>

Suspend ==
    /\ Idle /\ (~suspended \/ cleanup)
    /\ StartRestore("suspend")
    /\ UNCHANGED <<term, raw, writer, pipe, b, desired, goal, shown, closing, faults>>

Resume ==
    /\ Idle /\ suspended
    /\ call' = "resume" /\ phase' = "recover" /\ goal' = desired
    /\ UNCHANGED <<term, raw, writer, pipe, b, session, history, faults>>

\* run_with_options: restore, whatever run_terminal returned or panicked with,
\* and then drop.
Close ==
    /\ Idle
    /\ closing' = 0
    /\ IF suspended /\ ~cleanup THEN UNCHANGED <<call, phase, session, applied>>
       ELSE StartRestore("suspend") /\ UNCHANGED desired
    /\ UNCHANGED <<term, raw, writer, pipe, b, goal, shown, faults>>

Drop ==
    /\ call = "none" /\ closing >= 0
    /\ IF suspended /\ ~cleanup THEN call' = "gone" /\ UNCHANGED phase
       ELSE call' = "drop" /\ phase' = "recover"
    /\ UNCHANGED <<term, raw, writer, pipe, b, session, goal, history, faults>>

BackendStep ==
    \/ Recover \/ RecoverFails \/ Settle \/ SettleFails \/ Apply \/ ApplyFails
    \/ Clear \/ ClearFails \/ WriteFrame \/ WriteFrameFails
    \/ \E fails \in BOOLEAN : Cook(fails) \/ RestoreEnds(fails)

Next ==
    \/ BackendStep
    \/ \E d \in Desired : ApplyState(d)
    \/ \E full, runs, refused \in BOOLEAN, scene \in SUBSET Images, cursor \in {"hidden", "shown"} :
          StartPatch(full, runs, scene, cursor, refused)
    \/ Suspend \/ Resume \/ Close \/ Drop

Spec == Init /\ [][Next]_vars
----------------------------------------------------------------------------
(* Properties                                                              *)

Quiet == phase = "idle" /\ call \in {"none", "gone"}

TypeOK ==
    /\ raw \in BOOLEAN /\ suspended \in BOOLEAN /\ cleanup \in BOOLEAN /\ fullRepaint \in BOOLEAN
    /\ desired \in Desired
    /\ b.owned \subseteq 1..MaxId /\ b.nextId \in 1..MaxId /\ DOMAIN b.mapping \subseteq Images
    /\ cleanup => suspended
    /\ \A i, j \in DOMAIN b.mapping : b.mapping[i] = b.mapping[j] => i = j

Clean(t) ==
    /\ t.screen = "main" /\ t.mouse = "off" /\ t.cursor = "shown" /\ t.parser = "ground"
    /\ ~t.paste /\ ~t.nowrap /\ ~t.sync
    /\ t.title \in {"shell", ""} /\ t.images = {}
    /\ \A s \in Screens : t.keyboard[s] = 0

\* A terminal given back is as it was found, whatever failed before: when the
\* session says it is restored (is_suspended), every mode, the title, the
\* images and the tty are, and no command waits in the writer.
RestoredIsClean ==
    Quiet /\ suspended /\ ~cleanup => Clean(term) /\ ~raw /\ pipe = <<>>

\* After a successful apply_state the terminal is in the state asked for, though
\* calls before it were cut short at any byte.
AppliedIsReal ==
    Quiet /\ applied =>
        /\ raw = desired.raw
        /\ \A f \in {"screen", "mouse", "paste", "nowrap"} : term[f] = desired[f]
        /\ \A s \in Screens : term.keyboard[s] =
              IF s = desired.screen /\ desired.keyboard = "enhanced" THEN 1 ELSE 0
        /\ term.title \in IF desired.title = "none" THEN {"shell", ""} ELSE {desired.title}

\* A patch reported Applied is on the screen: no string swallows it, no
\* synchronized update holds it back, and exactly its images are placed.
FrameIsShown ==
    Quiet /\ ~suspended /\ ~fullRepaint =>
        /\ term.cells = "good" /\ term.parser = "ground" /\ ~term.sync /\ pipe = <<>>
        /\ term.cursor = shown.cursor
        /\ term.screen = "alternate" =>
              /\ term.upload = <<>>
              /\ {i[2] : i \in term.images} = shown.scene

\* Deletions and uploads never reach the main screen, where the same ids may be
\* another client's, whatever failed.
ForeignImagesKept == term.foreign

\* A single failure while run closes the session, in restore or in drop, does
\* not leave the terminal in the application's modes.
OneFaultSurvived == call = "gone" /\ closing \in {0, 1} => Clean(term) /\ ~raw
=============================================================================
