# Verification of arborui

TLA+ models of arborui, a retained-mode terminal UI framework in Rust
(`src/crates/`), the TLC runs that check them, and the theorems TLAPS proves
about them.  Line numbers below and in `PROJECT.json` are those of the sources.

## 1. The system

An application is a model, `update(message) -> Command` and `view() -> Element`.
`AppRunner` (arborui-runtime) owns it, on one thread, together with a `UiTree`
(arborui-ui), a `Renderer` (arborui-render), a `Scheduler` and the receiving end
of an external message queue; it draws to a `TerminalSession`
(arborui-terminal) over a backend (arborui-backend-crossterm).  Other threads
only ever touch the queue, through `EventProxy`, and the tasks' wakers.

| component | state | operations | interacts with |
|---|---|---|---|
| external ingress, `proxy.rs` | bounded queue, closed, metrics; wake flag and condvar | `send`, `try_receive`, `close`, `notify`, `wait` | producers (threads), runner |
| scheduler, `scheduler.rs` | tasks, ready channel, one `queued` flag per task, timer heap, preference | `spawn`, `schedule_after`, `poll_ready`, `TaskWake::schedule` | waker threads, message loop |
| message loop, `runner.rs` | local messages, preference of a source, quitting, invalidation | `process_pending`, `next_message`, `execute`, `wait_for_work`, `request_quit` | application, ingress, scheduler |
| terminal loop, `runner.rs` | viewport, held-back events, invalidation | `run_terminal`, `render_terminal`, dispatch with recovery, resize coalescing | UI tree, renderer, session |
| terminal session, `session.rs` | desired state, suspended, cleanup required, full repaint required | `open`, `apply_state`, `write_patch`, `suspend`, `resume`, `restore`, drop | backend, owner of the session |
| UI tree, `tree.rs`, `focus.rs` | nodes, focus by scope, capture, suppressed buttons, hover, pending focus change, revision | `prepare`, `commit`, `discard`, `dispatch`, `refresh_hover`, focus operations, painting | runner, layout, renderer, handlers |
| renderer, `frame.rs` | committed buffer, hit map, images, generation, force-full-repaint | `prepare`, `commit`, `discard`, `discard_uncertain`, `invalidate`, `diff` | UI tree, session |
| buffers, canvas, graphemes, image scene | cells, wide-cell continuations, interned graphemes, stacked images | draw, fill, intern, retain, selective repaint | renderer, UI tree |
| layout, `arborui-layout` | slots with generations, free list, a shared engine with caches, computed layouts | add, remove, set children and style, invalidate, compute, staging clone | UI tree, taffy |
| crossterm backend | active and confirmed modes, title, stream uncertainty | `apply_state`, `restore`, `write_patch`, `poll_event` | session, tty |
| kitty graphics | image ids possibly owned by the terminal, mappings | prepare, confirm, mark uncertain, cleanup | backend |
| text, widgets, images, test app, geometry | `TextBuffer` (text, cursor, anchor); otherwise stateless | edits; element builders; pixel conversion; rectangles | UI tree, tests |

Hard behaviours, and what correctness means for each component:

- **Ingress.** Producers race with a draining, sleeping runner and with close.
  A message is admitted exactly once and in order, a full queue refuses, close
  is final, and no message waits behind a sleeping runner.
- **Scheduler.** Wakers race with `poll_ready` on one atomic flag and a channel.
  No wake is lost or doubled; timers and futures share any budget fairly.
- **Message loop.** Budgets per turn, three sources of work, a sleep.  A turn is
  bounded, no source starves, the runner does not sleep over work it left, and
  nothing is executed after Quit.
- **Terminal loop and session as it sees it.** A write may be applied, deferred,
  uncertain or fail; the terminal may be resized or suspended at any time.  The
  committed frame describes the screen or a repaint is forced; events are
  dispatched once, in order, against what the user sees.
- **Session and backend.** Output may stop at any byte of any command, with a
  writer that buffers or one that does not.  What is recorded as done is done,
  closing the session leaves a clean terminal whatever failed before, and no
  other client's image is deleted.
- **UI tree.** Nodes come and go under focus, capture and hover.  Focus is where
  it may be, its transitions pair up, overlays give it back, a press that lost
  its target is swallowed, and hover follows the committed frame.
- **Painting, renderer, buffers.** A frame is reused, repainted by damaged rows
  or painted in full, committed, discarded or lost.  Whichever it was, its
  content is that of a full repaint, and printing the patch on the old screen
  gives it, with wide graphemes whole and images stacked as they should be.
- **Layout.** Ids are recycled; a staged tree shares its engine with the
  committed one until either is changed.  No removed id names a node, and no
  layout comes from a cache that is out of date.
- **Text.** An edit may join the graphemes on its two sides; cursor and anchor
  must be boundaries of the result.

`PROJECT.json` lists each hazard at its line, with the properties that cover it.

## 2. Modules

| module | models | state and actions against the code |
|---|---|---|
| `BoundedChannel` | what the ingress promises | an abstract FIFO with a capacity, a receiver and a close |
| `EventIngress` | `proxy.rs` and the runner's wait | each critical section of the queue's mutex is one action; `WakeSignal`'s mutex-protected flag and condvar are separate actions, so a send is lock-and-admit and, later, notify |
| `Scheduler` | `scheduler.rs` | `poll_ready` is many steps: one per selected id or timer, one for `queued.store(false)`, one for the poll; a wake is the swap and then the send |
| `MessageLoop` | `process_pending`, `wait_for_work` | one action per phase of a turn and per update; the ingress and the ready channel shrink to what the loop asks of them |
| `TerminalLoop` | `run_terminal`, `render_terminal`, session flags, renderer transaction | one action per stretch between two calls that may fail; a processing turn is one step |
| `UiTree` | `tree.rs` and `focus.rs` as far as interaction goes | `Frame` is prepare, commit and refresh_hover; one action per way an event is dispatched |
| `Terminal` | the terminal emulator (external) | modes, keyboard stack and images per screen; a parser that a torn control string leaves inside the string |
| `TerminalModes` | `session.rs` over `backend.rs`, `kitty.rs`, the order of `output.rs` | a call of the session is a chain of phases, each a run of commands ending in a flush; a phase succeeds, or fails with a prefix of its commands sent, the next one perhaps torn |
| `CellBuffer` | one row of `buffer.rs` | `set_empty`, `set_grapheme`, `clear_span_at` as operators on rows |
| `ImageScene` | `ImageScene` of `image.rs` | images in stacking order, going stale, replayed, removed |
| `Frames` | painting in `tree.rs`, `canvas.rs`, `hit.rs`, `grapheme_store.rs`, the transaction and the diff of `frame.rs` | `Prepare` is reconcile, the choice of a way to paint, the painting and the diff; then `Commit`, `Discard` or `DiscardUncertain` |
| `Loops` | what the loops and walks of the models are written with | a number of steps, elements at indices, the least closed set |
| `NodeStore` | `NodeStore` of the layout tree | slots, generations and a free list, as operators on stores |
| `LayoutTree` | `arborui-layout`: `tree.rs`, `engine.rs` | one action per mutation, for `compute`, for staging and its end; taffy's caches by what they hold |
| `TextBuffer` | `edit.rs` | one action per `TextEdit`, over any segmentation into graphemes |
| `Geometry` | containment, intersection and insets of `geometry.rs` | operators with the limits of the integers as constants |
| `EventIngressProofs`, `SchedulerProofs`, `MessageLoopProofs`, `TerminalLoopProofs`, `TerminalModesProofs` | theorems about the module of that name | section 5 |
| `TerminalApplyProofs` | first part of `TerminalModesProofs`: what sequences of commands do, whole or cut short; the inductive invariant; opening and `apply_state` keep it | section 5 |
| `UiTreeProofs` | theorems about `UiTree`, and then about `Geometry`, `NodeStore`, `LayoutTree` and `TextBuffer`, which layout and handlers work on | section 5 |
| `FramesProofs` | theorems about `CellBuffer`, whose rows frames are made of, and about `Frames` | section 5 |
| `MC*` | instances for TLC | small sets and bounds |

Abstractions that matter, by module:

- Atomics are sequentially consistent; messages are names; in `TerminalLoop` a
  frame is its size and a version of the view.
- `TerminalLoop`: a view is a pure function of the model and its sibling keys are
  distinct, and the loop does nothing between preparing a frame and committing it.  So a
  commit is not refused and `refresh_after_commit` does not fail (either would end
  `run_terminal` with an error); preparing may fail, in `PrepareFails`.
- `UiTree`: the places of nodes are numbered `1..N`, parents before children, and
  a view says what element each holds; a handler is a free choice among the requests the API offers; a
  `NodeId` is a place in the tree and a count of nodes allocated there; a frame
  that is discarded, or rejected as `StaleTree`, is no step at all, because
  `prepare` works on a copy.
- `TerminalModes`: focus reporting (handled as bracketed paste is), cursor
  positions and the capability mask are left out, the tty's original raw mode
  is off, wire ids are `1..MaxId`.  The constant `Careful` restricts the owner
  of the session; see the observations in section 6.
- `Frames`: nodes have fixed geometry, since a change of geometry goes the way
  of a full repaint; a grapheme is an id with a text whose width depends on the
  policy; the terminal prints as the backend relies on.  The cursor, line breaks
  and virtual scrolling are left out.  In `ImageScene`, lifting an image and the
  barrier of clean ones are only reachable for canvases that set row masks
  themselves, which the UI tree does once per damaged row.  There is one prepared frame
  at a time, and it is committed or discarded before anything else happens, as the runner
  does; the check of generations that refuses any other frame (`frame.rs:966`) is
  therefore never decisive.  The size of the viewport is fixed too.
- `LayoutTree`: the arithmetic of flex layout is abstracted to the data it
  depends on, so the output of a node is the term of styles, texts and inputs it
  was computed from, and two outputs are equal exactly if their causes are.
  The engine answers with sets of nodes (below, above, stale, entered) where the code
  and taffy recurse; the calls of `remove_subtree` are a list that its steps work off.
  There is one staged tree at a time, and taffy's cache of a node holds one output.
  Geometry that is written before it can be read again is forgotten when its node is
  marked dirty.  `MaxGeneration` stands for the largest `u64`.  Once the two engines are
  apart, nothing done to one tree concerns the other, and steps of the committed
  tree are left to the time when nothing is staged.
- `TextBuffer`: `grapheme_indices` is the operator `Starts`, of which nothing is
  assumed but that a text that is not empty begins with a grapheme; joining two
  texts may move any boundary.

### Composition

`EventIngress` refines `BoundedChannel` (`ImplementsChannel`, checked and
proved).  `MessageLoop` uses the promises the first two modules establish (a
send is followed by a notification; a wake puts its id in the channel once)
instead of their steps; `TerminalLoop` takes a processing turn as one step that
may change the view, queue work and quit.  The wait of `EventIngress` is that of
`wait_for_work`; `run_terminal` waits on the same signal at `runner.rs:810` and
`826`, when it has no session to poll, and in `TerminalLoop` this is one of the cases of
`NoEvent`, from which the loop goes on by the signal or by the timeout.

`TerminalModes` extends `Terminal` and composes session, backend and kitty state
with it: its calls are the ones the runner makes, and the end of
`run_with_options`, by a return or by a panic, is its `Close` and `Drop`.  What
`TerminalLoop` assumes of a write (the frame is shown, deferred, or unknown and
a full repaint required) is `FrameIsShown` there.

`Frames` extends `CellBuffer` and `ImageScene` and composes the UI tree's
painting, the renderer and a terminal.  What `TerminalLoop` assumes of a frame
(a patch on the screen the renderer believes in gives the prepared frame) is
`ScreenShowsFrame` there.  `LayoutTree` extends `NodeStore`, on whose promise
about ids it and `UiTree` rest.

### What is left of the plan

1. In `UiTree`: keyed siblings that change places, explicit focus order, and the
   host's `take_focus_change`.
2. The kitty encoding cache: its byte count is the sum of its payloads, and its
   evictions follow the use.
3. In `Frames`: cursor resolution and virtual scrolling.
4. A proof of `RepaintIsFull`.

## 3. Runs

| run | question | instance |
|---|---|---|
| `ingress` | is admission exactly once and in order, with no lost wake-up? | two producers with three sends each, capacity two, a close |
| `scheduler` | can a wake be lost or doubled, or one kind of work starve? | two futures, two waker threads with one wake each, two timers, budgets one and two |
| `message_loop` | do budgets, fairness, sleep and Quit hold under a flood? | budgets scaled to four units and two messages, poll groups of two |
| `ready_flood` | *violation*: sleep over ready futures | budgets of two and one, poll groups of one, no waker |
| `terminal_loop` | does the committed frame describe the screen, and is every event dispatched once? | two sizes, three versions of the view, two keys, two resizes, one fault, lookahead one |
| `resize_back` | *violation*: a resize that comes back | two resizes, nothing else |
| `ui_tree` | do focus, capture and hover survive frames and events? | a background, a control, a dialog with a control; four views; two points, two buttons; two nodes per place |
| `hover_before` | *violation*: hover without a pointer | the same |
| `terminal_modes` | do recorded modes and the terminal agree after faults, and is it restored? | a state of an application and a plain one, one image, three wire ids, both kinds of writer, two faults |
| `frames` | is a frame the same whichever way it was painted, and does the screen show it? | three columns, two rows, three nodes, four grapheme ids, two width policies |
| `frame_images` | are images stacked as in a full repaint? | two columns, three rows, four nodes with images that overlap each other and a wide grapheme |
| `layout_tree` | are layouts fresh, and do removed ids stay unknown? | three slots, two generations, four edits, two viewports, texts and styles |

The properties of the passing runs, beside one type invariant each (those of
`MessageLoop`, `TerminalModes`, `Frames` and `LayoutTree` also say what the code
asserts or expects: that a turn keeps its budget (`TurnIsBounded`), that an id for
an upload exists, that every row is whole, that the engine mirrors the nodes):

- `ingress`.  `ExactlyOnce`: delivered messages and then waiting ones are the
  admitted ones in order.  `NoLostWakeup`: a runner that sleeps while a message
  waits is owed a notification.  `ImplementsChannel`.  `DeliversWithoutTimeout`:
  under fairness an admitted message is delivered.
- `scheduler`.  `FlagMatchesChannel`: the flag of a task says whether its id is
  on the way to a poll, and it is there once.  `NoLostWake`: an announced event
  is followed by a poll that sees it.  `WorkIsServed`: under fairness every wake
  is polled and every due timer fires.  `NoneIsPassedTwice`: while both kinds of
  work are ready, two of one are never selected before one of the other; with it
  an endless stream of due timers cannot starve futures, which two timers in a
  behaviour of `WorkIsServed` could not show.
- `message_loop`.  `SleepsOnlyWhenDrained`, `NothingAfterQuit`;
  `NoSourceStarves`: under fairness external messages and futures are served
  whatever the other sources do.
- `terminal_loop`.  `ScreenIsCommitted`, `DispatchSeesScreen`, `IdleShowsModel`;
  `KeysInOrder`: keys are dispatched once and in order; `KeysAreDispatched`:
  under fairness they are.
- `ui_tree`.  `FocusIsLegal`, `FocusEventsPair`, `ScopesKeepFocus`,
  `OrphansAreConsumed`, `HoverIsCurrent`.
- `terminal_modes`.  `AppliedIsReal`: after a successful `apply_state` the
  terminal has the state asked for.  `FrameIsShown`: after a successful patch it
  shows the frame and its images.  `RestoredIsClean`: what restoring reports as
  done is done.  `OneFaultSurvived`: one fault while the session is being closed
  leaves the terminal clean nevertheless.  `ForeignImagesKept`.
- `frames`.  `RepaintIsFull`: cells, hits and images of a prepared frame are
  those of painting it from nothing.  `ScreenShowsFrame`: the terminal shows the
  committed frame, or the next patch is full.  `IdsKeepMeaning`: an id
  in the stream of patches never changes its meaning.
- `frame_images`.  `ImagesAreKept`: both of the first two for images, which are
  stacked as in a full repaint and printed again when a neighbour goes.
- `layout_tree`.  `RemovedStayUnknown`; `LayoutIsFresh`: what `layout` answers is
  what a computation from nothing gives for the tree's own nodes.

Every property has a mutant: a plausible bug in a definition that models code,
written beside it as an operator marked "Mutation", under which TLC finds the
property violated.

**Bounds.** Two of each kind of actor let every pair of critical sections
interleave; a third would repeat the pair.  A capacity of two distinguishes
empty, partly full and full.  Budgets are scaled because their relation matters
(messages below work, a group below both), not their size.  One fault per
behaviour of `TerminalLoop` is enough for each property to be at stake before
and after it, since every fault ends in a state the loop could also be in
without it, or in a forced repaint.  `TerminalModes` has two: one to break the
state and one to break its repair.  With one image a repaint already deletes a
placed id and uploads under another; the third wire id makes the ids wrap onto
one that may still be in the terminal.  In `UiTree` two nodes per place tell a
replaced node from a reused one, and two buttons tell a press in flight from a
new one while the mask is shared.  In `Frames` three columns hold a wide grapheme
at an edge and one cut in half by another; two rows tell a damaged row from a
clean one; four grapheme ids are used up by two frames.  `frame_images` has a
third row because the order of two images can depend on a third between them.  In
`LayoutTree` three slots hold a parent, a child and its replacement, and two
generations let a slot be used twice and be retired; four edits suffice to build
a tree of two levels in the committed tree and change it in a staged one.  Nothing
in `LayoutTree` orders the viewports, so they are a symmetric set.  All
bounds are constants named `Max...` or sets given in the configuration.

**Deadlock** checking is off where the bounded environment may fall silent and
the program may rest or end; the liveness properties say what must happen first.

## 4. Fairness

Only the program's own steps are fair, never the environment's.  The runner's
thread is a loop that goes on until it returns, so its steps are weakly fair:
in `TerminalLoop` as a whole (`LoopStep`), in `MessageLoop` the steps of a turn,
the end of a sleep that is due and the beginning of the next turn, in `Scheduler`
the steps of `poll_ready` and its next call.  A thread inside `send` or `wake`
finishes what it has begun (`Notify`, `Ring`, `WakerStep`).  No message, event,
timer tick or fault has to happen.  In `EventIngress` the timeout of the wait is
excluded from fairness, so that delivery cannot be due to it.  `TerminalModes`,
`UiTree`, `Frames` and `LayoutTree` state no fairness: their code is called, and
has nothing of its own to bring about.

## 5. Proofs

Each theorem holds for every value of the constants that satisfies the module's
named assumptions: `IngressAssumption`, `SchedulerAssumption`,
`BudgetAssumption` (the work budget of a turn is the sum of the message budget
and a poll group, as the constants of `runner.rs` are), `CommandAssumption`,
`BoundAssumption`, `LoopAssumption`, `ViewAssumption`, `CellsAssumption`, `FramesAssumption`,
`GenerationAssumption`, `LayoutAssumption`, `ModesAssumption`.  `ModesAssumption` says that there are finitely
many pictures and more wire ids than pictures: there are 2^32 - 1 ids in the code, whose
search for a free one would not end without.  `ViewAssumption` says that the places form a tree with one
root, that an element's parent is there with it, that a node is visible only with
its parents, and that the pointer hits visible nodes: what building, layout and
painting of a view give.  `FramesAssumption` says that a screen has a cell, that parents are
painted before their children, that boxes are on the screen, and that a grapheme takes one
cell or two.  The theorems of `TextBuffer` and `Geometry` have their hypotheses in their
statements: `Segmentation`, and `IntegerLimits`.  `LayoutAssumption` only types the constants.

| module | theorem | says | run's property |
|---|---|---|---|
| `EventIngressProofs` | `TypeCorrect` | types | `TypeOK` |
| | `AdmissionIsExactlyOnce` | admission is exactly once and in order | `ExactlyOnce` |
| | `MetricsAreConsistent` | the metrics agree with the queue | |
| | `WakeupsAreNotLost` | no lost wake-up | `NoLostWakeup` |
| | `CloseIsFinal` | close is final | |
| | `IngressImplementsChannel` | refinement | `ImplementsChannel` |
| `SchedulerProofs` | `SchedulerTypeCorrect` | types | `TypeOK` |
| | `FlagsAreExact` | flag and channel agree | `FlagMatchesChannel` |
| | `WakesAreNotLost` | no wake is lost | `NoLostWake` |
| | `KindsAlternate` | neither kind of work is passed over twice | `NoneIsPassedTwice` |
| `MessageLoopProofs` | `TurnsAreBounded` | no budget is overdrawn | part of `TypeOK` |
| | `SleepIsDrained` | no sleep over work the turn had budget for | `SleepsOnlyWhenDrained` |
| | `QuitIsFinal` | nothing happens after Quit | `NothingAfterQuit` |
| | `LoopTypeCorrect` | types | `TypeOK` |
| `TerminalLoopProofs` | `CommittedIsShown` | the committed frame is on the screen or will be repainted | `ScreenIsCommitted` |
| | `DispatchIsOnScreen` | events see the frame on the screen | `DispatchSeesScreen` |
| | `IdleIsCurrent` | an idle runner shows the model | `IdleShowsModel` |
| | `KeysOrdered` | keys are dispatched once and in order | `KeysInOrder` |
| | `LoopTypeCorrect` | types | `TypeOK` |
| `UiTreeProofs` | `TypeCorrect` | types; nodes that are named are alive | `TypeOK` |
| | `FocusLegal` | the focus is where it may be | `FocusIsLegal` |
| | `FocusEventsPaired` | focus events pair up | `FocusEventsPair` |
| | `ScopesKept` | a scope keeps its focus over a frame | `ScopesKeepFocus` |
| | `OrphansConsumed` | presses without a target are swallowed, others are not | `OrphansAreConsumed` |
| | `HoverCurrent` | hover follows the committed frame | `HoverIsCurrent` |
| `TerminalModesProofs` | `Invariant` | the inductive invariant | |
| | `TypeCorrect` | types; no two pictures have one wire id | `TypeOK` |
| | `TerminalRestored` | a terminal given back is as it was found | `RestoredIsClean` |
| | `StateApplied` | a state applied is the terminal's | `AppliedIsReal` |
| | `FrameShown` | a patch reported applied is on the screen | `FrameIsShown` |
| | `ForeignKept` | no image command reaches the main screen | `ForeignImagesKept` |
| | `FaultSurvived` | one fault at the end is survived | `OneFaultSurvived` |
| `UiTreeProofs`, on data | `RemovedIdsStayUnknown`, `InsertedIdsAreNew` | ids are never used twice | |
| `UiTreeProofs`, on `LayoutTree` | `LayoutTyped` | nodes are linked both ways without a cycle, and the engine mirrors them | `LayoutTypeOK` |
| | `LayoutIdsStayUnknown` | removed ids are never live again | `RemovedStayUnknown` |
| | `LayoutsAreFresh` | what `layout` answers is what a computation from nothing gives | `LayoutIsFresh` |
| `UiTreeProofs`, on data | `CursorStaysOnBoundary` | both ends of the selection are boundaries | |
| | `TextIsSingleLine` | no control character gets in | |
| | `DeletionsDelete` | a deletion shortens the text or has nothing to delete | |
| | `IntersectionIsExact`, `InnerStaysInside` | clips are exact, insets stay inside | |
| `FramesProofs` | `SetEmptyKeepsWhole`, `SetGraphemeKeepsWhole` | no write leaves half a grapheme, in rows of any width | |
| | `SpansAreWhole` | one pass of `diff` makes a patch that cuts no grapheme | |
| | `FramesInvariant` | the inductive invariant | |
| | `FramesTyped` | frames hold whole graphemes their store knows, patches cut none | `TypeOK` |
| | `IdsNeverChange` | an id in the stream keeps its meaning | `IdsKeepMeaning` |
| | `TerminalShowsTheFrame` | printing the differences gives the frame | `ScreenShowsFrame` |

The arguments:

- **Ingress.**  Each invariant is inductive relative to those before it, so the
  chain of them is the strengthening.  `ExactlyOnce` rests on three lemmas about
  concatenation; that a closed queue is empty is part of it, since otherwise a
  receive could follow a close.  `NoLostWakeup` names, for a runner in any place
  of its wait, who still owes it the notification: a look at the empty queue is
  harmless only because whoever fills the queue later rings after that look.
  Closing and the refinement are step properties that follow; notifications and
  waits stutter.
- **Scheduler.**  `FlagMatchesChannel` counts the places of an id, which no step
  keeps by itself.  The inductive invariant instead follows each id from the
  swap that sets its flag through the channel and the batch to the poll that
  clears it (`IInv`), and says that tasks yet to be spawned have neither flag
  nor place.  With exact flags, `NoLostWake` is inductive by itself.
  `KindsAlternate` adds what a kind that was passed over once is owed: it is still
  ready, and preferred (`Preferred`); an arrival or a call in between changes neither.
- **Message loop.**  `Inv` bounds what a turn has spent at each of its stages
  (`TurnOK`), says what an exhausted budget and an ended turn mean for the
  queues (`PollOK`, `EndOK`), that whoever queued something since has notified,
  and what Quit leaves empty (`QuitOK`).  `Types` adds the ids that were spawned and the
  timers, relative to it.
- **Terminal loop.**  Trust in the committed frame is lost in many places and
  regained in one; `Inv` ties the flags of runner, renderer and session together
  (`DistrustIsInvalid`), says what a write in progress will leave behind
  (`WriteOK`), and what an idle runner owes the model (`CurrentOK`).
  The keys
  that wait, in the buffer and then in the terminal, are those from the one after
  the last dispatched to the last that arrived, in order (`KeysWait`, in `OrderInv`
  with the types of the queues).  Every step of the loop takes a key or some
  resizes off the front, moves the line between buffer and terminal, or drops
  resizes that are followed by another (`AbsorbedIs`).
- **UI tree.**  `Inv` says of the committed tree all that its next frame or event
  relies on: every node named is alive, foci are of visible scopes and nodes, the
  active scope is the deepest open one and its focus is legal (`Settled`), a focus
  change that waits starts at the node last told (`Origin`) and ends at the
  focused one (`PendingOK`), and the buttons that are suppressed are the orphans
  (`HeldOK`).  A frame passes through trees of which only part of this holds, so
  `prepare` is followed piece by piece with what each piece needs and gives
  (`Shaped` for trees in the middle of a step).  `FocusIsLegal` needs that the two
  resolutions of a frame leave the deepest scope with a focus if it has a
  candidate; `ScopesKeepFocus` is about the same two, as a step.  That deepest
  scopes, first and last candidates and paths to the root exist, rests on least
  elements of sets of numbers.
- **Terminal modes.**  The six have one inductive invariant, `Inv`.  Its core,
  `Known`, says what the backend's flags allow it to believe of the terminal: a mode
  is as it was set last, or as restoring it left it, unless it is marked
  unconfirmed; images and unfinished strings are covered by an owned id or an
  uncertainty.  It is said of `Virtual`, the terminal once the writer has sent what it
  holds back, because a buffered writer may deliver late what a failed call gave
  it.  The rest says where each call and phase may be (`PhaseOK`, `RunningOK`), what an
  applied state, a patch on its way and a frame on the screen mean for terminal and
  backend (`AppliedOK`, `PatchOK`, `FrameOK`), and what faults have been counted while
  closing (`ClosingOK`).  A phase may stop at any byte of any command, so each has a
  *path*: a chain of sets of pairs, terminal and backend, that its commands lead through, and a
  set that holds whatever is left when one of them is cut (`Path`, `PathBoth`, `PathStops`).
  Sequences of any length, such as deletions and uploads, are followed by induction over
  the number sent (`Induction`, by least elements of sets of numbers).
  Each theorem has the hypothesis `Careful`: the owner writes no patch after an
  `apply_state` that failed.  Without it `ForeignImagesKept` is false, as section 6
  shows; the runner is such an owner.
- **Cell buffer.**  Clearing the grapheme at a column removes exactly its cells;
  a write clears first, so what it cuts is gone as a whole.
- **Frames.**  `FramesInv` has four parts.  *Sound frames*: every row is whole, its
  ids are those of the frame's store, which names no two texts alike and only with ids
  below the next one.  Painting is a walk of draws over nodes, texts and cells, each of
  which keeps the canvas in `After(ids, next)`: sound, with a store that extends `ids`
  and a next id that has only grown (`DrawGraphemeKeeps` up to `PaintAllKeeps`).
  A walk of any length that keeps to a set at each step ends in it; that is the
  induction over numbers of `WalkExists` and what follows it, for the one recursive
  function `Iterate` that all loops of the model are.
  *Covering patches*: a patch has every cell that differs and every cell of an image
  that changed, and cuts no grapheme.  `IncludeSpans` makes only one pass from left
  to right, in which a cell added behind the pass would be missed; `SpansAreWhole`
  shows that it never has to be looked at again: what is added behind is
  the head of a grapheme of the old or the new frame, and either it is in both, so
  that its continuation is in both too, or it differed and was in the patch before.
  *The terminal*: printing over half of a wide grapheme spoils the other half on the
  screen.  `OverprintIsRight` follows one grapheme: what it tears is no part of a
  grapheme that was printed or is right already, since both frames and the patch are
  whole.  So the walk over the patch makes cells right from left to right and spoils
  none (`PrintedIsRight`, `ShowIsRight`).
  *Ids*: the store of a prepared frame extends the committed one, and both agree with
  everything that was sent; an id that the store has forgotten is below the next one,
  so it is never given out again.
- **Node store.**  A removed id is one whose slot has moved on to a later
  generation, or is empty and retired (`Gone`); insertion takes a slot whose
  generation no removed id has.
- **Layout tree.**  `LayoutInv` says of each tree that its nodes are linked both ways
  (`Links`, `Homes`), that no node is below itself (`Acyclic`), that the engine has the same
  nodes, children and styles (`EngineOK`), and that removed ids are `Gone`.  While
  `remove_subtree` works, the first two fail: the children of a node already
  removed still name it.  `Loose` is what holds then: a node that its parent does not
  list is one that a call waiting in the list will remove.  When no call is left it is
  the invariant again (`LooseSettles`), and each step either removes a node or uses up a
  call, of which there are at most as many as listed nodes, so the steps suffice
  (`Remaining`, `RemoveSubtreesKeeps`).  A cycle would have to lead through the children
  that `ReplaceChildren` links, which `ValidChildren` keeps apart from the parent's
  ancestors (`LinkedKeeps`).  What is below and above a node is the least closed
  set (`Reach`), and the proofs use that it is closed and that nothing smaller is.
  *Fresh layouts* need more, `FreshInv`: a cached output is *valid* when it is what its
  node gives for its space as things are, and every child has, as cache and as geometry,
  what it gives for the space that its parent leaves to it (`Valid`).  Not every cache is valid:
  above a root that was computed, the ancestors keep outputs that were right before that
  root was laid out with a style of its own.  So `FreshBut` says it of every node but those
  (`Trusted`), and `LeavePreviousRoot` has to make them dirty before another root is computed:
  with the mutation `LeaveUnmarked` `LayoutIsFresh` fails.  A change dirties
  what is above it, and what is not dirty is closed downwards, with nothing changed
  (`Untouched`, `ValidStays`), so it stays valid.  `Perform` enters the stale nodes
  that are connected to the root; the rest of what it visits is valid for the space it
  is given (`CachedIsValid`), so each cached output reads what entering the node would
  (`VisitedReads`), the new caches are valid (`PerformValid`), and the geometry below the root,
  also that of nodes never visited, is the fresh one (`PerformShows`).  Layouts
  that were answered before depend on a tree's own nodes only, which the other tree's
  computation does not touch (`LayoutsStayFresh`), or only by a node outside of them
  (`AddedShows`); every other mutation forgets them.
- **Text.**  Ends are boundaries because each edit looks for them in the text it
  leaves behind; the lemmas on the three searches are those on least and
  greatest elements of sets of numbers.
- **Geometry.**  The arithmetic is widened or saturates exactly where a narrow
  one would lose something, which is what the proofs unfold.

Left to TLC: liveness and everything with fairness.  Of `Frames`, `RepaintIsFull`, and
`ImagesAreKept` of its instance: that painting the damaged rows again gives the
frame that painting everything gives needs, beside what is proved, that the loops of
two painters stay in step row by row and that the stacking order of images is kept
by a replay, which is an order on sequences of any length.

## 6. Findings

- **`ready_flood`** (`runner.rs:577`).  `wait_for_work` sleeps with futures
  ready to be polled when its first turn exhausted the budget and the
  notification for the rest was consumed by an earlier wait; its doc comment
  says it waits for activity and then drains ready work.  `run_terminal` checks
  `budget_exhausted`, `wait_for_work` does not.
- **`resize_back`** (`frame.rs:933`).  The documentation promises that a resize
  forces a full repaint.  A terminal resized and resized back before a frame is
  prepared compares equal in size, and is not repainted.  `ScreenIsCommitted`
  and `DispatchSeesScreen` therefore except it, through the history `flapped`.
- **`hover_before`** (`tree.rs:612`).  The first frame with a modal makes it the
  hovered node and sends it `PointerEntered` although there has been no pointer
  event; `hovered` is documented as the node under the last pointer position.

Observations that no run is about:

- `TerminalModes` with `Careful = FALSE` lets the owner of a session write a patch
  after an `apply_state` that failed.  Then `ForeignImagesKept` fails with one
  fault: the switch to the main screen was delivered and the call failed behind
  it, so the patch deletes and uploads images on the main screen.  A successful
  patch also clears the stream's uncertainty, and with it the knowledge that a
  keyboard mode may have been popped already.  The runner applies one state, when
  it opens the session, so the runs assume a careful owner.
- A grapheme that every frame paints over is interned anew by each of them, and
  ids are never given back.  After 2^32 of them interning fails, and with it every
  frame that brings a new grapheme; in `frames` four ids let this happen.
- `text_input` emits a whole new buffer, made from the model as it is at the
  dispatch.  `run_terminal` processes messages before each event, but a turn that
  exhausts its budget on a flood of local messages may leave the message of an
  edit waiting, and the next key then starts from the text before that edit and
  undoes it.

## 7. Not modelled

- Layout arithmetic, styles, text measurement, image decoding, resampling and
  colour, compression and chunking of uploads, escape sequences and event
  translation: pure data, or wording.
- The kitty encoding cache: it decides the cost of an upload, not its course.
- Widgets: stateless builders whose use of focus and capture is within the free
  choices of `UiTree`; `text_input` applies one edit of `TextBuffer` to a copy.
- The test application, the examples, the comparisons and the fuzz targets:
  drivers of the same code.  The timed and the headless variants of the runner
  and the renderer repeat the transactions that are modelled.
- In the layout tree, `clear` and the ordinary `clone`, which the UI tree does
  not call.
- Weak memory: the orderings used (`AcqRel` swap, `Release` store, a channel)
  are taken as sequentially consistent.
- Latency sums and timings: they influence no decision.
