--------------------------- MODULE TerminalLoop ----------------------------
(***************************************************************************)
(* AppRunner::run_terminal: processing turns, transactional frame output   *)
(* through a TerminalSession, and dispatch of terminal events against the  *)
(* committed UI tree.                                                      *)
(*                                                                         *)
(* A frame is a viewport size and a version of the application's view; two *)
(* versions may have the same tree structure.  The renderer's committed    *)
(* frame and the committed UI tree change in one step, UiTree::commit.     *)
(* Of the renderer's generation and UiTree::renderer_state only their      *)
(* agreement is kept: both commit and invalidate move to a generation      *)
(* never seen before.  Of an Invalidation only None or not is kept, which  *)
(* is all the runner asks.  process_pending is one step: see MessageLoop.  *)
(* The width policy of the terminal does not change.                       *)
(* Views are pure, their sibling keys distinct, and nothing happens to the *)
(* renderer between `prepare' and `commit': a prepared frame is never      *)
(* refused, and refresh_after_commit finds the tree it has just committed. *)
(***************************************************************************)
EXTENDS Naturals, Sequences

CONSTANTS Sizes,       \* sizes of the terminal's viewport
          MaxVersion,  \* bound: versions of the view
          MaxEvents,   \* bound: key events; and of resizes
          MaxResizes,
          MaxFaults,   \* bound: write outcomes other than Applied, and errors
          Lookahead    \* MAX_RESIZE_LOOKAHEAD

ASSUME LoopAssumption ==
    /\ Sizes \subseteq Nat /\ Sizes # {} /\ Lookahead \in Nat \ {0}
    /\ MaxVersion \in Nat /\ MaxEvents \in Nat /\ MaxResizes \in Nat /\ MaxFaults \in Nat

VARIABLES
    version,       \* the application model, as the view it describes
    work,          \* a message, a ready future or a due timer is waiting
    quitting,      \* AppRunner::quitting
    invalid,       \* AppRunner::invalidation # None
    viewport,      \* AppRunner::viewport
    buffered,      \* AppRunner::terminal_events
    current,       \* Renderer::current, and the UI tree committed with it
    force,         \* Renderer::force_full_repaint
    matches,       \* UiTree::renderer_state = Some(Renderer::state_id())
    suspended, cleanup, fullRepaint,   \* TerminalSession
    size, screen,  \* the terminal: its size, and the frame it shows
    arriving,      \* events the terminal has not delivered yet
    stage,         \* where the thread is in run_terminal
    prepared,      \* the prepared frame while stage = "write", and whether it is full
    keys, resizes, faults, \* counters for the bounds
    dispatched,    \* history: keys dispatched, in order
    silent,        \* history: the view changed and nobody asked for a frame
    flapped        \* history: resized back to the committed size, no repaint since

appVars == <<version, work, quitting, invalid, silent>>
rendererVars == <<current, force, matches>>
sessionVars == <<suspended, cleanup, fullRepaint>>
terminalVars == <<size, screen, arriving, flapped>>
counters == <<keys, resizes, faults>>
vars == <<appVars, viewport, buffered, rendererVars, sessionVars, terminalVars, stage,
          prepared, counters, dispatched>>

Frame == [size : Sizes, version : 0..MaxVersion]
Garbage == [size |-> 0, version |-> 0]
Empty == [size |-> 0, version |-> MaxVersion + 1]   \* Renderer::new: no view yet
Nothing == [frame |-> Garbage, full |-> FALSE]

\* Versions 2n and 2n+1 of the view are trees of the same shape.
Structure(v) == v \div 2
ViewMatchesCommitted == current # Empty /\ Structure(version) = Structure(current.version)

Init ==
    /\ version = 0 /\ work = FALSE /\ quitting = FALSE /\ invalid = TRUE /\ silent = FALSE
    /\ viewport \in Sizes /\ size \in Sizes
    /\ buffered = <<>> /\ arriving = <<>>
    /\ current = Empty /\ force = TRUE /\ matches = FALSE
    /\ suspended = FALSE /\ cleanup = FALSE /\ fullRepaint = TRUE
    /\ screen = Garbage /\ flapped = FALSE
    /\ stage = "caller" /\ prepared = Nothing
    /\ keys = 0 /\ resizes = 0 /\ faults = 0 /\ dispatched = <<>>
----------------------------------------------------------------------------
Fault == faults < MaxFaults /\ faults' = faults + 1

RunTerminal ==
    /\ stage = "caller" /\ ~quitting
    /\ stage' = "turn"
    /\ UNCHANGED <<appVars, viewport, buffered, rendererVars, sessionVars, terminalVars,
                   prepared, counters, dispatched>>

\* process_pending.  Updates may change the view, and ask for a frame or not.
Turn(next, asks, left, quits) ==
    /\ stage = "turn"
    /\ (next # version \/ asks \/ left \/ quits) => work
    /\ next \in {version, version + 1} /\ next <= MaxVersion
    /\ version' = next
    /\ work' = left
    /\ quitting' = quits
    /\ invalid' = (invalid \/ asks)
    /\ silent' = (silent \/ (next # version /\ ~asks))
    /\ stage' = IF quits THEN "caller" ELSE "render"
    /\ UNCHANGED <<viewport, buffered, rendererVars, sessionVars, terminalVars, prepared,
                   counters, dispatched>>
----------------------------------------------------------------------------
\* Mutation: the session's flag is not passed on to the renderer.
FlagDropped == UNCHANGED <<force, matches>> /\ fullRepaint' = FALSE
TakeFullRepaint ==
    /\ fullRepaint' = FALSE
    /\ force' = (force \/ fullRepaint)
    /\ matches' = (matches /\ ~fullRepaint)

NeedsFrame == invalid \/ fullRepaint \/ viewport # size

\* synchronize_terminal, and the preparation of a frame if one is needed.  A
\* prepared frame is a full repaint, or a difference from `current'.
Prepare ==
    /\ stage = "render"
    /\ TakeFullRepaint
    /\ viewport' = size
    /\ invalid' = NeedsFrame
    /\ IF NeedsFrame
       THEN /\ prepared' = [frame |-> [size |-> size, version |-> version],
                            full |-> force' \/ current.size # size]
            /\ stage' = "write"
       ELSE UNCHANGED prepared /\ stage' = "events"
    /\ UNCHANGED <<version, work, quitting, silent, buffered, current, suspended, cleanup,
                   terminalVars, counters, dispatched>>

\* session.size() fails after the flag has been taken, or ui.prepare fails, which
\* leaves the request for a frame: run_terminal returns with an error.
PrepareFails ==
    /\ stage = "render" /\ Fault
    /\ TakeFullRepaint
    /\ \/ UNCHANGED viewport /\ invalid' = (invalid \/ fullRepaint)
       \/ NeedsFrame /\ viewport' = size /\ invalid' = TRUE
    /\ stage' = "caller"
    /\ UNCHANGED <<version, work, quitting, silent, buffered, current, suspended, cleanup,
                   terminalVars, prepared, keys, resizes, dispatched>>

PatchIsEmpty == ~prepared.full /\ prepared.frame = current
DropPrepared == prepared' = Nothing

\* What the terminal shows after the whole patch.
Patched == IF prepared.frame.size # size THEN Garbage
           ELSE IF prepared.full \/ screen = current THEN prepared.frame ELSE Garbage

\* UiTree::commit, then refresh_after_commit, whose hover and focus handlers
\* may queue messages and ask for another frame.
Commit(asks, sends) ==
    /\ current' = prepared.frame /\ force' = FALSE /\ matches' = TRUE
    /\ invalid' = asks
    /\ work' = (work \/ sends)
    /\ silent' = (silent /\ prepared.frame.version # version)
    /\ stage' = "events"
    /\ DropPrepared
    /\ UNCHANGED <<version, quitting, viewport, buffered, sessionVars, counters, dispatched>>

CommitEmpty(asks, sends) ==
    /\ stage = "write" /\ PatchIsEmpty
    /\ Commit(asks, sends)
    /\ UNCHANGED terminalVars

WriteApplied(asks, sends) ==
    /\ stage = "write" /\ ~PatchIsEmpty /\ ~suspended
    /\ screen' = Patched
    /\ flapped' = (flapped /\ ~prepared.full)
    /\ Commit(asks, sends)
    /\ UNCHANGED <<size, arriving>>

\* Mutation: the request for a frame is gone with the deferred frame.
DeferredForGood ==
    /\ DropPrepared /\ stage' = "deferred"
    /\ invalid' = FALSE
    /\ UNCHANGED <<version, work, quitting, silent, viewport, buffered, rendererVars,
                   sessionVars, terminalVars, keys, resizes, dispatched>>

Deferred ==
    /\ DropPrepared /\ stage' = "deferred"
    /\ UNCHANGED <<appVars, viewport, buffered, rendererVars, sessionVars, terminalVars,
                   keys, resizes, dispatched>>

WriteSuspended ==
    /\ stage = "write" /\ ~PatchIsEmpty /\ suspended
    /\ Deferred
    /\ UNCHANGED faults

WriteDeferred ==
    /\ stage = "write" /\ ~PatchIsEmpty /\ ~suspended /\ Fault
    /\ Deferred

\* Mutation: an uncertain write is discarded like a deferred one.
KnownAfterUncertainWrite == UNCHANGED <<force, matches, fullRepaint>>
\* The session asks for a repaint, and discard_uncertain invalidates the renderer.
UncertainAfterWrite == force' = TRUE /\ matches' = FALSE /\ fullRepaint' = TRUE

\* Output may be partial, and the write returned StateUnknown or an error,
\* with which run_terminal returns to its caller.
WriteUncertain(result, after) ==
    /\ stage = "write" /\ ~PatchIsEmpty /\ ~suspended /\ Fault
    /\ result \in {screen, Garbage, Patched}
    /\ screen' = result
    /\ UncertainAfterWrite
    /\ invalid' = TRUE
    /\ DropPrepared
    /\ stage' = after
    /\ UNCHANGED <<version, work, quitting, silent, viewport, buffered, current, suspended,
                   cleanup, size, arriving, flapped, keys, resizes, dispatched>>
----------------------------------------------------------------------------
IsResize(event) == event[1] = "resize"

\* coalesce_resize_events: a resize absorbs the resizes after it, up to the
\* lookahead, and reads one event of another kind if that comes first.
Absorbed == CHOOSE n \in 0..Lookahead :
    /\ n < Len(arriving)
    /\ \A i \in 1 .. n + 1 : IsResize(arriving[i])
    /\ n = Lookahead \/ n + 1 = Len(arriving) \/ ~IsResize(arriving[n + 2])

\* Mutation: the event read past the last resize is dropped.
DropsFollowing == IF IsResize(Head(arriving)) THEN <<arriving[Absorbed + 1]>>
                  ELSE <<Head(arriving)>>
Following == IF Absorbed < Lookahead /\ Absorbed + 2 <= Len(arriving)
             THEN <<arriving[Absorbed + 2]>> ELSE <<>>
Polled == IF IsResize(Head(arriving)) THEN <<arriving[Absorbed + 1]>> \o Following
          ELSE <<Head(arriving)>>
Taken == IF IsResize(Head(arriving)) THEN Absorbed + 1 + Len(Following) ELSE 1

\* Mutation: the event is kept, but no frame of the new structure is requested.
NoRecompose == UNCHANGED invalid
RequestRecompose == invalid' = TRUE

\* dispatch_terminal_event_with_recovery, for the first of `queue'.  The
\* handlers may send messages, ask for a frame, and let the runner quit.
Dispatch(queue, asks, sends, quits) ==
    /\ viewport' = IF IsResize(Head(queue)) THEN Head(queue)[2] ELSE viewport
    /\ IF ~matches
       THEN \* WrongCommittedRenderer: run_terminal fails and the event is gone.
            /\ ~asks /\ ~sends /\ ~quits
            /\ buffered' = Tail(queue) /\ stage' = "caller"
            /\ invalid' = (invalid \/ IsResize(Head(queue)))
            /\ UNCHANGED <<work, quitting, dispatched>>
       ELSE IF ~ViewMatchesCommitted
       THEN \* The event waits for a frame of the new structure.
            /\ ~asks /\ ~sends /\ ~quits
            /\ buffered' = queue /\ stage' = "turn"
            /\ RequestRecompose
            /\ UNCHANGED <<work, quitting, dispatched>>
       ELSE /\ buffered' = Tail(queue) /\ stage' = IF quits THEN "caller" ELSE "turn"
            /\ invalid' = (invalid \/ asks \/ IsResize(Head(queue)))
            /\ work' = (work \/ sends)
            /\ quitting' = quits
            /\ dispatched' = IF IsResize(Head(queue)) THEN dispatched
                             ELSE Append(dispatched, Head(queue)[2])
    /\ UNCHANGED <<version, silent, rendererVars, sessionVars, size, screen, flapped, prepared,
                   counters>>

DispatchBuffered(asks, sends, quits) ==
    /\ stage = "events" /\ buffered # <<>>
    /\ Dispatch(buffered, asks, sends, quits)
    /\ UNCHANGED arriving

\* A suspended session has no events.
CanPoll == buffered = <<>> /\ ~suspended

DispatchPolled(asks, sends, quits) ==
    /\ stage = "events" /\ CanPoll /\ arriving # <<>>
    /\ arriving' = SubSeq(arriving, Taken + 1, Len(arriving))
    /\ Dispatch(Polled, asks, sends, quits)

\* After a deferred or uncertain frame one event is buffered, not dispatched.
BufferPolled ==
    /\ stage = "deferred" /\ CanPoll /\ arriving # <<>>
    /\ arriving' = SubSeq(arriving, Taken + 1, Len(arriving))
    /\ buffered' = Polled
    /\ stage' = "turn"
    /\ UNCHANGED <<appVars, viewport, rendererVars, sessionVars, size, screen, flapped,
                   prepared, counters, dispatched>>

\* The poll times out, or the thread waits for the wake signal instead.
NoEvent ==
    /\ \/ stage = "events" /\ buffered = <<>> /\ (suspended \/ arriving = <<>>)
       \/ stage = "deferred" /\ (~CanPoll \/ arriving = <<>>)
    /\ stage' = "turn"
    /\ UNCHANGED <<appVars, viewport, buffered, rendererVars, sessionVars, terminalVars,
                   prepared, counters, dispatched>>

\* poll_event fails: the first poll, or one after n resizes were absorbed, the
\* last of which is retained.
PollFails(n) ==
    /\ stage \in {"events", "deferred"} /\ CanPoll /\ Fault
    /\ n <= Len(arriving) /\ n <= Lookahead /\ \A i \in 1..n : IsResize(arriving[i])
    /\ buffered' = IF n = 0 THEN <<>> ELSE <<arriving[n]>>
    /\ arriving' = SubSeq(arriving, n + 1, Len(arriving))
    /\ stage' = "caller"
    /\ UNCHANGED <<appVars, viewport, rendererVars, sessionVars, size, screen, flapped,
                   prepared, keys, resizes, dispatched>>
----------------------------------------------------------------------------
\* The owner of the session, while run_terminal is not running.
Suspend(fails) ==
    /\ stage = "caller" /\ ~(suspended /\ ~cleanup)
    /\ IF fails THEN Fault ELSE UNCHANGED faults
    /\ fullRepaint' = TRUE /\ suspended' = TRUE /\ cleanup' = fails
    /\ screen' = Garbage
    /\ UNCHANGED <<appVars, viewport, buffered, rendererVars, size, arriving, flapped, stage,
                   prepared, keys, resizes, dispatched>>

\* Mutation: a failed cleanup is remembered by a session that is active again.
StillToClean == suspended' = FALSE /\ UNCHANGED cleanup
Reactivate == suspended' = FALSE /\ cleanup' = FALSE

Resume(cleanupFails) ==
    /\ stage = "caller" /\ suspended
    /\ \/ Reactivate /\ ~cleanupFails /\ UNCHANGED faults
       \/ /\ Fault /\ UNCHANGED suspended /\ cleanup' = cleanupFails
    /\ fullRepaint' = TRUE
    /\ screen' = Garbage
    /\ UNCHANGED <<appVars, viewport, buffered, rendererVars, size, arriving, flapped, stage,
                   prepared, keys, resizes, dispatched>>

\* apply_state of an active session, whether it succeeds or not, clears the screen.
ApplyState ==
    /\ stage = "caller" /\ ~suspended
    /\ fullRepaint' = TRUE /\ screen' = Garbage
    /\ UNCHANGED <<appVars, viewport, buffered, rendererVars, suspended, cleanup, size,
                   arriving, flapped, stage, prepared, counters, dispatched>>

\* The world outside: a key, a resize of the terminal, a message from a thread.
Key ==
    /\ keys < MaxEvents
    /\ keys' = keys + 1
    /\ arriving' = Append(arriving, <<"key", keys + 1>>)
    /\ UNCHANGED <<appVars, viewport, buffered, rendererVars, sessionVars, size, screen, flapped,
                   stage, prepared, resizes, faults, dispatched>>

Resize(to) ==
    /\ resizes < MaxResizes /\ to # size
    /\ resizes' = resizes + 1
    /\ size' = to /\ screen' = Garbage
    /\ flapped' = (flapped \/ to = current.size)
    /\ arriving' = Append(arriving, <<"resize", to>>)
    /\ UNCHANGED <<appVars, viewport, buffered, rendererVars, sessionVars, stage, prepared,
                   keys, faults, dispatched>>

MessageArrives ==
    /\ ~work /\ ~quitting
    /\ work' = TRUE
    /\ UNCHANGED <<version, quitting, invalid, silent, viewport, buffered, rendererVars,
                   sessionVars, terminalVars, stage, prepared, counters, dispatched>>

LoopStep ==
    \/ \E next \in 0..MaxVersion, asks, left, quits \in BOOLEAN : Turn(next, asks, left, quits)
    \/ Prepare \/ PrepareFails
    \/ \E asks, sends \in BOOLEAN : CommitEmpty(asks, sends) \/ WriteApplied(asks, sends)
    \/ WriteSuspended \/ WriteDeferred
    \/ \E result \in {screen, Garbage, Patched}, after \in {"deferred", "caller"} :
           WriteUncertain(result, after)
    \/ \E asks, sends, quits \in BOOLEAN :
           DispatchBuffered(asks, sends, quits) \/ DispatchPolled(asks, sends, quits)
    \/ BufferPolled \/ NoEvent \/ \E n \in 0..Lookahead : PollFails(n)

Owner == RunTerminal \/ ApplyState
            \/ \E fails \in BOOLEAN : Suspend(fails) \/ Resume(fails)
World == Key \/ MessageArrives \/ \E to \in Sizes : Resize(to)
Next == LoopStep \/ Owner \/ World

Spec == Init /\ [][Next]_vars
\* run_terminal is a loop: it keeps going until it returns.
FairSpec == Spec /\ WF_vars(LoopStep)
----------------------------------------------------------------------------
TypeOK ==
    /\ version \in 0..MaxVersion /\ viewport \in Sizes /\ size \in Sizes
    /\ \A b \in {work, quitting, invalid, silent, force, matches, suspended, cleanup,
                 fullRepaint, flapped, prepared.full} : b \in BOOLEAN
    /\ current \in Frame \union {Empty} /\ screen \in Frame \union {Garbage}
    /\ stage \in {"caller", "turn", "render", "write", "events", "deferred"}
    /\ prepared.frame \in Frame \union {Garbage}
    /\ \A q \in {arriving, buffered} : \A i \in DOMAIN q :
           q[i] \in ({"key"} \X (1..MaxEvents)) \union ({"resize"} \X Sizes)
    /\ cleanup => suspended

\* "The renderer's committed buffer models what is believed to be physically
\* visible": it is what the terminal shows, or a flag that forces the next patch
\* to repaint everything is set, or the size tells them apart.
ScreenIsCommitted ==
    \/ screen = current
    \/ fullRepaint \/ force \/ size # current.size
    \/ flapped

\* The same, with no exception for a terminal resized away and back again:
\* "resize ... invalidates that belief and forces a full repaint".  Stated where
\* the loop is about to sleep with every event handled.
SettledScreenIsCommitted ==
    stage = "events" /\ ~suspended /\ ~invalid /\ arriving = <<>> /\ buffered = <<>>
      /\ size = viewport => screen = current

\* Events are dispatched only while the committed UI tree belongs to the renderer's
\* committed frame, so that run_terminal never fails with WrongCommittedRenderer and
\* loses one; and the hit map they are tested against is that of the frame on the
\* screen, unless the terminal was resized since or the session is suspended.
DispatchSeesScreen ==
    stage = "events" =>
        matches /\ (~suspended /\ size = current.size /\ ~flapped => screen = current)

\* In a queue, `first' to `last' wait in order, each once.
KeysWait(queue, first, last) ==
    LET Keys == {i \in DOMAIN queue : ~IsResize(queue[i])}
    IN  /\ \A i \in Keys : queue[i][2] \in first..last
        /\ \A i, j \in Keys : i < j => queue[i][2] < queue[j][2]
        /\ \A k \in first..last : \E i \in Keys : queue[i][2] = k

\* Every key is dispatched once and in order, over deferred frames, uncertain
\* writes, restarts of run_terminal and coalesced resizes.
KeysInOrder ==
    /\ \A k \in DOMAIN dispatched : dispatched[k] = k
    /\ KeysWait(buffered \o arriving, Len(dispatched) + 1, keys)

\* A runner with no frame to draw shows the model of the application, laid out
\* for the viewport it knows, unless an update changed the view silently.
IdleShowsModel ==
    stage = "events" /\ ~invalid =>
        current.size = viewport /\ (~silent => current.version = version)

\* Every key is dispatched, although frames are requested without end, unless
\* run_terminal returns or the session is suspended.
KeysAreDispatched == \A k \in 1..MaxEvents :
    keys >= k ~> k <= Len(dispatched) \/ stage = "caller" \/ suspended
============================================================================
