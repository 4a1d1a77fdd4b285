--------------------------- MODULE TerminalLoopProofs ---------------------------
(***************************************************************************)
(* For any sizes, versions, faults and lookahead: what the renderer takes  *)
(* for the terminal's content is there or will be repainted, an event is   *)
(* dispatched against the frame on the screen, a runner with nothing to    *)
(* draw shows the model, and keys are dispatched once and in order.        *)
(***************************************************************************)
EXTENDS TerminalLoop, SequenceTheorems, WellFoundedInduction, TLAPS

Flags ==
    /\ invalid \in BOOLEAN /\ silent \in BOOLEAN /\ force \in BOOLEAN /\ matches \in BOOLEAN
    /\ fullRepaint \in BOOLEAN /\ flapped \in BOOLEAN

\* A renderer that distrusts itself has a frame requested.
DistrustIsInvalid == force \/ ~matches => invalid

\* From the preparation of a frame to its end the session's flag has been taken,
\* and what is prepared is the model at the viewport; it is a difference only
\* from a frame that is trusted and of the same size.
WriteOK ==
    stage = "write" =>
        /\ invalid /\ ~fullRepaint
        /\ prepared.frame.size = viewport /\ prepared.frame.version = version
        /\ prepared.full \in BOOLEAN
        /\ ~prepared.full => ~force /\ prepared.frame.size = current.size

\* Events are only looked at behind a frame that is trusted.
EventsOK == stage = "events" => ~force /\ matches /\ ~fullRepaint

\* Without a request the committed frame is that of the model.
CurrentOK ==
    ~invalid => current.size = viewport /\ (~silent => current.version = version)

Inv == Flags /\ ScreenIsCommitted /\ DistrustIsInvalid /\ WriteOK /\ EventsOK /\ CurrentOK

USE DEF appVars, rendererVars, sessionVars, terminalVars, counters, vars

LEMMA TurnKeeps ==
    ASSUME Inv, NEW next, NEW asks \in BOOLEAN, NEW left, NEW quits, Turn(next, asks, left, quits)
    PROVE  Inv'
BY DEF Turn, Inv, Flags, ScreenIsCommitted, DistrustIsInvalid, WriteOK, EventsOK, CurrentOK

LEMMA PrepareKeeps == ASSUME Inv, Prepare PROVE Inv'
<1>1. /\ fullRepaint' = FALSE /\ force' = (force \/ fullRepaint)
      /\ matches' = (matches /\ ~fullRepaint)
      /\ viewport' = size /\ invalid' = NeedsFrame
      /\ UNCHANGED <<version, silent, current, size, screen, flapped>>
  BY DEF Prepare, TakeFullRepaint
<1>2. CASE NeedsFrame
  <2>1. /\ prepared' = [frame |-> [size |-> size, version |-> version],
                        full |-> force' \/ current.size # size]
        /\ stage' = "write"
    BY <1>2 DEF Prepare
  <2>2. /\ prepared'.frame.size = size /\ prepared'.frame.version = version
        /\ prepared'.full = (force' \/ current.size # size)
    BY <2>1
  <2>3. WriteOK'
    BY <1>1, <1>2, <2>1, <2>2 DEF WriteOK
  <2> QED BY <1>1, <1>2, <2>1, <2>3
          DEF Inv, Flags, ScreenIsCommitted, DistrustIsInvalid, EventsOK, CurrentOK
<1>3. CASE ~NeedsFrame
  <2>1. stage' = "events" /\ ~invalid /\ ~fullRepaint /\ viewport = size
    BY <1>3 DEF Prepare, NeedsFrame, Inv, Flags
  <2>2. invalid' = FALSE
    BY <1>1, <1>3, <2>1 DEF NeedsFrame
  <2>3. force' = FALSE /\ matches' = TRUE
    BY <1>1, <2>1 DEF Inv, Flags, DistrustIsInvalid
  <2> QED BY <1>1, <2>1, <2>2, <2>3
          DEF Inv, Flags, ScreenIsCommitted, DistrustIsInvalid, WriteOK, EventsOK, CurrentOK
<1> QED BY <1>2, <1>3

LEMMA PrepareFailsKeeps == ASSUME Inv, PrepareFails PROVE Inv'
BY DEF PrepareFails, TakeFullRepaint, Inv, Flags, ScreenIsCommitted, DistrustIsInvalid, WriteOK,
       EventsOK, CurrentOK

\* A commit trusts the frame: that is right if the terminal shows it, or if the
\* terminal has been resized.
LEMMA CommitKeeps ==
    ASSUME Inv, stage = "write", NEW asks \in BOOLEAN, NEW sends, Commit(asks, sends),
           size' = size, flapped' \in BOOLEAN,
           screen' = prepared.frame \/ size # prepared.frame.size \/ flapped'
    PROVE  Inv'
<1>1. /\ current' = prepared.frame /\ force' = FALSE /\ matches' = TRUE /\ invalid' = asks
      /\ silent' = (silent /\ prepared.frame.version # version) /\ stage' = "events"
      /\ UNCHANGED <<version, viewport, fullRepaint>>
  BY DEF Commit
<1>2. ScreenIsCommitted'
  BY <1>1 DEF ScreenIsCommitted
<1> QED BY <1>1, <1>2 DEF Inv, Flags, DistrustIsInvalid, WriteOK, EventsOK, CurrentOK

LEMMA CommitEmptyKeeps ==
    ASSUME Inv, NEW asks \in BOOLEAN, NEW sends, CommitEmpty(asks, sends)
    PROVE  Inv'
<1>1. stage = "write" /\ Commit(asks, sends) /\ ~prepared.full /\ prepared.frame = current
      /\ UNCHANGED <<size, screen, flapped>>
  BY DEF CommitEmpty, PatchIsEmpty
<1>2. screen' = prepared.frame \/ size # prepared.frame.size \/ flapped'
  BY <1>1 DEF Inv, ScreenIsCommitted, WriteOK
<1> QED BY <1>1, <1>2, CommitKeeps DEF Inv, Flags

LEMMA WriteAppliedKeeps ==
    ASSUME Inv, NEW asks \in BOOLEAN, NEW sends, WriteApplied(asks, sends)
    PROVE  Inv'
<1>1. stage = "write" /\ Commit(asks, sends) /\ screen' = Patched
      /\ flapped' = (flapped /\ ~prepared.full) /\ size' = size
  BY DEF WriteApplied
<1>2. screen' = prepared.frame \/ size # prepared.frame.size \/ flapped'
  BY <1>1 DEF Inv, ScreenIsCommitted, WriteOK, Patched
<1> QED BY <1>1, <1>2, CommitKeeps DEF Inv, Flags

LEMMA WriteUncertainKeeps ==
    ASSUME Inv, NEW result, NEW after \in {"deferred", "caller"}, WriteUncertain(result, after)
    PROVE  Inv'
BY DEF WriteUncertain, UncertainAfterWrite, Inv, Flags, ScreenIsCommitted, DistrustIsInvalid,
       WriteOK, EventsOK, CurrentOK

LEMMA DeferredKeeps == ASSUME Inv, Deferred PROVE Inv'
BY DEF Deferred, Inv, Flags, ScreenIsCommitted, DistrustIsInvalid, WriteOK, EventsOK, CurrentOK

\* A dispatch moves the viewport only with a request for a frame.
LEMMA DispatchKeeps ==
    ASSUME Inv, stage = "events", NEW queue, NEW asks \in BOOLEAN, NEW sends, NEW quits,
           Dispatch(queue, asks, sends, quits)
    PROVE  Inv'
<1>1. UNCHANGED <<version, silent, current, force, matches, fullRepaint, size, screen, flapped>>
  BY DEF Dispatch
<1>2. stage' \in {"caller", "turn"}
  BY DEF Dispatch
<1>3. invalid' \in BOOLEAN /\ (invalid => invalid')
  BY DEF Dispatch, RequestRecompose, Inv, Flags, IsResize
<1>4. viewport' = viewport \/ invalid'
  BY DEF Dispatch, RequestRecompose
<1> QED BY <1>1, <1>2, <1>3, <1>4
        DEF Inv, Flags, ScreenIsCommitted, DistrustIsInvalid, WriteOK, EventsOK, CurrentOK

LEMMA QuietStepsKeep ==
    ASSUME Inv,
           \/ BufferPolled \/ NoEvent \/ (\E n \in 0..Lookahead : PollFails(n))
           \/ RunTerminal \/ Key \/ MessageArrives \/ UNCHANGED vars
    PROVE  Inv'
<1>1. UNCHANGED <<version, invalid, silent, viewport, current, force, matches, fullRepaint, size,
                  screen, flapped, prepared>>
  BY DEF BufferPolled, NoEvent, PollFails, RunTerminal, Key, MessageArrives
<1>2. stage' = stage \/ stage' \in {"turn", "caller"}
  BY DEF BufferPolled, NoEvent, PollFails, RunTerminal, Key, MessageArrives
<1> QED BY <1>1, <1>2
        DEF Inv, Flags, ScreenIsCommitted, DistrustIsInvalid, WriteOK, EventsOK, CurrentOK

\* Whoever makes the screen unknown asks for a repaint, except the terminal's
\* owner who resizes it: then the sizes differ, until it is resized back.
LEMMA ScreenLostKeeps ==
    ASSUME Inv,
           \/ \E fails \in BOOLEAN : Suspend(fails) \/ Resume(fails)
           \/ ApplyState \/ \E to \in Sizes : Resize(to)
    PROVE  Inv'
<1>1. CASE ApplyState \/ \E fails \in BOOLEAN : Suspend(fails) \/ Resume(fails)
  <2>1. /\ stage' = stage /\ stage = "caller" /\ fullRepaint' = TRUE
        /\ UNCHANGED <<version, invalid, silent, viewport, current, force, matches, flapped>>
    BY <1>1 DEF Suspend, Resume, ApplyState
  <2> QED BY <2>1 DEF Inv, Flags, ScreenIsCommitted, DistrustIsInvalid, WriteOK, EventsOK,
                      CurrentOK
<1>2. ASSUME NEW to \in Sizes, Resize(to) PROVE Inv'
  BY <1>2 DEF Resize, Inv, Flags, ScreenIsCommitted, DistrustIsInvalid, WriteOK, EventsOK,
              CurrentOK
<1> QED BY <1>1, <1>2

LEMMA InvHolds == Spec => []Inv
<1>1. Init => Inv
  BY DEF Init, Inv, Flags, ScreenIsCommitted, DistrustIsInvalid, WriteOK, EventsOK, CurrentOK
<1>2. Inv /\ [Next]_vars => Inv'
  <2> SUFFICES ASSUME Inv, [Next]_vars PROVE Inv'
    OBVIOUS
  <2>1. ASSUME NEW asks \in BOOLEAN, NEW sends \in BOOLEAN, NEW quits \in BOOLEAN,
               DispatchBuffered(asks, sends, quits) \/ DispatchPolled(asks, sends, quits)
        PROVE  Inv'
    BY <2>1, DispatchKeeps DEF DispatchBuffered, DispatchPolled
  <2>2. CASE WriteSuspended \/ WriteDeferred
    BY <2>2, DeferredKeeps DEF WriteSuspended, WriteDeferred
  <2> QED BY <2>1, <2>2, TurnKeeps, PrepareKeeps, PrepareFailsKeeps, CommitEmptyKeeps,
             WriteAppliedKeeps, WriteUncertainKeeps, QuietStepsKeep, ScreenLostKeeps
          DEF Next, LoopStep, Owner, World
<1> QED BY <1>1, <1>2, PTL DEF Spec
--------------------------------------------------------------------------------
\* The renderer's committed frame is what the terminal shows, or the next patch
\* repaints everything (discard_uncertain and take_full_repaint_required), with
\* the one exception the run resize_back is about.
THEOREM CommittedIsShown == Spec => []ScreenIsCommitted
<1>1. Inv => ScreenIsCommitted
  BY DEF Inv
<1> QED BY <1>1, InvHolds, PTL

\* run_terminal dispatches events only against the committed tree of a trusted
\* frame: never into WrongCommittedRenderer, and on the screen it is tested with.
THEOREM DispatchIsOnScreen == Spec => []DispatchSeesScreen
<1>1. Inv => DispatchSeesScreen
  BY DEF Inv, EventsOK, ScreenIsCommitted, DispatchSeesScreen
<1> QED BY <1>1, InvHolds, PTL

\* A runner that needs no frame shows the model at the viewport it knows, unless
\* an update asked for none.
THEOREM IdleIsCurrent == Spec => []IdleShowsModel
<1>1. Inv => IdleShowsModel
  BY DEF Inv, CurrentOK, IdleShowsModel
<1> QED BY <1>1, InvHolds, PTL
--------------------------------------------------------------------------------
(* The order of keys.                                                      *)

Event == ({"key"} \X (1..MaxEvents)) \union ({"resize"} \X Sizes)

Queues ==
    /\ arriving \in Seq(Event) /\ buffered \in Seq(Event)
    /\ dispatched \in Seq(Nat) /\ keys \in 0..MaxEvents /\ Len(dispatched) <= keys

LEMMA Events ==
    ASSUME NEW e \in Event
    PROVE  /\ IsResize(e) => e[2] \in Sizes
           /\ ~IsResize(e) => e[2] \in 1..MaxEvents
BY DEF Event, IsResize

\* A set of naturals that is not empty and bounded has a greatest member.
LEMMA GreatestExists ==
    ASSUME NEW n \in Nat, NEW S, S \subseteq 0..n, S # {}
    PROVE  \E x \in S : \A y \in S : y <= x
<1> DEFINE Less == OpToRel(<, Nat)
           mirror == {n - x : x \in S}
<1>1. mirror \subseteq Nat /\ mirror # {}
  <2>1. \A x \in S : n - x \in Nat
    OBVIOUS
  <2> QED BY <2>1
<1>2. \E m \in mirror : \A o \in mirror : <<o, m>> \notin Less
  <2>1. IsWellFoundedOn(Less, Nat)
    BY NatLessThanWellFounded
  <2> QED BY <1>1, <2>1, WFMin
<1>3. Less = {ss \in Nat \X Nat : ss[1] < ss[2]}
  BY DEF OpToRel
<1> HIDE DEF Less
<1>4. PICK m \in mirror : \A o \in mirror : <<o, m>> \notin Less
  BY <1>2
<1>5. ASSUME NEW o \in mirror PROVE m <= o
  <2>1. m \in Nat /\ o \in Nat /\ <<o, m>> \notin Less
    BY <1>1, <1>4
  <2> QED BY <1>3, <2>1
<1>6. PICK x \in S : m = n - x
  BY <1>4
<1>7. \A y \in S : y <= x
  BY <1>5, <1>6
<1> QED BY <1>7

\* The lookahead of coalesce_resize_events ends somewhere.
LEMMA AbsorbedIs ==
    ASSUME arriving \in Seq(Event), arriving # <<>>, IsResize(Head(arriving))
    PROVE  /\ Absorbed \in 0..Lookahead /\ Absorbed < Len(arriving)
           /\ \A i \in 1 .. Absorbed + 1 : IsResize(arriving[i])
           /\ Absorbed < Lookahead /\ Absorbed + 2 <= Len(arriving) => ~IsResize(arriving[Absorbed + 2])
<1> DEFINE all == {n \in 0..Lookahead : n < Len(arriving) /\ \A i \in 1 .. n + 1 : IsResize(arriving[i])}
<1>1. Lookahead \in Nat
  BY LoopAssumption
<1>2. Len(arriving) \in Nat /\ Len(arriving) > 0 /\ Head(arriving) = arriving[1]
  OBVIOUS
<1>3. 0 \in all
  BY <1>1, <1>2
<1>4. PICK n \in all : \A m \in all : m <= n
  BY <1>1, <1>3, GreatestExists
<1>5. n = Lookahead \/ n + 1 = Len(arriving) \/ ~IsResize(arriving[n + 2])
  <2> SUFFICES ASSUME n # Lookahead, n + 1 # Len(arriving), IsResize(arriving[n + 2]) PROVE FALSE
    OBVIOUS
  <2>1. n + 1 \in 0..Lookahead /\ n + 1 < Len(arriving)
    BY <1>1, <1>2
  <2>2. \A i \in 1 .. (n + 1) + 1 : IsResize(arriving[i])
    <3> TAKE i \in 1 .. (n + 1) + 1
    <3>1. n \in Nat /\ (i \in 1 .. n + 1 \/ i = n + 2)
      BY <1>1
    <3> QED BY <3>1
  <2>3. n + 1 \in all
    BY <2>1, <2>2
  <2>4. n \in Nat /\ n + 1 <= n
    BY <1>4, <2>3
  <2> QED BY <2>4
<1> DEFINE Ends(m) == /\ m < Len(arriving)
                      /\ \A i \in 1 .. m + 1 : IsResize(arriving[i])
                      /\ m = Lookahead \/ m + 1 = Len(arriving) \/ ~IsResize(arriving[m + 2])
<1>6. Ends(n) /\ n \in 0..Lookahead
  BY <1>4, <1>5
<1>7. Absorbed = CHOOSE m \in 0..Lookahead : Ends(m)
  BY DEF Absorbed
<1>8. Absorbed \in 0..Lookahead /\ Ends(Absorbed)
  <2> HIDE DEF Ends
  <2> QED BY <1>6, <1>7
<1> QED BY <1>1, <1>2, <1>8

\* Resizes at the front of a queue can go.
LEMMA ResizesGo ==
    ASSUME NEW q \in Seq(Event), NEW first \in Nat, NEW last \in Nat, KeysWait(q, first, last),
           NEW n \in 0 .. Len(q), \A i \in 1..n : IsResize(q[i])
    PROVE  KeysWait(SubSeq(q, n + 1, Len(q)), first, last)
<1> DEFINE r == SubSeq(q, n + 1, Len(q))
<1>1. /\ Len(r) = Len(q) - n /\ Len(q) \in Nat /\ DOMAIN q = 1 .. Len(q)
      /\ DOMAIN r = 1 .. Len(r) /\ \A i \in DOMAIN r : r[i] = q[i + n] /\ i + n \in DOMAIN q
  OBVIOUS
<1> HIDE DEF r
<1>2. \A i \in DOMAIN r : ~IsResize(r[i]) => r[i][2] \in first..last
  BY <1>1 DEF KeysWait
<1>3. \A i, j \in DOMAIN r : ~IsResize(r[i]) /\ ~IsResize(r[j]) /\ i < j => r[i][2] < r[j][2]
  <2> SUFFICES ASSUME NEW i \in DOMAIN r, NEW j \in DOMAIN r, ~IsResize(r[i]), ~IsResize(r[j]), i < j
               PROVE  r[i][2] < r[j][2]
    OBVIOUS
  <2>1. i + n \in DOMAIN q /\ j + n \in DOMAIN q /\ i + n < j + n
    BY <1>1
  <2> QED BY <1>1, <2>1, SMTT(30) DEF KeysWait
<1>4. ASSUME NEW k \in first..last PROVE \E i \in DOMAIN r : ~IsResize(r[i]) /\ r[i][2] = k
  <2>1. PICK i \in DOMAIN q : ~IsResize(q[i]) /\ q[i][2] = k
    BY DEF KeysWait
  <2>2. i > n
    BY <1>1, <2>1
  <2>3. i - n \in DOMAIN r /\ (i - n) + n = i
    BY <1>1, <2>2
  <2> QED BY <1>1, <2>1, <2>3
<1> QED BY <1>2, <1>3, <1>4 DEF KeysWait, r

\* The key at the front is the one expected, and the others wait for it.
LEMMA FrontKey ==
    ASSUME NEW q \in Seq(Event), NEW first \in Nat, NEW last \in Nat, KeysWait(q, first, last),
           q # <<>>, ~IsResize(Head(q))
    PROVE  Head(q)[2] = first /\ first <= last /\ KeysWait(Tail(q), first + 1, last)
<1> DEFINE r == Tail(q)
<1>1. /\ Len(q) \in Nat /\ Len(q) > 0 /\ DOMAIN q = 1 .. Len(q) /\ Head(q) = q[1]
      /\ Len(r) = Len(q) - 1 /\ DOMAIN r = 1 .. Len(r) /\ \A i \in DOMAIN r : r[i] = q[i + 1]
  OBVIOUS
<1> HIDE DEF r
<1>2. 1 \in DOMAIN q /\ q[1][2] \in first..last
  BY <1>1 DEF KeysWait
<1>3. q[1][2] = first
  <2>1. first \in first..last
    BY <1>2
  <2>2. PICK i \in DOMAIN q : ~IsResize(q[i]) /\ q[i][2] = first
    BY <2>1 DEF KeysWait
  <2>3. 1 < i => q[1][2] < q[i][2]
    BY <1>1, <1>2, <2>2 DEF KeysWait
  <2> QED BY <1>1, <1>2, <2>2, <2>3
<1>4. ASSUME NEW i \in DOMAIN r, ~IsResize(r[i]) PROVE r[i][2] \in first + 1 .. last
  <2>1. i + 1 \in DOMAIN q /\ 1 < i + 1 /\ r[i] = q[i + 1]
    BY <1>1
  <2>2. q[1][2] < q[i + 1][2] /\ q[i + 1][2] \in first..last
    BY <1>1, <1>2, <1>4, <2>1 DEF KeysWait
  <2> QED BY <1>3, <2>1, <2>2
<1>5. \A i, j \in DOMAIN r : ~IsResize(r[i]) /\ ~IsResize(r[j]) /\ i < j => r[i][2] < r[j][2]
  <2> SUFFICES ASSUME NEW i \in DOMAIN r, NEW j \in DOMAIN r, ~IsResize(r[i]), ~IsResize(r[j]), i < j
               PROVE  r[i][2] < r[j][2]
    OBVIOUS
  <2>1. i + 1 \in DOMAIN q /\ j + 1 \in DOMAIN q /\ i + 1 < j + 1
    BY <1>1
  <2> QED BY <1>1, <2>1, SMTT(30) DEF KeysWait
<1>6. ASSUME NEW k \in first + 1 .. last PROVE \E i \in DOMAIN r : ~IsResize(r[i]) /\ r[i][2] = k
  <2>1. PICK i \in DOMAIN q : ~IsResize(q[i]) /\ q[i][2] = k
    BY DEF KeysWait
  <2>2. i # 1
    BY <1>3, <2>1
  <2>3. i - 1 \in DOMAIN r /\ (i - 1) + 1 = i
    BY <1>1, <2>2
  <2> QED BY <1>1, <2>1, <2>3
<1>7. KeysWait(r, first + 1, last)
  BY <1>1, <1>4, <1>5, <1>6 DEF KeysWait
<1>8. first <= last
  BY <1>2, <1>3
<1> QED BY <1>1, <1>3, <1>7, <1>8 DEF r

\* What is polled and what is left is the arriving events, without resizes at the front.
LEMMA PolledIs ==
    ASSUME arriving \in Seq(Event), arriving # <<>>
    PROVE  LET rest == SubSeq(arriving, Taken + 1, Len(arriving))
           IN  /\ Polled \in Seq(Event) /\ Polled # <<>> /\ rest \in Seq(Event)
               /\ \E n \in 0 .. Len(arriving) :
                    /\ \A i \in 1..n : IsResize(arriving[i])
                    /\ Polled \o rest = SubSeq(arriving, n + 1, Len(arriving))
<1> DEFINE rest == SubSeq(arriving, Taken + 1, Len(arriving))
           length == Len(arriving)
<1>1. /\ length \in Nat /\ length > 0 /\ Head(arriving) = arriving[1] /\ DOMAIN arriving = 1..length
      /\ \A i \in 1..length : arriving[i] \in Event
  OBVIOUS
<1>2. CASE ~IsResize(Head(arriving))
  <2>1. Polled = <<arriving[1]>> /\ Taken = 1 /\ arriving[1] \in Event
    BY <1>1, <1>2 DEF Polled, Taken
  <2>2. <<arriving[1]>> \o SubSeq(arriving, 1 + 1, Len(arriving)) = SubSeq(arriving, 0 + 1, Len(arriving))
    BY <1>1
  <2>3. SubSeq(arriving, 1 + 1, Len(arriving)) \in Seq(Event)
    BY <1>1
  <2> QED BY <1>1, <2>1, <2>2, <2>3
<1>3. CASE IsResize(Head(arriving))
  <2> DEFINE a == Absorbed
  <2>1. /\ a \in 0..Lookahead /\ a < length /\ \A i \in 1 .. a + 1 : IsResize(arriving[i])
    BY <1>3, AbsorbedIs
  <2>2. a \in Nat /\ a \in 0..length /\ \A i \in 1..a : IsResize(arriving[i])
    BY <1>1, <2>1, LoopAssumption
  <2>3. CASE Absorbed < Lookahead /\ Absorbed + 2 <= Len(arriving)
    <3>1. Following = <<arriving[a + 2]>>
      BY <2>3 DEF Following
    <3>2. Polled = <<arriving[a + 1]>> \o <<arriving[a + 2]>> /\ Taken = a + 1 + 1
      BY <1>3, <3>1 DEF Polled, Taken
    <3> HIDE DEF a
    <3>3. a + 2 <= length
      BY <2>3 DEF a
    <3>4. arriving[a + 1] \in Event /\ arriving[a + 2] \in Event
      BY <1>1, <2>2, <3>3
    <3>5. Polled = <<arriving[a + 1], arriving[a + 2]>> /\ Taken = a + 2
      <4>1. \A x, y \in Event : <<x>> \o <<y>> = <<x, y>>
        <5> TAKE x, y \in Event
        <5> DEFINE s == <<x>> \o <<y>>
        <5>1. s \in Seq(Event) /\ <<x, y>> \in Seq(Event) /\ Len(s) = 2 /\ s[1] = x /\ s[2] = y
          OBVIOUS
        <5>2. \A i \in 1..2 : s[i] = <<x, y>>[i]
          BY <5>1
        <5> HIDE DEF s
        <5>3. s = <<x, y>>
          BY <5>1, <5>2, SeqEqual
        <5> QED BY <5>3 DEF s
      <4>2. Taken = a + 2
        BY <2>2, <3>2
      <4> QED BY <3>2, <3>4, <4>1, <4>2
    <3>6. <<arriving[a + 1], arriving[a + 2]>> \o SubSeq(arriving, (a + 2) + 1, Len(arriving))
            = SubSeq(arriving, a + 1, Len(arriving))
      BY <1>1, <2>2, <3>3, <3>4
    <3>7. SubSeq(arriving, (a + 2) + 1, Len(arriving)) \in Seq(Event)
      BY <1>1, <2>2, <3>3
    <3>8. <<arriving[a + 1], arriving[a + 2]>> \in Seq(Event) /\ <<arriving[a + 1], arriving[a + 2]>> # <<>>
      BY <3>4
    <3> QED BY <2>2, <3>5, <3>6, <3>7, <3>8
  <2>4. CASE ~(Absorbed < Lookahead /\ Absorbed + 2 <= Len(arriving))
    <3>1. Following = <<>>
      BY <2>4 DEF Following
    <3>2. Polled = <<arriving[a + 1]>> \o <<>> /\ Taken = a + 1 + 0
      BY <1>3, <3>1 DEF Polled, Taken
    <3> HIDE DEF a
    <3>4. arriving[a + 1] \in Event
      BY <1>1, <2>1, <2>2
    <3>5. Polled = <<arriving[a + 1]>> /\ Taken = a + 1
      BY <2>2, <3>2, <3>4
    <3>6. <<arriving[a + 1]>> \o SubSeq(arriving, (a + 1) + 1, Len(arriving))
            = SubSeq(arriving, a + 1, Len(arriving))
      BY <1>1, <2>1, <2>2, <3>4
    <3>7. SubSeq(arriving, (a + 1) + 1, Len(arriving)) \in Seq(Event)
      BY <1>1, <2>1, <2>2
    <3>8. <<arriving[a + 1]>> \in Seq(Event) /\ <<arriving[a + 1]>> # <<>>
      BY <3>4
    <3> QED BY <2>2, <3>5, <3>6, <3>7, <3>8
  <2> QED BY <2>3, <2>4
<1> QED BY <1>2, <1>3

OrderInv == Queues /\ KeysInOrder

\* Whatever becomes of the queue a dispatch is given, its front is not lost.
LEMMA DispatchTakes ==
    ASSUME OrderInv, matches, NEW queue \in Seq(Event), queue # <<>>, NEW rest \in Seq(Event),
           KeysWait(queue \o rest, Len(dispatched) + 1, keys),
           NEW asks, NEW sends, NEW quits, Dispatch(queue, asks, sends, quits),
           arriving' = rest, keys' = keys
    PROVE  OrderInv'
<1> DEFINE q == queue \o rest
           d == Len(dispatched)
<1>1. /\ d \in Nat /\ d + 1 \in Nat /\ keys \in Nat
      /\ q \in Seq(Event) /\ q # <<>> /\ Head(q) = Head(queue) /\ Head(q) = q[1]
      /\ Len(q) \in Nat /\ Len(q) > 0 /\ KeysWait(q, d + 1, keys)
  BY DEF OrderInv, Queues
<1>2. CASE ~ViewMatchesCommitted
  <2>1. buffered' = queue /\ dispatched' = dispatched
    BY <1>2 DEF Dispatch
  <2> QED BY <2>1 DEF OrderInv, Queues, KeysInOrder
<1>3. CASE ViewMatchesCommitted
  <2>1. /\ buffered' = Tail(queue)
        /\ dispatched' = IF IsResize(Head(queue)) THEN dispatched
                         ELSE Append(dispatched, Head(queue)[2])
    BY <1>3 DEF Dispatch
  <2>2. Tail(queue) \in Seq(Event) /\ Tail(queue) \o rest = Tail(q) /\ Tail(q) = SubSeq(q, 1 + 1, Len(q))
    BY SMTT(30)
  <2>3. CASE IsResize(Head(queue))
    <3>1. 1 \in 0 .. Len(q) /\ \A i \in 1..1 : IsResize(q[i])
      BY <1>1, <2>3
    <3> HIDE DEF q, d
    <3>2. KeysWait(SubSeq(q, 1 + 1, Len(q)), d + 1, keys)
      BY <1>1, <3>1, ResizesGo
    <3> QED BY <2>1, <2>2, <2>3, <3>2 DEF d, OrderInv, Queues, KeysInOrder
  <2>4. CASE ~IsResize(Head(queue))
    <3>1. Head(queue)[2] = d + 1 /\ d + 1 <= keys /\ KeysWait(Tail(q), (d + 1) + 1, keys)
      <4> HIDE DEF q, d
      <4> QED BY <1>1, <2>4, FrontKey
    <3>2. dispatched' = Append(dispatched, d + 1)
      BY <2>1, <2>4, <3>1
    <3>3. dispatched' \in Seq(Nat) /\ Len(dispatched') = d + 1
      BY <1>1, <3>2 DEF OrderInv, Queues
    <3>4. \A k \in DOMAIN dispatched' : dispatched'[k] = k
      BY <1>1, <3>2 DEF OrderInv, Queues, KeysInOrder
    <3>5. KeysWait(buffered' \o arriving', Len(dispatched') + 1, keys')
      BY <2>1, <2>2, <3>1, <3>3
    <3> QED BY <1>1, <2>1, <2>2, <3>1, <3>3, <3>4, <3>5 DEF OrderInv, Queues, KeysInOrder
  <2> QED BY <2>3, <2>4
<1> QED BY <1>2, <1>3

\* A new event waits behind the others.
LEMMA ArrivalWaits ==
    ASSUME OrderInv, Key \/ \E to \in Sizes : Resize(to)
    PROVE  OrderInv'
<1> DEFINE q == buffered \o arriving
           first == Len(dispatched) + 1
<1>1. PICK e \in Event :
        /\ arriving' = Append(arriving, e) /\ keys' \in 0..MaxEvents
        /\ IsResize(e) => keys' = keys
        /\ ~IsResize(e) => keys' = keys + 1 /\ e[2] = keys + 1
        /\ buffered' = buffered /\ dispatched' = dispatched
  <2>1. CASE Key
    <3>1. <<"key", keys + 1>> \in Event /\ ~IsResize(<<"key", keys + 1>>) /\ keys + 1 \in 0..MaxEvents
      BY <2>1, LoopAssumption DEF Key, Event, IsResize, OrderInv, Queues
    <3> QED BY <2>1, <3>1 DEF Key
  <2>2. ASSUME NEW to \in Sizes, Resize(to)
        PROVE  /\ <<"resize", to>> \in Event /\ IsResize(<<"resize", to>>)
               /\ arriving' = Append(arriving, <<"resize", to>>)
               /\ keys' = keys /\ buffered' = buffered /\ dispatched' = dispatched
    BY <2>2 DEF Resize, Event, IsResize
  <2> QED BY <2>1, <2>2 DEF OrderInv, Queues
<1> DEFINE r == buffered' \o arriving'
<1>2. /\ q \in Seq(Event) /\ Len(q) \in Nat /\ DOMAIN q = 1 .. Len(q)
      /\ Len(r) = Len(q) + 1 /\ DOMAIN r = 1 .. Len(r) /\ r[Len(q) + 1] = e
      /\ \A i \in DOMAIN q : r[i] = q[i] /\ q[i] \in Event
  BY <1>1, SMTT(30) DEF OrderInv, Queues
<1>3. KeysWait(q, first, keys) /\ first \in Nat \ {0} /\ keys \in Nat
  BY DEF OrderInv, Queues, KeysInOrder
<1>4. arriving' \in Seq(Event)
  BY <1>1 DEF OrderInv, Queues
<1>5. first <= keys + 1
  BY DEF OrderInv, Queues
<1> HIDE DEF q, r, first
<1>6. KeysWait(r, first, keys')
  <2>1. keys' \in Nat /\ keys <= keys' /\ (~IsResize(e) => e[2] = keys' /\ keys' = keys + 1)
    BY <1>1, <1>3
  <2>2. ASSUME NEW i \in DOMAIN r, ~IsResize(r[i]) PROVE r[i][2] \in first..keys'
    <3>1. CASE i \in DOMAIN q
      BY <1>2, <1>3, <2>1, <2>2, <3>1 DEF KeysWait
    <3>2. CASE i = Len(q) + 1
      BY <1>2, <1>3, <1>5, <2>1, <2>2, <3>2
    <3> QED BY <1>2, <3>1, <3>2
  <2>3. ASSUME NEW i \in DOMAIN r, NEW j \in DOMAIN r, ~IsResize(r[i]), ~IsResize(r[j]), i < j
        PROVE  r[i][2] < r[j][2]
    <3>1. i \in DOMAIN q
      BY <1>2, <2>3
    <3>2. CASE j \in DOMAIN q
      BY <1>2, <1>3, <2>3, <3>1, <3>2 DEF KeysWait
    <3>3. CASE j = Len(q) + 1
      <4>1. q[i][2] \in first..keys
        BY <1>2, <1>3, <2>3, <3>1 DEF KeysWait
      <4> QED BY <1>2, <1>3, <2>1, <2>3, <3>1, <3>3, <4>1
    <3> QED BY <1>2, <3>2, <3>3
  <2>4. ASSUME NEW k \in first..keys' PROVE \E i \in DOMAIN r : ~IsResize(r[i]) /\ r[i][2] = k
    <3>1. CASE k \in first..keys
      <4>1. PICK i \in DOMAIN q : ~IsResize(q[i]) /\ q[i][2] = k
        BY <1>3, <3>1 DEF KeysWait
      <4>2. i \in DOMAIN r /\ r[i] = q[i]
        BY <1>2, <4>1
      <4> QED BY <4>1, <4>2
    <3>2. CASE k \notin first..keys
      <4>1. keys' # keys /\ k = keys'
        BY <1>1, <1>3, <2>1, <3>2
      <4>2. ~IsResize(e) /\ Len(q) + 1 \in DOMAIN r
        BY <1>1, <1>2, <4>1
      <4> QED BY <1>2, <2>1, <4>1, <4>2
    <3> QED BY <3>1, <3>2
  <2> QED BY <2>2, <2>3, <2>4 DEF KeysWait
<1> QED BY <1>1, <1>4, <1>5, <1>6 DEF OrderInv, Queues, KeysInOrder, r, first

LEMMA PollingTakes ==
    ASSUME OrderInv, Inv,
           \/ \E asks, sends, quits \in BOOLEAN :
                 DispatchBuffered(asks, sends, quits) \/ DispatchPolled(asks, sends, quits)
           \/ BufferPolled
    PROVE  OrderInv'
<1> DEFINE first == Len(dispatched) + 1
<1>1. /\ arriving \in Seq(Event) /\ buffered \in Seq(Event) /\ first \in Nat /\ keys \in Nat
      /\ KeysWait(buffered \o arriving, first, keys)
  BY DEF OrderInv, Queues, KeysInOrder
<1>2. ASSUME NEW asks, NEW sends, NEW quits, DispatchBuffered(asks, sends, quits) PROVE OrderInv'
  <2>1. /\ Dispatch(buffered, asks, sends, quits) /\ buffered # <<>> /\ arriving' = arriving
        /\ keys' = keys /\ matches
    BY <1>2 DEF DispatchBuffered, Dispatch, Inv, EventsOK
  <2> QED BY <1>1, <2>1, DispatchTakes
<1>3. ASSUME buffered = <<>>, arriving # <<>>
      PROVE  LET rest == SubSeq(arriving, Taken + 1, Len(arriving))
             IN  /\ Polled \in Seq(Event) /\ Polled # <<>> /\ rest \in Seq(Event)
                 /\ KeysWait(Polled \o rest, first, keys)
  <2> DEFINE rest == SubSeq(arriving, Taken + 1, Len(arriving))
  <2>1. /\ Polled \in Seq(Event) /\ Polled # <<>> /\ rest \in Seq(Event)
        /\ \E n \in 0 .. Len(arriving) : /\ \A i \in 1..n : IsResize(arriving[i])
                                         /\ Polled \o rest = SubSeq(arriving, n + 1, Len(arriving))
    BY <1>1, <1>3, PolledIs
  <2>2. buffered \o arriving = arriving
    BY <1>1, <1>3
  <2> HIDE DEF rest, first
  <2>3. KeysWait(arriving, first, keys)
    BY <1>1, <2>2
  <2>4. PICK n \in 0 .. Len(arriving) : /\ \A i \in 1..n : IsResize(arriving[i])
                                        /\ Polled \o rest = SubSeq(arriving, n + 1, Len(arriving))
    BY <2>1
  <2>5. KeysWait(SubSeq(arriving, n + 1, Len(arriving)), first, keys)
    BY <1>1, <2>3, <2>4, ResizesGo
  <2> QED BY <2>1, <2>4, <2>5 DEF rest
<1>4. ASSUME NEW asks, NEW sends, NEW quits, DispatchPolled(asks, sends, quits) PROVE OrderInv'
  <2>1. /\ Dispatch(Polled, asks, sends, quits) /\ buffered = <<>> /\ arriving # <<>>
        /\ arriving' = SubSeq(arriving, Taken + 1, Len(arriving))
        /\ keys' = keys /\ matches
    BY <1>4 DEF DispatchPolled, CanPoll, Dispatch, Inv, EventsOK
  <2> QED BY <1>3, <2>1, DispatchTakes
<1>5. ASSUME BufferPolled PROVE OrderInv'
  <2>1. /\ buffered = <<>> /\ arriving # <<>> /\ buffered' = Polled
        /\ arriving' = SubSeq(arriving, Taken + 1, Len(arriving))
        /\ keys' = keys /\ dispatched' = dispatched
    BY <1>5 DEF BufferPolled, CanPoll
  <2> QED BY <1>3, <2>1 DEF OrderInv, Queues, KeysInOrder
<1> QED BY <1>2, <1>4, <1>5

\* The last resize read before a poll fails is retained; the others are superseded.
LEMMA PollFailsTakes == ASSUME OrderInv, NEW n \in 0..Lookahead, PollFails(n) PROVE OrderInv'
<1> DEFINE first == Len(dispatched) + 1
           length == Len(arriving)
<1>1. /\ arriving \in Seq(Event) /\ first \in Nat /\ keys \in Nat /\ length \in Nat
      /\ n \in Nat /\ n <= length /\ \A i \in 1..n : IsResize(arriving[i])
      /\ buffered' = (IF n = 0 THEN <<>> ELSE <<arriving[n]>>)
      /\ arriving' = SubSeq(arriving, n + 1, length)
      /\ keys' = keys /\ dispatched' = dispatched
  BY LoopAssumption DEF OrderInv, Queues, PollFails
<1>2. KeysWait(arriving, first, keys)
  <2>1. buffered = <<>>
    BY DEF PollFails, CanPoll
  <2>2. buffered \o arriving = arriving
    BY <1>1, <2>1
  <2> QED BY <2>2 DEF OrderInv, KeysInOrder
<1>3. CASE n = 0
  <2>1. buffered' = <<>> /\ arriving' = arriving /\ buffered' \o arriving' = arriving
    BY <1>1, <1>3
  <2>2. Queues'
    <3>1. keys' = keys /\ dispatched' = dispatched
      BY <1>1
    <3>2. <<>> \in Seq(Event)
      OBVIOUS
    <3> QED BY <2>1, <3>1, <3>2 DEF OrderInv, Queues
  <2>3. KeysWait(buffered' \o arriving', Len(dispatched') + 1, keys')
    BY <1>1, <1>2, <2>1
  <2> QED BY <1>1, <2>2, <2>3 DEF OrderInv, KeysInOrder
<1>4. CASE n # 0
  <2>1. arriving[n] \in Event
    BY <1>1, <1>4
  <2>2. /\ <<arriving[n]>> \o SubSeq(arriving, n + 1, length) = SubSeq(arriving, (n - 1) + 1, length)
        /\ <<arriving[n]>> \in Seq(Event) /\ SubSeq(arriving, n + 1, length) \in Seq(Event)
    BY <1>1, <1>4, <2>1
  <2>3. n - 1 \in 0..length /\ \A i \in 1 .. n - 1 : IsResize(arriving[i])
    BY <1>1, <1>4
  <2> HIDE DEF first
  <2>4. KeysWait(SubSeq(arriving, (n - 1) + 1, length), first, keys)
    BY <1>1, <1>2, <2>3, ResizesGo
  <2> QED BY <1>1, <1>4, <2>2, <2>4 DEF OrderInv, Queues, KeysInOrder, first
<1> QED BY <1>3, <1>4

LEMMA OthersTakeNothing ==
    ASSUME OrderInv, buffered' = buffered, arriving' = arriving, keys' = keys, dispatched' = dispatched
    PROVE  OrderInv'
BY DEF OrderInv, Queues, KeysInOrder

LEMMA OrderHolds == Spec => []OrderInv
<1>1. Init => OrderInv
  <2> SUFFICES ASSUME Init PROVE OrderInv
    OBVIOUS
  <2>1. buffered = <<>> /\ arriving = <<>> /\ dispatched = <<>> /\ keys = 0 /\ keys \in 0..MaxEvents
    BY LoopAssumption DEF Init
  <2>2. buffered \o arriving = <<>> /\ Len(dispatched) = 0
    BY <2>1
  <2>3. KeysWait(<<>>, 1, 0)
    BY DEF KeysWait
  <2> QED BY <2>1, <2>2, <2>3 DEF OrderInv, Queues, KeysInOrder
<1>2. Inv /\ OrderInv /\ [Next]_vars => OrderInv'
  <2> SUFFICES ASSUME Inv, OrderInv, [Next]_vars PROVE OrderInv'
    OBVIOUS
  <2>1. CASE UNCHANGED vars
    BY <2>1, OthersTakeNothing
  <2>2. CASE World
    <3>1. CASE MessageArrives
      BY <3>1, OthersTakeNothing DEF MessageArrives
    <3> QED BY <2>2, <3>1, ArrivalWaits DEF World
  <2>3. CASE Owner
    BY <2>3, OthersTakeNothing DEF Owner, RunTerminal, ApplyState, Suspend, Resume
  <2>4. CASE LoopStep
    <3>1. ASSUME NEW next, NEW asks, NEW left, NEW quits, Turn(next, asks, left, quits) PROVE OrderInv'
      BY <3>1, OthersTakeNothing DEF Turn
    <3>2. CASE Prepare \/ PrepareFails
      BY <3>2, OthersTakeNothing DEF Prepare, PrepareFails
    <3>3. ASSUME NEW asks, NEW sends, CommitEmpty(asks, sends) \/ WriteApplied(asks, sends)
          PROVE  OrderInv'
      BY <3>3, OthersTakeNothing DEF CommitEmpty, WriteApplied, Commit
    <3>4. CASE WriteSuspended \/ WriteDeferred
      BY <3>4, OthersTakeNothing DEF WriteSuspended, WriteDeferred, Deferred
    <3>5. ASSUME NEW result, NEW after, WriteUncertain(result, after) PROVE OrderInv'
      BY <3>5, OthersTakeNothing DEF WriteUncertain
    <3>6. CASE NoEvent
      BY <3>6, OthersTakeNothing DEF NoEvent
    <3> QED BY <2>4, <3>1, <3>2, <3>3, <3>4, <3>5, <3>6, PollingTakes, PollFailsTakes DEF LoopStep
  <2> QED BY <2>1, <2>2, <2>3, <2>4 DEF Next
<1> QED BY <1>1, <1>2, InvHolds, PTL DEF Spec

\* Every key is dispatched once and in the order of its arrival, over deferred frames,
\* uncertain writes, failing polls, restarts of run_terminal and coalesced resizes.
THEOREM KeysOrdered == Spec => []KeysInOrder
<1>1. OrderInv => KeysInOrder
  BY DEF OrderInv
<1> QED BY <1>1, OrderHolds, PTL
--------------------------------------------------------------------------------
(* Types.                                                                  *)

Types ==
    /\ version \in 0..MaxVersion /\ viewport \in Sizes /\ size \in Sizes
    /\ work \in BOOLEAN /\ quitting \in BOOLEAN /\ suspended \in BOOLEAN /\ cleanup \in BOOLEAN
    /\ current \in Frame \union {Empty} /\ screen \in Frame \union {Garbage}
    /\ stage \in {"caller", "turn", "render", "write", "events", "deferred"}
    /\ prepared.frame \in Frame \union {Garbage} /\ prepared.full \in BOOLEAN
    /\ stage = "write" => prepared.frame \in Frame
    /\ cleanup => suspended

LEMMA DispatchTypes ==
    ASSUME Types, Inv, NEW queue \in Seq(Event), queue # <<>>,
           NEW asks \in BOOLEAN, NEW sends \in BOOLEAN, NEW quits \in BOOLEAN,
           Dispatch(queue, asks, sends, quits)
    PROVE  Types'
<1>1. Head(queue) \in Event
  OBVIOUS
<1>2. viewport' \in Sizes
  BY <1>1, Events DEF Dispatch, Types
<1>3. /\ work' \in BOOLEAN /\ quitting' \in BOOLEAN /\ stage' \in {"caller", "turn"}
      /\ UNCHANGED <<version, current, suspended, cleanup, size, screen, prepared>>
  BY DEF Dispatch, Types
<1> QED BY <1>2, <1>3 DEF Types

LEMMA RenderTypes ==
    ASSUME Types, Inv,
           \/ Prepare \/ PrepareFails
           \/ \E asks, sends \in BOOLEAN : CommitEmpty(asks, sends) \/ WriteApplied(asks, sends)
           \/ WriteSuspended \/ WriteDeferred
           \/ \E result \in {screen, Garbage, Patched}, after \in {"deferred", "caller"} :
                  WriteUncertain(result, after)
    PROVE  Types'
<1>1. Nothing.frame = Garbage /\ Nothing.full = FALSE
  BY DEF Nothing
<1>2. CASE Prepare
  <2>1. /\ viewport' = size /\ stage' \in {"write", "events"}
        /\ UNCHANGED <<version, work, quitting, current, suspended, cleanup, size, screen>>
    BY <1>2 DEF Prepare
  <2>2. CASE NeedsFrame
    <3>1. prepared' = [frame |-> [size |-> size, version |-> version],
                       full |-> force' \/ current.size # size]
      BY <1>2, <2>2 DEF Prepare
    <3>2. prepared'.frame = [size |-> size, version |-> version]
          /\ prepared'.full = (force' \/ current.size # size)
      BY <3>1
    <3>3. prepared'.frame \in Frame /\ prepared'.full \in BOOLEAN
      BY <3>2 DEF Frame, Types
    <3> QED BY <2>1, <3>3 DEF Types
  <2>3. CASE ~NeedsFrame
    <3>1. prepared' = prepared /\ stage' = "events"
      BY <1>2, <2>3 DEF Prepare
    <3> QED BY <2>1, <3>1 DEF Types
  <2> QED BY <2>2, <2>3
<1>3. CASE PrepareFails
  BY <1>3 DEF PrepareFails, Types
<1>4. stage = "write" => prepared.frame \in Frame /\ Patched \in Frame \union {Garbage}
  BY DEF Types, Patched
<1>5. ASSUME NEW asks \in BOOLEAN, NEW sends \in BOOLEAN,
             CommitEmpty(asks, sends) \/ WriteApplied(asks, sends)
      PROVE  Types'
  <2>1. /\ stage = "write" /\ current' = prepared.frame /\ stage' = "events"
        /\ work' = (work \/ sends) /\ prepared' = Nothing /\ screen' \in {screen, Patched}
        /\ UNCHANGED <<version, quitting, viewport, suspended, cleanup, size>>
    BY <1>5 DEF CommitEmpty, WriteApplied, Commit, DropPrepared
  <2> QED BY <1>1, <1>4, <2>1 DEF Types
<1>6. CASE WriteSuspended \/ WriteDeferred
  <2>1. /\ prepared' = Nothing /\ stage' = "deferred"
        /\ UNCHANGED <<version, work, quitting, viewport, current, suspended, cleanup, size, screen>>
    BY <1>6 DEF WriteSuspended, WriteDeferred, Deferred, DropPrepared
  <2> QED BY <1>1, <2>1 DEF Types
<1>7. ASSUME NEW result \in {screen, Garbage, Patched}, NEW after \in {"deferred", "caller"},
             WriteUncertain(result, after)
      PROVE  Types'
  <2>1. /\ stage = "write" /\ prepared' = Nothing /\ stage' = after /\ screen' = result
        /\ UNCHANGED <<version, work, quitting, viewport, current, suspended, cleanup, size>>
    BY <1>7 DEF WriteUncertain, DropPrepared
  <2> QED BY <1>1, <1>4, <2>1 DEF Types
<1> QED BY <1>2, <1>3, <1>5, <1>6, <1>7

LEMMA TypesHold == Spec => []Types
<1>1. Init => Types
  <2>1. Nothing.frame = Garbage /\ Nothing.full = FALSE
    BY DEF Nothing
  <2>2. 0 \in 0..MaxVersion
    BY LoopAssumption
  <2> QED BY <2>1, <2>2 DEF Init, Types
<1>2. OrderInv /\ Inv /\ Types /\ [Next]_vars => Types'
  <2> SUFFICES ASSUME OrderInv, Inv, Types, [Next]_vars PROVE Types'
    OBVIOUS
  <2>1. ASSUME NEW asks \in BOOLEAN, NEW sends \in BOOLEAN, NEW quits \in BOOLEAN,
               DispatchBuffered(asks, sends, quits) \/ DispatchPolled(asks, sends, quits)
        PROVE  Types'
    <3>1. CASE DispatchBuffered(asks, sends, quits)
      BY <3>1, DispatchTypes DEF DispatchBuffered, OrderInv, Queues
    <3>2. CASE DispatchPolled(asks, sends, quits)
      BY <3>2, DispatchTypes, PolledIs DEF DispatchPolled, OrderInv, Queues
    <3> QED BY <2>1, <3>1, <3>2
  <2>2. ASSUME NEW next, NEW asks \in BOOLEAN, NEW left \in BOOLEAN, NEW quits \in BOOLEAN,
               Turn(next, asks, left, quits)
        PROVE  Types'
    BY <2>2 DEF Turn, Types
  <2>3. CASE BufferPolled \/ NoEvent \/ (\E n \in 0..Lookahead : PollFails(n)) \/ UNCHANGED vars
    BY <2>3 DEF BufferPolled, NoEvent, PollFails, Types
  <2>4. CASE Owner
    <3>1. CASE RunTerminal \/ ApplyState
      BY <3>1 DEF RunTerminal, ApplyState, Types
    <3>2. ASSUME NEW fails \in BOOLEAN, Suspend(fails) PROVE Types'
      BY <3>2 DEF Suspend, Types
    <3>3. ASSUME NEW fails \in BOOLEAN, Resume(fails) PROVE Types'
      BY <3>3 DEF Resume, Reactivate, Types
    <3> QED BY <2>4, <3>1, <3>2, <3>3 DEF Owner
  <2>5. CASE World
    <3>1. ASSUME Key \/ MessageArrives PROVE Types'
      <4>1. /\ work' \in BOOLEAN
            /\ UNCHANGED <<version, quitting, viewport, size, suspended, cleanup, current, screen,
                           stage, prepared>>
        BY <3>1 DEF Key, MessageArrives, Types
      <4> QED BY <4>1 DEF Types
    <3>2. ASSUME NEW to \in Sizes, Resize(to) PROVE Types'
      BY <3>2 DEF Resize, Types
    <3> QED BY <2>5, <3>1, <3>2 DEF World
  <2> QED BY <2>1, <2>2, <2>3, <2>4, <2>5, RenderTypes DEF Next, LoopStep
<1> QED BY <1>1, <1>2, InvHolds, OrderHolds, PTL DEF Spec

\* Also of the terminal loop: a session with a cleanup to do is suspended.
THEOREM LoopTypeCorrect == Spec => []TypeOK
<1>1. Inv /\ OrderInv /\ Types => TypeOK
  <2> SUFFICES ASSUME Inv, OrderInv, Types PROVE TypeOK
    OBVIOUS
  <2>1. \A b \in {work, quitting, invalid, silent, force, matches, suspended, cleanup,
                  fullRepaint, flapped, prepared.full} : b \in BOOLEAN
    BY Zenon DEF Inv, Flags, Types
  <2>2. \A q \in {arriving, buffered} : \A i \in DOMAIN q : q[i] \in Event
    BY DEF OrderInv, Queues
  <2> QED BY <2>1, <2>2 DEF TypeOK, Types, Event
<1> QED BY <1>1, InvHolds, OrderHolds, TypesHold, PTL
================================================================================
