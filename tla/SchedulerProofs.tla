-------------------------- MODULE SchedulerProofs --------------------------
(***************************************************************************)
(* Proofs about Scheduler for any tasks, waker threads, delays and limits: *)
(* type correctness, the exactness of the queued flags and that no wake is *)
(* lost.  The flags are exact by an inductive invariant that follows each  *)
(* id from the swap that sets its flag through the channel and the batch   *)
(* to the poll that clears it.                                             *)
(***************************************************************************)
EXTENDS Scheduler, SequenceTheorems, TLAPS

\* The head and the tail of a sequence, index by index.
LEMMA HeadAndTail ==
    ASSUME NEW S, NEW s \in Seq(S), s # <<>>
    PROVE  /\ Head(s) = s[1] /\ Head(s) \in S /\ Tail(s) \in Seq(S)
           /\ Len(s) \in Nat /\ Len(s) > 0 /\ Len(Tail(s)) = Len(s) - 1
           /\ \A i \in 1..Len(s) - 1 : Tail(s)[i] = s[i + 1]
<1>1. Head(s) = s[1] /\ Head(s) \in S /\ Tail(s) \in Seq(S)
  BY HeadTailProperties
<1>2. Len(s) \in Nat /\ Len(s) > 0
  BY EmptySeq, LenProperties
<1>3. Len(Tail(s)) = Len(s) - 1 /\ \A i \in 1..Len(Tail(s)) : Tail(s)[i] = s[i + 1]
  BY HeadTailProperties
<1> QED BY <1>1, <1>2, <1>3

\* A sequence with one more element, index by index.
LEMMA AppendAt ==
    ASSUME NEW S, NEW s \in Seq(S), NEW e \in S
    PROVE  /\ Append(s, e) \in Seq(S) /\ Len(s) \in Nat /\ Len(Append(s, e)) = Len(s) + 1
           /\ Append(s, e)[Len(s) + 1] = e
           /\ \A i \in 1..Len(s) : Append(s, e)[i] = s[i]
BY AppendProperties, LenProperties
LEMMA AppendedIsNotEmpty ==
    ASSUME NEW S, NEW s \in Seq(S), NEW e \in S
    PROVE  Append(s, e) # <<>>
<1>1. Len(Append(s, e)) = Len(s) + 1 /\ Len(s) \in Nat
  BY AppendAt
<1>2. Len(Append(s, e)) # 0
  BY <1>1
<1> QED BY <1>2, EmptySeq
---------------------------------------------------------------------------
\* What Schedule does to the flags and the channel keeps their types.
LEMMA ScheduleTypes ==
    ASSUME NEW t \in Tasks, queued \in [Tasks -> BOOLEAN], ready \in Seq(Tasks),
           Schedule(t, queued)
    PROVE  queued' \in [Tasks -> BOOLEAN] /\ ready' \in Seq(Tasks)
<1>1. Append(ready, t) \in Seq(Tasks)
  BY AppendAt
<1>2. [queued EXCEPT ![t] = TRUE] \in [Tasks -> BOOLEAN]
  OBVIOUS
<1>3. CASE queued[t]
  BY <1>3 DEF Schedule
<1>4. CASE ~queued[t]
  BY <1>1, <1>2, <1>4 DEF Schedule
<1> QED BY <1>3, <1>4

\* The history counts to two.
LEMMA PassedTypes ==
    ASSUME passed \in [futures : 0..2, timers : 0..2], FutureSelected \/ TimerSelected
    PROVE  passed' \in [futures : 0..2, timers : 0..2]
<1>1. More(passed.futures) \in 0..2 /\ More(passed.timers) \in 0..2
  BY DEF More
<1> QED BY <1>1 DEF FutureSelected, TimerSelected

\* Type correctness of the scheduler and of the waker threads.
THEOREM SchedulerTypeCorrect == Spec => []TypeOK
<1> USE SchedulerAssumption DEF TypeOK, SchedulerAssumption, runnerVars, threadVars, Idle, Quiet
<1>1. Init => TypeOK
  <2> SUFFICES ASSUME Init PROVE TypeOK
    OBVIOUS
  <2>1. <<>> \in Seq(Tasks)
    BY EmptySeq
  <2>2. queued \in [Tasks -> BOOLEAN] /\ preferFuture \in BOOLEAN
    BY DEF Init
  <2>7. passed \in [futures : 0..2, timers : 0..2]
    BY DEF Init
  <2>3. call \in [stage : {"outside", "select", "clear", "run"}, limit : Nat,
                 batch : Seq(Tasks), count : Nat] /\ call.stage = "outside" /\ call.batch = <<>>
    BY <2>1 DEF Init
  <2>4. thread \in [Threads -> {Quiet} \union [stage : {"swap", "send"}, task : spawned]]
    BY DEF Init
  <2>5. wakes \in [Threads -> 0..MaxWakes] /\ nextTimerOrder \in 0..MaxTimers /\ now \in 0..MaxTime
    BY DEF Init
  <2>6. /\ live \subseteq spawned /\ spawned \subseteq Tasks /\ owed \subseteq spawned
        /\ ready \in Seq(Tasks) /\ timers \subseteq [deadline : Nat, order : Nat]
    BY <2>1 DEF Init
  <2> QED BY <2>2, <2>3, <2>4, <2>5, <2>6, <2>7
<1>2. TypeOK /\ [Next]_vars => TypeOK'
  <2> SUFFICES ASSUME TypeOK, [Next]_vars PROVE TypeOK'
    OBVIOUS
  <2>1. ASSUME NEW t \in Tasks, Spawn(t) PROVE TypeOK'
    <3>1. queued' \in [Tasks -> BOOLEAN] /\ ready' \in Seq(Tasks)
      BY <2>1, ScheduleTypes DEF Spawn
    <3> QED BY <2>1, <3>1 DEF Spawn
  <2>2. ASSUME NEW d \in Delays, ScheduleAfter(d) PROVE TypeOK'
    <3>1. [deadline |-> now + d, order |-> nextTimerOrder] \in [deadline : Nat, order : Nat]
      <4>1. now \in Nat /\ nextTimerOrder \in Nat
        OBVIOUS
      <4>2. d \in Nat
        OBVIOUS
      <4> QED BY <4>1, <4>2
    <3> QED BY <2>2, <3>1 DEF ScheduleAfter
  <2>3. ASSUME NEW n \in Limits, BeginPoll(n) PROVE TypeOK'
    BY <2>3, EmptySeq DEF BeginPoll
  <2>4. CASE SelectReady
    <3>1. Head(ready) \in Tasks /\ Tail(ready) \in Seq(Tasks)
      BY <2>4, HeadAndTail DEF SelectReady
    <3>2. Append(call.batch, Head(ready)) \in Seq(Tasks)
      BY <3>1, AppendAt
    <3>3. call' = [call EXCEPT !.batch = Append(call.batch, Head(ready)), !.count = call.count + 1]
      BY <2>4 DEF SelectReady
    <3>4. call' \in [stage : {"outside", "select", "clear", "run"}, limit : Nat,
                     batch : Seq(Tasks), count : Nat] /\ call'.stage = "select"
      <4>1. call.count + 1 \in Nat /\ call.stage = "select"
        BY <2>4 DEF SelectReady, Selecting
      <4> QED BY <3>2, <3>3, <4>1
    <3>5. passed' \in [futures : 0..2, timers : 0..2]
      BY <2>4, PassedTypes DEF SelectReady
    <3> QED BY <2>4, <3>1, <3>4, <3>5 DEF SelectReady
  <2>5. CASE SelectTimer
    <3>1. call' = [call EXCEPT !.count = call.count + 1] /\ timers' \subseteq timers
      BY <2>5 DEF SelectTimer
    <3>2. preferFuture' \in BOOLEAN /\ call.stage = "select"
      BY <2>5 DEF SelectTimer, Selecting
    <3>4. call' \in [stage : {"outside", "select", "clear", "run"}, limit : Nat,
                     batch : Seq(Tasks), count : Nat] /\ call'.stage = "select"
      <4>1. call.count + 1 \in Nat
        OBVIOUS
      <4> QED BY <3>1, <3>2, <4>1
    <3>3. UNCHANGED <<live, spawned, nextTimerOrder, threadVars, queued, ready, now, owed>>
      BY <2>5 DEF SelectTimer
    <3>5. passed' \in [futures : 0..2, timers : 0..2]
      BY <2>5, PassedTypes DEF SelectTimer
    <3> QED BY <3>1, <3>2, <3>3, <3>4, <3>5
  <2>6. CASE EndSelect
    BY <2>6 DEF EndSelect
  <2>7. CASE SkipGone
    BY <2>7, HeadAndTail DEF SkipGone
  <2>8. CASE ClearQueued
    BY <2>8, HeadAndTail DEF ClearQueued
  <2>9. ASSUME NEW selfWake \in BOOLEAN, Pending(selfWake) PROVE TypeOK'
    <3>1. Head(call.batch) \in Tasks /\ Tail(call.batch) \in Seq(Tasks)
      BY <2>9, HeadAndTail DEF Pending, RunBegun
    <3>2. queued' \in [Tasks -> BOOLEAN] /\ ready' \in Seq(Tasks)
      BY <2>9, <3>1, ScheduleTypes DEF Pending
    <3> QED BY <2>9, <3>1, <3>2 DEF Pending, RunBegun, AfterRun
  <2>10. CASE Complete
    <3>1. Tail(call.batch) \in Seq(Tasks)
      BY <2>10, HeadAndTail DEF Complete, RunBegun
    <3>2. live' \subseteq spawned' /\ owed' \subseteq spawned'
      BY <2>10 DEF Complete
    <3> QED BY <2>10, <3>1, <3>2 DEF Complete, RunBegun, AfterRun
  <2>11. CASE EndPoll
    BY <2>11, EmptySeq DEF EndPoll
  <2>12. ASSUME NEW w \in Threads, NEW t \in Tasks, Fire(w, t) PROVE TypeOK'
    BY <2>12, SMTT(30) DEF Fire
  <2>13. ASSUME NEW w \in Threads, Swap(w) PROVE TypeOK'
    BY <2>13 DEF Swap
  <2>14. ASSUME NEW w \in Threads, SendId(w) PROVE TypeOK'
    <3>1. thread[w].task \in Tasks
      BY <2>14 DEF SendId
    <3>2. ready' \in Seq(Tasks)
      BY <2>14, <3>1, AppendAt DEF SendId
    <3>3. thread' \in [Threads -> {Quiet} \union [stage : {"swap", "send"}, task : spawned]]
      BY <2>14 DEF SendId
    <3> QED BY <2>14, <3>2, <3>3 DEF SendId
  <2>15. CASE Tick
    BY <2>15 DEF Tick
  <2>16. CASE UNCHANGED vars
    BY <2>16 DEF vars
  <2> QED BY <2>1, <2>2, <2>3, <2>4, <2>5, <2>6, <2>7, <2>8, <2>9, <2>10, <2>11, <2>12,
             <2>13, <2>14, <2>15, <2>16 DEF Next, PollStep, Outside, WakerStep
<1> QED BY <1>1, <1>2, PTL DEF Spec
---------------------------------------------------------------------------
\* Where an id can be, index by index.
InChannel(i, t) == i \in 1..Len(ready) /\ ready[i] = t
InBatch(i, t) == i \in 1..Len(call.batch) /\ call.batch[i] = t /\ (call.stage = "run" => i # 1)
Sending(w, t) == thread[w] = [stage |-> "send", task |-> t]

Coming(t) == \/ \E i \in Nat : InChannel(i, t) \/ InBatch(i, t)
             \/ \E w \in Threads : Sending(w, t)

\* An id is in one place at most.
Once(t) ==
    /\ \A i, j \in Nat : /\ InChannel(i, t) /\ InChannel(j, t) => i = j
                         /\ InBatch(i, t) /\ InBatch(j, t) => i = j
                         /\ ~(InChannel(i, t) /\ InBatch(j, t))
    /\ \A v, w \in Threads : Sending(v, t) /\ Sending(w, t) => v = w
    /\ \A i \in Nat, w \in Threads : Sending(w, t) => ~InChannel(i, t) /\ ~InBatch(i, t)

\* The inductive invariant: the flags of live tasks are exact, and those of
\* tasks that are yet to be spawned are clear.
Exact(t) == (queued[t] <=> Coming(t)) /\ Once(t)
IInv == \A t \in Tasks : /\ t \in live => Exact(t)
                         /\ t \notin spawned => ~queued[t] /\ ~Coming(t)

\* The places of an id are what OnTheWay collects.
LEMMA PlacesAreOnTheWay ==
    ASSUME TypeOK, NEW t \in Tasks
    PROVE  /\ OnTheWay(t) # {} <=> Coming(t)
           /\ Once(t) => \A a, b \in OnTheWay(t) : a = b
<1>1. DOMAIN ready = 1..Len(ready) /\ DOMAIN call.batch = 1..Len(call.batch)
  BY LenProperties DEF TypeOK
<1>2. Len(ready) \in Nat /\ Len(call.batch) \in Nat
  BY LenProperties DEF TypeOK
<1>3. \A x : x \in OnTheWay(t) <=>
         \/ \E i \in Nat : InChannel(i, t) /\ x = <<"channel", i>>
         \/ \E i \in Nat : InBatch(i, t) /\ x = <<"batch", i>>
         \/ \E w \in Threads : Sending(w, t) /\ x = <<"sender", w>>
  BY <1>1, <1>2 DEF OnTheWay, InChannel, InBatch, Sending
<1>4. OnTheWay(t) # {} <=> Coming(t)
  BY <1>3 DEF Coming
<1>5. ASSUME Once(t), NEW a \in OnTheWay(t), NEW b \in OnTheWay(t) PROVE a = b
  BY <1>3, <1>5 DEF Once
<1> QED BY <1>4, <1>5

\* What Schedule does to the places of the ids.
LEMMA ScheduleKeepsExact ==
    ASSUME TypeOK, NEW t \in Tasks, NEW u \in Tasks, Schedule(t, queued),
           UNCHANGED <<call, thread>>, queued[t] => Exact(t),
           ~queued[t] => ~Coming(t), u # t => Exact(u)
    PROVE  Exact(u)'
<1> DEFINE n == Len(ready) + 1
<1>1. CASE queued[t]
  <2>1. UNCHANGED <<queued, ready, call, thread>>
    BY <1>1 DEF Schedule
  <2>2. Exact(u)
    BY <1>1
  <2> QED BY <2>1, <2>2 DEF Exact, Coming, Once, InChannel, InBatch, Sending
<1>2. CASE ~queued[t]
  <2>1. queued' = [queued EXCEPT ![t] = TRUE] /\ ready' = Append(ready, t)
    BY <1>2 DEF Schedule
  <2>2. n \in Nat /\ \A i \in Nat : ~InChannel(n, u)
    BY LenProperties DEF TypeOK, InChannel
  <2>3. \A i \in Nat : InChannel(i, u)' <=> InChannel(i, u) \/ (i = n /\ u = t)
    BY <2>1, AppendAt DEF TypeOK, InChannel
  <2>4. \A i \in Nat : InBatch(i, u)' <=> InBatch(i, u)
    BY DEF InBatch
  <2>5. \A w \in Threads : Sending(w, u)' <=> Sending(w, u)
    BY DEF Sending
  <2>6. queued'[u] <=> queued[u] \/ u = t
    BY <2>1 DEF TypeOK
  <2> HIDE DEF n
  <2>7. CASE u = t
    BY <1>2, <2>2, <2>3, <2>4, <2>5, <2>6, <2>7 DEF Exact, Coming, Once
  <2>8. CASE u # t
    BY <2>3, <2>4, <2>5, <2>6, <2>8 DEF Exact, Coming, Once
  <2> QED BY <2>7, <2>8
<1> QED BY <1>1, <1>2
---------------------------------------------------------------------------
\* Steps that leave every id where it is.
LEMMA PlacesUntouched ==
    ASSUME IInv, UNCHANGED <<queued, ready, call>>, live' \subseteq live, spawned' = spawned,
           \A w \in Threads, t \in Tasks : Sending(w, t)' <=> Sending(w, t)
    PROVE  IInv'
<1> SUFFICES ASSUME NEW t \in Tasks
             PROVE  (t \in live => Exact(t)') /\ (t \notin spawned => ~queued'[t] /\ ~Coming(t)')
  BY DEF IInv
<1>1. \A i \in Nat : (InChannel(i, t)' <=> InChannel(i, t)) /\ (InBatch(i, t)' <=> InBatch(i, t))
  BY DEF InChannel, InBatch
<1>2. (Coming(t)' <=> Coming(t)) /\ (Once(t)' <=> Once(t))
  BY <1>1 DEF Coming, Once
<1> QED BY <1>2 DEF IInv, Exact

\* The batch moves up by one, and one task keeps its other places.
LEMMA ShiftedPlaces ==
    ASSUME NEW t \in Tasks,
           \A i \in Nat : InChannel(i, t)' <=> InChannel(i, t),
           \A w \in Threads : Sending(w, t)' <=> Sending(w, t),
           \A i \in Nat : InBatch(i, t)' => InBatch(i + 1, t)
    PROVE  /\ Coming(t)' => Coming(t)
           /\ Once(t) => Once(t)'
           /\ (\A i \in Nat : InBatch(i, t) => i # 0 /\ InBatch(i - 1, t)') => (Coming(t) => Coming(t)')
<1>1. \A i \in Nat : InBatch(i, t)' => i + 1 \in Nat /\ InBatch(i + 1, t)
  OBVIOUS
<1>2. Coming(t)' => Coming(t)
  BY <1>1 DEF Coming
<1>3. ASSUME \A i \in Nat : InBatch(i, t) => i # 0 /\ InBatch(i - 1, t)', Coming(t)
      PROVE  Coming(t)'
  <2>1. \A i \in Nat : InBatch(i, t) => i - 1 \in Nat /\ InBatch(i - 1, t)'
    BY <1>3
  <2> QED BY <1>3, <2>1 DEF Coming
<1>4. ASSUME Once(t) PROVE Once(t)'
  <2>1. \A i, j \in Nat : InBatch(i, t)' /\ InBatch(j, t)' => i = j
    <3> SUFFICES ASSUME NEW i \in Nat, NEW j \in Nat, InBatch(i, t)', InBatch(j, t)' PROVE i = j
      OBVIOUS
    <3>1. i + 1 = j + 1
      BY <1>1, <1>4 DEF Once
    <3> QED BY <3>1
  <2>2. \A i, j \in Nat : ~(InChannel(i, t)' /\ InBatch(j, t)')
    BY <1>1, <1>4 DEF Once
  <2>3. \A i \in Nat, w \in Threads : Sending(w, t)' => ~InChannel(i, t)' /\ ~InBatch(i, t)'
    BY <1>1, <1>4 DEF Once
  <2> QED BY <1>4, <2>1, <2>2, <2>3 DEF Once
<1> QED BY <1>2, <1>3, <1>4

\* The same move, seen from the id.
LEMMA ShiftBack ==
    ASSUME \A t \in Tasks, i \in Nat : InBatch(i, t)' <=> i # 0 /\ InBatch(i + 1, t),
           NEW t \in Tasks, ~InBatch(1, t), ~InBatch(0, t), NEW i \in Nat, InBatch(i, t)
    PROVE  i # 0 /\ InBatch(i - 1, t)'
<1>1. i # 0 /\ i # 1
  OBVIOUS
<1>2. i - 1 \in Nat /\ i - 1 # 0 /\ (i - 1) + 1 = i
  BY <1>1
<1> QED BY <1>1, <1>2

\* Steps of the runner that move, or drop, ids of its batch: an id keeps its flag
\* and its place among the others.
LEMMA BatchMoves ==
    ASSUME IInv, UNCHANGED <<queued, ready, thread>>, live' \subseteq live, spawned' = spawned,
           \A t \in Tasks, i \in Nat : InBatch(i, t)' => InBatch(i + 1, t),
           \A t \in live', i \in Nat : InBatch(i, t) => i # 0 /\ InBatch(i - 1, t)'
    PROVE  IInv'
<1> SUFFICES ASSUME NEW t \in Tasks
             PROVE  (t \in live' => Exact(t)') /\ (t \notin spawned => ~queued'[t] /\ ~Coming(t)')
  BY DEF IInv
<1>1. /\ \A i \in Nat : InChannel(i, t)' <=> InChannel(i, t)
      /\ \A w \in Threads : Sending(w, t)' <=> Sending(w, t)
  BY DEF InChannel, Sending
<1>2. /\ Coming(t)' => Coming(t)
      /\ Once(t) => Once(t)'
      /\ t \in live' => (Coming(t) => Coming(t)')
  BY <1>1, ShiftedPlaces
<1> QED BY <1>2 DEF IInv, Exact
---------------------------------------------------------------------------
\* The invariant holds at first and is kept by every step.
LEMMA IInvInductive ==
    /\ Init => IInv
    /\ TypeOK /\ TypeOK' /\ IInv /\ [Next]_vars => IInv'
<1>1. Init => IInv
  <2> SUFFICES ASSUME Init, NEW t \in Tasks PROVE ~queued[t] /\ ~Coming(t) /\ t \notin live
    BY DEF IInv
  <2>1. Len(ready) = 0 /\ Len(call.batch) = 0
    BY EmptySeq DEF Init, Idle
  <2>2. \A i \in Nat : ~InChannel(i, t) /\ ~InBatch(i, t)
    BY <2>1 DEF InChannel, InBatch
  <2>3. \A w \in Threads : ~Sending(w, t)
    BY DEF Sending, Init, Quiet
  <2> QED BY <2>2, <2>3 DEF Init, Coming
<1>2. ASSUME TypeOK, TypeOK', IInv, [Next]_vars PROVE IInv'
  <2> USE <1>2
  <2> DEFINE h == Head(call.batch)
  <2>0. /\ Len(ready) \in Nat /\ Len(call.batch) \in Nat
        /\ \A w, t : Sending(w, t) <=> thread[w] = [stage |-> "send", task |-> t]
    BY LenProperties DEF TypeOK, Sending
  <2>1. ASSUME NEW s \in Tasks, Spawn(s) PROVE IInv'
    <3> SUFFICES ASSUME NEW t \in Tasks
                 PROVE  (t \in live' => Exact(t)') /\ (t \notin spawned' => ~queued'[t] /\ ~Coming(t)')
      BY DEF IInv
    <3>1. /\ s \notin spawned /\ Schedule(s, queued) /\ UNCHANGED <<call, thread>>
          /\ spawned' = spawned \union {s} /\ live' = live \union {s}
      BY <2>1 DEF Spawn, threadVars
    <3>2. ~queued[s] /\ ~Coming(s)
      BY <3>1 DEF IInv
    <3>3. CASE t \in live'
      <4>1. t # s => Exact(t)
        BY <3>1, <3>3 DEF IInv
      <4>2. Exact(t)'
        BY <3>1, <3>2, <4>1, ScheduleKeepsExact
      <4> QED BY <3>1, <3>3, <4>2 DEF TypeOK
    <3>4. CASE t \notin spawned'
      <4>1. t # s /\ t \notin spawned /\ t \notin live' /\ ~queued[t] /\ ~Coming(t)
        BY <3>1, <3>4 DEF IInv, TypeOK
      <4>2. queued' = [queued EXCEPT ![s] = TRUE] /\ ready' = Append(ready, s)
        BY <3>1, <3>2 DEF Schedule
      <4>3. \A i \in Nat : (InChannel(i, t)' => InChannel(i, t)) /\ (InBatch(i, t)' => InBatch(i, t))
        BY <2>0, <3>1, <4>1, <4>2, AppendAt, SMTT(30) DEF TypeOK, InChannel, InBatch
      <4>4. \A w \in Threads : Sending(w, t)' => Sending(w, t)
        BY <3>1 DEF Sending
      <4>5. ~queued'[t] /\ ~Coming(t)'
        BY <4>1, <4>2, <4>3, <4>4 DEF Coming, TypeOK
      <4> QED BY <4>1, <4>5
    <3> QED BY <3>3, <3>4
  <2>2. ASSUME NEW d \in Delays, ScheduleAfter(d) PROVE IInv'
    BY <2>2, PlacesUntouched DEF ScheduleAfter, threadVars, Sending
  <2>3. ASSUME NEW n \in Limits, BeginPoll(n) PROVE IInv'
    <3>1. call.batch = <<>> /\ call'.batch = <<>>
      BY <2>3 DEF BeginPoll, Idle, TypeOK
    <3>2. \A t \in Tasks, i \in Nat : ~InBatch(i, t) /\ ~InBatch(i, t)'
      BY <3>1, EmptySeq DEF InBatch
    <3> QED BY <2>3, <3>2, BatchMoves DEF BeginPoll, threadVars, TypeOK
  <2>4. CASE SelectReady
    <3>1. /\ ready # <<>> /\ ready' = Tail(ready) /\ call'.batch = Append(call.batch, Head(ready))
          /\ call.stage = "select" /\ call'.stage = "select"
          /\ UNCHANGED <<live, spawned, queued, thread>>
      BY <2>4 DEF SelectReady, Selecting, threadVars, TypeOK
    <3> DEFINE m == Len(call.batch) + 1
    <3>2. \A t \in Tasks, i \in Nat : InChannel(i, t)' <=> i # 0 /\ InChannel(i + 1, t)
      BY <2>0, <3>1, HeadAndTail, SMTT(30) DEF TypeOK, InChannel
    <3>3. \A t \in Tasks, i \in Nat : InBatch(i, t)' <=> InBatch(i, t) \/ (i = m /\ InChannel(1, t))
      <4>1. Head(ready) = ready[1] /\ Head(ready) \in Tasks /\ 1 \in 1..Len(ready)
        BY <2>0, <3>1, HeadAndTail DEF TypeOK
      <4> QED BY <2>0, <3>1, <4>1, AppendAt, SMTT(30) DEF TypeOK, InBatch, InChannel
    <3>4. m \in Nat /\ \A t \in Tasks : ~InBatch(m, t) /\ ~InChannel(0, t)
      BY <2>0 DEF InBatch, InChannel
    <3>5. \A t \in Tasks, w \in Threads : Sending(w, t)' <=> Sending(w, t)
      BY <3>1 DEF Sending
    <3> HIDE DEF m
    <3> SUFFICES ASSUME NEW t \in Tasks
                 PROVE  (t \in live => Exact(t)') /\ (t \notin spawned => ~queued'[t] /\ ~Coming(t)')
      BY <3>1 DEF IInv
    <3>6. \A i \in Nat : InChannel(i, t) => i = 1 \/ (i - 1 \in Nat /\ InChannel(i - 1, t)')
      <4> SUFFICES ASSUME NEW i \in Nat, InChannel(i, t), i # 1
                   PROVE  i - 1 \in Nat /\ InChannel(i - 1, t)'
        OBVIOUS
      <4>1. i - 1 \in Nat /\ i - 1 # 0 /\ (i - 1) + 1 = i
        BY <3>4
      <4> QED BY <3>2, <4>1
    <3>7. Coming(t)' <=> Coming(t)
      <4>1. Coming(t)' => Coming(t)
        BY <3>2, <3>3, <3>5 DEF Coming
      <4>2. Coming(t) => Coming(t)'
        BY <3>3, <3>4, <3>5, <3>6 DEF Coming
      <4> QED BY <4>1, <4>2
    <3>8. Once(t) => Once(t)'
      <4> SUFFICES ASSUME Once(t) PROVE Once(t)'
        OBVIOUS
      <4>1. \A i, j \in Nat : InChannel(i, t)' /\ InChannel(j, t)' => i = j
        <5> SUFFICES ASSUME NEW i \in Nat, NEW j \in Nat, InChannel(i, t)', InChannel(j, t)' PROVE i = j
          OBVIOUS
        <5>1. i + 1 = j + 1
          BY <3>2 DEF Once
        <5> QED BY <5>1
      <4>2. \A i, j \in Nat : InBatch(i, t)' /\ InBatch(j, t)' => i = j
        BY <3>3 DEF Once
      <4>3. \A i, j \in Nat : ~(InChannel(i, t)' /\ InBatch(j, t)')
        <5> SUFFICES ASSUME NEW i \in Nat, NEW j \in Nat, InChannel(i, t)', InBatch(j, t)' PROVE FALSE
          OBVIOUS
        <5>1. i # 0 /\ i + 1 \in Nat /\ InChannel(i + 1, t)
          BY <3>2
        <5>2. InBatch(j, t) \/ InChannel(1, t)
          BY <3>3
        <5>3. i + 1 # 1
          BY <5>1
        <5> QED BY <5>1, <5>2, <5>3 DEF Once
      <4>4. \A i \in Nat, w \in Threads : Sending(w, t)' => ~InChannel(i, t)' /\ ~InBatch(i, t)'
        BY <3>2, <3>3, <3>5 DEF Once
      <4> QED BY <3>5, <4>1, <4>2, <4>3, <4>4 DEF Once
    <3> QED BY <3>1, <3>7, <3>8 DEF IInv, Exact
  <2>5. CASE SelectTimer
    <3>1. \A t \in Tasks, i \in Nat : InBatch(i, t)' <=> InBatch(i, t)
      BY <2>5 DEF SelectTimer, Selecting, InBatch, TypeOK
    <3> QED BY <2>5, <3>1 DEF SelectTimer, IInv, Exact, Coming, Once, InChannel, Sending, threadVars
  <2>6. CASE EndSelect
    <3>1. \A t \in Tasks, i \in Nat : InBatch(i, t)' <=> InBatch(i, t)
      BY <2>6 DEF EndSelect, InBatch, TypeOK
    <3> QED BY <2>6, <3>1 DEF EndSelect, IInv, Exact, Coming, Once, InChannel, Sending, threadVars
  <2>7. CASE SkipGone
    <3>1. /\ call.stage = "clear" /\ call'.stage = "clear" /\ h \notin live
          /\ call.batch # <<>> /\ call'.batch = Tail(call.batch)
          /\ UNCHANGED <<live, spawned, queued, ready, thread>>
      BY <2>7 DEF SkipGone, threadVars, TypeOK
    <3>2. /\ \A t \in Tasks, i \in Nat : InBatch(i, t)' <=> i # 0 /\ InBatch(i + 1, t)
          /\ \A t \in live : ~InBatch(1, t) /\ ~InBatch(0, t)
      BY <2>0, <3>1, HeadAndTail, SMTT(30) DEF TypeOK, InBatch
    <3>3. \A t \in live, i \in Nat : InBatch(i, t) => i # 0 /\ InBatch(i - 1, t)'
      <4> SUFFICES ASSUME NEW t \in live, NEW i \in Nat, InBatch(i, t)
                   PROVE  i # 0 /\ InBatch(i - 1, t)'
        OBVIOUS
      <4>1. i # 0 /\ i # 1 /\ t \in Tasks
        BY <3>2, ZenonT(40) DEF TypeOK
      <4>2. i - 1 \in Nat /\ i - 1 # 0 /\ (i - 1) + 1 = i
        BY <4>1
      <4> QED BY <3>2, <4>1, <4>2
    <3> QED BY <3>1, <3>2, <3>3, BatchMoves
  <2>8. CASE ClearQueued
    <3>1. /\ call.stage = "clear" /\ call'.stage = "run" /\ h \in live
          /\ call.batch # <<>> /\ call'.batch = call.batch /\ queued' = [queued EXCEPT ![h] = FALSE]
          /\ UNCHANGED <<live, spawned, ready, thread>>
      BY <2>8 DEF ClearQueued, threadVars, TypeOK
    <3>2. \A t \in Tasks, i \in Nat : InBatch(i, t)' <=> i # 1 /\ InBatch(i, t)
      BY <3>1 DEF InBatch
    <3>3. \A t \in Tasks : InBatch(1, t) <=> t = h
      BY <2>0, <3>1, HeadAndTail, SMTT(30) DEF TypeOK, InBatch
    <3>4. \A t \in Tasks : /\ \A i \in Nat : InChannel(i, t)' <=> InChannel(i, t)
                           /\ \A w \in Threads : Sending(w, t)' <=> Sending(w, t)
      BY <3>1 DEF InChannel, Sending
    <3> SUFFICES ASSUME NEW t \in Tasks
                 PROVE  (t \in live => Exact(t)') /\ (t \notin spawned => ~queued'[t] /\ ~Coming(t)')
      BY <3>1 DEF IInv
    <3> HIDE DEF h
    <3>5. Once(t) => Once(t)'
      BY <3>2, <3>4 DEF Once
    <3>6. CASE t = h
      <4>1. Exact(t) /\ t \in live /\ t \in spawned
        BY <3>1, <3>6 DEF IInv, TypeOK
      <4>2. ~Coming(t)'
        BY <3>2, <3>3, <3>4, <3>6, <4>1 DEF Coming, Exact, Once
      <4> QED BY <3>1, <3>5, <3>6, <4>1, <4>2 DEF Exact, TypeOK
    <3>7. CASE t # h
      <4>1. Coming(t)' <=> Coming(t)
        BY <3>2, <3>3, <3>4, <3>7 DEF Coming
      <4> QED BY <3>1, <3>5, <3>7, <4>1 DEF IInv, Exact, TypeOK
    <3> QED BY <3>6, <3>7
  <2>9. ASSUME NEW selfWake \in BOOLEAN, Pending(selfWake) PROVE IInv'
    <3>1. /\ call.stage = "run" /\ call'.stage = "clear" /\ h \in Tasks
          /\ call.batch # <<>> /\ call'.batch = Tail(call.batch)
          /\ UNCHANGED <<live, spawned, thread>>
          /\ IF selfWake THEN Schedule(h, queued) ELSE UNCHANGED <<queued, ready>>
      BY <2>9, HeadAndTail DEF Pending, RunBegun, AfterRun, threadVars, TypeOK
    <3>2. /\ \A t \in Tasks, i \in Nat : InBatch(i, t)' <=> i # 0 /\ InBatch(i + 1, t)
          /\ \A t \in Tasks : ~InBatch(1, t) /\ ~InBatch(0, t)
      BY <2>0, <3>1, HeadAndTail, SMTT(30) DEF TypeOK, InBatch
    <3>3. h \in live /\ h \in spawned
      BY <3>1 DEF TypeOK
    <3> HIDE DEF h
    <3>4. \A t \in Tasks, i \in Nat : InBatch(i, t) => i # 0 /\ InBatch(i - 1, t)'
      BY <3>2, ShiftBack
    <3>5. CASE UNCHANGED <<queued, ready>>
      BY <3>1, <3>2, <3>4, <3>5, BatchMoves DEF TypeOK
    <3>6. CASE ~UNCHANGED <<queued, ready>>
      <4> DEFINE n == Len(ready) + 1
      <4>1. ~queued[h] /\ queued' = [queued EXCEPT ![h] = TRUE] /\ ready' = Append(ready, h)
        BY <3>1, <3>6 DEF Schedule, TypeOK
      <4>2. n \in Nat /\ \A t \in Tasks : ~InChannel(n, t)
        BY <2>0 DEF InChannel
      <4>3. \A t \in Tasks, i \in Nat : InChannel(i, t)' <=> InChannel(i, t) \/ (i = n /\ t = h)
        BY <3>1, <4>1, AppendAt, SMTT(30) DEF TypeOK, InChannel
      <4>4. \A t \in Tasks, w \in Threads : Sending(w, t)' <=> Sending(w, t)
        BY <3>1 DEF Sending
      <4> HIDE DEF n
      <4> SUFFICES ASSUME NEW t \in Tasks
                   PROVE  (t \in live => Exact(t)') /\ (t \notin spawned => ~queued'[t] /\ ~Coming(t)')
        BY <3>1 DEF IInv
      <4>5. CASE t = h
        <5>1. ~Coming(t) /\ t \in spawned
          BY <3>1, <3>3, <4>1, <4>5 DEF IInv, Exact
        <5>2. \A i \in Nat : ~InBatch(i, t)'
          <6>1. \A i \in Nat : InBatch(i, t)' => i + 1 \in Nat /\ InBatch(i + 1, t)
            BY <3>2
          <6> QED BY <5>1, <6>1 DEF Coming
        <5>3. \A i \in Nat : InChannel(i, t)' <=> i = n
          BY <4>3, <4>5, <5>1 DEF Coming
        <5>4. \A w \in Threads : ~Sending(w, t)'
          BY <4>4, <5>1 DEF Coming
        <5>5. Coming(t)' /\ Once(t)'
          BY <4>2, <5>2, <5>3, <5>4 DEF Coming, Once
        <5>6. queued'[t]
          BY <3>1, <4>1, <4>5 DEF TypeOK
        <5> QED BY <5>1, <5>5, <5>6 DEF Exact
      <4>6. CASE t # h
        <5>1. \A i \in Nat : InChannel(i, t)' <=> InChannel(i, t)
          BY <4>3, <4>6
        <5>2. (Coming(t)' <=> Coming(t)) /\ (Once(t) => Once(t)')
          BY <3>2, <3>4, <4>4, <5>1, ShiftedPlaces
        <5>3. queued'[t] = queued[t]
          BY <4>1, <4>6 DEF TypeOK
        <5> QED BY <5>2, <5>3 DEF IInv, Exact
      <4> QED BY <4>5, <4>6
    <3> QED BY <3>5, <3>6
  <2>10. CASE Complete
    <3>1. /\ call.stage = "run" /\ call'.stage = "clear"
          /\ call.batch # <<>> /\ call'.batch = Tail(call.batch)
          /\ live' \subseteq live /\ UNCHANGED <<spawned, thread, queued, ready>>
      BY <2>10 DEF Complete, RunBegun, AfterRun, threadVars, TypeOK
    <3>2. /\ \A t \in Tasks, i \in Nat : InBatch(i, t)' <=> i # 0 /\ InBatch(i + 1, t)
          /\ \A t \in Tasks : ~InBatch(1, t) /\ ~InBatch(0, t)
      BY <2>0, <3>1, HeadAndTail, SMTT(30) DEF TypeOK, InBatch
    <3>3. \A t \in Tasks, i \in Nat : InBatch(i, t) => i # 0 /\ InBatch(i - 1, t)'
      BY <3>2, ShiftBack
    <3>4. live' \subseteq Tasks
      BY <3>1 DEF TypeOK
    <3> QED BY <3>1, <3>2, <3>3, <3>4, BatchMoves
  <2>11. CASE EndPoll
    <3>1. call.batch = <<>> /\ call'.batch = <<>>
      BY <2>11 DEF EndPoll, Idle
    <3>2. \A t \in Tasks, i \in Nat : ~InBatch(i, t) /\ ~InBatch(i, t)'
      BY <3>1, EmptySeq DEF InBatch
    <3> QED BY <2>11, <3>2, BatchMoves DEF EndPoll, threadVars, TypeOK
  <2>12. ASSUME NEW w \in Threads, NEW s \in Tasks, Fire(w, s) PROVE IInv'
    <3>1. \A v \in Threads, t \in Tasks : Sending(v, t)' <=> Sending(v, t)
      BY <2>12, SMTT(30) DEF Fire, Sending, Quiet, TypeOK
    <3> QED BY <2>12, <3>1, PlacesUntouched DEF Fire, runnerVars
  <2>13. ASSUME NEW w \in Threads, Swap(w) PROVE IInv'
    <3> DEFINE s == thread[w].task
    <3>1. /\ s \in Tasks /\ s \in spawned /\ thread[w] = [stage |-> "swap", task |-> s]
          /\ queued' = [queued EXCEPT ![s] = TRUE]
          /\ UNCHANGED <<live, spawned, ready, call>>
      BY <2>13 DEF Swap, runnerVars, TypeOK, Quiet
    <3>2. thread' = [thread EXCEPT ![w] = IF queued[s] THEN Quiet ELSE [stage |-> "send", task |-> s]]
      BY <2>13 DEF Swap
    <3>3. \A v \in Threads, t \in Tasks :
             Sending(v, t)' <=> Sending(v, t) \/ (v = w /\ t = s /\ ~queued[s])
      BY <3>1, <3>2, SMTT(30) DEF Sending, Quiet, TypeOK
    <3>4. \A t \in Tasks : ~Sending(w, t)
      BY <3>1 DEF Sending
    <3>5. \A t \in Tasks, i \in Nat : (InChannel(i, t)' <=> InChannel(i, t)) /\ (InBatch(i, t)' <=> InBatch(i, t))
      BY <3>1 DEF InChannel, InBatch
    <3>6. \A t \in Tasks : queued'[t] <=> queued[t] \/ t = s
      BY <3>1 DEF TypeOK
    <3> HIDE DEF s
    <3> SUFFICES ASSUME NEW t \in Tasks
                 PROVE  (t \in live => Exact(t)') /\ (t \notin spawned => ~queued'[t] /\ ~Coming(t)')
      BY <3>1 DEF IInv
    <3>7. CASE t = s /\ ~queued[s]
      <4>1. t \in live => Exact(t) /\ ~Coming(t)
        BY <3>7 DEF IInv, Exact
      <4>2. t \in live => Coming(t)' /\ Once(t)'
        BY <3>3, <3>5, <3>7, <4>1 DEF Coming, Once
      <4> QED BY <3>1, <3>6, <3>7, <4>2 DEF Exact
    <3>8. CASE ~(t = s /\ ~queued[s])
      <4>1. (Coming(t)' <=> Coming(t)) /\ (Once(t)' <=> Once(t))
        BY <3>3, <3>5, <3>8 DEF Coming, Once
      <4>2. queued'[t] <=> queued[t]
        BY <3>6, <3>8
      <4> QED BY <4>1, <4>2 DEF IInv, Exact
    <3> QED BY <3>7, <3>8
  <2>14. ASSUME NEW w \in Threads, SendId(w) PROVE IInv'
    <3> DEFINE s == thread[w].task
               n == Len(ready) + 1
    <3>1. /\ s \in Tasks /\ s \in spawned /\ thread[w] = [stage |-> "send", task |-> s]
          /\ ready' = Append(ready, s) /\ thread' = [thread EXCEPT ![w] = Quiet]
          /\ UNCHANGED <<live, spawned, queued, call>>
      BY <2>14 DEF SendId, runnerVars, TypeOK, Quiet
    <3>2. \A v \in Threads, t \in Tasks : Sending(v, t)' <=> Sending(v, t) /\ v # w
      BY <3>1 DEF Sending, Quiet, TypeOK
    <3>3. Sending(w, s) /\ \A t \in Tasks : Sending(w, t) => t = s
      BY <3>1 DEF Sending
    <3>4. n \in Nat /\ \A t \in Tasks : ~InChannel(n, t)
      BY <2>0 DEF InChannel
    <3>5. \A t \in Tasks, i \in Nat : InChannel(i, t)' <=> InChannel(i, t) \/ (i = n /\ t = s)
      BY <3>1, AppendAt, SMTT(30) DEF TypeOK, InChannel
    <3>6. \A t \in Tasks, i \in Nat : InBatch(i, t)' <=> InBatch(i, t)
      BY <3>1 DEF InBatch
    <3> HIDE DEF s, n
    <3> SUFFICES ASSUME NEW t \in Tasks
                 PROVE  (t \in live => Exact(t)') /\ (t \notin spawned => ~queued'[t] /\ ~Coming(t)')
      BY <3>1 DEF IInv
    <3>7. CASE t = s
      <4>1. Coming(t) /\ Coming(t)'
        BY <3>3, <3>4, <3>5, <3>7 DEF Coming
      <4>2. Once(t) => Once(t)'
        BY <3>2, <3>3, <3>4, <3>5, <3>6, <3>7 DEF Once
      <4> QED BY <3>1, <3>7, <4>1, <4>2 DEF IInv, Exact
    <3>8. CASE t # s
      <4>1. \A v \in Threads : Sending(v, t)' <=> Sending(v, t)
        BY <3>2, <3>3, <3>8
      <4>2. (Coming(t)' <=> Coming(t)) /\ (Once(t)' <=> Once(t))
        BY <3>5, <3>6, <3>8, <4>1 DEF Coming, Once
      <4> QED BY <3>1, <4>2 DEF IInv, Exact
    <3> QED BY <3>7, <3>8
  <2>15. CASE Tick
    BY <2>15, PlacesUntouched DEF Tick, runnerVars, threadVars, Sending
  <2>16. CASE UNCHANGED vars
    BY <2>16, PlacesUntouched DEF vars, runnerVars, threadVars, Sending
  <2> QED BY <2>1, <2>2, <2>3, <2>4, <2>5, <2>6, <2>7, <2>8, <2>9, <2>10, <2>11, <2>12,
             <2>13, <2>14, <2>15, <2>16 DEF Next, PollStep, Outside, WakerStep
<1> QED BY <1>1, <1>2
---------------------------------------------------------------------------
\* The queued flag of a live task says exactly whether its id is on the way to a
\* poll, and it is there once: TaskWake::schedule and poll_ready agree.
THEOREM FlagsAreExact == Spec => []FlagMatchesChannel
<1>1. TypeOK /\ IInv => FlagMatchesChannel
  BY PlacesAreOnTheWay DEF FlagMatchesChannel, IInv, Exact, TypeOK
<1> QED BY <1>1, SchedulerTypeCorrect, IInvInductive, PTL DEF Spec
---------------------------------------------------------------------------
\* With exact flags, a wake is not lost iff its flag is set, its poll has begun or
\* its thread is about to swap the flag: that is inductive by itself.
Swapping(t) == \E w \in Threads : thread[w] = [stage |-> "swap", task |-> t]
Flagged == \A t \in owed \intersect live : queued[t] \/ Running(t) \/ Swapping(t)

LEMMA FlaggedInductive ==
    /\ Init => Flagged
    /\ TypeOK /\ Flagged /\ [Next]_vars => Flagged'
<1>1. Init => Flagged
  BY DEF Init, Flagged
<1>2. ASSUME TypeOK, Flagged, [Next]_vars PROVE Flagged'
  <2> USE <1>2
  <2> SUFFICES ASSUME NEW t \in owed', t \in live'
               PROVE  queued'[t] \/ Running(t)' \/ Swapping(t)'
    BY DEF Flagged
  <2>1. ASSUME NEW s \in Tasks, Spawn(s) PROVE queued'[t] \/ Running(t)' \/ Swapping(t)'
    <3>1. t # s /\ t \in owed /\ t \in live /\ t \in Tasks /\ UNCHANGED <<call, thread>>
      BY <2>1 DEF Spawn, TypeOK, threadVars
    <3>2. queued[t] => queued'[t]
      BY <2>1, <3>1 DEF Spawn, Schedule, TypeOK
    <3> QED BY <3>1, <3>2 DEF Flagged, Running, Swapping
  <2>2. ASSUME NEW d \in Delays, ScheduleAfter(d) PROVE queued'[t] \/ Running(t)' \/ Swapping(t)'
    BY <2>2 DEF ScheduleAfter, Flagged, Running, Swapping, threadVars
  <2>3. ASSUME NEW n \in Limits, BeginPoll(n) PROVE queued'[t] \/ Running(t)' \/ Swapping(t)'
    BY <2>3 DEF BeginPoll, Flagged, Running, Swapping, threadVars
  <2>4. CASE SelectReady
    BY <2>4 DEF SelectReady, Selecting, Flagged, Running, Swapping, threadVars
  <2>5. CASE SelectTimer
    BY <2>5 DEF SelectTimer, Selecting, Flagged, Running, Swapping, threadVars
  <2>6. CASE EndSelect
    BY <2>6 DEF EndSelect, Flagged, Running, Swapping, threadVars
  <2>7. CASE SkipGone
    BY <2>7 DEF SkipGone, Flagged, Running, Swapping, threadVars
  <2>8. CASE ClearQueued
    <3>1. /\ call.stage = "clear" /\ call'.stage = "run" /\ call'.batch = call.batch
          /\ queued' = [queued EXCEPT ![Head(call.batch)] = FALSE]
          /\ UNCHANGED <<live, owed, thread>>
      BY <2>8 DEF ClearQueued, threadVars, TypeOK
    <3>2. t = Head(call.batch) => Running(t)'
      BY <3>1 DEF Running
    <3>3. t # Head(call.batch) => queued'[t] = queued[t]
      BY <3>1 DEF TypeOK
    <3> QED BY <3>1, <3>2, <3>3 DEF Flagged, Running, Swapping
  <2>9. ASSUME NEW selfWake \in BOOLEAN, Pending(selfWake)
        PROVE  queued'[t] \/ Running(t)' \/ Swapping(t)'
    <3>1. /\ call.stage = "run" /\ owed' = owed \ {Head(call.batch)}
          /\ UNCHANGED <<live, thread>>
          /\ IF selfWake THEN Schedule(Head(call.batch), queued) ELSE UNCHANGED queued
      BY <2>9 DEF Pending, RunBegun, threadVars
    <3>2. queued[t] => queued'[t]
      BY <3>1 DEF Schedule, TypeOK
    <3> QED BY <3>1, <3>2 DEF Flagged, Running, Swapping
  <2>10. CASE Complete
    BY <2>10 DEF Complete, RunBegun, Flagged, Running, Swapping, threadVars
  <2>11. CASE EndPoll
    BY <2>11 DEF EndPoll, Flagged, Running, Swapping, threadVars
  <2>12. ASSUME NEW w \in Threads, NEW s \in Tasks, Fire(w, s)
         PROVE  queued'[t] \/ Running(t)' \/ Swapping(t)'
    <3>1. /\ thread[w] = Quiet /\ thread' = [thread EXCEPT ![w] = [stage |-> "swap", task |-> s]]
          /\ owed' = owed \union {s} /\ UNCHANGED <<live, call, queued>>
      BY <2>12 DEF Fire, runnerVars
    <3>2. t = s => Swapping(t)'
      BY <3>1 DEF Swapping, TypeOK
    <3>3. Swapping(t) => Swapping(t)'
      BY <3>1 DEF Swapping, Quiet, TypeOK
    <3> QED BY <3>1, <3>2, <3>3 DEF Flagged, Running
  <2>13. ASSUME NEW w \in Threads, Swap(w) PROVE queued'[t] \/ Running(t)' \/ Swapping(t)'
    <3>1. /\ queued' = [queued EXCEPT ![thread[w].task] = TRUE]
          /\ \A v \in Threads : v # w => thread'[v] = thread[v]
          /\ UNCHANGED <<live, call, owed>>
      BY <2>13 DEF Swap, runnerVars, TypeOK
    <3>2. t \in Tasks
      BY <3>1 DEF TypeOK
    <3>3. CASE t = thread[w].task
      BY <3>1, <3>2, <3>3 DEF TypeOK
    <3>4. CASE t # thread[w].task
      <4>1. Swapping(t) => Swapping(t)'
        BY <3>1, <3>4 DEF Swapping
      <4>2. queued'[t] = queued[t]
        BY <3>1, <3>2, <3>4 DEF TypeOK
      <4> QED BY <3>1, <4>1, <4>2 DEF Flagged, Running
    <3> QED BY <3>3, <3>4
  <2>14. ASSUME NEW w \in Threads, SendId(w) PROVE queued'[t] \/ Running(t)' \/ Swapping(t)'
    <3>1. Swapping(t) => Swapping(t)'
      BY <2>14 DEF SendId, Swapping, TypeOK
    <3> QED BY <2>14, <3>1 DEF SendId, runnerVars, Flagged, Running
  <2>15. CASE Tick
    BY <2>15 DEF Tick, Flagged, Running, Swapping, runnerVars, threadVars
  <2>16. CASE UNCHANGED vars
    BY <2>16 DEF vars, Flagged, Running, Swapping, runnerVars, threadVars
  <2> QED BY <2>1, <2>2, <2>3, <2>4, <2>5, <2>6, <2>7, <2>8, <2>9, <2>10, <2>11, <2>12,
             <2>13, <2>14, <2>15, <2>16 DEF Next, PollStep, Outside, WakerStep
<1> QED BY <1>1, <1>2

\* An event announced to a live task is never forgotten: a poll that will see it is
\* on its way, whatever the interleaving of wakers and poll_ready.
THEOREM WakesAreNotLost == Spec => []NoLostWake
<1>1. TypeOK /\ IInv /\ Flagged => NoLostWake
  <2> SUFFICES ASSUME TypeOK, IInv, Flagged, NEW t \in owed \intersect live
               PROVE  OnTheWay(t) # {} \/ Running(t) \/ Swapping(t)
    BY DEF NoLostWake, Swapping
  <2>1. queued[t] => Coming(t)
    BY DEF IInv, Exact, TypeOK
  <2>2. t \in Tasks
    BY DEF TypeOK
  <2> QED BY <2>1, <2>2, PlacesAreOnTheWay DEF Flagged
<1> QED BY <1>1, SchedulerTypeCorrect, IInvInductive, FlaggedInductive, PTL DEF Spec
---------------------------------------------------------------------------
(* Alternation.  A kind that was passed over is still ready and is preferred: *)
(* nobody but the selection takes an id off the channel or a timer away.     *)
Preferred ==
    /\ passed.futures = 0 \/ (passed.futures = 1 /\ preferFuture /\ ready # <<>>)
    /\ passed.timers = 0 \/ (passed.timers = 1 /\ ~preferFuture /\ TimerReady)

\* What is ready stays ready, and the preference with it, in steps that select nothing.
LEMMA StaysPreferred ==
    ASSUME Preferred, UNCHANGED <<passed, preferFuture>>, timers \subseteq timers',
           now' = now, ready # <<>> => ready' # <<>>
    PROVE  Preferred'
BY DEF Preferred, TimerReady

LEMMA ScheduleKeepsReady ==
    ASSUME TypeOK, NEW t \in Tasks, Schedule(t, queued)
    PROVE  ready # <<>> => ready' # <<>>
<1>1. Append(ready, t) # <<>>
  BY AppendedIsNotEmpty DEF TypeOK
<1> QED BY <1>1 DEF Schedule

LEMMA PreferredInductive ==
    /\ Init => Preferred
    /\ TypeOK /\ Preferred /\ [Next]_vars => Preferred'
<1>1. Init => Preferred
  BY DEF Init, Preferred
<1>2. ASSUME TypeOK, Preferred, [Next]_vars PROVE Preferred'
  <2> USE <1>2
  <2>1. ASSUME NEW s \in Tasks, Spawn(s) PROVE Preferred'
    BY <2>1, StaysPreferred, ScheduleKeepsReady DEF Spawn
  <2>2. ASSUME NEW d \in Delays, ScheduleAfter(d) PROVE Preferred'
    BY <2>2, StaysPreferred DEF ScheduleAfter
  <2>3. ASSUME NEW n \in Limits, BeginPoll(n) PROVE Preferred'
    BY <2>3, StaysPreferred DEF BeginPoll
  <2>4. CASE SelectReady
    <3>1. (preferFuture \/ ~TimerReady) /\ preferFuture' = FALSE /\ FutureSelected
          /\ timers' = timers /\ now' = now
      BY <2>4 DEF SelectReady
    <3>2. passed.timers = 0 /\ TimerReady' = TimerReady
      BY <3>1 DEF Preferred, TimerReady
    <3> QED BY <3>1, <3>2 DEF FutureSelected, More, Preferred
  <2>5. CASE SelectTimer
    <3>1. (preferFuture => ready = <<>>) /\ preferFuture' = TRUE /\ TimerSelected /\ ready' = ready
      BY <2>5 DEF SelectTimer
    <3>2. passed.futures = 0
      BY <3>1 DEF Preferred
    <3> QED BY <3>1, <3>2 DEF TimerSelected, More, Preferred
  <2>6. CASE EndSelect \/ SkipGone \/ ClearQueued \/ Complete \/ EndPoll
    BY <2>6, StaysPreferred DEF EndSelect, SkipGone, ClearQueued, Complete, EndPoll
  <2>7. ASSUME NEW selfWake \in BOOLEAN, Pending(selfWake) PROVE Preferred'
    <3>1. Head(call.batch) \in Tasks
      BY <2>7, HeadAndTail DEF Pending, RunBegun, TypeOK
    <3>2. ready # <<>> => ready' # <<>>
      BY <2>7, <3>1, ScheduleKeepsReady DEF Pending
    <3> QED BY <2>7, <3>2, StaysPreferred DEF Pending
  <2>8. ASSUME NEW w \in Threads, NEW t \in Tasks, Fire(w, t) PROVE Preferred'
    BY <2>8, StaysPreferred DEF Fire, runnerVars
  <2>9. ASSUME NEW w \in Threads, Swap(w) PROVE Preferred'
    BY <2>9, StaysPreferred DEF Swap, runnerVars
  <2>10. ASSUME NEW w \in Threads, SendId(w) PROVE Preferred'
    <3>1. thread[w].task \in Tasks
      BY <2>10 DEF SendId, TypeOK, Quiet
    <3>2. Append(ready, thread[w].task) # <<>>
      BY <3>1, AppendedIsNotEmpty DEF TypeOK
    <3> QED BY <2>10, <3>2, StaysPreferred DEF SendId, runnerVars
  <2>11. CASE Tick
    BY <2>11, SchedulerAssumption DEF Tick, runnerVars, Preferred, TimerReady, TypeOK, SchedulerAssumption
  <2>12. CASE UNCHANGED vars
    BY <2>12, StaysPreferred DEF vars, runnerVars
  <2> QED BY <2>1, <2>2, <2>3, <2>4, <2>5, <2>6, <2>7, <2>8, <2>9, <2>10, <2>11, <2>12
       DEF Next, PollStep, Outside, WakerStep
<1> QED BY <1>1, <1>2

\* Neither a stream of due timers nor a future that wakes itself on every poll keeps the
\* other kind waiting for more than one item, whatever the limits of the calls.
THEOREM KindsAlternate == Spec => []NoneIsPassedTwice
<1>1. Preferred => NoneIsPassedTwice
  BY DEF Preferred, NoneIsPassedTwice
<1> QED BY <1>1, SchedulerTypeCorrect, PreferredInductive, PTL DEF Spec
===========================================================================
