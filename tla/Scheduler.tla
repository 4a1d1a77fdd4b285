----------------------------- MODULE Scheduler -----------------------------
(***************************************************************************)
(* The command scheduler of the runtime: spawned futures, the TaskWake     *)
(* handles their wakers clone, the mpsc channel of ready task ids, and the *)
(* timers of Command::after.                                               *)
(*                                                                         *)
(* The runner thread calls spawn, schedule_after and poll_ready.  Waker    *)
(* threads make something ready for a future and then call wake at any     *)
(* time, also while the runner is inside poll_ready.  Each atomic access   *)
(* they share with the runner (the swap and the store of TaskWake::queued, *)
(* the channel) is a step, in sequentially consistent order.  The signal   *)
(* they ring after the channel is in module MessageLoop.                   *)
(***************************************************************************)
EXTENDS Naturals, Sequences

CONSTANTS Tasks,      \* the futures the application ever spawns
          Threads,    \* threads that hold wakers
          Delays,     \* delays given to schedule_after
          Limits,     \* work limits given to poll_ready
          MaxWakes,   \* bound: wakes per thread
          MaxTimers,  \* bound: timers ever scheduled
          MaxTime     \* bound: ticks of the monotonic clock

ASSUME SchedulerAssumption ==
    /\ Delays \subseteq Nat
    /\ Limits \subseteq Nat \ {0}
    /\ MaxWakes \in Nat /\ MaxTimers \in Nat /\ MaxTime \in Nat

VARIABLES
    live,         \* keys of Scheduler::tasks
    spawned,      \* tasks ever spawned: ids are not used twice
    queued,       \* TaskWake::queued of each task
    ready,        \* the channel of ready ids
    timers,       \* pending timers: [deadline, order]
    nextTimerOrder, \* Scheduler::next_timer_order
    preferFuture, \* Scheduler::prefer_future
    now,          \* Clock::now
    call,         \* poll_ready: its stage, limit, batch and count
    thread,       \* per waker thread: where it is in TaskWake::schedule, which task
    wakes,        \* per waker thread: wakes begun
    owed,         \* history: tasks with an event that no poll has observed yet
    passed        \* history: items of the other kind selected while this kind was ready

runnerVars == <<live, spawned, timers, nextTimerOrder, preferFuture, passed, call>>
threadVars == <<thread, wakes>>
vars == <<runnerVars, threadVars, queued, ready, now, owed>>

Idle == [stage |-> "outside", limit |-> 0, batch |-> <<>>, count |-> 0]
NoTask == "none"
Quiet == [stage |-> "idle", task |-> NoTask]

Init ==
    /\ live = {} /\ spawned = {}
    /\ queued = [t \in Tasks |-> FALSE]
    /\ ready = <<>>
    /\ timers = {} /\ nextTimerOrder = 0
    /\ preferFuture = FALSE /\ passed = [futures |-> 0, timers |-> 0]
    /\ now = 0
    /\ call = Idle
    /\ thread = [w \in Threads |-> Quiet]
    /\ wakes = [w \in Threads |-> 0]
    /\ owed = {}
----------------------------------------------------------------------------
\* TaskWake::schedule run without interruption by the runner thread.
Schedule(t, flags) ==
    IF flags[t]
    THEN queued' = flags /\ UNCHANGED ready
    ELSE /\ queued' = [flags EXCEPT ![t] = TRUE]
         /\ ready' = Append(ready, t)
     
\* Mutation: the id given to a task is given out again.
SpawnSameId(t) ==
    /\ call.stage = "outside"
    /\ t \notin spawned
    /\ live' = live \union {t}
    /\ Schedule(t, queued)
    /\ UNCHANGED <<spawned, timers, nextTimerOrder, preferFuture, passed, call, threadVars,
                   now, owed>>

Spawn(t) ==
    /\ call.stage = "outside"
    /\ t \notin spawned
    /\ spawned' = spawned \union {t}
    /\ live' = live \union {t}
    /\ Schedule(t, queued)
    /\ UNCHANGED <<timers, nextTimerOrder, preferFuture, passed, call, threadVars, now, owed>>

ScheduleAfter(delay) ==
    /\ call.stage = "outside"
    /\ nextTimerOrder < MaxTimers
    /\ timers' = timers \union {[deadline |-> now + delay, order |-> nextTimerOrder]}
    /\ nextTimerOrder' = nextTimerOrder + 1
    /\ UNCHANGED <<live, spawned, preferFuture, passed, call, threadVars,
                   queued, ready, now, owed>>
----------------------------------------------------------------------------
\* poll_ready reads the clock once and then selects its whole batch: the clock
\* moves only between calls, as no other moment of it is read.
BeginPoll(limit) ==
    /\ call.stage = "outside"
    /\ call' = [Idle EXCEPT !.stage = "select", !.limit = limit]
    /\ UNCHANGED <<live, spawned, timers, nextTimerOrder, preferFuture, passed, threadVars,
                   queued, ready, now, owed>>

Earlier(x, y) == x.deadline < y.deadline \/ (x.deadline = y.deadline /\ x.order < y.order)
First == CHOOSE x \in timers : \A y \in timers \ {x} : Earlier(x, y)
\* The first of the sorted timers is due exactly if any of them is.
TimerReady == \E x \in timers : x.deadline <= now
Selecting == call.stage = "select" /\ call.count < call.limit

\* For the history `passed', which counts to two.
More(n) == IF n < 2 THEN n + 1 ELSE n
FutureSelected == passed' = [futures |-> 0, timers |-> IF TimerReady THEN More(passed.timers) ELSE 0]
TimerSelected == passed' = [futures |-> IF ready # <<>> THEN More(passed.futures) ELSE 0, timers |-> 0]

\* Mutation: a selected future does not hand the preference back to the timers.
SelectReadyAgain ==
    /\ Selecting /\ (preferFuture \/ ~TimerReady) /\ ready # <<>>
    /\ call' = [call EXCEPT !.batch = Append(@, Head(ready)), !.count = @ + 1]
    /\ ready' = Tail(ready)
    /\ FutureSelected
    /\ UNCHANGED <<live, spawned, timers, nextTimerOrder, preferFuture, threadVars,
                   queued, now, owed>>

SelectReady ==
    /\ Selecting /\ (preferFuture \/ ~TimerReady) /\ ready # <<>>
    /\ call' = [call EXCEPT !.batch = Append(@, Head(ready)), !.count = @ + 1]
    /\ ready' = Tail(ready)
    /\ preferFuture' = FALSE /\ FutureSelected
    /\ UNCHANGED <<live, spawned, timers, nextTimerOrder, threadVars, queued, now, owed>>

\* Mutation: a due timer is selected whichever kind comes next.
SelectDueTimer ==
    /\ Selecting /\ TimerReady
    /\ timers' = timers \ {First}
    /\ call' = [call EXCEPT !.count = @ + 1]
    /\ preferFuture' = TRUE /\ TimerSelected
    /\ UNCHANGED <<live, spawned, nextTimerOrder, threadVars, queued, ready, now, owed>>

SelectTimer ==
    /\ Selecting /\ TimerReady /\ (preferFuture => ready = <<>>)
    /\ timers' = timers \ {First}
    /\ call' = [call EXCEPT !.count = @ + 1]
    /\ preferFuture' = TRUE /\ TimerSelected
    /\ UNCHANGED <<live, spawned, nextTimerOrder, threadVars, queued, ready, now, owed>>

EndSelect ==
    /\ call.stage = "select"
    /\ call.count >= call.limit \/ (~TimerReady /\ ready = <<>>)
    /\ call' = [call EXCEPT !.stage = "clear"]
    /\ UNCHANGED <<live, spawned, timers, nextTimerOrder, preferFuture, passed, threadVars,
                   queued, ready, now, owed>>
----------------------------------------------------------------------------
\* The task was removed while its id was in the channel.
SkipGone ==
    /\ call.stage = "clear" /\ call.batch # <<>> /\ Head(call.batch) \notin live
    /\ call' = [call EXCEPT !.batch = Tail(@)]
    /\ UNCHANGED <<live, spawned, timers, nextTimerOrder, preferFuture, passed, threadVars,
                   queued, ready, now, owed>>

\* Mutation: the flag is not cleared before the poll.
KeepQueued ==
    /\ call.stage = "clear" /\ call.batch # <<>> /\ Head(call.batch) \in live
    /\ call' = [call EXCEPT !.stage = "run"]
    /\ UNCHANGED <<live, spawned, timers, nextTimerOrder, preferFuture, passed, threadVars,
                   queued, ready, now, owed>>

\* queued.store(false), before the future is polled.
ClearQueued ==
    /\ call.stage = "clear" /\ call.batch # <<>> /\ Head(call.batch) \in live
    /\ queued' = [queued EXCEPT ![Head(call.batch)] = FALSE]
    /\ call' = [call EXCEPT !.stage = "run"]
    /\ UNCHANGED <<live, spawned, timers, nextTimerOrder, preferFuture, passed, threadVars,
                   ready, now, owed>>

RunBegun == call.stage = "run"
AfterRun == call' = [call EXCEPT !.stage = "clear", !.batch = Tail(@)]

\* Mutation: the flag is cleared once more after the poll.
PendingClears(selfWake) ==
    /\ RunBegun /\ AfterRun
    /\ owed' = owed \ {Head(call.batch)}
    /\ queued' = [queued EXCEPT ![Head(call.batch)] = FALSE]
    /\ ready' = IF selfWake THEN Append(ready, Head(call.batch)) ELSE ready
    /\ UNCHANGED <<live, spawned, timers, nextTimerOrder, preferFuture, passed, threadVars, now>>

\* The future observes every event so far and is still pending; it may have
\* called wake_by_ref on its own waker before it returned.
Pending(selfWake) ==
    /\ RunBegun /\ AfterRun
    /\ owed' = owed \ {Head(call.batch)}
    /\ IF selfWake THEN Schedule(Head(call.batch), queued)
                   ELSE UNCHANGED <<queued, ready>>
    /\ UNCHANGED <<live, spawned, timers, nextTimerOrder, preferFuture, passed, threadVars, now>>

Complete ==
    /\ RunBegun /\ AfterRun
    /\ owed' = owed \ {Head(call.batch)}
    /\ live' = live \ {Head(call.batch)}
    /\ UNCHANGED <<spawned, timers, nextTimerOrder, preferFuture, passed, threadVars,
                   queued, ready, now>>

EndPoll ==
    /\ call.stage = "clear" /\ call.batch = <<>>
    /\ call' = Idle
    /\ UNCHANGED <<live, spawned, timers, nextTimerOrder, preferFuture, passed, threadVars,
                   queued, ready, now, owed>>
----------------------------------------------------------------------------
\* A thread makes an event visible to the future and goes on to wake its task.
\* A waker outlives its task, so the task may be finished by then.
Fire(w, t) ==
    /\ thread[w] = Quiet /\ wakes[w] < MaxWakes
    /\ t \in spawned
    /\ wakes' = [wakes EXCEPT ![w] = @ + 1]
    /\ thread' = [thread EXCEPT ![w] = [stage |-> "swap", task |-> t]]
    /\ owed' = owed \union {t}
    /\ UNCHANGED <<runnerVars, queued, ready, now>>

\* Mutation: the thread that finds the flag set sends the id.
SwapInverted(w) ==
    /\ thread[w].stage = "swap"
    /\ LET t == thread[w].task IN
         /\ thread' = [thread EXCEPT ![w] =
                          IF queued[t] THEN [stage |-> "send", task |-> t] ELSE Quiet]
         /\ queued' = [queued EXCEPT ![t] = TRUE]
    /\ UNCHANGED <<runnerVars, wakes, ready, now, owed>>

\* queued.swap(true): only the thread that finds it false sends the id.
Swap(w) ==
    /\ thread[w].stage = "swap"
    /\ LET t == thread[w].task IN
         /\ thread' = [thread EXCEPT ![w] =
                          IF queued[t] THEN Quiet ELSE [stage |-> "send", task |-> t]]
         /\ queued' = [queued EXCEPT ![t] = TRUE]
    /\ UNCHANGED <<runnerVars, wakes, ready, now, owed>>

SendId(w) ==
    /\ thread[w].stage = "send"
    /\ ready' = Append(ready, thread[w].task)
    /\ thread' = [thread EXCEPT ![w] = Quiet]
    /\ UNCHANGED <<runnerVars, wakes, queued, now, owed>>

Tick ==
    /\ call.stage = "outside"
    /\ now < MaxTime
    /\ now' = now + 1
    /\ UNCHANGED <<runnerVars, threadVars, queued, ready, owed>>

PollStep == SelectReady \/ SelectTimer \/ EndSelect \/ SkipGone \/ ClearQueued
                \/ (\E selfWake \in BOOLEAN : Pending(selfWake)) \/ Complete \/ EndPoll
WakerStep(w) == Swap(w) \/ SendId(w)
Outside == (\E t \in Tasks : Spawn(t)) \/ (\E d \in Delays : ScheduleAfter(d))
                \/ (\E n \in Limits : BeginPoll(n))

Next ==
    \/ PollStep
    \/ Outside
    \/ \E w \in Threads : WakerStep(w) \/ \E t \in Tasks : Fire(w, t)
    \/ Tick

\* The loop that owns the scheduler keeps calling poll_ready, and a thread that
\* has begun to wake a task goes on.
Fairness ==
    /\ WF_vars(PollStep)
    /\ WF_vars(\E n \in Limits : BeginPoll(n))
    /\ \A w \in Threads : WF_vars(WakerStep(w))

Spec == Init /\ [][Next]_vars
FairSpec == Spec /\ Fairness
----------------------------------------------------------------------------
TypeOK ==
    /\ live \subseteq spawned /\ spawned \subseteq Tasks
    /\ queued \in [Tasks -> BOOLEAN]
    /\ ready \in Seq(Tasks)
    /\ preferFuture \in BOOLEAN /\ passed \in [futures : 0..2, timers : 0..2]
    /\ timers \subseteq [deadline : Nat, order : Nat] /\ nextTimerOrder \in 0..MaxTimers
    /\ now \in 0..MaxTime
    /\ call \in [stage : {"outside", "select", "clear", "run"}, limit : Nat,
                 batch : Seq(Tasks), count : Nat]
    /\ call.stage = "run" => call.batch # <<>> /\ Head(call.batch) \in live
    /\ call.stage = "outside" => call.batch = <<>>
    /\ thread \in [Threads -> {Quiet} \union [stage : {"swap", "send"}, task : spawned]]
    /\ wakes \in [Threads -> 0..MaxWakes]
    /\ owed \subseteq spawned

Running(t) == call.stage = "run" /\ Head(call.batch) = t

\* Where an id is between the swap that set its flag and the poll that clears it.
OnTheWay(t) ==
    ({"channel"} \X {i \in DOMAIN ready : ready[i] = t})
      \union ({"batch"} \X {i \in DOMAIN call.batch :
                               call.batch[i] = t /\ (call.stage = "run" => i # 1)})
      \union ({"sender"} \X {w \in Threads : thread[w] = [stage |-> "send", task |-> t]})

\* Every wake of a live task is followed by a poll that sees what it announced:
\* an event nobody has observed has its id on the way to the runner, or a thread
\* that is about to swap the flag.
NoLostWake ==
    \A t \in owed \intersect live :
        \/ OnTheWay(t) # {} \/ Running(t)
        \/ \E w \in Threads : thread[w] = [stage |-> "swap", task |-> t]

\* `queued' is exact for a live task: it is set iff the id is in the channel or
\* the batch or about to be sent, and the id is there at most once, so
\* has_ready_work, which reads the flags, neither misses a ready task nor
\* reports one for ever, and no future is polled twice for one wake.
FlagMatchesChannel ==
    \A t \in live : /\ queued[t] <=> OnTheWay(t) # {}
                    /\ \A a, b \in OnTheWay(t) : a = b

\* "Alternate across calls, even with one-item budgets": while a future is ready at most
\* one timer is selected before the next future, and while a timer is due at most one
\* future before the next timer, also when the selections belong to several calls.
NoneIsPassedTwice == passed.futures <= 1 /\ passed.timers <= 1

\* Every event is observed by a poll of its task, unless the task finishes; and a due timer
\* delivers its message although futures wake themselves for ever.
WorkIsServed ==
    /\ \A t \in Tasks : t \in owed ~> t \notin (owed \intersect live)
    /\ TimerReady ~> ~TimerReady
============================================================================
