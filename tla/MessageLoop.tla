---------------------------- MODULE MessageLoop ----------------------------
(***************************************************************************)
(* AppRunner as a message processor: process_pending with its work budget, *)
(* the two message sources it alternates between, the commands an update   *)
(* returns, wait_for_work, and shutdown.                                   *)
(*                                                                         *)
(* The internal queue holds messages of commands, completed futures, due   *)
(* timers and event handlers; the external queue is the ingress of module  *)
(* EventIngress, whose `send' is one step here; poll_ready of module       *)
(* Scheduler is one step as well.  Waker threads still ring the wake       *)
(* signal in a step of their own after they have sent their id.            *)
(* The scheduler's futures are a channel of ready ids, its timers a number *)
(* of pending and a number of due ones.                                    *)
(***************************************************************************)
EXTENDS Integers, Sequences, FiniteSets

CONSTANTS MaxWorkPerTurn,      \* MAX_WORK_PER_TURN
          MaxMessagesPerTurn,  \* MAX_MESSAGES_PER_TURN
          PollGroup,           \* the 256 of process_pending
          Commands,            \* what `update' may return: sequences of actions
          Wakers,              \* threads that hold wakers
          MaxTasks,            \* bound: futures ever spawned
          MaxSends,            \* bound: external messages ever sent
          MaxQueued            \* bound: length of the internal queue

Actions == {"message", "perform", "after", "quit"}

ASSUME BudgetAssumption ==
    /\ PollGroup \in Nat \ {0} /\ MaxMessagesPerTurn \in Nat \ {0}
    /\ MaxWorkPerTurn = MaxMessagesPerTurn + PollGroup
ASSUME CommandAssumption == Commands \subseteq Seq(Actions)
ASSUME BoundAssumption == MaxTasks \in Nat /\ MaxSends \in Nat /\ MaxQueued \in Nat

VARIABLES
    internal,       \* number of messages in AppRunner::messages
    external,       \* queue of AppRunner::receiver: the number of each message
    sent,           \* external messages sent so far
    preferExternal, \* AppRunner::prefer_external
    quitting,       \* AppRunner::quitting
    dirty,          \* invalidation # Invalidation::None
    live, nextTask, \* futures of the scheduler, and how many were ever spawned
    ready,          \* its channel of ready ids
    dormant, due,   \* its timers: still running, and past their deadline
    notified,       \* WakeSignal::notified
    ringing,        \* wakers between the send of an id and the notification
    stage,          \* where the runner is
    call,           \* "turn", or the first or second turn of wait_for_work
    turn,           \* locals of process_pending
    owed            \* history: futures with an event that no poll has observed yet

queueVars == <<internal, external, sent, preferExternal>>
taskVars == <<live, nextTask, ready, dormant, due, owed>>
signalVars == <<notified, ringing>>
vars == <<queueVars, taskVars, signalVars, quitting, dirty, stage, call, turn>>

NewTurn == [updates |-> 0, completed |-> 0, work |-> 0, progressed |-> FALSE]

Init ==
    /\ internal = 0 /\ external = <<>> /\ sent = 0
    /\ preferExternal = FALSE
    /\ quitting = FALSE /\ dirty = TRUE
    /\ live = {} /\ nextTask = 0 /\ ready = <<>>
    /\ dormant = 0 /\ due = 0
    /\ notified = FALSE /\ ringing = {}
    /\ stage = "caller" /\ call = "turn" /\ turn = NewTurn
    /\ owed = {}
----------------------------------------------------------------------------
\* The caller of the runner: it renders, and calls process_pending or
\* wait_for_work, as long as the application is not quitting.
BeginTurn(kind) ==
    /\ stage = "caller" /\ ~quitting
    /\ stage' = "update" /\ call' = kind /\ turn' = NewTurn
    /\ UNCHANGED <<queueVars, taskVars, signalVars, quitting, dirty>>

Render ==
    /\ stage = "caller" /\ dirty
    /\ dirty' = FALSE
    /\ UNCHANGED <<queueVars, taskVars, signalVars, quitting, stage, call, turn>>

\* dispatch_ui_event, between two turns: the handlers of the event queue messages
\* and may invalidate, and the interrupt policy may take it as a request to quit,
\* which closes the ingress.
DispatchUiEvent(messages, invalidates, interrupts) ==
    /\ stage = "caller"
    /\ internal' = internal + messages
    /\ messages > 0 => internal' <= MaxQueued
    /\ dirty' = (dirty \/ invalidates)
    /\ quitting' = (quitting \/ interrupts)
    /\ external' = IF interrupts THEN <<>> ELSE external
    /\ UNCHANGED <<sent, preferExternal, taskVars, signalVars, stage, call, turn>>
----------------------------------------------------------------------------
\* next_message: the source it takes from, if there is a message at all.
Source == IF preferExternal
          THEN IF external # <<>> THEN "external" ELSE IF internal > 0 THEN "internal" ELSE "none"
          ELSE IF internal > 0 THEN "internal" ELSE IF external # <<>> THEN "external" ELSE "none"

\* Mutation: the internal queue always comes first.
InternalFirst == preferExternal' = FALSE
HandPreferenceOver == preferExternal' = (Source = "internal")

\* The actions `execute' goes through: it stops at Quit.
Executed(command) == {i \in DOMAIN command : \A j \in 1..i : command[j] # "quit"}

Quits(command) == \E i \in DOMAIN command : command[i] = "quit"
Of(action, command) == Cardinality({i \in Executed(command) : command[i] = action})

\* Mutation: a turn has no limit of its own for updates.
WorkBudgetLeft == ~quitting /\ turn.work < MaxWorkPerTurn
\* Mutation: a quitting runner finishes its turn.
UpdatesAfterQuit == turn.work < MaxWorkPerTurn /\ turn.updates < MaxMessagesPerTurn
MayUpdate == ~quitting /\ turn.work < MaxWorkPerTurn /\ turn.updates < MaxMessagesPerTurn

\* One round of the update loop: take a message, update the model, execute the
\* command.  `quit' also closes the ingress, which drops what it still holds.
Update(command, invalidates) ==
    /\ stage = "update" /\ MayUpdate /\ Source # "none"
    /\ LET spawned == nextTask .. nextTask + Of("perform", command) - 1
           kept == IF Source = "external" THEN Tail(external) ELSE external
       IN  /\ nextTask + Of("perform", command) <= MaxTasks
           /\ internal' = (IF Source = "internal" THEN internal - 1 ELSE internal)
                             + Of("message", command)
           /\ Of("message", command) > 0 => internal' <= MaxQueued
           /\ external' = IF Quits(command) THEN <<>> ELSE kept
           /\ live' = live \union spawned
           /\ nextTask' = nextTask + Of("perform", command)
           /\ ready' = ready \o [i \in 1..Of("perform", command) |-> nextTask + i - 1]
           /\ dormant' = dormant + Of("after", command)
           /\ Of("after", command) > 0 => dormant' + due <= 1
           /\ notified' = (notified \/ spawned # {} \/ Of("after", command) > 0)
    /\ HandPreferenceOver
    /\ turn' = [turn EXCEPT !.updates = @ + 1, !.work = @ + 1, !.progressed = TRUE]
    /\ dirty' = (dirty \/ invalidates)
    /\ quitting' = Quits(command)
    /\ UNCHANGED <<sent, due, ringing, stage, call, owed>>

EndUpdates ==
    /\ stage = "update" /\ (~MayUpdate \/ Source = "none")
    /\ stage' = IF quitting \/ turn.work >= MaxWorkPerTurn THEN "report" ELSE "poll"
    /\ UNCHANGED <<queueVars, taskVars, signalVars, quitting, dirty, call, turn>>

\* Mutation: the group size does not shrink with the budget that is left.
FullGroup == PollGroup
PollLimit == IF MaxWorkPerTurn - turn.work < PollGroup
             THEN MaxWorkPerTurn - turn.work ELSE PollGroup

\* The ways in which some of the futures S of a batch can wake themselves: in
\* the order of their polls.
InBatchOrder(batch, S) ==
    {again \in UNION {[1..n -> S] : n \in 0..Len(batch)} :
        \A j, k \in DOMAIN again : j < k =>
            \E a, b \in DOMAIN batch : a < b /\ batch[a] = again[j] /\ batch[b] = again[k]}

\* poll_ready: it selects as many ready ids and due timers as the limit admits.
\* Of the selected futures `completing' finish and `again' wake themselves.
Poll(futures, timers) ==
    /\ stage = "poll"
    /\ futures <= Len(ready) /\ timers <= due
    /\ futures + timers <= PollLimit
    /\ futures + timers = PollLimit \/ (futures = Len(ready) /\ timers = due)
    /\ LET batch == SubSeq(ready, 1, futures)
           polled == {batch[i] : i \in DOMAIN batch} \intersect live
           work == turn.work + futures + timers
           progressed == turn.progressed \/ futures + timers > 0
       IN  \E completing \in SUBSET polled :
             \E again \in InBatchOrder(batch, polled \ completing) :
             LET finished == Cardinality(completing)
             IN  /\ live' = live \ completing
                 /\ owed' = owed \ polled
                 /\ ready' = SubSeq(ready, futures + 1, Len(ready)) \o again
                 /\ due' = due - timers
                 /\ internal' = internal + timers + finished
                 /\ notified' = (notified \/ again # <<>>)
                 /\ turn' = [turn EXCEPT !.completed = @ + finished, !.work = work,
                                         !.progressed = FALSE]
                 /\ stage' = IF ~progressed \/ work >= MaxWorkPerTurn
                                  \/ turn.updates >= MaxMessagesPerTurn
                             THEN "report" ELSE "update"
    /\ UNCHANGED <<external, sent, preferExternal, nextTask, dormant, ringing, quitting,
                   dirty, call>>

BudgetExhausted == turn.work >= MaxWorkPerTurn \/ turn.updates >= MaxMessagesPerTurn

SomethingHappened == turn.updates # 0 \/ turn.completed # 0 \/ dirty \/ quitting

\* The report of process_pending: wait_for_work returns the one of its first
\* turn if there is something in it, and goes to sleep otherwise.
Report ==
    /\ stage = "report"
    /\ stage' = IF call = "first" /\ ~SomethingHappened THEN "asleep" ELSE "caller"
    /\ UNCHANGED <<queueVars, taskVars, signalVars, quitting, dirty, call, turn>>

\* WakeSignal::wait returns, because it is notified or because time has passed,
\* and wait_for_work takes its second turn.
WakeUp ==
    /\ stage = "asleep"
    /\ notified' = FALSE
    /\ stage' = "update" /\ call' = "second" /\ turn' = NewTurn
    /\ UNCHANGED <<queueVars, taskVars, ringing, quitting, dirty>>
----------------------------------------------------------------------------
\* A producer's `send', which a closed ingress refuses.
Send ==
    /\ ~quitting /\ sent < MaxSends
    /\ sent' = sent + 1
    /\ external' = Append(external, sent + 1)
    /\ notified' = TRUE
    /\ UNCHANGED <<internal, preferExternal, taskVars, ringing, quitting, dirty,
                   stage, call, turn>>

\* A waker thread sends the id of a future that is not queued, then rings.
Wake(w, t) ==
    /\ w \notin ringing /\ t \in live \ owed
    /\ owed' = owed \union {t}
    /\ IF \E i \in DOMAIN ready : ready[i] = t
       THEN UNCHANGED <<ready, ringing>>
       ELSE ready' = Append(ready, t) /\ ringing' = ringing \union {w}
    /\ UNCHANGED <<queueVars, live, nextTask, dormant, due, notified, quitting, dirty,
                   stage, call, turn>>

\* Mutation: the id is sent without a notification.
RingNothing(w) ==
    /\ w \in ringing
    /\ ringing' = ringing \ {w}
    /\ UNCHANGED <<queueVars, taskVars, notified, quitting, dirty, stage, call, turn>>

Ring(w) ==
    /\ w \in ringing
    /\ notified' = TRUE
    /\ ringing' = ringing \ {w}
    /\ UNCHANGED <<queueVars, taskVars, quitting, dirty, stage, call, turn>>

TimerFallsDue ==
    /\ dormant > 0
    /\ dormant' = dormant - 1 /\ due' = due + 1
    /\ UNCHANGED <<queueVars, live, nextTask, ready, owed, signalVars, quitting, dirty,
                   stage, call, turn>>

PollAny == \E futures, timers \in 0..PollGroup : Poll(futures, timers)
UpdateAny == \E command \in Commands, invalidates \in BOOLEAN : Update(command, invalidates)
TurnStep == UpdateAny \/ EndUpdates \/ PollAny \/ Report
UiEvent == \E messages \in 0..MaxQueued, invalidates, interrupts \in BOOLEAN :
               DispatchUiEvent(messages, invalidates, interrupts)
Caller == Render \/ UiEvent \/ \E kind \in {"turn", "first"} : BeginTurn(kind)
Environment == Send \/ TimerFallsDue \/ \E w \in Wakers : Ring(w) \/ \E t \in live : Wake(w, t)

Next == TurnStep \/ WakeUp \/ Caller \/ Environment

\* process_pending runs to its end, sleep is bounded by the timeout, the caller
\* comes back until the application quits, and a ringing thread rings.
Fairness ==
    /\ WF_vars(TurnStep) /\ WF_vars(WakeUp)
    /\ WF_vars(\E kind \in {"turn", "first"} : BeginTurn(kind))
    /\ \A w \in Wakers : WF_vars(Ring(w))

Spec == Init /\ [][Next]_vars
FairSpec == Spec /\ Fairness
----------------------------------------------------------------------------
\* "Each scheduler turn has a finite work budget": the budget is never overdrawn,
\* and a turn of updates only still has room for one group of futures.
TurnIsBounded ==
    /\ turn.work <= MaxWorkPerTurn
    /\ stage = "update" /\ turn.updates = turn.work => turn.work <= MaxWorkPerTurn - PollGroup

\* Types, the ids that exist by now, and the budgets of a turn.
TypeOK ==
    /\ internal \in Nat /\ external \in Seq(1..MaxSends) /\ sent \in 0..MaxSends
    /\ live \subseteq 0 .. nextTask - 1 /\ nextTask \in 0..MaxTasks
    /\ ready \in Seq(0 .. nextTask - 1)
    /\ dormant \in 0..1 /\ due \in 0..1
    /\ \A b \in {preferExternal, quitting, dirty, notified, turn.progressed} : b \in BOOLEAN
    /\ ringing \subseteq Wakers
    /\ stage \in {"caller", "update", "poll", "report", "asleep"}
    /\ call \in {"turn", "first", "second"}
    /\ turn.updates \in Nat /\ turn.completed \in Nat /\ turn.work \in Nat
    /\ owed \subseteq 0 .. nextTask - 1
    /\ TurnIsBounded

\* The runner sleeps with no notification to come only over an empty internal
\* queue, an empty ingress and an empty ready channel, unless its last turn
\* spent the whole budget.
SleepsOnlyWhenDrained ==
    stage = "asleep" /\ ~notified /\ ~BudgetExhausted =>
        internal = 0 /\ external = <<>> /\ (ready = <<>> \/ ringing # {})

\* wait_for_work "waits for proxy or future activity": it does not sleep while a
\* future is ready to be polled and no notification is to come.
NoSleepOverReadyFutures ==
    stage = "asleep" /\ ~notified /\ ringing = {} => ready = <<>>

\* After Quit nothing is updated, polled, spawned or admitted any more, also
\* not the rest of the batch that held Quit.
NothingAfterQuit == [][quitting => UNCHANGED <<nextTask, live>> /\ external' = <<>>
                                    /\ turn'.updates = turn.updates]_vars

Waiting(m) == \E i \in DOMAIN external : external[i] = m

\* "Internal and external message sources alternate when both remain ready":
\* an admitted message is updated, however many messages the application sends
\* itself, unless the application quits (which drops it).
\* And a woken future is polled, however many messages there are, unless it quits.
NoSourceStarves ==
    /\ \A m \in 1..MaxSends : Waiting(m) ~> ~Waiting(m)
    /\ \A t \in 0 .. MaxTasks - 1 : t \in owed ~> t \notin owed \/ quitting
============================================================================
