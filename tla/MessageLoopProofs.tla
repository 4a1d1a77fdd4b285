--------------------------- MODULE MessageLoopProofs ---------------------------
(***************************************************************************)
(* For any budgets, commands, wakers and bounds: a turn keeps its budget,  *)
(* nothing happens after Quit, and the runner falls asleep only over       *)
(* drained queues.  The invariant of these does not need all the types;    *)
(* TypeOK follows from it and from Types at the end.                       *)
(***************************************************************************)
EXTENDS MessageLoop, FiniteSetTheorems, SequenceTheorems, TLAPS

\* The counts of a turn are within their budgets; what `completed' and
\* `progressed' hold does not matter here.
TurnOK ==
    turn \in [updates : 0..MaxMessagesPerTurn, completed : {turn.completed},
              work : 0..MaxWorkPerTurn, progressed : {turn.progressed}]

\* Nothing is queued, unless a notification tells of it.
Drained == internal = 0 /\ (external = <<>> \/ notified)

\* While a turn polls, the two queues it updated from are empty, unless it
\* stopped updating because its budget was spent.
PollOK ==
    stage = "poll" => /\ ~quitting /\ turn.work < MaxWorkPerTurn
                      /\ ~BudgetExhausted => Drained

\* A turn that ended with budget left has found nothing to poll either.
EndOK ==
    stage \in {"report", "asleep"} /\ ~quitting /\ ~BudgetExhausted =>
        Drained /\ (ready = <<>> \/ ringing # {} \/ notified)

QuitOK == quitting => external = <<>> /\ stage \notin {"poll", "asleep"}

ControlOK ==
    /\ stage \in {"caller", "update", "poll", "report", "asleep"}
    /\ quitting \in BOOLEAN
    /\ internal \in Nat /\ nextTask \in Nat /\ IsFiniteSet(live)
    /\ ready \in Seq(Nat) /\ live \subseteq Nat /\ due \in Nat

Inv == TurnOK /\ PollOK /\ EndOK /\ QuitOK /\ ControlOK

USE BudgetAssumption DEF queueVars, taskVars, signalVars, vars

LEMMA BudgetsAdd ==
    /\ MaxMessagesPerTurn \in Nat /\ MaxWorkPerTurn \in Nat /\ PollGroup \in Nat
    /\ 0 < MaxMessagesPerTurn /\ 0 < PollGroup
    /\ MaxWorkPerTurn = MaxMessagesPerTurn + PollGroup
OBVIOUS

\* A new turn has spent nothing.
LEMMA NewTurnOK ==
    ASSUME turn' = NewTurn PROVE TurnOK'
BY BudgetsAdd DEF TurnOK, NewTurn

\* What a step that leaves the turn alone preserves.
LEMMA SameTurn ==
    ASSUME TurnOK, UNCHANGED turn
    PROVE  TurnOK' /\ (BudgetExhausted <=> BudgetExhausted')
BY DEF TurnOK, BudgetExhausted

\* How often an action occurs in a command.
LEMMA OfIsNat ==
    ASSUME NEW command \in Commands, NEW action
    PROVE  Of(action, command) \in Nat
<1>1. command \in Seq(Actions) /\ Len(command) \in Nat /\ DOMAIN command = 1..Len(command)
  BY CommandAssumption
<1>2. IsFiniteSet(DOMAIN command)
  BY <1>1, FS_Interval
<1> DEFINE S == {i \in Executed(command) : command[i] = action}
<1>3. S \in SUBSET (DOMAIN command)
  BY DEF Executed
<1>4. IsFiniteSet(S)
  BY <1>2, <1>3, FS_Subset
<1> QED BY <1>4, FS_CardinalityType DEF Of

LEMMA UpdateKeeps ==
    ASSUME Inv, NEW command \in Commands, NEW invalidates \in BOOLEAN, Update(command, invalidates)
    PROVE  Inv'
<1>1. stage = "update" /\ MayUpdate /\ stage' = stage
  BY DEF Update
<1>2. turn' = [turn EXCEPT !.updates = @ + 1, !.work = @ + 1, !.progressed = TRUE]
  BY DEF Update
<1>3. TurnOK'
  <2>1. turn.updates + 1 \in 0..MaxMessagesPerTurn /\ turn.work + 1 \in 0..MaxWorkPerTurn
    BY <1>1, BudgetsAdd DEF Inv, TurnOK, MayUpdate
  <2> QED BY <1>2, <2>1 DEF Inv, TurnOK
<1>4. quitting' \in BOOLEAN /\ (quitting' => external' = <<>>)
  BY DEF Update, Quits
<1>5. Of("message", command) \in Nat /\ Of("perform", command) \in Nat
  BY OfIsNat
<1>6. internal' \in Nat
  <2>1. internal' = (IF Source = "internal" THEN internal - 1 ELSE internal) + Of("message", command)
    BY DEF Update
  <2>2. Source = "internal" => internal > 0
    BY DEF Source
  <2> QED BY <1>5, <2>1, <2>2, SMTT(30) DEF Inv, ControlOK
<1>7. nextTask' \in Nat
  BY <1>5, SMTT(30) DEF Update, Inv, ControlOK
<1>8. IsFiniteSet(live')
  <2> DEFINE spawned == nextTask .. nextTask + Of("perform", command) - 1
  <2>1. IsFiniteSet(spawned)
    BY <1>5, FS_Interval DEF Inv, ControlOK
  <2>2. live' = live \union spawned
    BY DEF Update
  <2> QED BY <2>1, <2>2, FS_Union DEF Inv, ControlOK
<1>9. due' = due
  BY DEF Update
<1>10. ready' \in Seq(Nat) /\ live' \subseteq Nat
  <2> DEFINE ids == [i \in 1..Of("perform", command) |-> nextTask + i - 1]
  <2>1. ids \in Seq(Nat)
    BY <1>5 DEF Inv, ControlOK
  <2>2. ready' = ready \o ids
    BY DEF Update
  <2> HIDE DEF ids
  <2>3. ready' \in Seq(Nat)
    BY <2>1, <2>2 DEF Inv, ControlOK
  <2>4. live' = live \union (nextTask .. nextTask + Of("perform", command) - 1)
    BY DEF Update
  <2>5. (nextTask .. nextTask + Of("perform", command) - 1) \subseteq Nat
    BY <1>5 DEF Inv, ControlOK
  <2>6. live \subseteq Nat
    BY DEF Inv, ControlOK
  <2> QED BY <2>3, <2>4, <2>5, <2>6
<1> QED BY <1>1, <1>3, <1>4, <1>6, <1>7, <1>8, <1>9, <1>10 DEF Inv, PollOK, EndOK, QuitOK, ControlOK

LEMMA EndUpdatesKeeps == ASSUME Inv, EndUpdates PROVE Inv'
<1>1. TurnOK' /\ (BudgetExhausted <=> BudgetExhausted') /\ UNCHANGED <<queueVars, signalVars, quitting, turn>>
  BY SameTurn DEF EndUpdates, Inv
<1>2. stage' = IF quitting \/ turn.work >= MaxWorkPerTurn THEN "report" ELSE "poll"
  BY DEF EndUpdates
<1>3. ~quitting /\ ~BudgetExhausted => Drained
  <2> SUFFICES ASSUME ~quitting, ~BudgetExhausted PROVE Drained
    OBVIOUS
  <2>1. MayUpdate
    BY BudgetsAdd DEF BudgetExhausted, MayUpdate, Inv, TurnOK
  <2>2. Source = "none"
    BY <2>1 DEF EndUpdates
  <2> QED BY <2>2 DEF Source, Drained, Inv, ControlOK
<1>4. turn.work \in Int
  BY BudgetsAdd DEF Inv, TurnOK
<1>5. PollOK'
  BY <1>1, <1>2, <1>3, <1>4, BudgetsAdd DEF PollOK, Drained
<1>6. EndOK'
  BY <1>1, <1>2, BudgetsAdd DEF EndOK, BudgetExhausted
<1>7. QuitOK' /\ ControlOK'
  BY <1>1, <1>2 DEF EndUpdates, QuitOK, ControlOK, Inv
<1> QED BY <1>1, <1>5, <1>6, <1>7 DEF Inv

LEMMA PollKeeps ==
    ASSUME Inv, NEW futures \in 0..PollGroup, NEW timers \in 0..PollGroup, Poll(futures, timers)
    PROVE  Inv'
<1> DEFINE batch == SubSeq(ready, 1, futures)
           polled == {batch[i] : i \in DOMAIN batch} \intersect live
           work == turn.work + futures + timers
<1> DEFINE Polled(completing, again) ==
        /\ live' = live \ completing
        /\ ready' = SubSeq(ready, futures + 1, Len(ready)) \o again
        /\ due' = due - timers
        /\ internal' = internal + timers + Cardinality(completing)
        /\ notified' = (notified \/ again # <<>>)
        /\ turn' = [turn EXCEPT !.completed = @ + Cardinality(completing), !.work = work,
                                !.progressed = FALSE]
        /\ stage' = IF ~(turn.progressed \/ futures + timers > 0) \/ work >= MaxWorkPerTurn
                         \/ turn.updates >= MaxMessagesPerTurn
                    THEN "report" ELSE "update"
<1>0. PICK completing \in SUBSET polled :
        \E again \in InBatchOrder(batch, polled \ completing) : Polled(completing, again)
  BY DEF Poll
<1>1. PICK again \in InBatchOrder(batch, polled \ completing) : Polled(completing, again)
  BY <1>0
<1>2. stage = "poll" /\ UNCHANGED <<external, quitting, nextTask, ringing>>
  BY DEF Poll
<1>3. futures + timers <= PollLimit /\ futures \in Nat /\ timers \in Nat /\ timers <= due
  BY DEF Poll
<1>4. turn.work \in 0..MaxWorkPerTurn /\ turn.updates \in 0..MaxMessagesPerTurn
  BY DEF Inv, TurnOK
<1>5. work \in 0..MaxWorkPerTurn
  BY <1>3, <1>4, BudgetsAdd DEF PollLimit
<1>6. TurnOK' /\ turn'.work = work /\ turn'.updates = turn.updates
  BY <1>1, <1>4, <1>5 DEF Inv, TurnOK
<1>7. ControlOK'
  <2>1. IsFiniteSet(completing) /\ IsFiniteSet(live')
    BY <1>1, FS_Subset DEF Inv, ControlOK
  <2>2. Cardinality(completing) \in Nat
    BY <2>1, FS_CardinalityType
  <2>3. internal' \in Nat /\ due' \in Nat
    <3>1. internal' = internal + timers + Cardinality(completing) /\ due' = due - timers
      BY <1>1
    <3>2. internal \in Nat /\ due \in Nat
      BY DEF Inv, ControlOK
    <3> HIDE DEF polled, work, batch
    <3>3. due - timers \in Nat
      BY <1>3, <3>2
    <3>4. \A c \in Nat : internal + timers + c \in Nat
      BY <1>3, <3>2
    <3> QED BY <2>2, <3>1, <3>3, <3>4
  <2>4. ready' \in Seq(Nat) /\ live' \subseteq Nat
    <3>1. \E n \in Nat : again \in [1..n -> polled]
      BY <1>3, <1>1, SMTT(30) DEF InBatchOrder, Inv, ControlOK
    <3>2. polled \subseteq Nat
      BY DEF Inv, ControlOK
    <3> HIDE DEF polled
    <3>3. \E n \in Nat : again \in [1..n -> Nat]
      BY <3>1, <3>2
    <3>4. again \in Seq(Nat)
      BY <3>3
    <3>5. SubSeq(ready, futures + 1, Len(ready)) \in Seq(Nat)
      BY <1>3 DEF Inv, ControlOK
    <3>6. ready' \in Seq(Nat)
      BY <1>1, <3>4, <3>5, ConcatProperties
    <3> QED BY <1>1, <3>6 DEF Inv, ControlOK
  <2> QED BY <1>1, <1>2, <2>1, <2>3, <2>4 DEF Inv, ControlOK
<1>8. EndOK'
  <2> SUFFICES ASSUME stage' = "report", ~BudgetExhausted' PROVE (Drained /\ ready = <<>>)'
    BY <1>1 DEF EndOK
  <2>1. futures = 0 /\ timers = 0 /\ ~BudgetExhausted
    BY <1>1, <1>3, <1>4, <1>6, BudgetsAdd DEF BudgetExhausted
  <2>2. Len(ready) = 0 /\ ready = <<>>
    BY <1>4, <2>1, BudgetsAdd, SMTT(30) DEF Poll, PollLimit, Inv, ControlOK, PollOK
  <2>3. batch = <<>> /\ Len(batch) = 0
    BY <2>1, <2>2
  <2>4. polled = {}
    BY <2>3
  <2>5. again = <<>>
    <3>1. \E n \in 0..0 : again \in [1..n -> polled \ completing]
      BY <1>1, <2>3 DEF InBatchOrder
    <3>2. DOMAIN again = {} /\ again = [i \in {} |-> again[i]]
      BY <3>1
    <3> QED BY <3>1, <3>2
  <2>6. completing = {} /\ Cardinality(completing) = 0
    BY <2>4, FS_EmptySet
  <2>7. ready' = <<>>
    BY <1>1, <2>1, <2>2, <2>5
  <2>8. internal' = internal
    BY <1>1, <2>1, <2>6 DEF Inv, ControlOK
  <2>9. Drained
    BY <1>2, <2>1 DEF Inv, PollOK
  <2>10. notified => notified'
    BY <1>1
  <2> QED BY <1>2, <2>7, <2>8, <2>9, <2>10 DEF Drained
<1>9. PollOK' /\ QuitOK'
  BY <1>1, <1>2 DEF PollOK, QuitOK, Inv
<1> QED BY <1>6, <1>7, <1>8, <1>9 DEF Inv

\* The other steps leave the budget alone; what they queue, they tell of.
LEMMA OtherStepsKeep ==
    ASSUME Inv,
           \/ Report \/ WakeUp \/ Caller \/ Environment \/ UNCHANGED vars
    PROVE  Inv'
<1>1. CASE Report
  BY <1>1, SameTurn DEF Report, Inv, PollOK, EndOK, QuitOK, ControlOK, Drained, SomethingHappened
<1>2. CASE WakeUp
  BY <1>2, NewTurnOK DEF WakeUp, Inv, PollOK, EndOK, QuitOK, ControlOK
<1>3. CASE \E kind \in {"turn", "first"} : BeginTurn(kind)
  BY <1>3, NewTurnOK DEF BeginTurn, Inv, PollOK, EndOK, QuitOK, ControlOK
<1>4. CASE Render
  BY <1>4, SameTurn DEF Render, Inv, PollOK, EndOK, QuitOK, ControlOK
<1>5. CASE Send
  BY <1>5, SameTurn DEF Send, Inv, PollOK, EndOK, QuitOK, ControlOK, Drained
<1>6. CASE TimerFallsDue
  BY <1>6, SameTurn DEF TimerFallsDue, Inv, PollOK, EndOK, QuitOK, ControlOK, Drained
<1>7. ASSUME NEW w \in Wakers, Ring(w) PROVE Inv'
  BY <1>7, SameTurn DEF Ring, Inv, PollOK, EndOK, QuitOK, ControlOK, Drained
<1>8. ASSUME NEW w \in Wakers, NEW t \in live, Wake(w, t) PROVE Inv'
  <2>1. t \in Nat
    BY DEF Inv, ControlOK
  <2>2. ready' \in Seq(Nat) /\ (ready' = ready \/ ringing' # {})
    <3>1. Append(ready, t) \in Seq(Nat)
      BY <2>1, AppendProperties DEF Inv, ControlOK
    <3> QED BY <1>8, <3>1 DEF Wake, Inv, ControlOK
  <2>3. ringing # {} => ringing' # {}
    BY <1>8 DEF Wake
  <2> QED BY <1>8, <2>2, <2>3, SameTurn DEF Wake, Inv, PollOK, EndOK, QuitOK, ControlOK, Drained
<1>9. CASE UNCHANGED vars
  BY <1>9, SameTurn DEF Inv, PollOK, EndOK, QuitOK, ControlOK, Drained
<1>10. ASSUME NEW messages \in 0..MaxQueued, NEW invalidates \in BOOLEAN,
               NEW interrupts \in BOOLEAN, DispatchUiEvent(messages, invalidates, interrupts)
       PROVE  Inv'
  <2>1. TurnOK' /\ internal' \in Nat
    BY <1>10, SameTurn, BoundAssumption DEF DispatchUiEvent, Inv, ControlOK
  <2>2. quitting' \in BOOLEAN /\ (quitting' => external' = <<>>)
    BY <1>10 DEF DispatchUiEvent, Inv, QuitOK, ControlOK
  <2> QED BY <1>10, <2>1, <2>2 DEF DispatchUiEvent, Inv, PollOK, EndOK, QuitOK, ControlOK
<1> QED BY <1>1, <1>2, <1>3, <1>4, <1>5, <1>6, <1>7, <1>8, <1>9, <1>10 DEF Caller, UiEvent, Environment

LEMMA InvHolds == Spec => []Inv
<1>1. Init => Inv
  <2> SUFFICES ASSUME Init PROVE Inv
    OBVIOUS
  <2>1. TurnOK
    BY BudgetsAdd DEF Init, TurnOK, NewTurn
  <2>2. IsFiniteSet(live) /\ ready \in Seq(Nat)
    BY FS_EmptySet DEF Init
  <2> QED BY <2>1, <2>2 DEF Init, Inv, PollOK, EndOK, QuitOK, ControlOK
<1>2. Inv /\ [Next]_vars => Inv'
  BY UpdateKeeps, EndUpdatesKeeps, PollKeeps, OtherStepsKeep DEF Next, TurnStep, UpdateAny, PollAny
<1> QED BY <1>1, <1>2, PTL DEF Spec
--------------------------------------------------------------------------------
LEMMA BoundedTurn == Inv => TurnIsBounded
BY BudgetsAdd DEF Inv, TurnOK, TurnIsBounded

\* No turn overdraws its work budget, and one that may still update has room for
\* a whole group of futures (process_pending's two budgets).
THEOREM TurnsAreBounded == Spec => []TurnIsBounded
BY BoundedTurn, InvHolds, PTL

\* wait_for_work falls asleep without a notification to come only if nothing was
\* queued that its turn had the budget to handle.
THEOREM SleepIsDrained == Spec => []SleepsOnlyWhenDrained
<1>1. Inv => SleepsOnlyWhenDrained
  BY DEF Inv, EndOK, QuitOK, Drained, SleepsOnlyWhenDrained
<1> QED BY <1>1, InvHolds, PTL

\* After request_quit nothing is updated, polled, spawned or admitted any more.
THEOREM QuitIsFinal == Spec => NothingAfterQuit
<1>1. Inv /\ Inv' /\ [Next]_vars =>
        [quitting => UNCHANGED <<nextTask, live>> /\ external' = <<>>
                       /\ turn'.updates = turn.updates]_vars
  <2> SUFFICES ASSUME Inv, Inv', Next, quitting
               PROVE  UNCHANGED <<nextTask, live>> /\ external' = <<>> /\ turn'.updates = turn.updates
    OBVIOUS
  <2>1. ASSUME NEW command \in Commands, NEW invalidates \in BOOLEAN, Update(command, invalidates)
        PROVE  FALSE
    BY <2>1 DEF Update, MayUpdate
  <2>2. ASSUME NEW futures, NEW timers, Poll(futures, timers) PROVE FALSE
    BY <2>2 DEF Poll, Inv, QuitOK
  <2>3. ~WakeUp /\ ~Send /\ ~\E kind \in {"turn", "first"} : BeginTurn(kind)
    BY DEF WakeUp, Send, BeginTurn, Inv, QuitOK
  <2>4. CASE EndUpdates \/ Report
    BY <2>4 DEF EndUpdates, Report, Inv, QuitOK
  <2>5. CASE Render \/ UiEvent
    BY <2>5 DEF Render, UiEvent, DispatchUiEvent, Inv, QuitOK
  <2>6. CASE TimerFallsDue \/ \E w \in Wakers : Ring(w) \/ \E t \in live : Wake(w, t)
    BY <2>6 DEF TimerFallsDue, Ring, Wake, Inv, QuitOK
  <2> QED BY <2>1, <2>2, <2>3, <2>4, <2>5, <2>6
          DEF Next, TurnStep, UpdateAny, PollAny, Caller, Environment
<1> QED BY <1>1, InvHolds, PTL DEF Spec, NothingAfterQuit

--------------------------------------------------------------------------------
\* The types, the ids that exist by now, and the one timer of the bound.
IdsOK ==
    /\ nextTask \in 0..MaxTasks
    /\ live \subseteq 0 .. nextTask - 1 /\ owed \subseteq 0 .. nextTask - 1
    /\ ready \in Seq(0 .. nextTask - 1)

SentOK == external \in Seq(1..MaxSends) /\ sent \in 0..MaxSends

TimersOK == dormant \in Nat /\ due \in Nat /\ dormant + due <= 1

FlagsOK ==
    /\ preferExternal \in BOOLEAN /\ quitting \in BOOLEAN /\ dirty \in BOOLEAN
    /\ notified \in BOOLEAN /\ ringing \subseteq Wakers
    /\ call \in {"turn", "first", "second"}

CountsOK == turn \in [updates : Nat, completed : Nat, work : Nat, progressed : BOOLEAN]

Types == IdsOK /\ SentOK /\ TimersOK /\ FlagsOK /\ CountsOK

LEMMA SeqOfMore ==
    ASSUME NEW S, NEW T, S \subseteq T, NEW s \in Seq(S) PROVE s \in Seq(T)
<1>1. \A i \in 1..Len(s) : s[i] \in T
  BY ElementOfSeq
<1> QED BY <1>1, SeqDef, LenProperties

LEMMA UpdateTypes ==
    ASSUME Inv, Types, NEW command \in Commands, NEW invalidates \in BOOLEAN,
           Update(command, invalidates)
    PROVE  Types'
<1> DEFINE n == Of("perform", command)
           spawned == nextTask .. nextTask + n - 1
           ids == [i \in 1..n |-> nextTask + i - 1]
<1>1. n \in Nat /\ Of("after", command) \in Nat /\ nextTask \in Nat /\ MaxTasks \in Nat
  BY OfIsNat, BoundAssumption DEF Types, IdsOK
<1>2. nextTask' = nextTask + n /\ nextTask' \in 0..MaxTasks
  <2>1. nextTask' = nextTask + n /\ nextTask + n <= MaxTasks
    BY DEF Update
  <2> HIDE DEF n
  <2> QED BY <1>1, <2>1
<1>3. (0 .. nextTask - 1) \subseteq (0 .. nextTask' - 1) /\ spawned \subseteq (0 .. nextTask' - 1)
  <2> HIDE DEF n
  <2> QED BY <1>1, <1>2
<1>4. live' = live \union spawned /\ owed' = owed
  BY DEF Update
<1>5. live' \subseteq (0 .. nextTask' - 1) /\ owed' \subseteq (0 .. nextTask' - 1)
  BY <1>3, <1>4 DEF Types, IdsOK
<1>6. ready' = ready \o ids
  BY DEF Update
<1>7. ids \in Seq(0 .. nextTask' - 1)
  <2> HIDE DEF n
  <2>1. \A i \in 1..n : nextTask + i - 1 \in 0 .. nextTask' - 1
    BY <1>1, <1>2
  <2> QED BY <1>1, <2>1
<1>8. ready \in Seq(0 .. nextTask' - 1)
  <2> DEFINE S == 0 .. nextTask - 1
             T == 0 .. nextTask' - 1
  <2>1. ready \in Seq(S) /\ S \subseteq T
    BY <1>3 DEF Types, IdsOK
  <2> HIDE DEF S, T
  <2>2. ready \in Seq(T)
    BY <2>1, SeqOfMore
  <2> QED BY <2>2 DEF T
<1> HIDE DEF ids, spawned, n
<1>9. ready' \in Seq(0 .. nextTask' - 1)
  BY <1>6, <1>7, <1>8, ConcatProperties
<1>10. external' \in Seq(1..MaxSends)
  <2>1. external' = <<>> \/ external' = external \/ (external # <<>> /\ external' = Tail(external))
    BY DEF Update, Source
  <2>2. external # <<>> => Tail(external) \in Seq(1..MaxSends)
    BY HeadTailProperties DEF Types, SentOK
  <2> QED BY <2>1, <2>2, EmptySeq DEF Types, SentOK
<1>11. dormant' \in Nat /\ due' = due /\ dormant' + due' <= 1
  <2>1. dormant' = dormant + Of("after", command) /\ due' = due
    BY DEF Update
  <2>2. Of("after", command) > 0 => dormant' + due <= 1
    BY DEF Update
  <2> QED BY <1>1, <2>1, <2>2 DEF Types, TimersOK
<1>12. preferExternal' \in BOOLEAN /\ notified' \in BOOLEAN /\ dirty' \in BOOLEAN
       /\ quitting' \in BOOLEAN
  BY DEF Update, HandPreferenceOver, Quits, Types, FlagsOK
<1>13. turn' \in [updates : Nat, completed : Nat, work : Nat, progressed : BOOLEAN]
  <2>1. turn' = [turn EXCEPT !.updates = @ + 1, !.work = @ + 1, !.progressed = TRUE]
    BY DEF Update
  <2>2. turn.updates + 1 \in Nat /\ turn.work + 1 \in Nat
    BY DEF Types, CountsOK
  <2> QED BY <2>1, <2>2 DEF Types, CountsOK
<1>14. UNCHANGED <<sent, ringing, call>>
  BY DEF Update
<1> QED BY <1>2, <1>5, <1>9, <1>10, <1>11, <1>12, <1>13, <1>14
        DEF Types, IdsOK, SentOK, TimersOK, FlagsOK, CountsOK

LEMMA PollTypes ==
    ASSUME Inv, Types, NEW futures \in 0..PollGroup, NEW timers \in 0..PollGroup,
           Poll(futures, timers)
    PROVE  Types'
<1> DEFINE batch == SubSeq(ready, 1, futures)
           polled == {batch[i] : i \in DOMAIN batch} \intersect live
           work == turn.work + futures + timers
<1> DEFINE Polled(completing, again) ==
        /\ live' = live \ completing
        /\ owed' = owed \ polled
        /\ ready' = SubSeq(ready, futures + 1, Len(ready)) \o again
        /\ due' = due - timers
        /\ notified' = (notified \/ again # <<>>)
        /\ turn' = [turn EXCEPT !.completed = @ + Cardinality(completing), !.work = work,
                                !.progressed = FALSE]
<1>0. PICK completing \in SUBSET polled :
        \E again \in InBatchOrder(batch, polled \ completing) : Polled(completing, again)
  BY DEF Poll
<1>1. PICK again \in InBatchOrder(batch, polled \ completing) : Polled(completing, again)
  BY <1>0
<1>2. UNCHANGED <<external, sent, nextTask, dormant, preferExternal, quitting, dirty, ringing, call>>
  BY DEF Poll
<1>3. futures \in Nat /\ timers \in Nat /\ timers <= due /\ futures <= Len(ready)
  BY DEF Poll
<1>4. due' \in Nat /\ dormant + due' <= 1
  BY <1>1, <1>3, SMTT(30) DEF Types, TimersOK
<1>5. Cardinality(completing) \in Nat
  BY <1>1, FS_Subset, FS_CardinalityType DEF Inv, ControlOK
<1>6. turn' \in [updates : Nat, completed : Nat, work : Nat, progressed : BOOLEAN]
  <2>1. work \in Nat
    BY <1>3 DEF Types, CountsOK
  <2> DEFINE finished == Cardinality(completing)
  <2>2. turn' = [turn EXCEPT !.completed = @ + finished, !.work = work, !.progressed = FALSE]
    BY <1>1
  <2>3. finished \in Nat /\ turn.completed + finished \in Nat
    BY <1>5 DEF Types, CountsOK
  <2> HIDE DEF work, finished
  <2> QED BY <2>1, <2>2, <2>3 DEF Types, CountsOK
<1>7. polled \subseteq live
  OBVIOUS
<1>8. ready' \in Seq(0 .. nextTask - 1)
  <2>1. \E n \in Nat : again \in [1..n -> polled]
    <3>1. Len(batch) \in Nat
      BY <1>3 DEF Types, IdsOK
    <3> HIDE DEF batch, polled
    <3>2. again \in InBatchOrder(batch, polled \ completing)
      BY <1>1
    <3> QED BY <3>1, <3>2 DEF InBatchOrder
  <2> HIDE DEF polled
  <2>2. \E n \in Nat : again \in [1..n -> 0 .. nextTask - 1]
    BY <2>1, <1>7 DEF Types, IdsOK
  <2>3. again \in Seq(0 .. nextTask - 1)
    BY <2>2, SeqDef, ZenonT(40)
  <2>4. SubSeq(ready, futures + 1, Len(ready)) \in Seq(0 .. nextTask - 1)
    BY <1>3 DEF Types, IdsOK
  <2> QED BY <1>1, <2>3, <2>4, ConcatProperties
<1>9. live' \subseteq live /\ owed' \subseteq owed
  BY <1>1
<1>10. notified' \in BOOLEAN
  BY <1>1 DEF Types, FlagsOK
<1> QED BY <1>2, <1>4, <1>6, <1>8, <1>9, <1>10
        DEF Types, IdsOK, SentOK, TimersOK, FlagsOK, CountsOK

LEMMA OtherTypes ==
    ASSUME Inv, Types,
           \/ EndUpdates \/ Report \/ WakeUp \/ Caller \/ Environment \/ UNCHANGED vars
    PROVE  Types'
<1>1. CASE EndUpdates \/ Report \/ UNCHANGED vars
  BY <1>1 DEF EndUpdates, Report, Types, IdsOK, SentOK, TimersOK, FlagsOK, CountsOK
<1>2. CASE WakeUp
  BY <1>2 DEF WakeUp, NewTurn, Types, IdsOK, SentOK, TimersOK, FlagsOK, CountsOK
<1>3. CASE Render \/ UiEvent
  <2>1. external' = <<>> \/ external' = external
    BY <1>3 DEF Render, UiEvent, DispatchUiEvent
  <2>2. external' \in Seq(1..MaxSends)
    BY <2>1, EmptySeq DEF Types, SentOK
  <2> QED BY <1>3, <2>2 DEF Render, UiEvent, DispatchUiEvent, Types, IdsOK, SentOK, TimersOK, FlagsOK, CountsOK
<1>4. CASE Send
  <2>1. sent + 1 \in 1..MaxSends /\ sent' = sent + 1 /\ external' = Append(external, sent + 1)
    BY <1>4, BoundAssumption DEF Send, Types, IdsOK, SentOK, TimersOK, FlagsOK, CountsOK
  <2>2. external' \in Seq(1..MaxSends)
    BY <2>1, AppendProperties DEF Types, IdsOK, SentOK, TimersOK, FlagsOK, CountsOK
  <2> QED BY <1>4, <2>1, <2>2, SMTT(30) DEF Send, Types, IdsOK, SentOK, TimersOK, FlagsOK, CountsOK
<1>5. CASE TimerFallsDue
  BY <1>5 DEF TimerFallsDue, Types, IdsOK, SentOK, TimersOK, FlagsOK, CountsOK
<1>6. ASSUME NEW w \in Wakers, Ring(w) PROVE Types'
  BY <1>6 DEF Ring, Types, IdsOK, SentOK, TimersOK, FlagsOK, CountsOK
<1>7. ASSUME NEW w \in Wakers, NEW t \in live, Wake(w, t) PROVE Types'
  <2>1. t \in 0 .. nextTask - 1
    BY DEF Types, IdsOK, SentOK, TimersOK, FlagsOK, CountsOK
  <2>2. Append(ready, t) \in Seq(0 .. nextTask - 1)
    BY <2>1, AppendProperties DEF Types, IdsOK, SentOK, TimersOK, FlagsOK, CountsOK
  <2>3. ready' \in Seq(0 .. nextTask - 1) /\ ringing' \subseteq Wakers
    BY <1>7, <2>2 DEF Wake, Types, IdsOK, SentOK, TimersOK, FlagsOK, CountsOK
  <2>4. owed' \subseteq 0 .. nextTask - 1
    BY <1>7, <2>1 DEF Wake, Types, IdsOK, SentOK, TimersOK, FlagsOK, CountsOK
  <2> QED BY <1>7, <2>3, <2>4 DEF Wake, Types, IdsOK, SentOK, TimersOK, FlagsOK, CountsOK
<1>8. ASSUME NEW kind \in {"turn", "first"}, BeginTurn(kind) PROVE Types'
  BY <1>8 DEF BeginTurn, NewTurn, Types, IdsOK, SentOK, TimersOK, FlagsOK, CountsOK
<1> QED BY <1>1, <1>2, <1>3, <1>4, <1>5, <1>6, <1>7, <1>8
        DEF Caller, Environment

\* The state of the runner is well typed: among others, every id that is live,
\* queued or owed is one that was spawned, and every admitted message was sent.
THEOREM LoopTypeCorrect == Spec => []TypeOK
<1>1. Init => Types
  <2> SUFFICES ASSUME Init PROVE Types
    OBVIOUS
  <2>1. IdsOK
    BY BoundAssumption DEF Init, IdsOK
  <2>2. SentOK
    BY BoundAssumption DEF Init, SentOK
  <2>3. TimersOK
    BY DEF Init, TimersOK
  <2>4. FlagsOK
    BY DEF Init, FlagsOK
  <2>5. CountsOK
    BY DEF Init, NewTurn, CountsOK
  <2> QED BY <2>1, <2>2, <2>3, <2>4, <2>5 DEF Types
<1>2. Inv /\ Types /\ [Next]_vars => Types'
  BY UpdateTypes, PollTypes, OtherTypes DEF Next, TurnStep, UpdateAny, PollAny
<1>3. Inv /\ Types => TypeOK
  BY BoundedTurn DEF Inv, ControlOK, TypeOK, Types, IdsOK, SentOK, TimersOK, FlagsOK, CountsOK
<1> QED BY <1>1, <1>2, <1>3, InvHolds, PTL DEF Spec
================================================================================
