--------------------------- MODULE EventIngress ---------------------------
(***************************************************************************)
(* External message ingress of the runtime: EventProxy::send called by any *)
(* number of producer threads, the EventReceiver owned by the runner, and  *)
(* the WakeSignal the runner sleeps on.                                    *)
(*                                                                         *)
(* The ingress mutex makes each critical section one step.  `send' is two  *)
(* steps: the admission under the mutex, and the notification made after   *)
(* the mutex is released, so a producer can be stopped between the two.    *)
(* The runner drains, sees the queue empty, and only later enters          *)
(* WakeSignal::wait, so producers can act between these steps as well.     *)
(***************************************************************************)
EXTENDS Naturals, Sequences

CONSTANTS Producers,   \* threads holding a clone of the EventProxy
          Capacity,    \* RuntimeOptions::event_ingress_capacity, a NonZeroUsize
          MaxSends     \* bound: calls of `send' per producer

ASSUME IngressAssumption ==
    /\ Capacity \in Nat \ {0}
    /\ MaxSends \in Nat

VARIABLES
    queue,       \* EventIngressState::queue
    closed,      \* EventIngressState::closed
    accepted, rejected, dequeued, highWater,   \* the admission metrics
    sender,      \* per producer: "idle", or "admitted" between unlock and notify
    calls,       \* per producer: calls of `send' so far
    notified,    \* WakeSignal::notified
    runner,      \* "draining", "parking" (saw nothing to do) or "asleep" in wait
    log,         \* history: every message ever admitted, in admission order
    delivered    \* history: every message `receive' has returned

metrics == <<accepted, rejected, dequeued, highWater>>
vars == <<queue, closed, metrics, sender, calls, notified, runner, log, delivered>>

\* Each call of `send' carries a message of its own.
Message == Producers \X (1..MaxSends)

\* Mutation: the depth is subtracted where the larger of the two is kept.
HighWaterLost(a, b) == a - b
Higher(a, b) == IF a >= b THEN a ELSE b

\* Mutation: the capacity test is off by one.
RoomForOneMore == Len(queue) <= Capacity
Room == Len(queue) < Capacity

\* Mutation: `send' does not look at `closed'.
AlwaysAccepting == TRUE
Accepting == ~closed

Init ==
    /\ queue = <<>>
    /\ closed = FALSE
    /\ accepted = 0 /\ rejected = 0 /\ dequeued = 0 /\ highWater = 0
    /\ sender = [p \in Producers |-> "idle"]
    /\ calls = [p \in Producers |-> 0]
    /\ notified = FALSE
    /\ runner = "draining"
    /\ log = <<>>
    /\ delivered = <<>>
---------------------------------------------------------------------------
BeginSend(p) ==
    /\ sender[p] = "idle"
    /\ calls[p] < MaxSends
    /\ calls' = [calls EXCEPT ![p] = @ + 1]
    /\ UNCHANGED <<closed, dequeued, notified, runner, delivered>>

\* `send' finds room: the message is queued, the notification still to come.
Admit(p) ==
    /\ BeginSend(p)
    /\ Accepting /\ Room
    /\ LET m == <<p, calls[p] + 1>> IN
         /\ queue' = Append(queue, m)
         /\ log' = Append(log, m)
    /\ accepted' = accepted + 1
    /\ highWater' = Higher(highWater, Len(queue) + 1)
    /\ sender' = [sender EXCEPT ![p] = "admitted"]
    /\ UNCHANGED rejected

\* `send' returns Full.
RejectFull(p) ==
    /\ BeginSend(p)
    /\ Accepting /\ ~Room
    /\ rejected' = rejected + 1
    /\ UNCHANGED <<queue, log, accepted, highWater, sender>>

\* `send' returns Closed, which is not counted.
RejectClosed(p) ==
    /\ BeginSend(p)
    /\ ~Accepting
    /\ UNCHANGED <<queue, log, accepted, rejected, highWater, sender>>

\* Mutation: the flag is set only for a runner that is already asleep.
NotifySleeperOnly(p) ==
    /\ sender[p] = "admitted"
    /\ sender' = [sender EXCEPT ![p] = "idle"]
    /\ notified' = (notified \/ runner = "asleep")
    /\ UNCHANGED <<queue, closed, metrics, calls, runner, log, delivered>>

\* The second half of a successful `send', outside the mutex.
Notify(p) ==
    /\ sender[p] = "admitted"
    /\ sender' = [sender EXCEPT ![p] = "idle"]
    /\ notified' = TRUE
    /\ UNCHANGED <<queue, closed, metrics, calls, runner, log, delivered>>

\* Mutation: the newest message is taken instead of the oldest.
ReceiveNewest ==
    /\ runner = "draining"
    /\ queue # <<>>
    /\ queue' = SubSeq(queue, 1, Len(queue) - 1)
    /\ delivered' = Append(delivered, queue[Len(queue)])
    /\ dequeued' = dequeued + 1
    /\ UNCHANGED <<closed, accepted, rejected, highWater, sender, calls,
                   notified, runner, log>>

Receive ==
    /\ runner = "draining"
    /\ queue # <<>>
    /\ queue' = Tail(queue)
    /\ delivered' = Append(delivered, Head(queue))
    /\ dequeued' = dequeued + 1
    /\ UNCHANGED <<closed, accepted, rejected, highWater, sender, calls,
                   notified, runner, log>>

\* request_quit, or the receiver is dropped with the runner.
Close ==
    /\ runner = "draining"
    /\ closed' = TRUE
    /\ queue' = <<>>
    /\ UNCHANGED <<metrics, sender, calls, notified, runner, log, delivered>>

\* `receive' returned None: the runner is on its way to WakeSignal::wait.
SeeEmpty ==
    /\ runner = "draining"
    /\ ~closed
    /\ queue = <<>>
    /\ runner' = "parking"
    /\ UNCHANGED <<queue, closed, metrics, sender, calls, notified, log, delivered>>

\* Mutation: `wait' forgets earlier notifications before it sleeps.
EnterWaitForgetful ==
    /\ runner = "parking"
    /\ runner' = "asleep"
    /\ notified' = FALSE
    /\ UNCHANGED <<queue, closed, metrics, sender, calls, log, delivered>>

\* `wait' consumes a flag that is already set and returns, or sleeps.  This is the
\* wait of wait_for_work; run_terminal waits in the same way, but on other grounds,
\* when it has no session to poll (NoEvent of TerminalLoop).
EnterWait ==
    /\ runner = "parking"
    /\ runner' = IF notified THEN "draining" ELSE "asleep"
    /\ notified' = FALSE
    /\ UNCHANGED <<queue, closed, metrics, sender, calls, log, delivered>>

\* `wait' returns, with the flag consumed, because it was set ...
EndWait ==
    /\ runner = "asleep"
    /\ runner' = "draining"
    /\ notified' = FALSE
    /\ UNCHANGED <<queue, closed, metrics, sender, calls, log, delivered>>

WakeUp == notified /\ EndWait
\* ... or because the timeout expired.
TimeOut == ~notified /\ EndWait

Next ==
    \/ \E p \in Producers : Admit(p) \/ RejectFull(p) \/ RejectClosed(p) \/ Notify(p)
    \/ Receive
    \/ Close
    \/ SeeEmpty
    \/ EnterWait
    \/ WakeUp
    \/ TimeOut

\* A thread that has admitted a message goes on to notify, the runner goes on
\* draining, and a sleeping runner whose flag is set wakes.  The timeout is
\* never relied on: a delivery has to come from the notification alone.
Fairness ==
    /\ \A p \in Producers : WF_vars(Notify(p))
    /\ WF_vars(Receive)
    /\ WF_vars(EnterWait)
    /\ WF_vars(WakeUp)

Spec == Init /\ [][Next]_vars
FairSpec == Spec /\ Fairness
---------------------------------------------------------------------------
\* Type invariant of the ingress state, the signal and the histories.
TypeOK ==
    /\ queue \in Seq(Message)
    /\ closed \in BOOLEAN
    /\ accepted \in Nat /\ rejected \in Nat /\ dequeued \in Nat /\ highWater \in Nat
    /\ sender \in [Producers -> {"idle", "admitted"}]
    /\ calls \in [Producers -> 0..MaxSends]
    /\ notified \in BOOLEAN
    /\ runner \in {"draining", "parking", "asleep"}
    /\ log \in Seq(Message)
    /\ delivered \in Seq(Message)

\* `send' "accepts the new message exactly once", and `Full' "leaves the
\* accepted FIFO unchanged": until the ingress closes, what was delivered
\* followed by what still waits is exactly what was admitted, in admission
\* order; a close gives up the waiting tail and nothing else.
ExactlyOnce ==
    /\ ~closed => delivered \o queue = log
    /\ closed => /\ queue = <<>>
                 /\ Len(delivered) <= Len(log)
                 /\ delivered = SubSeq(log, 1, Len(delivered))

\* The metrics a producer reads agree with the queue they describe, across
\* concurrent sends, a receiver that drains, and a close that empties it.
MetricsConsistent ==
    /\ accepted = Len(log)
    /\ dequeued = Len(delivered)
    /\ Len(queue) <= highWater
    /\ highWater <= Capacity
    /\ ~closed => accepted - dequeued = Len(queue)

\* No lost wake-up: a runner that has seen the queue empty, asleep or about to
\* sleep, while a message waits either has its flag set already or is owed a
\* notification by a producer still inside `send'.
NoLostWakeup ==
    (runner # "draining" /\ queue # <<>>) =>
        notified \/ \E p \in Producers : sender[p] = "admitted"

\* The ingress is a bounded first-in first-out channel, and with its fairness
\* it delivers every admitted message unless it is closed.
Channel == INSTANCE BoundedChannel WITH
    Message <- Message, Depth <- Capacity,
    history <- log, taken <- Len(delivered), open <- ~closed

\* Every behaviour of the ingress is one of the bounded channel: no step of a
\* producer, the receiver or the sleeping runner does anything else to it.
ImplementsChannel == Channel!Spec

\* An admitted message is delivered, unless the ingress closes, although the
\* runner may sleep for ever when nobody notifies it.
DeliversWithoutTimeout == Channel!FairSpec

\* `Closed' "means ... shutdown ... has ended ingress": afterwards nothing is
\* admitted and nothing admitted earlier is delivered.
ClosedIsFinal == [][closed => closed' /\ UNCHANGED <<log, delivered>>]_vars
===========================================================================
