------------------------ MODULE EventIngressProofs ------------------------
(***************************************************************************)
(* Proofs about EventIngress for any set of producers, any capacity and    *)
(* any number of calls: type correctness, exactly-once admission, the      *)
(* metrics, no lost wake-up, finality of a close, and the refinement of    *)
(* BoundedChannel.  Each invariant is inductive relative to those before   *)
(* it, so no further strengthening is needed.                              *)
(***************************************************************************)
EXTENDS EventIngress, SequenceTheorems, TLAPS

\* Taking the head of `t' and putting it after `s' keeps their concatenation.
LEMMA ShiftHead ==
    ASSUME NEW S, NEW s \in Seq(S), NEW t \in Seq(S), t # <<>>
    PROVE  Append(s, Head(t)) \o Tail(t) = s \o t
<1>1. Len(t) \in Nat /\ 1 \in 1..Len(t) /\ Len(t) \in 1..Len(t)
  BY EmptySeq, LenProperties
<1>2. t = <<t[1]>> \o SubSeq(t, 2, Len(t))
  BY <1>1, SubSeqFull, SubSeqRecursiveFirst
<1>3. Tail(t) = SubSeq(t, 2, Len(t)) /\ Tail(t) \in Seq(S)
  BY TailIsSubSeq, HeadTailProperties
<1>4. Head(t) = t[1] /\ Head(t) \in S /\ <<Head(t)>> \in Seq(S)
  BY HeadTailProperties
<1>5. Append(s, Head(t)) = s \o <<Head(t)>>
  BY <1>4, AppendIsConcat
<1>6. (s \o <<Head(t)>>) \o Tail(t) = s \o (<<Head(t)>> \o Tail(t))
  BY <1>3, <1>4, ConcatAssociative, SMTT(30)
<1> QED BY <1>2, <1>3, <1>4, <1>5, <1>6

\* Appending to both a suffix and the whole keeps the whole a concatenation.
LEMMA AppendBoth ==
    ASSUME NEW S, NEW s \in Seq(S), NEW t \in Seq(S), NEW e \in S
    PROVE  s \o Append(t, e) = Append(s \o t, e)
<1>1. Append(t, e) = t \o <<e>> /\ <<e>> \in Seq(S)
  BY AppendIsConcat
<1>2. Append(s \o t, e) = (s \o t) \o <<e>>
  BY AppendIsConcat, ConcatProperties
<1> QED BY <1>1, <1>2, ConcatAssociative

\* The first part of a concatenation is a prefix of it.
LEMMA FirstPartIsPrefix ==
    ASSUME NEW S, NEW s \in Seq(S), NEW t \in Seq(S)
    PROVE  s = SubSeq(s \o t, 1, Len(s))
<1>1. CASE Len(s) = 0
  <2>1. s = <<>>
    BY <1>1, EmptySeq
  <2> QED BY <1>1, <2>1, SubSeqEmpty
<1>2. CASE Len(s) # 0
  <2>1. Len(s) \in Nat /\ 1 \in 1..Len(s) /\ Len(s) \in 1..Len(s)
    BY <1>2, LenProperties
  <2> QED BY <2>1, SubSeqOfConcat1, SubSeqFull
<1> QED BY <1>1, <1>2
---------------------------------------------------------------------------
\* Type correctness of the ingress, whatever the producers and the runner do.
THEOREM TypeCorrect == Spec => []TypeOK
<1> USE IngressAssumption DEF TypeOK, IngressAssumption
<1>1. Init => TypeOK
  <2>1. <<>> \in Seq(Message)
    BY EmptySeq
  <2>2. Init => calls \in [Producers -> 0..MaxSends] /\ sender \in [Producers -> {"idle", "admitted"}]
    BY DEF Init
  <2>3. Init => queue \in Seq(Message) /\ log \in Seq(Message) /\ delivered \in Seq(Message)
    BY <2>1 DEF Init
  <2>4. Init => closed \in BOOLEAN /\ notified \in BOOLEAN /\ runner \in {"draining", "parking", "asleep"}
    BY DEF Init
  <2>5. Init => accepted \in Nat /\ rejected \in Nat /\ dequeued \in Nat /\ highWater \in Nat
    BY DEF Init
  <2> QED BY <2>2, <2>3, <2>4, <2>5
<1>2. TypeOK /\ [Next]_vars => TypeOK'
  <2> SUFFICES ASSUME TypeOK, [Next]_vars PROVE TypeOK'
    OBVIOUS
  <2>1. ASSUME NEW p \in Producers, Admit(p) PROVE TypeOK'
    <3>1. <<p, calls[p] + 1>> \in Message /\ calls[p] + 1 \in 0..MaxSends
      BY <2>1, SMTT(30) DEF Admit, BeginSend, Message
    <3>2. /\ queue' = Append(queue, <<p, calls[p] + 1>>)
          /\ log' = Append(log, <<p, calls[p] + 1>>)
          /\ accepted' = accepted + 1
          /\ highWater' = IF highWater >= Len(queue) + 1 THEN highWater ELSE Len(queue) + 1
          /\ sender' = [sender EXCEPT ![p] = "admitted"]
          /\ calls' = [calls EXCEPT ![p] = calls[p] + 1]
          /\ UNCHANGED <<rejected, closed, dequeued, notified, runner, delivered>>
      BY <2>1 DEF Admit, BeginSend, Higher
    <3> HIDE DEF Message
    <3> QED BY <3>1, <3>2, SMTT(30)
  <2>2. ASSUME NEW p \in Producers, RejectFull(p) PROVE TypeOK'
    BY <2>2 DEF RejectFull, BeginSend
  <2>3. ASSUME NEW p \in Producers, RejectClosed(p) PROVE TypeOK'
    BY <2>3 DEF RejectClosed, BeginSend
  <2>4. ASSUME NEW p \in Producers, Notify(p) PROVE TypeOK'
    BY <2>4 DEF Notify, metrics
  <2>5. CASE Receive
    BY <2>5 DEF Receive
  <2>6. CASE Close
    BY <2>6 DEF Close, metrics
  <2>7. CASE SeeEmpty
    BY <2>7 DEF SeeEmpty, metrics
  <2>8. CASE EnterWait
    BY <2>8 DEF EnterWait, metrics
  <2>9. CASE EndWait
    BY <2>9 DEF EndWait, metrics
  <2>10. CASE UNCHANGED vars
    BY <2>10 DEF vars, metrics
  <2> QED BY <2>1, <2>2, <2>3, <2>4, <2>5, <2>6, <2>7, <2>8, <2>9, <2>10
          DEF Next, WakeUp, TimeOut
<1> QED BY <1>1, <1>2, PTL DEF Spec

---------------------------------------------------------------------------
\* What the steps that neither queue nor take a message leave alone.
LEMMA QueueUntouched ==
    ASSUME SeeEmpty \/ EnterWait \/ EndWait \/ UNCHANGED vars \/ \E p \in Producers : Notify(p)
    PROVE  UNCHANGED <<queue, closed, metrics, log, delivered>>
BY DEF SeeEmpty, EnterWait, EndWait, vars, Notify

\* A refused call of `send' changes the count of refusals and nothing else.
LEMMA RefusalUntouched ==
    ASSUME NEW p \in Producers, RejectFull(p) \/ RejectClosed(p)
    PROVE  /\ UNCHANGED <<queue, closed, accepted, dequeued, highWater, log, delivered>>
           /\ UNCHANGED <<sender, notified, runner>>
BY DEF RejectFull, RejectClosed, BeginSend

\* The message of an admitted call is one of the messages of its producer.
LEMMA AdmittedIsMessage ==
    ASSUME TypeOK, NEW p \in Producers, Admit(p)
    PROVE  <<p, calls[p] + 1>> \in Message
BY IngressAssumption DEF IngressAssumption, TypeOK, Admit, BeginSend, Message

\* Every admitted message is delivered, waiting, or given up by a close: the
\* histories and the queue stay one sequence for every interleaving of sends.
THEOREM AdmissionIsExactlyOnce == Spec => []ExactlyOnce
<1>1. Init => ExactlyOnce
  <2>1. <<>> \in Seq(Message)
    BY EmptySeq
  <2> QED BY <2>1, ConcatEmptySeq DEF Init, ExactlyOnce
<1>2. TypeOK /\ ExactlyOnce /\ [Next]_vars => ExactlyOnce'
  <2> SUFFICES ASSUME TypeOK, ExactlyOnce, [Next]_vars PROVE ExactlyOnce'
    OBVIOUS
  <2> USE DEF ExactlyOnce
  <2>1. ASSUME NEW p \in Producers, Admit(p) PROVE ExactlyOnce'
    <3> DEFINE m == <<p, calls[p] + 1>>
    <3>1. /\ ~closed /\ closed' = closed /\ delivered' = delivered
          /\ queue' = Append(queue, m) /\ log' = Append(log, m)
      BY <2>1 DEF Admit, BeginSend, Accepting
    <3>2. m \in Message
      BY <2>1, AdmittedIsMessage
    <3>3. delivered \o Append(queue, m) = Append(delivered \o queue, m)
      BY <3>2, AppendBoth, SMTT(30) DEF TypeOK
    <3> QED BY <3>1, <3>3
  <2>2. ASSUME NEW p \in Producers, RejectFull(p) \/ RejectClosed(p) PROVE ExactlyOnce'
    BY <2>2, RefusalUntouched
  <2>3. CASE Receive
    <3>1. ~closed /\ queue # <<>> /\ closed' = closed /\ log' = log
      BY <2>3 DEF Receive
    <3>2. delivered' \o queue' = delivered \o queue
      BY <2>3, <3>1, ShiftHead DEF Receive, TypeOK
    <3> QED BY <3>1, <3>2
  <2>4. CASE Close
    <3>1. closed' /\ queue' = <<>> /\ log' = log /\ delivered' = delivered
      BY <2>4 DEF Close
    <3>2. CASE closed
      BY <3>1, <3>2
    <3>3. CASE ~closed
      <4>1. log = delivered \o queue
        BY <3>3
      <4>2. delivered = SubSeq(log, 1, Len(delivered))
        BY <4>1, FirstPartIsPrefix DEF TypeOK
      <4>3. Len(delivered) <= Len(log)
        BY <4>1, ConcatProperties, LenProperties DEF TypeOK
      <4> QED BY <3>1, <4>2, <4>3
    <3> QED BY <3>2, <3>3
  <2>5. CASE SeeEmpty \/ EnterWait \/ EndWait \/ UNCHANGED vars \/ \E p \in Producers : Notify(p)
    BY <2>5, QueueUntouched
  <2> QED BY <2>1, <2>2, <2>3, <2>4, <2>5 DEF Next, WakeUp, TimeOut
<1> QED BY <1>1, <1>2, TypeCorrect, PTL DEF Spec

\* The metrics describe the queue in every state a producer can read them in.
THEOREM MetricsAreConsistent == Spec => []MetricsConsistent
<1>1. Init => MetricsConsistent
  BY IngressAssumption DEF Init, MetricsConsistent, IngressAssumption
<1>2. TypeOK /\ ExactlyOnce /\ MetricsConsistent /\ [Next]_vars => MetricsConsistent'
  <2> SUFFICES ASSUME TypeOK, ExactlyOnce, MetricsConsistent, [Next]_vars
               PROVE  MetricsConsistent'
    OBVIOUS
  <2> USE IngressAssumption DEF MetricsConsistent, IngressAssumption
  <2>0. /\ Len(queue) \in Nat /\ Len(log) \in Nat /\ Len(delivered) \in Nat
        /\ accepted \in Nat /\ dequeued \in Nat /\ highWater \in Nat
    BY LenProperties DEF TypeOK
  <2>1. ASSUME NEW p \in Producers, Admit(p) PROVE MetricsConsistent'
    <3> DEFINE m == <<p, calls[p] + 1>>
    <3>1. m \in Message
      BY <2>1, AdmittedIsMessage
    <3>2. Len(queue') = Len(queue) + 1 /\ Len(log') = Len(log) + 1
      BY <2>1, <3>1, AppendProperties DEF Admit, TypeOK
    <3>3. /\ Len(queue) < Capacity
          /\ accepted' = accepted + 1
          /\ highWater' = IF highWater >= Len(queue) + 1 THEN highWater ELSE Len(queue) + 1
          /\ UNCHANGED <<closed, dequeued, delivered>>
      BY <2>1 DEF Admit, BeginSend, Room, Higher
    <3> QED BY <2>0, <3>2, <3>3, SMTT(30)
  <2>2. ASSUME NEW p \in Producers, RejectFull(p) \/ RejectClosed(p) PROVE MetricsConsistent'
    BY <2>2, RefusalUntouched
  <2>3. CASE Receive
    <3>1. Len(queue') = Len(queue) - 1 /\ Len(delivered') = Len(delivered) + 1
      BY <2>3, HeadTailProperties, AppendProperties DEF Receive, TypeOK
    <3>2. dequeued' = dequeued + 1 /\ UNCHANGED <<closed, accepted, highWater, log>>
      BY <2>3 DEF Receive
    <3> QED BY <2>0, <3>1, <3>2
  <2>4. CASE Close
    <3>1. /\ closed' /\ queue' = <<>>
          /\ UNCHANGED <<accepted, dequeued, highWater, log, delivered>>
      BY <2>4 DEF Close, metrics
    <3>2. Len(queue') = 0
      BY <3>1, EmptySeq
    <3> QED BY <2>0, <3>1, <3>2
  <2>5. CASE SeeEmpty \/ EnterWait \/ EndWait \/ UNCHANGED vars \/ \E p \in Producers : Notify(p)
    BY <2>5, QueueUntouched DEF metrics
  <2> QED BY <2>1, <2>2, <2>3, <2>4, <2>5 DEF Next, WakeUp, TimeOut
<1> QED BY <1>1, <1>2, TypeCorrect, AdmissionIsExactlyOnce, PTL DEF Spec

\* The runner never goes to sleep on a message nobody will wake it for.
THEOREM WakeupsAreNotLost == Spec => []NoLostWakeup
<1>1. Init => NoLostWakeup
  BY DEF Init, NoLostWakeup
<1>2. TypeOK /\ NoLostWakeup /\ [Next]_vars => NoLostWakeup'
  <2> SUFFICES ASSUME TypeOK, NoLostWakeup, [Next]_vars,
                      runner' # "draining", queue' # <<>>
               PROVE  notified' \/ \E p \in Producers : sender'[p] = "admitted"
    BY DEF NoLostWakeup
  <2> USE DEF NoLostWakeup
  <2>1. ASSUME NEW p \in Producers, Admit(p)
        PROVE  sender'[p] = "admitted"
    BY <2>1 DEF Admit, TypeOK
  <2>2. ASSUME NEW p \in Producers, RejectFull(p) \/ RejectClosed(p)
        PROVE  UNCHANGED <<queue, runner, notified, sender>>
    BY <2>2, RefusalUntouched
  <2>3. ASSUME NEW p \in Producers, Notify(p) PROVE notified'
    BY <2>3 DEF Notify
  <2>4. ~Receive /\ ~Close
    BY DEF Receive, Close
  <2>5. CASE SeeEmpty
    BY <2>5 DEF SeeEmpty
  <2>6. CASE EnterWait
    BY <2>6 DEF EnterWait
  <2>7. ~EndWait
    BY DEF EndWait
  <2>8. CASE UNCHANGED vars
    BY <2>8 DEF vars
  <2> QED BY <2>1, <2>2, <2>3, <2>4, <2>5, <2>6, <2>7, <2>8 DEF Next, WakeUp, TimeOut
<1> QED BY <1>1, <1>2, TypeCorrect, PTL DEF Spec

\* A step of the ingress after it closed neither admits nor delivers.
THEOREM CloseIsFinal == Spec => ClosedIsFinal
<1>1. ExactlyOnce /\ [Next]_vars => [closed => closed' /\ UNCHANGED <<log, delivered>>]_vars
  <2> SUFFICES ASSUME ExactlyOnce, [Next]_vars, closed
               PROVE  closed' /\ UNCHANGED <<log, delivered>>
    OBVIOUS
  <2>1. ASSUME NEW p \in Producers PROVE ~Admit(p)
    BY DEF Admit, Accepting
  <2>2. ASSUME NEW p \in Producers, RejectFull(p) \/ RejectClosed(p)
        PROVE  UNCHANGED <<closed, log, delivered>>
    BY <2>2, RefusalUntouched
  <2>3. ~Receive
    BY DEF Receive, ExactlyOnce
  <2>4. CASE Close
    BY <2>4 DEF Close
  <2>5. CASE SeeEmpty \/ EnterWait \/ EndWait \/ UNCHANGED vars \/ \E p \in Producers : Notify(p)
    BY <2>5, QueueUntouched
  <2> QED BY <2>1, <2>2, <2>3, <2>4, <2>5 DEF Next, WakeUp, TimeOut
<1> QED BY <1>1, AdmissionIsExactlyOnce, PTL DEF Spec, ClosedIsFinal

\* The ingress implements the bounded channel: an admission is a Put, a receive
\* a Take, a first close the Shut, and every other step changes nothing of it.
THEOREM IngressImplementsChannel == Spec => ImplementsChannel
<1>1. Init => Channel!Init
  <2>1. Len(<<>>) = 0
    BY EmptySeq
  <2> QED BY <2>1 DEF Init, Channel!Init
<1>2. TypeOK /\ ExactlyOnce /\ [Next]_vars => [Channel!Next]_(Channel!chan)
  <2> SUFFICES ASSUME TypeOK, ExactlyOnce, [Next]_vars
               PROVE  Channel!Next \/ UNCHANGED Channel!chan
    OBVIOUS
  <2>0. /\ Len(queue) \in Nat /\ Len(log) \in Nat /\ Len(delivered) \in Nat
        /\ ~closed => Len(log) = Len(delivered) + Len(queue)
    BY LenProperties, ConcatProperties DEF TypeOK, ExactlyOnce
  <2>1. ASSUME NEW p \in Producers, Admit(p) PROVE Channel!Put(<<p, calls[p] + 1>>)
    <3>1. /\ ~closed /\ closed' = closed /\ delivered' = delivered
          /\ Len(queue) < Capacity /\ log' = Append(log, <<p, calls[p] + 1>>)
      BY <2>1 DEF Admit, BeginSend, Accepting, Room
    <3>2. Len(log) - Len(delivered) < Capacity
      BY <2>0, <3>1, IngressAssumption DEF IngressAssumption
    <3> QED BY <3>1, <3>2 DEF Channel!Put
  <2>2. ASSUME NEW p \in Producers, RejectFull(p) \/ RejectClosed(p)
        PROVE  UNCHANGED Channel!chan
    BY <2>2, RefusalUntouched DEF Channel!chan
  <2>3. CASE Receive
    <3>1. ~closed /\ closed' = closed /\ log' = log /\ queue # <<>>
      BY <2>3 DEF Receive, ExactlyOnce
    <3>2. Len(queue) > 0
      BY <3>1, <2>0, EmptySeq DEF TypeOK
    <3>3. Len(delivered') = Len(delivered) + 1
      BY <2>3, HeadTailProperties, AppendProperties DEF Receive, TypeOK
    <3>4. Channel!Take
      BY <2>0, <3>1, <3>2, <3>3 DEF Channel!Take
    <3> QED BY <3>4 DEF Channel!Next
  <2>4. CASE Close
    <3>1. closed' /\ UNCHANGED <<log, delivered>>
      BY <2>4 DEF Close
    <3>2. CASE closed
      BY <3>1, <3>2 DEF Channel!chan, TypeOK
    <3>3. CASE ~closed
      <4>1. Channel!Shut
        BY <3>1, <3>3 DEF Channel!Shut
      <4> QED BY <4>1 DEF Channel!Next
    <3> QED BY <3>2, <3>3
  <2>5. CASE SeeEmpty \/ EnterWait \/ EndWait \/ UNCHANGED vars \/ \E p \in Producers : Notify(p)
    BY <2>5, QueueUntouched DEF Channel!chan
  <2>6. ASSUME NEW p \in Producers, Admit(p) PROVE Channel!Next
    <3>1. <<p, calls[p] + 1>> \in Message
      BY <2>6, AdmittedIsMessage
    <3> QED BY <2>1, <2>6, <3>1 DEF Channel!Next
  <2> QED BY <2>2, <2>3, <2>4, <2>5, <2>6 DEF Next, WakeUp, TimeOut
<1> QED BY <1>1, <1>2, TypeCorrect, AdmissionIsExactlyOnce, PTL
        DEF Spec, ImplementsChannel, Channel!Spec
===========================================================================
