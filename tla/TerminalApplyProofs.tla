------------------------- MODULE TerminalApplyProofs --------------------------
(***************************************************************************)
(* The inductive invariant of TerminalModes, and that opening a session    *)
(* and apply_state keep it; TerminalModesProofs has the other calls, and   *)
(* the theorems.                                                           *)
(*                                                                         *)
(* The first half is what both rest on: the terminal at the end of any     *)
(* sequence of commands, and the backend that recorded them; what a writer *)
(* that fails at a byte has made of both; the types of commands and        *)
(* terminals, and what each command does.  A Path says where a phase       *)
(* leads, and what is left of it wherever it is cut short.                 *)
(*                                                                         *)
(* Virtual is the terminal once the writer has sent what it holds back:    *)
(* what the backend knows (Known) is known of it.                          *)
(***************************************************************************)
EXTENDS TerminalModes, Integers, SequenceTheorems, FiniteSetTheorems, WellFoundedInduction, TLAPS

LEMMA LeastExists ==
    ASSUME NEW S, S \subseteq Nat, S # {}
    PROVE  \E x \in S : \A y \in S : x <= y
<1> DEFINE Less == OpToRel(<, Nat)
<1>1. \E x \in S : \A y \in S : <<y, x>> \notin Less
  <2>1. IsWellFoundedOn(Less, Nat)
    BY NatLessThanWellFounded
  <2> QED BY <2>1, WFMin
<1>2. Less = {ss \in Nat \X Nat : ss[1] < ss[2]}
  BY DEF OpToRel
<1> HIDE DEF Less
<1>3. PICK x \in S : \A y \in S : <<y, x>> \notin Less
  BY <1>1
<1>4. ASSUME NEW y \in S PROVE x <= y
  <2>1. x \in Nat /\ y \in Nat /\ <<y, x>> \notin Less
    BY <1>3
  <2> QED BY <1>2, <2>1
<1> QED BY <1>3, <1>4

\* Induction up to n, over a set.
LEMMA Induction ==
    ASSUME NEW n \in Nat, NEW S, 0 \in S, \A m \in 0 .. n - 1 : m \in S => m + 1 \in S
    PROVE  \A m \in 0..n : m \in S
<1> DEFINE Rest == (0..n) \ S
<1> SUFFICES ASSUME Rest # {} PROVE FALSE
  OBVIOUS
<1>0. Rest \subseteq Nat
  OBVIOUS
<1>1. PICK m \in Rest : \A y \in Rest : m <= y
  <2> HIDE DEF Rest
  <2> QED BY <1>0, LeastExists
<1>2. m # 0 /\ m - 1 \in 0 .. n - 1 /\ m - 1 \notin Rest
  BY <1>1
<1>3. (m - 1) + 1 \in S
  BY <1>2
<1> QED BY <1>1, <1>3

\* The states of the terminal on the way through some commands.
IsRun(r, t, cs) ==
    r = [n \in 0..Len(cs) |-> IF n = 0 THEN t ELSE Receive(r[n - 1], cs[n])]

LEMMA RunExists ==
    ASSUME NEW cs, Len(cs) \in Nat, NEW t
    PROVE  \E r : IsRun(r, t, cs)
<1> DEFINE Upto(r, m) == r = [n \in 0..m |-> IF n = 0 THEN t ELSE Receive(r[n - 1], cs[n])]
           S == {m \in 0..Len(cs) : \E r : Upto(r, m)}
<1>1. 0 \in S
  <2> DEFINE r == [n \in {0} |-> t]
  <2>1. Upto(r, 0)
    <3>1. 0..0 = {0}
      OBVIOUS
    <3> QED BY <3>1
  <2> HIDE DEF r
  <2> QED BY <2>1
<1>2. ASSUME NEW m \in 0 .. Len(cs) - 1, m \in S PROVE m + 1 \in S
  <2>1. PICK r : Upto(r, m)
    BY <1>2
  <2> DEFINE q == [n \in 0 .. m + 1 |-> IF n = m + 1 THEN Receive(r[m], cs[m + 1]) ELSE r[n]]
  <2>2. \A n \in 0 .. m + 1 : q[n] = IF n = 0 THEN t ELSE Receive(q[n - 1], cs[n])
    BY <2>1
  <2>3. Upto(q, m + 1)
    BY <2>2
  <2> HIDE DEF q
  <2> QED BY <1>2, <2>3
<1>3. \A m \in 0..Len(cs) : m \in S
  <2> HIDE DEF S
  <2> QED BY <1>1, <1>2, Induction
<1>4. Len(cs) \in S
  BY <1>3
<1> QED BY <1>4 DEF IsRun

LEMMA ReceiveAllRuns ==
    ASSUME NEW cs, Len(cs) \in Nat, NEW t
    PROVE  \E r : IsRun(r, t, cs) /\ ReceiveAll(t, cs) = r[Len(cs)]
<1>1. \E r : IsRun(r, t, cs)
  BY RunExists
<1> QED BY <1>1 DEF ReceiveAll, IsRun

LEMMA ReceivedOnce ==
    ASSUME NEW cs, Len(cs) \in Nat, NEW n \in 0..Len(cs), NEW ds, Len(ds) = n,
           \A i \in 1..n : ds[i] = cs[i], NEW t, NEW r, IsRun(r, t, cs)
    PROVE  ReceiveAll(t, ds) = r[n]
<1>1. PICK q : IsRun(q, t, ds) /\ ReceiveAll(t, ds) = q[n]
  BY ReceiveAllRuns
<1> DEFINE S == {m \in 0..n : q[m] = r[m]}
<1>2. 0 \in S
  BY <1>1 DEF IsRun
<1>3. ASSUME NEW m \in 0 .. n - 1, m \in S PROVE m + 1 \in S
  <2>1. m + 1 \in 0..n /\ m + 1 # 0 /\ (m + 1) - 1 = m /\ m + 1 \in 0..Len(cs)
    OBVIOUS
  <2>2. q[m + 1] = Receive(q[m], ds[m + 1])
    BY <1>1, <2>1 DEF IsRun
  <2>3. r[m + 1] = Receive(r[m], cs[m + 1])
    BY <2>1 DEF IsRun
  <2>4. q[m] = r[m] /\ ds[m + 1] = cs[m + 1]
    BY <1>3, <2>1
  <2>5. q[m + 1] = r[m + 1]
    BY <2>2, <2>3, <2>4
  <2> QED BY <2>1, <2>5
<1>4. n \in S
  <2>1. \A m \in 0 .. n - 1 : m \in S => m + 1 \in S
    BY <1>3
  <2>2. n \in Nat /\ n \in 0..n
    OBVIOUS
  <2> HIDE DEF S
  <2>3. \A m \in 0..n : m \in S
    BY <1>2, <2>1, <2>2, Induction, ZenonT(30)
  <2> QED BY <2>2, <2>3
<1> QED BY <1>1, <1>4

LEMMA ReceivesNothing == ASSUME NEW t PROVE ReceiveAll(t, <<>>) = t
<1>1. Len(<<>>) = 0
  OBVIOUS
<1> QED BY <1>1, ReceiveAllRuns DEF IsRun

LEMMA ReceivesNext ==
    ASSUME NEW C, NEW cs \in Seq(C), NEW c \in C, NEW t
    PROVE  ReceiveAll(t, Append(cs, c)) = Receive(ReceiveAll(t, cs), c)
<1> DEFINE ds == Append(cs, c)
           n == Len(cs)
<1>1. /\ n \in Nat /\ Len(ds) = n + 1 /\ ds[n + 1] = c /\ n + 1 \in 0..Len(ds)
      /\ n \in 0..Len(ds) /\ \A i \in 1..n : cs[i] = ds[i]
  OBVIOUS
<1> HIDE DEF ds, n
<1>2. PICK r : IsRun(r, t, ds) /\ ReceiveAll(t, ds) = r[Len(ds)]
  BY <1>1, ReceiveAllRuns
<1>3. ReceiveAll(t, cs) = r[n]
  BY <1>1, <1>2, ReceivedOnce DEF n
<1>4. r[n + 1] = Receive(r[n], ds[n + 1])
  <2>1. n + 1 # 0 /\ (n + 1) - 1 = n
    BY <1>1
  <2> QED BY <1>1, <1>2, <2>1 DEF IsRun
<1> QED BY <1>1, <1>2, <1>3, <1>4 DEF ds

LEMMA AppendBoth ==
    ASSUME NEW C, NEW s \in Seq(C), NEW t \in Seq(C), NEW e \in C
    PROVE  s \o Append(t, e) = Append(s \o t, e)
<1>1. Append(t, e) = t \o <<e>> /\ <<e>> \in Seq(C)
  BY AppendIsConcat
<1>2. Append(s \o t, e) = (s \o t) \o <<e>>
  BY AppendIsConcat, ConcatProperties
<1> QED BY <1>1, <1>2, ConcatAssociative

\* What induction over a concatenation needs of its second part.
LEMMA OneMore ==
    ASSUME NEW C, NEW front \in Seq(C), NEW cs \in Seq(C), NEW n \in 0 .. Len(cs) - 1
    PROVE  /\ cs[n + 1] \in C /\ front \o SubSeq(cs, 1, n) \in Seq(C) /\ SubSeq(cs, 1, n) \in Seq(C)
           /\ SubSeq(cs, 1, n + 1) = Append(SubSeq(cs, 1, n), cs[n + 1])
           /\ front \o SubSeq(cs, 1, n + 1) = Append(front \o SubSeq(cs, 1, n), cs[n + 1])
<1> DEFINE ds == SubSeq(cs, 1, n)
           c == cs[n + 1]
<1>1. Len(cs) \in Nat /\ n + 1 \in 1..Len(cs) /\ n \in Nat /\ (n + 1) - 1 = n
  OBVIOUS
<1>2. ds \in Seq(C) /\ c \in C
  BY <1>1, ElementOfSeq
<1>3. SubSeq(cs, 1, n + 1) = Append(ds, c)
  <2>1. 1 \in 1..Len(cs) /\ n + 1 \in 1..Len(cs)
    BY <1>1
  <2>2. SubSeq(cs, 1, n + 1) = SubSeq(cs, 1, (n + 1) - 1) \o <<c>>
    BY <2>1, SubSeqRecursiveSecond
  <2> QED BY <1>1, <1>2, <2>2, AppendIsConcat
<1> HIDE DEF ds, c
<1>4. front \o ds \in Seq(C)
  BY <1>2, ConcatProperties
<1>5. front \o Append(ds, c) = Append(front \o ds, c)
  BY <1>2, AppendBoth
<1> QED BY <1>2, <1>3, <1>4, <1>5 DEF ds, c

LEMMA NoMore ==
    ASSUME NEW C, NEW front \in Seq(C), NEW cs \in Seq(C)
    PROVE  /\ SubSeq(cs, 1, 0) = <<>> /\ front \o SubSeq(cs, 1, 0) = front
           /\ SubSeq(cs, 1, Len(cs)) = cs /\ Len(cs) \in Nat
<1>1. SubSeq(cs, 1, 0) = <<>>
  BY SubSeqEmpty
<1>2. front \o <<>> = front
  BY ConcatEmptySeq
<1>3. SubSeq(cs, 1, Len(cs)) = cs
  BY SubSeqFull
<1>4. Len(cs) \in Nat
  OBVIOUS
<1>5. front \o SubSeq(cs, 1, 0) = front
  BY <1>1, <1>2
<1> QED BY <1>1, <1>3, <1>4, <1>5

LEMMA ReceivesBoth ==
    ASSUME NEW C, NEW front \in Seq(C), NEW cs \in Seq(C), NEW t
    PROVE  ReceiveAll(t, front \o cs) = ReceiveAll(ReceiveAll(t, front), cs)
<1> DEFINE u == ReceiveAll(t, front)
           Agree(n) == ReceiveAll(t, front \o SubSeq(cs, 1, n)) = ReceiveAll(u, SubSeq(cs, 1, n))
           L == Len(cs)
           S == {n \in 0..L : Agree(n)}
<1>1. L \in Nat
  BY NoMore
<1>2. Agree(0)
  <2>1. SubSeq(cs, 1, 0) = <<>> /\ front \o SubSeq(cs, 1, 0) = front
    BY NoMore
  <2> HIDE DEF u
  <2>2. ReceiveAll(u, <<>>) = u
    BY ReceivesNothing
  <2> QED BY <2>1, <2>2 DEF u
<1>3. ASSUME NEW n \in 0 .. L - 1, Agree(n) PROVE Agree(n + 1)
  <2> DEFINE ds == SubSeq(cs, 1, n)
             c == cs[n + 1]
  <2>1. /\ c \in C /\ front \o ds \in Seq(C) /\ ds \in Seq(C)
        /\ SubSeq(cs, 1, n + 1) = Append(ds, c)
        /\ front \o SubSeq(cs, 1, n + 1) = Append(front \o ds, c)
    <3>1. n \in 0 .. Len(cs) - 1
      OBVIOUS
    <3>2. /\ cs[n + 1] \in C /\ front \o SubSeq(cs, 1, n) \in Seq(C) /\ SubSeq(cs, 1, n) \in Seq(C)
          /\ SubSeq(cs, 1, n + 1) = Append(SubSeq(cs, 1, n), cs[n + 1])
          /\ front \o SubSeq(cs, 1, n + 1) = Append(front \o SubSeq(cs, 1, n), cs[n + 1])
      BY <3>1, OneMore, SMTT(30)
    <3> QED BY <3>2
  <2>2. ReceiveAll(t, front \o ds) = ReceiveAll(u, ds)
    BY <1>3
  <2> HIDE DEF ds, c, u
  <2>3. ReceiveAll(t, Append(front \o ds, c)) = Receive(ReceiveAll(t, front \o ds), c)
    BY <2>1, ReceivesNext
  <2>4. ReceiveAll(u, Append(ds, c)) = Receive(ReceiveAll(u, ds), c)
    BY <2>1, ReceivesNext
  <2> QED BY <2>1, <2>2, <2>3, <2>4
<1> HIDE DEF Agree, L
<1>4. L \in S
  <2>1. 0 \in S /\ \A n \in 0 .. L - 1 : n \in S => n + 1 \in S
    BY <1>1, <1>2, <1>3
  <2> HIDE DEF S
  <2>2. \A n \in 0..L : n \in S
    BY <1>1, <2>1, Induction
  <2> QED BY <1>1, <2>2
<1>5. Agree(L)
  BY <1>4
<1> QED BY <1>5, NoMore DEF Agree, L

\* The backend on the way through some commands.
IsWork(r, t, cs, kind) ==
    r = [n \in 0..Len(cs) |-> IF n = 0 THEN t ELSE Done(r[n - 1], cs[n], kind)]

LEMMA WorkExists ==
    ASSUME NEW cs, Len(cs) \in Nat, NEW t, NEW kind
    PROVE  \E r : IsWork(r, t, cs, kind)
<1> DEFINE Upto(r, m) == r = [n \in 0..m |-> IF n = 0 THEN t ELSE Done(r[n - 1], cs[n], kind)]
           S == {m \in 0..Len(cs) : \E r : Upto(r, m)}
<1>1. 0 \in S
  <2> DEFINE r == [n \in {0} |-> t]
  <2>1. Upto(r, 0)
    <3>1. 0..0 = {0}
      OBVIOUS
    <3> QED BY <3>1
  <2> HIDE DEF r
  <2> QED BY <2>1
<1>2. ASSUME NEW m \in 0 .. Len(cs) - 1, m \in S PROVE m + 1 \in S
  <2>1. PICK r : Upto(r, m)
    BY <1>2
  <2> DEFINE q == [n \in 0 .. m + 1 |-> IF n = m + 1 THEN Done(r[m], cs[m + 1], kind) ELSE r[n]]
  <2>2. \A n \in 0 .. m + 1 : q[n] = IF n = 0 THEN t ELSE Done(q[n - 1], cs[n], kind)
    BY <2>1
  <2>3. Upto(q, m + 1)
    BY <2>2
  <2> HIDE DEF q
  <2> QED BY <1>2, <2>3
<1>3. \A m \in 0..Len(cs) : m \in S
  <2> HIDE DEF S
  <2> QED BY <1>1, <1>2, Induction
<1>4. Len(cs) \in S
  BY <1>3
<1> QED BY <1>4 DEF IsWork

LEMMA AllDoneWorks ==
    ASSUME NEW cs, Len(cs) \in Nat, NEW t, NEW kind
    PROVE  \E r : IsWork(r, t, cs, kind) /\ AllDone(t, cs, kind) = r[Len(cs)]
<1>1. \E r : IsWork(r, t, cs, kind)
  BY WorkExists
<1> QED BY <1>1 DEF AllDone, IsWork

LEMMA DoneOnce ==
    ASSUME NEW cs, Len(cs) \in Nat, NEW n \in 0..Len(cs), NEW ds, Len(ds) = n,
           \A i \in 1..n : ds[i] = cs[i], NEW t, NEW kind, NEW r, IsWork(r, t, cs, kind)
    PROVE  AllDone(t, ds, kind) = r[n]
<1>1. PICK q : IsWork(q, t, ds, kind) /\ AllDone(t, ds, kind) = q[n]
  BY AllDoneWorks
<1> DEFINE S == {m \in 0..n : q[m] = r[m]}
<1>2. 0 \in S
  BY <1>1 DEF IsWork
<1>3. ASSUME NEW m \in 0 .. n - 1, m \in S PROVE m + 1 \in S
  <2>1. m + 1 \in 0..n /\ m + 1 # 0 /\ (m + 1) - 1 = m /\ m + 1 \in 0..Len(cs)
    OBVIOUS
  <2>2. q[m + 1] = Done(q[m], ds[m + 1], kind)
    BY <1>1, <2>1 DEF IsWork
  <2>3. r[m + 1] = Done(r[m], cs[m + 1], kind)
    BY <2>1 DEF IsWork
  <2>4. q[m] = r[m] /\ ds[m + 1] = cs[m + 1]
    BY <1>3, <2>1
  <2>5. q[m + 1] = r[m + 1]
    BY <2>2, <2>3, <2>4
  <2> QED BY <2>1, <2>5
<1>4. n \in S
  <2>1. \A m \in 0 .. n - 1 : m \in S => m + 1 \in S
    BY <1>3
  <2>2. n \in Nat /\ n \in 0..n
    OBVIOUS
  <2> HIDE DEF S
  <2>3. \A m \in 0..n : m \in S
    BY <1>2, <2>1, <2>2, Induction, ZenonT(30)
  <2> QED BY <2>2, <2>3
<1> QED BY <1>1, <1>4

LEMMA DoesNothing == ASSUME NEW t, NEW kind PROVE AllDone(t, <<>>, kind) = t
<1>1. Len(<<>>) = 0
  OBVIOUS
<1> QED BY <1>1, AllDoneWorks DEF IsWork

LEMMA DoesNext ==
    ASSUME NEW C, NEW cs \in Seq(C), NEW c \in C, NEW t, NEW kind
    PROVE  AllDone(t, Append(cs, c), kind) = Done(AllDone(t, cs, kind), c, kind)
<1> DEFINE ds == Append(cs, c)
           n == Len(cs)
<1>1. /\ n \in Nat /\ Len(ds) = n + 1 /\ ds[n + 1] = c /\ n + 1 \in 0..Len(ds)
      /\ n \in 0..Len(ds) /\ \A i \in 1..n : cs[i] = ds[i]
  OBVIOUS
<1> HIDE DEF ds, n
<1>2. PICK r : IsWork(r, t, ds, kind) /\ AllDone(t, ds, kind) = r[Len(ds)]
  BY <1>1, AllDoneWorks
<1>3. AllDone(t, cs, kind) = r[n]
  BY <1>1, <1>2, DoneOnce DEF n
<1>4. r[n + 1] = Done(r[n], ds[n + 1], kind)
  <2>1. n + 1 # 0 /\ (n + 1) - 1 = n
    BY <1>1
  <2> QED BY <1>1, <1>2, <2>1 DEF IsWork
<1> QED BY <1>1, <1>2, <1>3, <1>4 DEF ds

LEMMA DoesBoth ==
    ASSUME NEW C, NEW front \in Seq(C), NEW cs \in Seq(C), NEW t, NEW kind
    PROVE  AllDone(t, front \o cs, kind) = AllDone(AllDone(t, front, kind), cs, kind)
<1> DEFINE u == AllDone(t, front, kind)
           Agree(n) == AllDone(t, front \o SubSeq(cs, 1, n), kind) = AllDone(u, SubSeq(cs, 1, n), kind)
           L == Len(cs)
           S == {n \in 0..L : Agree(n)}
<1>1. L \in Nat
  BY NoMore
<1>2. Agree(0)
  <2>1. SubSeq(cs, 1, 0) = <<>> /\ front \o SubSeq(cs, 1, 0) = front
    BY NoMore
  <2> HIDE DEF u
  <2>2. AllDone(u, <<>>, kind) = u
    BY DoesNothing
  <2> QED BY <2>1, <2>2 DEF u
<1>3. ASSUME NEW n \in 0 .. L - 1, Agree(n) PROVE Agree(n + 1)
  <2> DEFINE ds == SubSeq(cs, 1, n)
             c == cs[n + 1]
  <2>1. /\ c \in C /\ front \o ds \in Seq(C) /\ ds \in Seq(C)
        /\ SubSeq(cs, 1, n + 1) = Append(ds, c)
        /\ front \o SubSeq(cs, 1, n + 1) = Append(front \o ds, c)
    <3>1. n \in 0 .. Len(cs) - 1
      OBVIOUS
    <3>2. /\ cs[n + 1] \in C /\ front \o SubSeq(cs, 1, n) \in Seq(C) /\ SubSeq(cs, 1, n) \in Seq(C)
          /\ SubSeq(cs, 1, n + 1) = Append(SubSeq(cs, 1, n), cs[n + 1])
          /\ front \o SubSeq(cs, 1, n + 1) = Append(front \o SubSeq(cs, 1, n), cs[n + 1])
      BY <3>1, OneMore
    <3> QED BY <3>2
  <2>2. AllDone(t, front \o ds, kind) = AllDone(u, ds, kind)
    BY <1>3
  <2> HIDE DEF ds, c, u
  <2>3. AllDone(t, Append(front \o ds, c), kind) = Done(AllDone(t, front \o ds, kind), c, kind)
    <3> DEFINE fs == front \o ds
    <3>1. fs \in Seq(C) /\ c \in C
      BY <2>1
    <3> HIDE DEF fs
    <3>2. AllDone(t, Append(fs, c), kind) = Done(AllDone(t, fs, kind), c, kind)
      BY <3>1, DoesNext
    <3> QED BY <3>2 DEF fs
  <2>4. AllDone(u, Append(ds, c), kind) = Done(AllDone(u, ds, kind), c, kind)
    BY <2>1, DoesNext
  <2> QED BY <2>1, <2>2, <2>3, <2>4
<1> HIDE DEF Agree, L
<1>4. L \in S
  <2>1. 0 \in S /\ \A n \in 0 .. L - 1 : n \in S => n + 1 \in S
    BY <1>1, <1>2, <1>3
  <2> HIDE DEF S
  <2>2. \A n \in 0..L : n \in S
    BY <1>1, <2>1, Induction
  <2> QED BY <1>1, <2>2
<1>5. Agree(L)
  BY <1>4
<1> QED BY <1>5, NoMore DEF Agree, L

\* The part of two sequences, one after the other, before an element of either.
LEMMA BeforeOne ==
    ASSUME NEW C, NEW front \in Seq(C), NEW cs \in Seq(C), NEW i \in 1..Len(front)
    PROVE  /\ SubSeq(front \o cs, 1, i - 1) = SubSeq(front, 1, i - 1)
           /\ (front \o cs)[i] = front[i]
<1>1. (front \o cs)[i] = front[i]
  BY ConcatProperties
<1>2. CASE i = 1
  BY <1>1, <1>2, SubSeqEmpty
<1>3. CASE i # 1
  <2>1. 1 \in 1..Len(front) /\ i - 1 \in 1..Len(front)
    BY <1>3
  <2> QED BY <1>1, <2>1, SubSeqOfConcat1
<1> QED BY <1>2, <1>3

LEMMA BeforeOther ==
    ASSUME NEW C, NEW front \in Seq(C), NEW cs \in Seq(C), NEW i \in 1..Len(cs)
    PROVE  /\ SubSeq(front \o cs, 1, Len(front) + i - 1) = front \o SubSeq(cs, 1, i - 1)
           /\ (front \o cs)[Len(front) + i] = cs[i]
<1> DEFINE fs == front \o cs
           n == Len(front)
<1>1. fs \in Seq(C) /\ Len(fs) = n + Len(cs) /\ n \in Nat /\ Len(cs) \in Nat
  BY ConcatProperties
<1>2. fs[n + i] = cs[i]
  <2> DEFINE j == Len(front) + i
  <2>1. j \in 1 .. Len(front) + Len(cs) /\ ~(j <= Len(front)) /\ j - Len(front) = i /\ j = n + i
    BY <1>1
  <2> HIDE DEF n, j
  <2>2. (front \o cs)[j] = IF j <= Len(front) THEN front[j] ELSE cs[j - Len(front)]
    BY <2>1, ConcatProperties
  <2> QED BY <2>1, <2>2
<1>3. SubSeq(fs, 1, n) = front
  <2>1. CASE n = 0
    <3>1. front = <<>>
      BY <2>1, EmptySeq
    <3> QED BY <2>1, <3>1, SubSeqEmpty
  <2>2. CASE n # 0
    <3>1. 1 \in 1..Len(front) /\ n \in 1..Len(front)
      BY <2>2
    <3>2. SubSeq(front \o cs, 1, n) = SubSeq(front, 1, n)
      BY <3>1, SubSeqOfConcat1
    <3> QED BY <3>2, SubSeqFull
  <2> QED BY <2>1, <2>2
<1>4. SubSeq(fs, n + 1, n + i - 1) = SubSeq(cs, 1, i - 1)
  <2>1. CASE i = 1
    BY <2>1, <1>1, SubSeqEmpty
  <2>2. CASE i # 1
    <3> DEFINE first == Len(front) + 1
               last == Len(front) + i - 1
    <3>1. /\ first \in Len(front) + 1 .. Len(front) + Len(cs)
          /\ last \in Len(front) + 1 .. Len(front) + Len(cs)
          /\ first - Len(front) = 1 /\ last - Len(front) = i - 1
          /\ first = n + 1 /\ last = n + i - 1
      BY <2>2, <1>1
    <3> HIDE DEF n, first, last
    <3>2. SubSeq(front \o cs, first, last) = SubSeq(cs, first - Len(front), last - Len(front))
      BY <3>1, SubSeqOfConcat2, ZenonT(30)
    <3> QED BY <3>1, <3>2
  <2> QED BY <2>1, <2>2
<1>5. SubSeq(fs, 1, n) \o SubSeq(fs, n + 1, n + i - 1) = SubSeq(fs, 1, n + i - 1)
  <2>1. 1 \in 1 .. Len(fs) + 1 /\ n \in 1 - 1 .. Len(fs) /\ n + i - 1 \in n .. Len(fs)
    BY <1>1
  <2> HIDE DEF fs, n
  <2> QED BY <1>1, <2>1, ConcatAdjacentSubSeq
<1> QED BY <1>2, <1>3, <1>4, <1>5

-----------------------------------------------------------------------------
(* Paths: from every pair of P, a terminal and a backend, the commands lead *)
(* to a pair of Q, and stopping at one of them leaves a pair of R.          *)

Stops(z, cs, i, kind, R) ==
    LET t == ReceiveAll(z[1], SubSeq(cs, 1, i - 1))
        k == Attempt(AllDone(z[2], SubSeq(cs, 1, i - 1), kind), cs[i])
    IN  <<t, k>> \in R /\ <<Receive(t, Torn(cs[i])), k>> \in R

Path(P, cs, kind, Q, R) ==
    \A z \in P :
        /\ <<ReceiveAll(z[1], cs), AllDone(z[2], cs, kind)>> \in Q
        /\ \A i \in 1..Len(cs) : cs[i][1] # "note" => Stops(z, cs, i, kind, R)

LEMMA PathWeaker ==
    ASSUME NEW P, NEW Q, NEW R, NEW cs, NEW kind, Path(P, cs, kind, Q, R),
           NEW p, NEW q, NEW r, p \subseteq P, Q \subseteq q, R \subseteq r
    PROVE  Path(p, cs, kind, q, r)
BY DEF Path, Stops

LEMMA PathEmpty ==
    ASSUME NEW P, NEW Q, NEW R, NEW kind, \A z \in P : <<z[1], z[2]>> \in Q
    PROVE  Path(P, <<>>, kind, Q, R)
<1>1. Len(<<>>) = 0
  OBVIOUS
<1>2. \A t, k : ReceiveAll(t, <<>>) = t /\ AllDone(k, <<>>, kind) = k
  BY ReceivesNothing, DoesNothing
<1>3. \A z \in P : <<ReceiveAll(z[1], <<>>), AllDone(z[2], <<>>, kind)>> \in Q
  BY <1>2
<1>4. \A i \in 1..Len(<<>>) : FALSE
  BY <1>1
<1> DEFINE none == <<>>
<1>5. /\ \A z \in P : <<ReceiveAll(z[1], none), AllDone(z[2], none, kind)>> \in Q
      /\ \A i \in 1..Len(none) : FALSE
  BY <1>3, <1>4
<1> HIDE DEF none
<1>6. Path(P, none, kind, Q, R)
  BY <1>5 DEF Path
<1> QED BY <1>6 DEF none

LEMMA OneReceived == ASSUME NEW t, NEW c PROVE ReceiveAll(t, <<c>>) = Receive(t, c)
<1> DEFINE none == <<>>
           C == {c}
<1>1. <<c>> = Append(none, c) /\ none \in Seq(C) /\ c \in C
  OBVIOUS
<1>2. ReceiveAll(t, none) = t
  BY ReceivesNothing
<1> HIDE DEF none, C
<1>3. ReceiveAll(t, Append(none, c)) = Receive(ReceiveAll(t, none), c)
  BY <1>1, ReceivesNext
<1> QED BY <1>1, <1>2, <1>3

LEMMA OneDone == ASSUME NEW k, NEW c, NEW kind PROVE AllDone(k, <<c>>, kind) = Done(k, c, kind)
<1> DEFINE none == <<>>
           C == {c}
<1>1. <<c>> = Append(none, c) /\ none \in Seq(C) /\ c \in C
  OBVIOUS
<1>2. AllDone(k, none, kind) = k
  BY DoesNothing
<1> HIDE DEF none, C
<1>3. AllDone(k, Append(none, c), kind) = Done(AllDone(k, none, kind), c, kind)
  BY <1>1, DoesNext
<1> QED BY <1>1, <1>2, <1>3

LEMMA PathOne ==
    ASSUME NEW P, NEW Q, NEW R, NEW kind, NEW c,
           \A z \in P : /\ <<Receive(z[1], c), Done(z[2], c, kind)>> \in Q
                        /\ c[1] # "note" => /\ <<z[1], Attempt(z[2], c)>> \in R
                                            /\ <<Receive(z[1], Torn(c)), Attempt(z[2], c)>> \in R
    PROVE  Path(P, <<c>>, kind, Q, R)
<1> SUFFICES ASSUME NEW z \in P
             PROVE  /\ <<ReceiveAll(z[1], <<c>>), AllDone(z[2], <<c>>, kind)>> \in Q
                    /\ c[1] # "note" => Stops(z, <<c>>, 1, kind, R)
  <2>1. Len(<<c>>) = 1 /\ <<c>>[1] = c
    OBVIOUS
  <2> QED BY <2>1 DEF Path
<1>1. <<ReceiveAll(z[1], <<c>>), AllDone(z[2], <<c>>, kind)>> \in Q
  BY OneReceived, OneDone
<1>2. ASSUME c[1] # "note" PROVE Stops(z, <<c>>, 1, kind, R)
  <2>1. SubSeq(<<c>>, 1, 1 - 1) = <<>> /\ <<c>>[1] = c
    BY SubSeqEmpty
  <2>2. ReceiveAll(z[1], <<>>) = z[1] /\ AllDone(z[2], <<>>, kind) = z[2]
    BY ReceivesNothing, DoesNothing
  <2> QED BY <1>2, <2>1, <2>2 DEF Stops
<1> QED BY <1>1, <1>2

LEMMA PathBoth ==
    ASSUME NEW C, NEW front \in Seq(C), NEW cs \in Seq(C), NEW P, NEW Q, NEW S, NEW R, NEW kind,
           Path(P, front, kind, Q, R), Path(Q, cs, kind, S, R)
    PROVE  Path(P, front \o cs, kind, S, R)
<1> SUFFICES ASSUME NEW z \in P
             PROVE  /\ <<ReceiveAll(z[1], front \o cs), AllDone(z[2], front \o cs, kind)>> \in S
                    /\ \A i \in 1..Len(front \o cs) :
                          (front \o cs)[i][1] # "note" => Stops(z, front \o cs, i, kind, R)
  BY DEF Path
<1> DEFINE y == <<ReceiveAll(z[1], front), AllDone(z[2], front, kind)>>
<1>1. y \in Q
  BY DEF Path
<1>2. <<ReceiveAll(z[1], front \o cs), AllDone(z[2], front \o cs, kind)>> \in S
  <2>1. <<ReceiveAll(y[1], cs), AllDone(y[2], cs, kind)>> \in S
    <3> HIDE DEF y
    <3> QED BY <1>1 DEF Path
  <2> QED BY <2>1, ReceivesBoth, DoesBoth
<1>3. ASSUME NEW i \in 1..Len(front), front[i][1] # "note"
      PROVE  Stops(z, front \o cs, i, kind, R)
  <2>1. Stops(z, front, i, kind, R)
    BY <1>3 DEF Path
  <2> QED BY <2>1, BeforeOne DEF Stops
<1>4. ASSUME NEW i \in 1..Len(cs), cs[i][1] # "note"
      PROVE  Stops(z, front \o cs, Len(front) + i, kind, R)
  <2> DEFINE ds == SubSeq(cs, 1, i - 1)
  <2>1. Stops(y, cs, i, kind, R)
    <3> HIDE DEF y
    <3> QED BY <1>1, <1>4 DEF Path
  <2>2. SubSeq(front \o cs, 1, Len(front) + i - 1) = front \o ds /\ (front \o cs)[Len(front) + i] = cs[i]
    BY BeforeOther
  <2>3. ds \in Seq(C)
    OBVIOUS
  <2> HIDE DEF ds
  <2>4. ReceiveAll(y[1], ds) = ReceiveAll(z[1], front \o ds)
    BY <2>3, ReceivesBoth
  <2>5. AllDone(y[2], ds, kind) = AllDone(z[2], front \o ds, kind)
    BY <2>3, DoesBoth
  <2>6. (Len(front) + i) - 1 = Len(front) + i - 1
    BY ConcatProperties
  <2>7. ReceiveAll(y[1], SubSeq(cs, 1, i - 1))
          = ReceiveAll(z[1], SubSeq(front \o cs, 1, (Len(front) + i) - 1))
    BY <2>2, <2>4, <2>6 DEF ds
  <2>8. AllDone(y[2], SubSeq(cs, 1, i - 1), kind)
          = AllDone(z[2], SubSeq(front \o cs, 1, (Len(front) + i) - 1), kind)
    BY <2>2, <2>5, <2>6 DEF ds
  <2> HIDE DEF y
  <2> QED BY <2>1, <2>2, <2>7, <2>8 DEF Stops
<1>5. ASSUME NEW i \in 1..Len(front \o cs), (front \o cs)[i][1] # "note"
      PROVE  Stops(z, front \o cs, i, kind, R)
  <2>1. CASE i <= Len(front)
    <3>1. i \in 1..Len(front)
      BY <2>1
    <3> QED BY <1>3, <1>5, <3>1, BeforeOne
  <2>2. CASE i > Len(front)
    <3>1. PICK j \in 1..Len(cs) : i = Len(front) + j
      <4>1. Len(front \o cs) = Len(front) + Len(cs) /\ Len(front) \in Nat /\ Len(cs) \in Nat
        BY ConcatProperties
      <4>2. i - Len(front) \in 1..Len(cs) /\ i = Len(front) + (i - Len(front))
        BY <2>2, <4>1
      <4> QED BY <4>2
    <3>2. (front \o cs)[i] = cs[j]
      BY <3>1, BeforeOther
    <3> QED BY <1>4, <1>5, <3>1, <3>2
  <2>3. Len(front) \in Nat /\ i \in Int
    BY ConcatProperties
  <2> QED BY <2>1, <2>2, <2>3
<1> QED BY <1>2, <1>5

\* F: what holds after each number of the commands.
LEMMA PathEach ==
    ASSUME NEW C, NEW cs \in Seq(C), NEW kind, NEW R, NEW F, \A z \in F[0] : <<z[1], z[2]>> = z,
           \A i \in 1..Len(cs) : Path(F[i - 1], <<cs[i]>>, kind, F[i], R)
    PROVE  Path(F[0], cs, kind, F[Len(cs)], R)
<1> DEFINE L == Len(cs)
           Good(n) == Path(F[0], SubSeq(cs, 1, n), kind, F[n], R)
           S == {n \in 0..L : Good(n)}
<1>1. L \in Nat
  OBVIOUS
<1>2. Good(0)
  <2>1. SubSeq(cs, 1, 0) = <<>>
    BY SubSeqEmpty
  <2>2. Path(F[0], <<>>, kind, F[0], R)
    BY PathEmpty
  <2> QED BY <2>1, <2>2
<1>3. ASSUME NEW n \in 0 .. L - 1, Good(n) PROVE Good(n + 1)
  <2> DEFINE ds == SubSeq(cs, 1, n)
             c == cs[n + 1]
             es == <<c>>
  <2>1. ds \in Seq(C) /\ c \in C /\ SubSeq(cs, 1, n + 1) = Append(ds, c)
    <3>1. n \in 0 .. Len(cs) - 1
      OBVIOUS
    <3>2. <<>> \in Seq(C)
      OBVIOUS
    <3>3. cs[n + 1] \in C /\ SubSeq(cs, 1, n) \in Seq(C)
      BY <3>1, <3>2, OneMore
    <3>4. SubSeq(cs, 1, n + 1) = Append(SubSeq(cs, 1, n), cs[n + 1])
      BY <3>1, <3>2, OneMore, SMTT(30)
    <3> QED BY <3>3, <3>4
  <2>2. Path(F[n], es, kind, F[n + 1], R)
    <3>1. n + 1 \in 1..Len(cs) /\ (n + 1) - 1 = n
      BY <1>1
    <3> QED BY <3>1
  <2>3. Path(F[0], ds, kind, F[n], R)
    BY <1>3
  <2> HIDE DEF ds, c
  <2>4. Append(ds, c) = ds \o es /\ es \in Seq(C)
    BY <2>1, AppendIsConcat
  <2> HIDE DEF es
  <2>5. Path(F[0], ds \o es, kind, F[n + 1], R)
    BY <2>1, <2>2, <2>3, <2>4, PathBoth
  <2> QED BY <2>1, <2>4, <2>5
<1> HIDE DEF Good, L
<1>4. L \in S
  <2>1. 0 \in S /\ \A n \in 0 .. L - 1 : n \in S => n + 1 \in S
    BY <1>1, <1>2, <1>3
  <2> HIDE DEF S
  <2>2. \A n \in 0..L : n \in S
    BY <1>1, <2>1, Induction
  <2> QED BY <1>1, <2>2
<1>5. Good(L)
  BY <1>4
<1>6. SubSeq(cs, 1, Len(cs)) = cs
  BY SubSeqFull
<1> QED BY <1>5, <1>6 DEF Good, L

\* What every command of a sequence keeps, the sequence does.
LEMMA ReceivesAllKeep ==
    ASSUME NEW C, NEW cs \in Seq(C), NEW T, NEW t \in T,
           \A u \in T : \A i \in DOMAIN cs : Receive(u, cs[i]) \in T
    PROVE  ReceiveAll(t, cs) \in T
<1> DEFINE L == Len(cs)
<1>0. L \in Nat /\ DOMAIN cs = 1..L
  OBVIOUS
<1>1. PICK r : IsRun(r, t, cs) /\ ReceiveAll(t, cs) = r[L]
  BY <1>0, ReceiveAllRuns
<1> DEFINE S == {n \in 0..L : r[n] \in T}
<1>2. 0 \in S
  BY <1>0, <1>1 DEF IsRun
<1>3. ASSUME NEW n \in 0 .. L - 1, n \in S PROVE n + 1 \in S
  <2>1. n + 1 \in 0..L /\ n + 1 # 0 /\ (n + 1) - 1 = n /\ n + 1 \in 1..L
    BY <1>0
  <2>2. r[n + 1] = Receive(r[n], cs[n + 1])
    BY <1>1, <2>1 DEF IsRun
  <2>3. n + 1 \in DOMAIN cs
    BY <1>0, <2>1
  <2> HIDE DEF L
  <2> QED BY <1>3, <2>1, <2>2, <2>3
<1>4. L \in S
  <2> HIDE DEF S, L
  <2>1. \A n \in 0..L : n \in S
    BY <1>0, <1>2, <1>3, Induction
  <2> QED BY <1>0, <2>1
<1> QED BY <1>1, <1>4

-----------------------------------------------------------------------------
(* Writing.                                                                *)

\* The terminal once the writer has sent what it holds back.
Virtual == ReceiveAll(term, pipe)

LEMMA SendsAll ==
    ASSUME NEW C, pipe \in Seq(C), NEW cs \in Seq(C), Sends(cs)
    PROVE  /\ term' = ReceiveAll(Virtual, cs) /\ pipe' = <<>> /\ Virtual' = term'
<1>1. ReceiveAll(term, pipe \o cs) = ReceiveAll(Virtual, cs)
  BY ReceivesBoth DEF Virtual
<1>2. ReceiveAll(term', <<>>) = term'
  BY ReceivesNothing
<1> QED BY <1>1, <1>2 DEF Sends, Virtual

LEMMA DeliversAll ==
    ASSUME NEW C, pipe \in Seq(C), NEW given \in Seq(C), Delivers(given)
    PROVE  /\ Virtual' = ReceiveAll(Virtual, given)
           /\ pipe' \in Seq(C)
           /\ \E n \in 0..Len(pipe \o given) : term' = ReceiveAll(term, SubSeq(pipe \o given, 1, n))
           /\ \A i \in DOMAIN pipe' : \E j \in DOMAIN (pipe \o given) : pipe'[i] = (pipe \o given)[j]
<1> DEFINE cs == pipe \o given
<1>1. cs \in Seq(C) /\ Len(cs) \in Nat
  BY ConcatProperties
<1>2. PICK n \in 0..Len(cs) : term' = ReceiveAll(term, SubSeq(cs, 1, n))
                              /\ pipe' = SubSeq(cs, n + 1, Len(cs))
  BY DEF Delivers
<1> HIDE DEF cs
<1>3. SubSeq(cs, 1, n) \in Seq(C) /\ SubSeq(cs, n + 1, Len(cs)) \in Seq(C)
  BY <1>1
<1>4. SubSeq(cs, 1, n) \o SubSeq(cs, n + 1, Len(cs)) = SubSeq(cs, 1, Len(cs))
  <2>1. 1 \in 1 .. Len(cs) + 1 /\ n \in 1 - 1 .. Len(cs) /\ Len(cs) \in n .. Len(cs)
    BY <1>1
  <2> QED BY <1>1, <2>1, ConcatAdjacentSubSeq
<1>5. SubSeq(cs, 1, Len(cs)) = cs
  BY <1>1, SubSeqFull
<1>6. ReceiveAll(term', pipe') = ReceiveAll(term, cs)
  <2>1. ReceiveAll(term, SubSeq(cs, 1, n) \o SubSeq(cs, n + 1, Len(cs)))
          = ReceiveAll(ReceiveAll(term, SubSeq(cs, 1, n)), SubSeq(cs, n + 1, Len(cs)))
    BY <1>3, ReceivesBoth
  <2> QED BY <1>2, <1>4, <1>5, <2>1
<1>7. ReceiveAll(term, cs) = ReceiveAll(Virtual, given)
  BY ReceivesBoth DEF cs, Virtual
<1>8. ASSUME NEW i \in DOMAIN pipe' PROVE \E j \in DOMAIN cs : pipe'[i] = cs[j]
  <2>1. pipe'[i] = cs[n + i] /\ n + i \in DOMAIN cs
    BY <1>1, <1>2, <1>8
  <2> QED BY <2>1
<1> QED BY <1>2, <1>3, <1>6, <1>7, <1>8 DEF cs, Virtual

\* A phase that stops is somewhere on its path.
LEMMA StopsOnPath ==
    ASSUME NEW C, NEW cs \in Seq(C), \A c \in C : c[1] # "torn" => Torn(c) \in C,
           \A i \in DOMAIN cs : cs[i][1] # "torn",
           pipe \in Seq(C), NEW P, NEW Q, NEW R, NEW kind, Path(P, cs, kind, Q, R), Q \subseteq R,
           <<Virtual, b>> \in P, NEW i \in 1 .. Len(cs) + 1, StopsAt(cs, i)
    PROVE  <<Virtual', StoppedAt(cs, i, kind)>> \in R /\ pipe' \in Seq(C)
<1> DEFINE before == SubSeq(cs, 1, i - 1)
           t == ReceiveAll(Virtual, before)
           z == <<Virtual, b>>
<1>0. before \in Seq(C) /\ Len(cs) \in Nat
  OBVIOUS
<1>1. CASE i > Len(cs)
  <2>1. Delivers(before)
    BY <1>1 DEF StopsAt
  <2>2. i - 1 = Len(cs)
    BY <1>1, <1>0
  <2>3. before = cs
    BY <2>2, SubSeqFull
  <2> HIDE DEF before
  <2>4. Virtual' = ReceiveAll(Virtual, cs) /\ pipe' \in Seq(C)
    BY <1>0, <2>1, <2>3, DeliversAll
  <2>5. StoppedAt(cs, i, kind) = AllDone(b, cs, kind)
    BY <1>1, <2>3 DEF StoppedAt, before
  <2>6. <<ReceiveAll(Virtual, cs), AllDone(b, cs, kind)>> \in Q
    <3>1. <<ReceiveAll(z[1], cs), AllDone(z[2], cs, kind)>> \in Q
      BY DEF Path
    <3> QED BY <3>1
  <2> QED BY <2>4, <2>5, <2>6
<1>2. CASE i <= Len(cs)
  <2> DEFINE c == cs[i]
             k == Attempt(AllDone(b, before, kind), c)
  <2>1. c[1] # "note" /\ (Delivers(before) \/ Delivers(Append(before, Torn(c))))
    BY <1>2 DEF StopsAt
  <2>2. c \in C /\ i \in 1..Len(cs) /\ c[1] # "torn" /\ Torn(c) \in C
    BY <1>0, <1>2
  <2>3. StoppedAt(cs, i, kind) = k
    BY <1>2 DEF StoppedAt
  <2>4. <<t, k>> \in R /\ <<Receive(t, Torn(c)), k>> \in R
    <3>1. Stops(z, cs, i, kind, R)
      BY <2>1, <2>2 DEF Path
    <3> QED BY <3>1 DEF Stops
  <2> HIDE DEF before, c, k
  <2>5. CASE Delivers(before)
    <3>1. Virtual' = t /\ pipe' \in Seq(C)
      BY <1>0, <2>5, DeliversAll
    <3> QED BY <2>3, <2>4, <3>1
  <2>6. CASE Delivers(Append(before, Torn(c)))
    <3> DEFINE ds == Append(before, Torn(c))
    <3>1. ds \in Seq(C)
      BY <1>0, <2>2
    <3>2. ReceiveAll(Virtual, ds) = Receive(t, Torn(c))
      BY <1>0, <2>2, ReceivesNext
    <3> HIDE DEF ds, t
    <3>3. Virtual' = ReceiveAll(Virtual, ds) /\ pipe' \in Seq(C)
      BY <2>6, <3>1, DeliversAll DEF ds
    <3> QED BY <2>3, <2>4, <3>2, <3>3
  <2> QED BY <2>1, <2>5, <2>6
<1> QED BY <1>0, <1>1, <1>2

-----------------------------------------------------------------------------
(* Types.                                                                  *)

Titles == {"shell", "garbled", "", "none"} \cup {d.title : d \in Desired}
Parts == (1..MaxId) \X Images
Mappings == UNION {[S -> 1..MaxId] : S \in SUBSET Images}

Received == {<<>>, <<0, "mixed">>} \cup Parts

Terminals ==
    [screen : Screens, keyboard : [Screens -> Nat], mouse : {"off", "capture", "partial"},
     paste : BOOLEAN, nowrap : BOOLEAN, title : Titles, cursor : {"hidden", "shown"},
     sync : BOOLEAN, parser : {"ground", "osc", "apc"}, images : SUBSET Parts,
     upload : Received, foreign : BOOLEAN, cells : {"lost", "erased", "good"}]

ModeStates ==
    [screen : Screens, mouse : {"off", "capture"}, keyboard : {"legacy", "enhanced"},
     paste : BOOLEAN, nowrap : BOOLEAN, title : Titles, cursor : {"hidden", "shown"}]

Backends ==
    [active : ModeStates, confirmed : ModeStates, raw : BOOLEAN, sync : BOOLEAN,
     pushed : BOOLEAN, mouseUnconfirmed : BOOLEAN, titleUnconfirmed : BOOLEAN,
     lifecycleUncertain : BOOLEAN, syncPending : BOOLEAN, mapping : Mappings,
     owned : SUBSET (1..MaxId), nextId : 1..MaxId, kittyUncertain : BOOLEAN]

Notes == {"note"} \X {"sync", "keyboard"}
Commands ==
    ({"ST", "erase"} \X {""}) \cup ({"sync", "paste", "nowrap", "cells"} \X BOOLEAN)
      \cup ({"delete"} \X (1..MaxId)) \cup ({"first", "last"} \X Parts)
      \cup ({"screen"} \X Screens) \cup ({"keyboard"} \X {"push", "pop"})
      \cup ({"mouse"} \X {"off", "capture"}) \cup ({"title"} \X Titles)
      \cup ({"cursor"} \X {"hidden", "shown"})
Given == Commands \cup Notes
Sent == Given \cup {Torn(c) : c \in Given}

LEMMA TornIsSent ==
    /\ \A c \in Given : c[1] # "torn"
    /\ \A c \in Sent : c[1] # "torn" => Torn(c) \in Sent
<1>1. ASSUME NEW c \in Given PROVE c[1] # "torn"
  <2>1. CASE c \in Commands
    BY <2>1 DEF Commands
  <2>2. CASE c \in Notes
    BY <2>2 DEF Notes
  <2> QED BY <2>1, <2>2 DEF Given
<1>2. \A c \in Given : Torn(c)[1] = "torn"
  BY DEF Torn
<1> QED BY <1>1, <1>2 DEF Sent

\* What a command does to a terminal that expects one.
LEMMA Grounded ==
    ASSUME NEW t, t.parser = "ground", NEW c
    PROVE  /\ c[1] \in {"ST", "note"} => Receive(t, c) = t
           /\ c[1] = "erase" => Receive(t, c) = [t EXCEPT !.cells = "erased"]
           /\ c[1] = "sync" => Receive(t, c) = [t EXCEPT !.sync = c[2]]
           /\ c[1] = "paste" => Receive(t, c) = [t EXCEPT !.paste = c[2]]
           /\ c[1] = "nowrap" => Receive(t, c) = [t EXCEPT !.nowrap = c[2]]
           /\ c[1] = "mouse" => Receive(t, c) = [t EXCEPT !.mouse = c[2]]
           /\ c[1] = "title" => Receive(t, c) = [t EXCEPT !.title = c[2]]
           /\ c[1] = "cursor" => Receive(t, c) = [t EXCEPT !.cursor = c[2]]
           /\ c[1] \in Kitty => Receive(t, c) = Graphics(t, c[1], c[2])
BY DEF Receive, Understood, Kitty

LEMMA TornGrounded ==
    ASSUME NEW t, t.parser = "ground", NEW c
    PROVE  /\ c[1] \in {"ST", "erase", "sync", "paste", "nowrap", "cursor", "screen", "keyboard", "note"}
                 => Receive(t, Torn(c)) = t
           /\ c[1] = "title" => Receive(t, Torn(c)) = [t EXCEPT !.parser = "osc"]
           /\ c[1] = "mouse" => Receive(t, Torn(c)) = [t EXCEPT !.mouse = "partial"]
           /\ c[1] = "cells" => Receive(t, Torn(c)) = [t EXCEPT !.cells = "lost"]
           /\ c[1] = "first" => Receive(t, Torn(c)) = [t EXCEPT !.parser = "apc", !.upload = c[2]]
           /\ c[1] \in {"delete", "last"} => Receive(t, Torn(c)) = [t EXCEPT !.parser = "apc"]
<1>1. Torn(c)[1] = "torn" /\ Torn(c)[2] = c[1] /\ Torn(c)[3] = c[2]
  BY DEF Torn
<1>2. Receive(t, Torn(c)) = Cut(t, c[1], c[2])
  BY <1>1 DEF Receive
<1> QED BY <1>2 DEF Cut, Kitty

LEMMA InString ==
    ASSUME NEW t, t.parser # "ground", NEW c
    PROVE  /\ c[1] = "torn" => Receive(t, c) = t
           /\ c[1] # "torn" => Receive(t, c) = Swallowed(t, c[1])
BY DEF Receive

LEMMA Kinds ==
    ASSUME NEW c \in Given
    PROVE  \/ c[1] \in {"ST", "erase"}
           \/ c[1] = "note" /\ c[2] \in {"sync", "keyboard"}
           \/ c[1] \in {"sync", "paste", "nowrap", "cells"} /\ c[2] \in BOOLEAN
           \/ c[1] = "delete" /\ c[2] \in 1..MaxId
           \/ c[1] \in {"first", "last"} /\ c[2] \in Parts
           \/ c[1] = "screen" /\ c[2] \in Screens
           \/ c[1] = "keyboard" /\ c[2] \in {"push", "pop"}
           \/ c[1] = "mouse" /\ c[2] \in {"off", "capture"}
           \/ c[1] = "title" /\ c[2] \in Titles
           \/ c[1] = "cursor" /\ c[2] \in {"hidden", "shown"}
<1>1. CASE c \in {"ST", "erase"} \X {""}
  BY <1>1
<1>2. CASE c \in Notes
  BY <1>2 DEF Notes
<1>3. CASE c \in {"sync", "paste", "nowrap", "cells"} \X BOOLEAN
  BY <1>3
<1>4. CASE c \in {"delete"} \X (1..MaxId)
  BY <1>4
<1>5. CASE c \in {"first", "last"} \X Parts
  BY <1>5
<1>6. CASE c \in {"screen"} \X Screens
  BY <1>6
<1>7. CASE c \in {"keyboard"} \X {"push", "pop"}
  BY <1>7
<1>8. CASE c \in {"mouse"} \X {"off", "capture"}
  BY <1>8
<1>9. CASE c \in {"title"} \X Titles
  BY <1>9
<1>10. CASE c \in {"cursor"} \X {"hidden", "shown"}
  BY <1>10
<1> QED BY <1>1, <1>2, <1>3, <1>4, <1>5, <1>6, <1>7, <1>8, <1>9, <1>10 DEF Given, Commands

\* A terminal, and a backend below, with one field replaced keeps its type.
LEMMA TerminalWith ==
    ASSUME NEW t \in Terminals
    PROVE  /\ \A v \in Screens : [t EXCEPT !.screen = v] \in Terminals
           /\ \A v \in [Screens -> Nat] : [t EXCEPT !.keyboard = v] \in Terminals
           /\ \A v \in {"off", "capture", "partial"} : [t EXCEPT !.mouse = v] \in Terminals
           /\ \A v \in BOOLEAN : [t EXCEPT !.paste = v] \in Terminals
           /\ \A v \in BOOLEAN : [t EXCEPT !.nowrap = v] \in Terminals
           /\ \A v \in Titles : [t EXCEPT !.title = v] \in Terminals
           /\ \A v \in {"hidden", "shown"} : [t EXCEPT !.cursor = v] \in Terminals
           /\ \A v \in BOOLEAN : [t EXCEPT !.sync = v] \in Terminals
           /\ \A v \in {"ground", "osc", "apc"} : [t EXCEPT !.parser = v] \in Terminals
           /\ \A v \in SUBSET Parts : [t EXCEPT !.images = v] \in Terminals
           /\ \A v \in Received : [t EXCEPT !.upload = v] \in Terminals
           /\ \A v \in BOOLEAN : [t EXCEPT !.foreign = v] \in Terminals
           /\ \A v \in {"lost", "erased", "good"} : [t EXCEPT !.cells = v] \in Terminals
<1>1. \A v \in Screens : [t EXCEPT !.screen = v] \in Terminals
  BY DEF Terminals
<1>2. \A v \in [Screens -> Nat] : [t EXCEPT !.keyboard = v] \in Terminals
  BY DEF Terminals
<1>3. \A v \in {"off", "capture", "partial"} : [t EXCEPT !.mouse = v] \in Terminals
  BY DEF Terminals
<1>4. \A v \in BOOLEAN : [t EXCEPT !.paste = v] \in Terminals
  BY DEF Terminals
<1>5. \A v \in BOOLEAN : [t EXCEPT !.nowrap = v] \in Terminals
  BY DEF Terminals
<1>6. \A v \in Titles : [t EXCEPT !.title = v] \in Terminals
  BY DEF Terminals
<1>7. \A v \in {"hidden", "shown"} : [t EXCEPT !.cursor = v] \in Terminals
  BY DEF Terminals
<1>8. \A v \in BOOLEAN : [t EXCEPT !.sync = v] \in Terminals
  BY DEF Terminals
<1>9. \A v \in {"ground", "osc", "apc"} : [t EXCEPT !.parser = v] \in Terminals
  BY DEF Terminals
<1>10. \A v \in SUBSET Parts : [t EXCEPT !.images = v] \in Terminals
  BY DEF Terminals
<1>11. \A v \in Received : [t EXCEPT !.upload = v] \in Terminals
  BY DEF Terminals
<1>12. \A v \in BOOLEAN : [t EXCEPT !.foreign = v] \in Terminals
  BY DEF Terminals
<1>13. \A v \in {"lost", "erased", "good"} : [t EXCEPT !.cells = v] \in Terminals
  BY DEF Terminals
<1> QED BY <1>1, <1>2, <1>3, <1>4, <1>5, <1>6, <1>7, <1>8, <1>9, <1>10, <1>11, <1>12, <1>13

LEMMA BackendWith ==
    ASSUME NEW k \in Backends
    PROVE  /\ \A v \in ModeStates : [k EXCEPT !.active = v] \in Backends
           /\ \A v \in ModeStates : [k EXCEPT !.confirmed = v] \in Backends
           /\ \A v \in BOOLEAN : [k EXCEPT !.raw = v] \in Backends
           /\ \A v \in BOOLEAN : [k EXCEPT !.pushed = v] \in Backends
           /\ \A v \in BOOLEAN : [k EXCEPT !.mouseUnconfirmed = v] \in Backends
           /\ \A v \in BOOLEAN : [k EXCEPT !.titleUnconfirmed = v] \in Backends
           /\ \A v \in BOOLEAN : [k EXCEPT !.lifecycleUncertain = v] \in Backends
           /\ \A v \in BOOLEAN : [k EXCEPT !.syncPending = v] \in Backends
           /\ \A v \in Mappings : [k EXCEPT !.mapping = v] \in Backends
           /\ \A v \in SUBSET (1..MaxId) : [k EXCEPT !.owned = v] \in Backends
           /\ \A v \in BOOLEAN : [k EXCEPT !.kittyUncertain = v] \in Backends
<1>1. \A v \in ModeStates : [k EXCEPT !.active = v] \in Backends
  BY DEF Backends
<1>2. \A v \in ModeStates : [k EXCEPT !.confirmed = v] \in Backends
  BY DEF Backends
<1>3. \A v \in BOOLEAN : [k EXCEPT !.raw = v] \in Backends
  BY DEF Backends
<1>4. \A v \in BOOLEAN : [k EXCEPT !.pushed = v] \in Backends
  BY DEF Backends
<1>5. \A v \in BOOLEAN : [k EXCEPT !.mouseUnconfirmed = v] \in Backends
  BY DEF Backends
<1>6. \A v \in BOOLEAN : [k EXCEPT !.titleUnconfirmed = v] \in Backends
  BY DEF Backends
<1>7. \A v \in BOOLEAN : [k EXCEPT !.lifecycleUncertain = v] \in Backends
  BY DEF Backends
<1>8. \A v \in BOOLEAN : [k EXCEPT !.syncPending = v] \in Backends
  BY DEF Backends
<1>9. \A v \in Mappings : [k EXCEPT !.mapping = v] \in Backends
  BY DEF Backends
<1>10. \A v \in SUBSET (1..MaxId) : [k EXCEPT !.owned = v] \in Backends
  BY DEF Backends
<1>11. \A v \in BOOLEAN : [k EXCEPT !.kittyUncertain = v] \in Backends
  BY DEF Backends
<1> QED BY <1>1, <1>2, <1>3, <1>4, <1>5, <1>6, <1>7, <1>8, <1>9, <1>10, <1>11

LEMMA GraphicsTyped ==
    ASSUME NEW t \in Terminals
    PROVE  /\ \A a \in 1..MaxId : Graphics(t, "delete", a) \in Terminals
           /\ \A a \in Parts : Graphics(t, "first", a) \in Terminals /\ Graphics(t, "last", a) \in Terminals
<1>1. <<>> \in Received /\ <<0, "mixed">> \in Received /\ Parts \subseteq Received
  BY DEF Received
<1>2. \A a \in 1..MaxId : Graphics(t, "delete", a) \in Terminals
  <2>1. ASSUME NEW a \in 1..MaxId PROVE {i \in t.images : i[1] # a} \in SUBSET Parts
    BY DEF Terminals
  <2>2. \A S \in SUBSET Parts : [t EXCEPT !.images = S, !.upload = <<>>] \in Terminals
    BY <1>1 DEF Terminals
  <2> QED BY <2>1, <2>2, TerminalWith DEF Graphics
<1>3. \A a \in Parts : Graphics(t, "first", a) \in Terminals
  BY <1>1, TerminalWith DEF Graphics
<1>4. \A a \in Parts : Graphics(t, "last", a) \in Terminals
  <2>1. ASSUME NEW a \in Parts PROVE {i \in t.images : i[1] # a[1]} \cup {a} \in SUBSET Parts
    BY DEF Terminals
  <2>2. \A S \in SUBSET Parts : [t EXCEPT !.images = S, !.upload = <<>>] \in Terminals
    BY <1>1 DEF Terminals
  <2> QED BY <1>1, <2>1, <2>2, TerminalWith DEF Graphics
<1> QED BY <1>2, <1>3, <1>4

LEMMA TornTyped ==
    ASSUME NEW t \in Terminals, NEW c \in Given
    PROVE  Receive(t, Torn(c)) \in Terminals
<1>1. CASE t.parser # "ground"
  <2>1. Torn(c)[1] = "torn"
    BY DEF Torn
  <2> QED BY <1>1, <2>1, InString
<1>2. CASE t.parser = "ground"
  <2>1. CASE c[1] \in {"ST", "erase", "sync", "paste", "nowrap", "cursor", "screen", "keyboard", "note"}
    BY <1>2, <2>1, TornGrounded
  <2>2. CASE c[1] \in {"title", "mouse", "cells", "delete", "last"}
    <3>1. /\ [t EXCEPT !.parser = "osc"] \in Terminals /\ [t EXCEPT !.parser = "apc"] \in Terminals
          /\ [t EXCEPT !.mouse = "partial"] \in Terminals /\ [t EXCEPT !.cells = "lost"] \in Terminals
      BY SMTT(30) DEF Terminals
    <3> QED BY <1>2, <2>2, <3>1, TornGrounded
  <2>3. CASE c[1] = "first" /\ c[2] \in Parts
    <3>1. c[2] \in Received
      BY <2>3 DEF Received
    <3>2. [t EXCEPT !.parser = "apc", !.upload = c[2]] \in Terminals
      BY <3>1 DEF Terminals
    <3> QED BY <1>2, <2>3, <3>2, TornGrounded
  <2> QED BY <2>1, <2>2, <2>3, Kinds, SMTT(30)
<1> QED BY <1>1, <1>2

LEMMA GivenTyped ==
    ASSUME NEW t \in Terminals, NEW c \in Given
    PROVE  Receive(t, c) \in Terminals
<1>1. CASE t.parser # "ground"
  <2>1. Ended(t) \in Terminals
    <3>1. CASE t.parser = "osc"
      <4>1. [t EXCEPT !.parser = "ground"] \in Terminals
        BY DEF Terminals
      <4>2. [[t EXCEPT !.parser = "ground"] EXCEPT !.title = "garbled"] \in Terminals
        BY <4>1 DEF Terminals, Titles
      <4> QED BY <3>1, <4>2 DEF Ended
    <3>2. CASE t.parser # "osc"
      BY <3>2 DEF Ended, Terminals
    <3> QED BY <3>1, <3>2
  <2>2. [t EXCEPT !.cells = "lost"] \in Terminals
    BY DEF Terminals
  <2>3. Swallowed(t, c[1]) \in Terminals
    BY <2>1, <2>2 DEF Swallowed
  <2>4. Receive(t, c) = Swallowed(t, c[1])
    BY <1>1, InString, TornIsSent
  <2> QED BY <2>3, <2>4
<1>2. CASE t.parser = "ground"
  <2>1. CASE c[1] \in {"ST", "note", "erase"}
    BY <1>2, <2>1, Grounded DEF Terminals
  <2>2. CASE c[1] \in {"sync", "paste", "nowrap", "cells"} /\ c[2] \in BOOLEAN
    <3>1. CASE c[1] # "cells"
      <4>1. \/ Receive(t, c) = [t EXCEPT !.sync = c[2]]
            \/ Receive(t, c) = [t EXCEPT !.paste = c[2]]
            \/ Receive(t, c) = [t EXCEPT !.nowrap = c[2]]
        <5>1. c[1] = "sync" \/ c[1] = "paste" \/ c[1] = "nowrap"
          BY <2>2, <3>1
        <5> QED BY <1>2, <5>1, Grounded
      <4> QED BY <2>2, <4>1, TerminalWith, ZenonT(40)
    <3>2. CASE c[1] = "cells"
      <4>1. PICK v \in {"lost", "erased", "good"} : Receive(t, c) = [t EXCEPT !.cells = v]
        BY <1>2, <3>2 DEF Receive, Understood, Kitty
      <4> QED BY <4>1, TerminalWith, ZenonT(40)
    <3> QED BY <3>1, <3>2
  <2>3. CASE c[1] = "delete" /\ c[2] \in 1..MaxId
    BY <1>2, <2>3, GraphicsTyped, Grounded DEF Kitty
  <2>4. CASE c[1] \in {"first", "last"} /\ c[2] \in Parts
    BY <1>2, <2>4, GraphicsTyped, Grounded DEF Kitty
  <2>5. CASE c[1] = "screen" /\ c[2] \in Screens
    <3>1. PICK v \in {"lost", "erased", "good"} : Receive(t, c) = [t EXCEPT !.screen = c[2], !.cells = v]
      <4>1. t.cells \in {"lost", "erased", "good"}
        BY DEF Terminals
      <4> QED BY <1>2, <2>5, <4>1 DEF Receive, Understood, Kitty
    <3>2. [t EXCEPT !.screen = c[2], !.cells = v] \in Terminals
      BY <2>5, <3>1 DEF Terminals
    <3> QED BY <3>1, <3>2
  <2>6. CASE c[1] = "keyboard" /\ c[2] \in {"push", "pop"}
    <3>1. t.screen \in Screens /\ t.keyboard \in [Screens -> Nat]
      BY DEF Terminals
    <3>2. PICK n \in Nat : Receive(t, c) = [t EXCEPT !.keyboard[t.screen] = n]
      <4> DEFINE n == t.keyboard[t.screen]
                 m == IF c[2] = "push" THEN n + 1 ELSE IF n > 0 THEN n - 1 ELSE 0
      <4>1. Receive(t, c) = Understood(t, c[1], c[2])
        BY <1>2, <2>6 DEF Receive
      <4>2. Receive(t, c) = [t EXCEPT !.keyboard[t.screen] = m]
        BY <2>6, <4>1 DEF Understood, Kitty
      <4>3. n \in Nat
        BY <3>1
      <4> HIDE DEF n
      <4>4. m \in Nat
        BY <4>3
      <4> HIDE DEF m
      <4> QED BY <4>2, <4>4
    <3>3. [t.keyboard EXCEPT ![t.screen] = n] \in [Screens -> Nat]
      BY <3>1
    <3>4. [t EXCEPT !.keyboard = [t.keyboard EXCEPT ![t.screen] = n]] \in Terminals
      BY <3>3, TerminalWith
    <3> QED BY <3>2, <3>4
  <2>7. CASE c[1] = "mouse" /\ c[2] \in {"off", "capture"}
    <3>1. Receive(t, c) = [t EXCEPT !.mouse = c[2]] /\ c[2] \in {"off", "capture", "partial"}
      BY <1>2, <2>7, Grounded
    <3> QED BY <3>1, TerminalWith, ZenonT(40)
  <2>8. CASE c[1] = "title" /\ c[2] \in Titles
    <3>1. Receive(t, c) = [t EXCEPT !.title = c[2]] /\ c[2] \in Titles
      BY <1>2, <2>8, Grounded
    <3> QED BY <3>1, TerminalWith, ZenonT(40)
  <2>9. CASE c[1] = "cursor" /\ c[2] \in {"hidden", "shown"}
    <3>1. Receive(t, c) = [t EXCEPT !.cursor = c[2]] /\ c[2] \in {"hidden", "shown"}
      BY <1>2, <2>9, Grounded
    <3> QED BY <3>1, TerminalWith, ZenonT(40)
  <2> QED BY <2>1, <2>2, <2>3, <2>4, <2>5, <2>6, <2>7, <2>8, <2>9, Kinds
<1> QED BY <1>1, <1>2

LEMMA SentTyped ==
    ASSUME NEW t \in Terminals, NEW c \in Sent
    PROVE  Receive(t, c) \in Terminals
BY GivenTyped, TornTyped DEF Sent

LEMMA FieldsAre == Fields = {"screen", "mouse", "keyboard", "paste", "nowrap", "title", "cursor"}
BY DEF Fields, NoState

LEMMA WantedTyped ==
    ASSUME NEW d \in Desired
    PROVE  /\ d \in TerminalState /\ d.title \in Titles /\ TitleText(d) \in Titles
           /\ Modes(d) \in ModeStates /\ \A f \in Fields : Modes(d)[f] = d[f]
<1>1. d \in TerminalState
  BY ModesAssumption
<1>2. d.title \in Titles /\ TitleText(d) \in Titles
  BY DEF Titles, TitleText
<1>3. \A f \in Fields : Modes(d)[f] = d[f]
  BY DEF Modes
<1>4. Modes(d) \in ModeStates
  <2>1. Modes(d) = [f \in {"screen", "mouse", "keyboard", "paste", "nowrap", "title", "cursor"} |-> d[f]]
    BY FieldsAre DEF Modes
  <2> QED BY <1>1, <1>2, <2>1 DEF ModeStates, TerminalState
<1> QED BY <1>1, <1>2, <1>3, <1>4

LEMMA NoStateTyped == NoState \in ModeStates
BY DEF NoState, ModeStates, Titles, Screens

LEMMA AttemptTyped ==
    ASSUME NEW k \in Backends, NEW c
    PROVE  /\ Attempt(k, c) \in Backends
           /\ c[1] = "mouse" => Attempt(k, c) = [k EXCEPT !.mouseUnconfirmed = TRUE]
           /\ c[1] = "title" => Attempt(k, c) = [k EXCEPT !.titleUnconfirmed = TRUE, !.lifecycleUncertain = TRUE]
           /\ c[1] = "sync" /\ c[2] => Attempt(k, c) = [k EXCEPT !.syncPending = TRUE]
           /\ c[1] \notin {"mouse", "title", "sync"} => Attempt(k, c) = k
           /\ c[1] = "sync" /\ ~c[2] => Attempt(k, c) = k
<1>1. CASE c[1] = "mouse"
  BY <1>1 DEF Attempt, Backends
<1>2. CASE c[1] = "title"
  BY <1>2 DEF Attempt, Backends
<1>3. CASE c[1] = "sync"
  BY <1>3 DEF Attempt, Backends
<1>4. CASE c[1] \notin {"mouse", "title", "sync"}
  BY <1>4 DEF Attempt
<1> QED BY <1>1, <1>2, <1>3, <1>4

LEMMA DoneIs ==
    ASSUME NEW k, NEW c \in Given, NEW kind
    PROVE  /\ c[1] = "keyboard" /\ c[2] = "push" => Done(k, c, kind) = [k EXCEPT !.pushed = TRUE]
           /\ c[1] = "keyboard" /\ c[2] # "push" => Done(k, c, kind) = [k EXCEPT !.pushed = FALSE]
           /\ c[1] = "note" /\ c[2] = "sync" => Done(k, c, kind) = [k EXCEPT !.sync = goal.sync]
           /\ c[1] = "note" /\ c[2] = "keyboard"
                => Done(k, c, kind) = [k EXCEPT !.active.keyboard = goal.keyboard]
           /\ c[1] \notin {"keyboard", "note"} /\ kind # "body" => Done(k, c, kind) = Attempt(k, c)
           /\ c[1] \in {"ST", "erase", "sync", "cells", "delete", "first", "last"}
                => Done(k, c, kind) = Attempt(k, c)
           /\ c[1] = "title" /\ kind = "body"
                => Done(k, c, kind) = [Attempt(k, c) EXCEPT !.active.title = goal.title]
           /\ c[1] \in {"screen", "mouse", "paste", "nowrap", "cursor"} /\ kind = "body"
                => Done(k, c, kind) = [Attempt(k, c) EXCEPT !.active[c[1]] = c[2]]
<1>1. CASE c[1] # "note"
  <2>1. c # <<"note", "sync">> /\ c # <<"note", "keyboard">>
    BY <1>1
  <2>2. CASE c[1] = "keyboard"
    <3>1. Attempt(k, c) = k
      BY <2>2 DEF Attempt
    <3>2. CASE c[2] = "push"
      <4>1. Done(k, c, kind) = [Attempt(k, c) EXCEPT !.pushed = TRUE]
        BY <2>1, <2>2, <3>2, FieldsAre DEF Done
      <4> QED BY <2>2, <3>1, <3>2, <4>1
    <3>3. CASE c[2] # "push"
      <4>1. Done(k, c, kind) = [Attempt(k, c) EXCEPT !.pushed = FALSE]
        BY <2>1, <2>2, <3>3, FieldsAre DEF Done
      <4> QED BY <2>2, <3>1, <3>3, <4>1
    <3> QED BY <3>2, <3>3
  <2>3. CASE c[1] = "title"
    <3>1. CASE kind = "body"
      BY <2>1, <2>3, <3>1, FieldsAre DEF Done
    <3>2. CASE kind # "body"
      BY <2>1, <2>3, <3>2, FieldsAre DEF Done
    <3> QED BY <3>1, <3>2
  <2>4. CASE c[1] \in {"screen", "mouse", "paste", "nowrap", "cursor"}
    BY <2>1, <2>4, FieldsAre DEF Done
  <2>5. CASE c[1] \in {"ST", "erase", "sync", "cells", "delete", "first", "last"}
    BY <2>1, <2>5, FieldsAre DEF Done
  <2> QED BY <1>1, <2>2, <2>3, <2>4, <2>5, Kinds
<1>2. CASE c[1] = "note"
  <2>1. c \in Notes
    BY <1>2 DEF Given, Commands
  <2>2. (c[2] = "sync" => c = <<"note", "sync">>) /\ (c[2] = "keyboard" => c = <<"note", "keyboard">>)
    BY <2>1 DEF Notes
  <2>3. <<"note", "sync">> # <<"note", "keyboard">>
    OBVIOUS
  <2>4. Attempt(k, c) = k
    BY <1>2 DEF Attempt
  <2>5. c[2] \in {"sync", "keyboard"}
    BY <2>1 DEF Notes
  <2>6. CASE c[2] = "sync"
    <3>1. Done(k, c, kind) = [Attempt(k, c) EXCEPT !.sync = goal.sync]
      BY <1>2, <2>2, <2>3, <2>6, FieldsAre DEF Done
    <3> QED BY <1>2, <2>4, <2>6, <3>1
  <2>7. CASE c[2] = "keyboard"
    <3>1. Done(k, c, kind) = [Attempt(k, c) EXCEPT !.active.keyboard = goal.keyboard]
      BY <1>2, <2>2, <2>3, <2>7, FieldsAre DEF Done
    <3> QED BY <1>2, <2>4, <2>7, <3>1
  <2> QED BY <2>5, <2>6, <2>7
<1> QED BY <1>1, <1>2

LEMMA DoneTyped ==
    ASSUME NEW k \in Backends, NEW c \in Given, NEW kind,
           kind = "body" \/ c \in Notes => goal \in Desired
    PROVE  Done(k, c, kind) \in Backends
<1>0. Attempt(k, c) \in Backends
  BY AttemptTyped
<1>1. CASE c[1] = "keyboard"
  <2>1. [k EXCEPT !.pushed = TRUE] \in Backends /\ [k EXCEPT !.pushed = FALSE] \in Backends
    BY DEF Backends
  <2>2. CASE c[2] = "push"
    <3>1. Done(k, c, kind) = [k EXCEPT !.pushed = TRUE]
      BY <1>1, <2>2, DoneIs
    <3> QED BY <2>1, <3>1
  <2>3. CASE c[2] # "push"
    <3>1. Done(k, c, kind) = [k EXCEPT !.pushed = FALSE]
      BY <1>1, <2>3, DoneIs, SMTT(30)
    <3> QED BY <2>1, <3>1
  <2> QED BY <2>2, <2>3
<1>2. CASE c[1] = "note" /\ c[2] \in {"sync", "keyboard"}
  <2>1. goal \in TerminalState
    BY <1>2, WantedTyped, Kinds, TornIsSent DEF Given, Commands
  <2>2. [k EXCEPT !.sync = goal.sync] \in Backends
    BY <2>1 DEF Backends, TerminalState
  <2>3. [k EXCEPT !.active.keyboard = goal.keyboard] \in Backends
    BY <2>1 DEF Backends, TerminalState, ModeStates
  <2>4. CASE c[2] = "sync"
    <3>1. Done(k, c, kind) = [k EXCEPT !.sync = goal.sync]
      BY <1>2, <2>4, DoneIs, SMTT(30)
    <3> QED BY <2>2, <3>1
  <2>5. CASE c[2] = "keyboard"
    <3>1. Done(k, c, kind) = [k EXCEPT !.active.keyboard = goal.keyboard]
      BY <1>2, <2>5, DoneIs, SMTT(30)
    <3> QED BY <2>3, <3>1
  <2> QED BY <1>2, <2>4, <2>5
<1>3. CASE c[1] \in {"ST", "erase", "sync", "cells", "delete", "first", "last"} \/ (c[1] \notin {"keyboard", "note"} /\ kind # "body")
  BY <1>0, <1>3, DoneIs
<1>4. CASE c[1] = "title" /\ kind = "body"
  <2>1. goal.title \in Titles
    BY <1>4, WantedTyped
  <2>2. [Attempt(k, c) EXCEPT !.active.title = goal.title] \in Backends
    BY <1>0, <2>1 DEF Backends, ModeStates
  <2> QED BY <1>4, <2>2, DoneIs
<1>5. CASE c[1] \in {"screen", "mouse", "paste", "nowrap", "cursor"} /\ kind = "body"
  <2> DEFINE a == Attempt(k, c)
  <2>1. Done(k, c, kind) = [a EXCEPT !.active[c[1]] = c[2]]
    BY <1>5, DoneIs
  <2>2. CASE c[1] = "screen" /\ c[2] \in Screens
    BY <1>0, <2>1, <2>2 DEF Backends, ModeStates
  <2>3. CASE c[1] = "mouse" /\ c[2] \in {"off", "capture"}
    BY <1>0, <2>1, <2>3 DEF Backends, ModeStates
  <2>4. CASE c[1] \in {"paste", "nowrap"} /\ c[2] \in BOOLEAN
    BY <1>0, <2>1, <2>4 DEF Backends, ModeStates
  <2>5. CASE c[1] = "cursor" /\ c[2] \in {"hidden", "shown"}
    BY <1>0, <2>1, <2>5 DEF Backends, ModeStates
  <2> QED BY <1>5, <2>2, <2>3, <2>4, <2>5, Kinds
<1> QED BY <1>1, <1>2, <1>3, <1>4, <1>5, Kinds

LEMMA ReceivesTyped ==
    ASSUME NEW t \in Terminals, NEW cs \in Seq(Sent)
    PROVE  ReceiveAll(t, cs) \in Terminals
<1>1. \A i \in DOMAIN cs : cs[i] \in Sent
  OBVIOUS
<1>2. \A u \in Terminals : \A i \in DOMAIN cs : Receive(u, cs[i]) \in Terminals
  BY <1>1, SentTyped
<1> QED BY <1>2, ReceivesAllKeep

LEMMA GivenIsSent == /\ Given \subseteq Sent
                     /\ \A cs \in Seq(Given) : cs \in Seq(Sent)
<1>1. Given \subseteq Sent
  BY DEF Sent
<1>2. ASSUME NEW cs \in Seq(Given) PROVE cs \in Seq(Sent)
  BY <1>1, SeqMonotonic
<1> QED BY <1>1, <1>2

LEMMA SendsTyped ==
    ASSUME term \in Terminals, pipe \in Seq(Sent), NEW cs \in Seq(Given), Sends(cs)
    PROVE  term' \in Terminals /\ pipe' \in Seq(Sent)
<1> DEFINE ds == pipe \o cs
<1>1. ds \in Seq(Sent)
  BY GivenIsSent, ConcatProperties
<1>2. term' = ReceiveAll(term, ds) /\ pipe' = <<>>
  BY DEF Sends
<1> HIDE DEF ds
<1>3. term' \in Terminals
  BY <1>1, <1>2, ReceivesTyped
<1>4. pipe' \in Seq(Sent)
  BY <1>2
<1> QED BY <1>3, <1>4

LEMMA DeliversTyped ==
    ASSUME term \in Terminals, pipe \in Seq(Sent), NEW cs \in Seq(Sent), Delivers(cs)
    PROVE  term' \in Terminals /\ pipe' \in Seq(Sent)
<1> DEFINE ds == pipe \o cs
<1>1. ds \in Seq(Sent)
  BY ConcatProperties
<1>2. PICK n \in 0..Len(ds) : term' = ReceiveAll(term, SubSeq(ds, 1, n))
                              /\ pipe' = SubSeq(ds, n + 1, Len(ds))
  BY DEF Delivers
<1> HIDE DEF ds
<1>3. SubSeq(ds, 1, n) \in Seq(Sent) /\ SubSeq(ds, n + 1, Len(ds)) \in Seq(Sent)
  BY <1>1
<1>4. term' \in Terminals
  BY <1>2, <1>3, ReceivesTyped
<1> QED BY <1>2, <1>3, <1>4

LEMMA StopsTyped ==
    ASSUME term \in Terminals, pipe \in Seq(Sent), NEW cs \in Seq(Given),
           NEW i \in 1 .. Len(cs) + 1, StopsAt(cs, i)
    PROVE  term' \in Terminals /\ pipe' \in Seq(Sent)
<1> DEFINE before == SubSeq(cs, 1, i - 1)
<1>1. before \in Seq(Sent)
  <2>1. before \in Seq(Given)
    OBVIOUS
  <2> QED BY <2>1, GivenIsSent
<1>2. CASE Delivers(before)
  BY <1>1, <1>2, DeliversTyped
<1>3. CASE i <= Len(cs) /\ Delivers(Append(before, Torn(cs[i])))
  <2> DEFINE ds == Append(before, Torn(cs[i]))
  <2>1. cs[i] \in Given
    BY <1>3, ElementOfSeq
  <2>2. Torn(cs[i]) \in Sent
    BY <2>1 DEF Sent
  <2>3. ds \in Seq(Sent)
    BY <1>1, <2>2
  <2> HIDE DEF ds
  <2> QED BY <1>3, <2>3, DeliversTyped DEF ds
<1> QED BY <1>2, <1>3 DEF StopsAt

\* A phase on a path that stops: how the paths are used.
LEMMA PathStops ==
    ASSUME term \in Terminals, pipe \in Seq(Sent), NEW cs \in Seq(Given),
           NEW P, NEW Q, NEW R, NEW kind, Path(P, cs, kind, Q, R), Q \subseteq R,
           <<Virtual, b>> \in P, NEW i \in 1 .. Len(cs) + 1, StopsAt(cs, i)
    PROVE  /\ <<Virtual', StoppedAt(cs, i, kind)>> \in R
           /\ term' \in Terminals /\ pipe' \in Seq(Sent)
<1>1. cs \in Seq(Sent)
  BY GivenIsSent
<1>2. \A c \in Sent : c[1] # "torn" => Torn(c) \in Sent
  BY TornIsSent
<1>3. \A j \in DOMAIN cs : cs[j][1] # "torn"
  <2>1. \A j \in DOMAIN cs : cs[j] \in Given
    OBVIOUS
  <2> QED BY <2>1, TornIsSent
<1>4. <<Virtual', StoppedAt(cs, i, kind)>> \in R
  BY <1>1, <1>2, <1>3, StopsOnPath
<1> QED BY <1>4, StopsTyped

\* And one that goes through.
LEMMA PathSends ==
    ASSUME term \in Terminals, pipe \in Seq(Sent), NEW cs \in Seq(Given),
           NEW P, NEW Q, NEW R, NEW kind, Path(P, cs, kind, Q, R),
           <<Virtual, b>> \in P, Sends(cs)
    PROVE  /\ <<Virtual', AllDone(b, cs, kind)>> \in Q
           /\ term' \in Terminals /\ pipe' = <<>> /\ Virtual' = term'
<1>1. cs \in Seq(Sent)
  BY GivenIsSent
<1>2. term' = ReceiveAll(Virtual, cs) /\ pipe' = <<>> /\ Virtual' = term'
  BY <1>1, SendsAll
<1> DEFINE z == <<Virtual, b>>
<1>3. z[1] = Virtual /\ z[2] = b /\ z \in P
  OBVIOUS
<1> HIDE DEF z
<1>4. <<ReceiveAll(z[1], cs), AllDone(z[2], cs, kind)>> \in Q
  BY <1>3 DEF Path
<1> QED BY <1>2, <1>3, <1>4, SendsTyped

-----------------------------------------------------------------------------
(* Paths of the terminal alone.                                            *)

LEMMA CommandIsGiven == ASSUME NEW c \in Commands PROVE c \in Given /\ c[1] \notin {"note", "torn"} /\ c \notin Notes
<1>1. c \in Given /\ c[1] # "torn"
  BY TornIsSent DEF Given
<1>2. c[1] # "note"
  BY DEF Commands
<1> QED BY <1>1, <1>2 DEF Notes

LEMMA PathTerm ==
    ASSUME NEW T, NEW U, NEW R, NEW K, NEW c, c[1] # "note", NEW kind,
           \A k \in K : Done(k, c, kind) \in K /\ Attempt(k, c) \in K,
           \A t \in T : Receive(t, c) \in U /\ t \in R /\ Receive(t, Torn(c)) \in R
    PROVE  Path(T \X K, <<c>>, kind, U \X K, R \X K)
<1>1. ASSUME NEW z \in T \X K
      PROVE  /\ <<Receive(z[1], c), Done(z[2], c, kind)>> \in U \X K
             /\ <<z[1], Attempt(z[2], c)>> \in R \X K
             /\ <<Receive(z[1], Torn(c)), Attempt(z[2], c)>> \in R \X K
  <2>1. z[1] \in T /\ z[2] \in K
    OBVIOUS
  <2> QED BY <2>1
<1> DEFINE P == T \X K
           Q == U \X K
           S == R \X K
<1>2. \A z \in P : /\ <<Receive(z[1], c), Done(z[2], c, kind)>> \in Q
                   /\ c[1] # "note" => /\ <<z[1], Attempt(z[2], c)>> \in S
                                       /\ <<Receive(z[1], Torn(c)), Attempt(z[2], c)>> \in S
  BY <1>1
<1> HIDE DEF P, Q, S
<1>3. Path(P, <<c>>, kind, Q, S)
  BY <1>2, PathOne
<1> QED BY <1>3 DEF P, Q, S

LEMMA PathTermEmpty ==
    ASSUME NEW T, NEW U, T \subseteq U, NEW K, NEW L, K \subseteq L, NEW R, NEW kind
    PROVE  Path(T \X K, <<>>, kind, U \X L, R)
<1> DEFINE P == T \X K
           Q == U \X L
<1>1. \A z \in P : <<z[1], z[2]>> \in Q
  OBVIOUS
<1> HIDE DEF P, Q
<1>2. Path(P, <<>>, kind, Q, R)
  BY <1>1, PathEmpty
<1> QED BY <1>2 DEF P, Q

LEMMA Two == ASSUME NEW x, NEW y PROVE <<x, y>> = <<x>> \o <<y>>
<1>1. <<x, y>> = Append(<<x>>, y) /\ <<x>> \in Seq({x, y}) /\ y \in {x, y}
  OBVIOUS
<1> QED BY <1>1, AppendIsConcat

\* ST ends a string, and is nothing else.
LEMMA AfterST ==
    ASSUME NEW t \in Terminals, NEW c, c[1] = "ST", NEW u, u = Receive(t, c)
    PROVE  /\ u.parser = "ground" /\ Receive(t, Torn(c)) = t
           /\ u.screen = t.screen /\ u.keyboard = t.keyboard /\ u.mouse = t.mouse /\ u.paste = t.paste
           /\ u.nowrap = t.nowrap /\ u.cursor = t.cursor /\ u.sync = t.sync /\ u.images = t.images
           /\ u.upload = t.upload /\ u.foreign = t.foreign /\ u.cells = t.cells
           /\ t.parser # "osc" => u.title = t.title
<1>1. CASE t.parser = "ground"
  <2>1. u = t /\ Receive(t, Torn(c)) = t
    BY <1>1, Grounded, TornGrounded
  <2> QED BY <1>1, <2>1
<1>2. CASE t.parser # "ground"
  <2>1. Receive(t, Torn(c)) = t
    <3>1. Torn(c)[1] = "torn"
      BY DEF Torn
    <3> QED BY <1>2, <3>1, InString
  <2>2. u = Ended(t)
    <3>1. c[1] # "torn"
      OBVIOUS
    <3>2. u = Swallowed(t, c[1])
      BY <1>2, <3>1, InString
    <3> QED BY <3>2 DEF Swallowed
  <2>3. CASE t.parser = "osc"
    <3>1. u = [t EXCEPT !.parser = "ground", !.title = "garbled"]
      BY <2>2, <2>3 DEF Ended
    <3> QED BY <2>1, <2>3, <3>1 DEF Terminals
  <2>4. CASE t.parser # "osc"
    <3>1. u = [t EXCEPT !.parser = "ground", !.title = t.title]
      BY <2>2, <2>4 DEF Ended
    <3> QED BY <2>1, <2>4, <3>1 DEF Terminals
  <2> QED BY <2>3, <2>4
<1> QED BY <1>1, <1>2

LEMMA SomeCommands ==
    /\ <<"ST", "">> \in Commands /\ <<"erase", "">> \in Commands
    /\ \A a \in BOOLEAN : /\ <<"sync", a>> \in Commands /\ <<"paste", a>> \in Commands
                          /\ <<"nowrap", a>> \in Commands /\ <<"cells", a>> \in Commands
    /\ \A a \in 1..MaxId : <<"delete", a>> \in Commands
    /\ \A a \in Parts : <<"first", a>> \in Commands /\ <<"last", a>> \in Commands
    /\ \A a \in Screens : <<"screen", a>> \in Commands
    /\ <<"keyboard", "push">> \in Commands /\ <<"keyboard", "pop">> \in Commands
    /\ \A a \in {"off", "capture"} : <<"mouse", a>> \in Commands
    /\ \A a \in Titles : <<"title", a>> \in Commands
    /\ \A a \in {"hidden", "shown"} : <<"cursor", a>> \in Commands
BY DEF Commands

\* Commands that the backend keeps no record of.
LEMMA Silent ==
    ASSUME NEW k, NEW c \in Given, NEW kind,
           \/ c[1] \in {"ST", "erase", "delete", "cells", "first", "last"} \/ (c[1] = "sync" /\ ~c[2])
           \/ kind # "body" /\ c[1] \in {"screen", "paste", "nowrap", "cursor"}
    PROVE  Done(k, c, kind) = k /\ Attempt(k, c) = k
<1>1. Attempt(k, c) = k
  BY DEF Attempt
<1>2. Done(k, c, kind) = Attempt(k, c)
  BY DoneIs
<1> QED BY <1>1, <1>2

-----------------------------------------------------------------------------
(* Sequences of commands.                                                  *)

LEMMA NoMapping == <<>> \in Mappings
<1>1. <<>> \in [{} -> 1..MaxId]
  OBVIOUS
<1> QED BY <1>1 DEF Mappings

LEMMA MaxIdIs == MaxId \in Nat /\ MaxId >= 1 /\ 1 \in 1..MaxId
<1>1. Cardinality(Images) \in Nat
  BY ModesAssumption, FS_CardinalityType
<1> QED BY <1>1, ModesAssumption

LEMMA OrderedIs ==
    ASSUME NEW S, IsFiniteSet(S)
    PROVE  /\ Cardinality(S) \in Nat
           /\ Ordered(S) \in [1..Cardinality(S) -> S]
           /\ \A i, j \in 1..Cardinality(S) : Ordered(S)[i] = Ordered(S)[j] => i = j
           /\ \A x \in S : \E i \in 1..Cardinality(S) : Ordered(S)[i] = x
<1> DEFINE n == Cardinality(S)
           f == Ordered(S)
<1>1. n \in Nat /\ ExistsBijection(1..n, S)
  BY FS_CardinalityType
<1>2. \E g \in [1..n -> S] : IsInjective(g)
  BY <1>1 DEF ExistsBijection, Bijection, Injection
<1>3. f \in [1..n -> S] /\ IsInjective(f)
  <2>1. f = CHOOSE g \in [1..Cardinality(S) -> S] : IsInjective(g)
    BY DEF Ordered, SetToSeq
  <2> QED BY <1>2, <2>1
<1> HIDE DEF f, n
<1>4. f \in Injection(1..n, S)
  BY <1>3 DEF Injection
<1>5. Cardinality(1..n) = n
  BY <1>1, FS_Interval
<1>6. f \in Surjection(1..n, S)
  BY <1>4, <1>5, FS_Injection DEF n
<1>7. \A x \in S : \E i \in 1..n : f[i] = x
  BY <1>6 DEF Surjection
<1>8. \A i, j \in 1..n : f[i] = f[j] => i = j
  BY <1>3 DEF IsInjective
<1> QED BY <1>1, <1>3, <1>7, <1>8 DEF f, n

LEMMA IdsFinite == ASSUME NEW ids \in SUBSET (1..MaxId) PROVE IsFiniteSet(ids)
<1>1. IsFiniteSet(1..MaxId)
  BY MaxIdIs, FS_Interval
<1> QED BY <1>1, FS_Subset

LEMMA DeletionsAre ==
    ASSUME NEW ids \in SUBSET (1..MaxId)
    PROVE  /\ Deletions(ids) \in Seq(Given) /\ Len(Deletions(ids)) = Cardinality(ids)
           /\ Cardinality(ids) \in Nat
           /\ \A i \in 1..Cardinality(ids) : /\ Deletions(ids)[i] = <<"delete", Ordered(ids)[i]>>
                                             /\ Ordered(ids)[i] \in ids
           /\ \A x \in ids : \E i \in 1..Cardinality(ids) : Ordered(ids)[i] = x
<1> DEFINE n == Cardinality(ids)
           f == Ordered(ids)
<1>1. /\ n \in Nat /\ f \in [1..n -> ids] /\ \A x \in ids : \E i \in 1..n : f[i] = x
  BY IdsFinite, OrderedIs
<1>2. Deletions(ids) = [i \in 1..n |-> <<"delete", f[i]>>]
  BY DEF Deletions
<1> HIDE DEF n, f
<1>3. \A i \in 1..n : f[i] \in ids /\ f[i] \in 1..MaxId
  BY <1>1
<1>4. \A i \in 1..n : <<"delete", f[i]>> \in Given
  BY <1>3, SomeCommands, CommandIsGiven
<1> DEFINE e == [i \in 1..n |-> <<"delete", f[i]>>]
<1>5. e \in Seq(Given) /\ Len(e) = n
  BY <1>1, <1>4
<1> QED BY <1>1, <1>2, <1>3, <1>5 DEF n, f

LEMMA PathThen ==
    ASSUME NEW front \in Seq(Given), NEW cs \in Seq(Given), NEW T, NEW K, NEW U, NEW L, NEW V, NEW M,
           NEW R, NEW kind, Path(T \X K, front, kind, U \X L, R), Path(U \X L, cs, kind, V \X M, R)
    PROVE  Path(T \X K, front \o cs, kind, V \X M, R) /\ front \o cs \in Seq(Given)
<1> DEFINE A == T \X K
           B == U \X L
           D == V \X M
<1> HIDE DEF A, B, D
<1>1. Path(A, front, kind, B, R) /\ Path(B, cs, kind, D, R)
  BY DEF A, B, D
<1>2. Path(A, front \o cs, kind, D, R)
  BY <1>1, PathBoth
<1> QED BY <1>2, ConcatProperties DEF A, D

LEMMA PathWider ==
    ASSUME NEW cs, NEW kind, NEW T, NEW K, NEW U, NEW L, NEW R, NEW S,
           Path(T \X K, cs, kind, U \X L, R \X K), R \subseteq S
    PROVE  Path(T \X K, cs, kind, U \X L, S \X K)
<1> DEFINE A == T \X K
           B == U \X L
           D == R \X K
           E == S \X K
<1>1. D \subseteq E
  OBVIOUS
<1> HIDE DEF A, B, D, E
<1>2. Path(A, cs, kind, B, D)
  BY DEF A, B, D
<1>3. Path(A, cs, kind, B, E)
  BY <1>1, <1>2, PathWeaker
<1> QED BY <1>3 DEF A, B, E

\* A command that is not always sent.
LEMMA PathIf ==
    ASSUME NEW T, NEW U, NEW R, NEW K, NEW c \in Commands, NEW kind, NEW condition \in BOOLEAN,
           \A k \in K : Done(k, c, kind) \in K /\ Attempt(k, c) \in K,
           ~condition => T \subseteq U,
           condition => \A t \in T : Receive(t, c) \in U /\ t \in R /\ Receive(t, Torn(c)) \in R
    PROVE  /\ Path(T \X K, If(condition, <<c>>), kind, U \X K, R \X K)
           /\ If(condition, <<c>>) \in Seq(Given)
<1>1. c \in Given /\ c[1] # "note"
  BY CommandIsGiven
<1>2. If(condition, <<c>>) \in Seq(Given)
  BY <1>1 DEF If
<1>3. CASE condition
  <2>1. Path(T \X K, <<c>>, kind, U \X K, R \X K)
    BY <1>1, <1>3, PathTerm
  <2> QED BY <1>2, <1>3, <2>1 DEF If
<1>4. CASE ~condition
  <2>1. Path(T \X K, <<>>, kind, U \X K, R \X K)
    BY <1>4, PathTermEmpty
  <2> QED BY <1>2, <1>4, <2>1 DEF If
<1> QED BY <1>3, <1>4

Ids(t) == {i[1] : i \in t.images}
Pictures(t) == {i[2] : i \in t.images}

\* The same terminal but for its images.
SameButImages(u, t) ==
    /\ u.screen = t.screen /\ u.keyboard = t.keyboard /\ u.mouse = t.mouse /\ u.paste = t.paste
    /\ u.nowrap = t.nowrap /\ u.title = t.title /\ u.cursor = t.cursor /\ u.sync = t.sync
    /\ u.parser = t.parser /\ u.foreign = t.foreign /\ u.cells = t.cells

LEMMA Deletes ==
    ASSUME NEW t \in Terminals, t.parser = "ground", t.screen = "alternate", NEW a \in 1..MaxId,
           NEW c, c = <<"delete", a>>
    PROVE  /\ Receive(t, c) \in Terminals /\ SameButImages(Receive(t, c), t)
           /\ Receive(t, c).images = {i \in t.images : i[1] # a} /\ Receive(t, c).upload = <<>>
           /\ Receive(t, Torn(c)) \in Terminals /\ Receive(t, Torn(c)) = [t EXCEPT !.parser = "apc"]
<1>1. c \in Given /\ c[1] = "delete" /\ c[2] = a /\ c[1] \in Kitty
  BY SomeCommands, CommandIsGiven DEF Kitty
<1> DEFINE u == Receive(t, c)
<1>2. u = Graphics(t, c[1], c[2])
  BY <1>1, Grounded
<1>3. u = [t EXCEPT !.images = {i \in @ : i[1] # a}, !.upload = <<>>]
  BY <1>1, <1>2 DEF Graphics
<1>4. u \in Terminals
  BY <1>1, GivenTyped
<1>5. SameButImages(u, t) /\ u.images = {i \in t.images : i[1] # a} /\ u.upload = <<>>
  BY <1>3 DEF SameButImages, Terminals
<1>6. Receive(t, Torn(c)) = [t EXCEPT !.parser = "apc"]
  BY <1>1, TornGrounded
<1>7. Receive(t, Torn(c)) \in Terminals
  BY <1>1, TornTyped
<1> QED BY <1>4, <1>5, <1>6, <1>7

LEMMA DeletionsPath ==
    ASSUME NEW ids \in SUBSET (1..MaxId), NEW T, T \subseteq Terminals,
           \A t \in T : /\ t.parser = "ground" /\ t.screen = "alternate" /\ Ids(t) \subseteq ids
                        /\ t.upload # <<>> => ids # {},
           \A t \in T, u \in Terminals :
               SameButImages(u, t) /\ u.images \subseteq t.images /\ u.upload = <<>> => u \in T,
           NEW R, T \subseteq R,
           \A t \in T, u \in Terminals : u = [t EXCEPT !.parser = "apc"] => u \in R,
           NEW K, NEW kind
    PROVE  Path(T \X K, Deletions(ids), kind, {t \in T : t.images = {} /\ t.upload = <<>>} \X K, R \X K)
<1> DEFINE n == Cardinality(ids)
           f == Ordered(ids)
           cs == Deletions(ids)
           G(m) == {t \in T : /\ \A j \in 1..m : f[j] \notin Ids(t)
                              /\ m > 0 => t.upload = <<>>}
           F == [m \in 0..n |-> G(m) \X K]
           S == R \X K
           U == {t \in T : t.images = {} /\ t.upload = <<>>}
<1>1. /\ cs \in Seq(Given) /\ Len(cs) = n /\ n \in Nat
      /\ \A i \in 1..n : cs[i] = <<"delete", f[i]>> /\ f[i] \in ids
      /\ \A x \in ids : \E i \in 1..n : f[i] = x
  BY DeletionsAre
<1>2. ASSUME NEW i \in 1..n PROVE Path(G(i - 1) \X K, <<cs[i]>>, kind, G(i) \X K, R \X K)
  <2> DEFINE c == <<"delete", f[i]>>
             a == f[i]
  <2>1. c \in Given /\ c[1] = "delete" /\ a \in 1..MaxId
    BY <1>1, SomeCommands, CommandIsGiven
  <2>2. ASSUME NEW t \in G(i - 1)
        PROVE  Receive(t, c) \in G(i) /\ t \in R /\ Receive(t, Torn(c)) \in R
    <3>1. t \in T /\ t \in Terminals /\ t.parser = "ground" /\ t.screen = "alternate"
      OBVIOUS
    <3> DEFINE u == Receive(t, c)
    <3>2. /\ u \in Terminals /\ SameButImages(u, t)
          /\ u.images = {x \in t.images : x[1] # a} /\ u.upload = <<>>
          /\ Receive(t, Torn(c)) \in Terminals /\ Receive(t, Torn(c)) = [t EXCEPT !.parser = "apc"]
      BY <2>1, <3>1, Deletes
    <3> HIDE DEF u
    <3>3. u \in T
      BY <3>1, <3>2
    <3>4. \A j \in 1..i : f[j] \notin Ids(u)
      <4>1. \A j \in 1 .. i - 1 : f[j] \notin Ids(t)
        OBVIOUS
      <4>2. Ids(u) \subseteq Ids(t) /\ a \notin Ids(u)
        BY <3>2 DEF Ids
      <4>3. \A j \in 1..i : j \in 1 .. i - 1 \/ j = i
        OBVIOUS
      <4> HIDE DEF f
      <4> QED BY <4>1, <4>2, <4>3
    <3>5. u \in G(i)
      BY <3>2, <3>3, <3>4
    <3> QED BY <3>1, <3>2, <3>5 DEF u
  <2>3. \A k \in K : Done(k, c, kind) \in K /\ Attempt(k, c) \in K
    BY <2>1, Silent
  <2>4. c[1] # "note" /\ cs[i] = c
    BY <1>1, <2>1
  <2> HIDE DEF G, c
  <2>5. Path(G(i - 1) \X K, <<c>>, kind, G(i) \X K, R \X K)
    BY <2>2, <2>3, <2>4, PathTerm
  <2> QED BY <2>4, <2>5
<1>3. \A i \in 1..Len(cs) : Path(F[i - 1], <<cs[i]>>, kind, F[i], S)
  <2>1. \A i \in 1..n : i - 1 \in 0..n /\ i \in 0..n
    BY <1>1
  <2> HIDE DEF G, cs, f, n
  <2> QED BY <1>1, <1>2, <2>1
<1>4. G(0) = T
  OBVIOUS
<1>5. F[0] = T \X K /\ F[n] = G(n) \X K
  <2>1. 0 \in 0..n /\ n \in 0..n
    BY <1>1
  <2> HIDE DEF G, n
  <2> QED BY <1>4, <2>1
<1>6. G(n) \subseteq U
  <2> SUFFICES ASSUME NEW t \in G(n) PROVE t.images = {} /\ t.upload = <<>>
    OBVIOUS
  <2>1. t \in T /\ Ids(t) \subseteq ids
    OBVIOUS
  <2>2. \A j \in 1..n : f[j] \notin Ids(t)
    OBVIOUS
  <2>3. Ids(t) = {}
    <3> HIDE DEF f, n, G
    <3> QED BY <1>1, <2>1, <2>2
  <2>4. t.images = {}
    BY <2>3 DEF Ids
  <2>5. t.upload = <<>>
    <3>1. CASE n > 0
      BY <3>1
    <3>2. CASE ~(n > 0)
      <4>1. \A x \in ids : FALSE
        <5> HIDE DEF n, f, G, cs
        <5> QED BY <1>1, <3>2
      <4> QED BY <2>1, <4>1
    <3> QED BY <3>1, <3>2
  <2> QED BY <2>4, <2>5
<1>7. Path(F[0], cs, kind, F[n], S)
  <2>1. \A z \in F[0] : <<z[1], z[2]>> = z
    <3> HIDE DEF F
    <3> QED BY <1>5
  <2> HIDE DEF F, cs, n, S
  <2> QED BY <1>1, <1>3, <2>1, PathEach
<1>8. F[n] \subseteq U \X K
  <2> HIDE DEF F, G, U, n
  <2> QED BY <1>5, <1>6
<1> DEFINE A == T \X K
           B == U \X K
<1>9. Path(A, cs, kind, B, S)
  <2>1. A \subseteq F[0] /\ F[n] \subseteq B /\ S \subseteq S
    BY <1>5, <1>8
  <2> HIDE DEF F, A, B, S, cs, n
  <2> QED BY <1>7, <2>1, PathWeaker
<1> QED BY <1>9

LEMMA Switches ==
    ASSUME NEW t \in Terminals, t.parser = "ground", NEW s \in Screens, NEW c, c = <<"screen", s>>,
           NEW u, u = Receive(t, c)
    PROVE  /\ u \in Terminals /\ Receive(t, Torn(c)) = t
           /\ u.screen = s /\ u.keyboard = t.keyboard /\ u.mouse = t.mouse /\ u.paste = t.paste
           /\ u.nowrap = t.nowrap /\ u.title = t.title /\ u.cursor = t.cursor /\ u.sync = t.sync
           /\ u.parser = t.parser /\ u.images = t.images /\ u.upload = t.upload /\ u.foreign = t.foreign
<1>1. c \in Given /\ c[1] = "screen" /\ c[2] = s
  BY SomeCommands, CommandIsGiven
<1>2. u \in Terminals
  BY <1>1, GivenTyped
<1>3. Receive(t, Torn(c)) = t
  BY <1>1, TornGrounded
<1>4. u = [t EXCEPT !.screen = s, !.cells = IF t.screen = s THEN @ ELSE "lost"]
  BY <1>1 DEF Receive, Understood, Kitty
<1> QED BY <1>2, <1>3, <1>4 DEF Terminals

LEMMA Keyboards ==
    ASSUME NEW t \in Terminals, t.parser = "ground", NEW c \in Given, c[1] = "keyboard",
           NEW u, u = Receive(t, c)
    PROVE  /\ u \in Terminals /\ Receive(t, Torn(c)) = t
           /\ u.screen = t.screen /\ u.mouse = t.mouse /\ u.paste = t.paste
           /\ u.nowrap = t.nowrap /\ u.title = t.title /\ u.cursor = t.cursor /\ u.sync = t.sync
           /\ u.parser = t.parser /\ u.images = t.images /\ u.upload = t.upload /\ u.foreign = t.foreign
           /\ \A s \in Screens : s # t.screen => u.keyboard[s] = t.keyboard[s]
           /\ c[2] = "push" => u.keyboard[t.screen] = t.keyboard[t.screen] + 1
           /\ c[2] = "pop" /\ t.keyboard[t.screen] \in {0, 1} => u.keyboard[t.screen] = 0
<1>1. c[2] \in {"push", "pop"}
  BY Kinds
<1>2. u \in Terminals
  BY <1>1, GivenTyped
<1>3. Receive(t, Torn(c)) = t
  BY <1>1, TornGrounded
<1>4. u = [t EXCEPT !.keyboard[t.screen] =
             IF c[2] = "push" THEN @ + 1 ELSE IF @ > 0 THEN @ - 1 ELSE 0]
  BY <1>1 DEF Receive, Understood, Kitty
<1> DEFINE a == IF c[2] = "push" THEN t.keyboard[t.screen] + 1
                ELSE IF t.keyboard[t.screen] > 0 THEN t.keyboard[t.screen] - 1 ELSE 0
<1>5. u = [t EXCEPT !.keyboard = [t.keyboard EXCEPT ![t.screen] = a]]
  BY <1>4 DEF Terminals
<1>6. t.keyboard \in [Screens -> Nat] /\ t.screen \in Screens
  BY DEF Terminals
<1>7. c[2] = "push" => a = t.keyboard[t.screen] + 1
  BY <1>1
<1>8. c[2] = "pop" /\ t.keyboard[t.screen] \in {0, 1} => a = 0
  BY <1>1
<1> HIDE DEF a
<1>9. /\ u.screen = t.screen /\ u.mouse = t.mouse /\ u.paste = t.paste
      /\ u.nowrap = t.nowrap /\ u.title = t.title /\ u.cursor = t.cursor /\ u.sync = t.sync
      /\ u.parser = t.parser /\ u.images = t.images /\ u.upload = t.upload /\ u.foreign = t.foreign
      /\ u.keyboard = [t.keyboard EXCEPT ![t.screen] = a]
  BY <1>5 DEF Terminals
<1>10. (\A s \in Screens : s # t.screen => u.keyboard[s] = t.keyboard[s]) /\ u.keyboard[t.screen] = a
  BY <1>6, <1>9
<1> QED BY <1>2, <1>3, <1>7, <1>8, <1>9, <1>10
LEMMA KittyTyped ==
    ASSUME NEW needed \in BOOLEAN
    PROVE  KittyRecovery(needed) \in Seq(Given)
<1> DEFINE c == <<"ST", "">>
           d == <<"sync", FALSE>>
<1>1. c \in Given /\ d \in Given
  BY SomeCommands, CommandIsGiven
<1>2. KittyRecovery(needed) = IF needed THEN <<c, d>> ELSE <<>>
  BY DEF KittyRecovery, If
<1> HIDE DEF c, d
<1> QED BY <1>1, <1>2

-----------------------------------------------------------------------------
(* The inductive invariant.                                                *)

\* The keyboard stacks, with at most one entry, on one screen.
Keys(t, screen, pushed) ==
    /\ t.keyboard[screen] = IF pushed THEN 1 ELSE 0
    /\ \A s \in Screens \ {screen} : t.keyboard[s] = 0
TitleIs(now, title) == IF title = "none" THEN now \in {"shell", ""} ELSE now = title

\* What a mode may be: as it was set last, or as restoring it left it.
Kept(now, active, confirmed, none, late) == now = active \/ (now = none /\ (confirmed = none \/ late))
TitleKept(now, active, confirmed, late) ==
    TitleIs(now, active) \/ (TitleIs(now, "none") /\ (confirmed = "none" \/ late))

\* What the backend k knows of the terminal t; late: restore has failed.
KnowsWriting(t, k) ==
    /\ t.parser = "osc" => k.lifecycleUncertain /\ k.titleUnconfirmed
    /\ t.parser = "apc" => k.kittyUncertain
    /\ t.foreign
    /\ t.sync => k.syncPending
KnowsScreen(t, k, late) ==
    IF k.kittyUncertain
    THEN /\ k.active.screen = "alternate"
         /\ t.keyboard["main"] = 0 /\ t.keyboard["alternate"] \in {0, 1}
         /\ t.keyboard["alternate"] = 1 => k.pushed
    ELSE /\ Kept(t.screen, k.active.screen, k.confirmed.screen, "main", late)
         /\ Keys(t, t.screen, k.pushed)
         /\ k.owned # {} => t.screen = "alternate"
KnowsModes(t, k, late) ==
    /\ k.mouseUnconfirmed \/ Kept(t.mouse, k.active.mouse, k.confirmed.mouse, "off", late)
    /\ Kept(t.paste, k.active.paste, k.confirmed.paste, FALSE, late)
    /\ Kept(t.nowrap, k.active.nowrap, k.confirmed.nowrap, FALSE, late)
    /\ k.titleUnconfirmed \/ TitleKept(t.title, k.active.title, k.confirmed.title, late)
KnowsImages(t, k) ==
    /\ Ids(t) \subseteq k.owned
    /\ t.upload # <<>> => k.owned # {}
    /\ k.owned # {} => k.active.screen = "alternate"
Enhanced(k) == k.pushed => k.active.keyboard = "enhanced"

Known(t, k, late) ==
    /\ KnowsWriting(t, k) /\ KnowsScreen(t, k, late) /\ KnowsModes(t, k, late)
    /\ KnowsImages(t, k) /\ Enhanced(k)

\* The modes of the terminal are those of d.
Real(t, d) ==
    /\ t.screen = d.screen /\ t.mouse = d.mouse /\ t.paste = d.paste /\ t.nowrap = d.nowrap
    /\ Keys(t, d.screen, d.keyboard = "enhanced")
    /\ TitleIs(t.title, d.title)
    /\ t.parser # "osc"

\* The commands of a frame: they leave the modes as they are.
FrameKinds == {"note", "ST", "sync", "delete", "erase", "cells", "first", "last", "cursor"}
FrameCommands == {c \in Sent : c[1] \in FrameKinds \/ (c[1] = "torn" /\ c[2] \in FrameKinds)}

Frames == [scene : SUBSET Images, cursor : {"hidden", "shown"}]
Updates == [recover : BOOLEAN, delete : SUBSET (1..MaxId), scene : SUBSET Images, id : Mappings]
Patches == [full : BOOLEAN, runs : BOOLEAN, cursor : {"hidden", "shown"}, updates : BOOLEAN,
            update : Updates, silent : BOOLEAN]

TypesOK ==
    /\ term \in Terminals /\ pipe \in Seq(Sent) /\ b \in Backends
    /\ raw \in BOOLEAN /\ suspended \in BOOLEAN /\ cleanup \in BOOLEAN /\ fullRepaint \in BOOLEAN
    /\ applied \in BOOLEAN /\ desired \in Desired /\ shown \in Frames /\ closing \in Int
    /\ call = "patch" => goal \in Patches

KnownOK == Known(Virtual, b, phase = "cook after error")

\* While the last apply_state of an open session stands.
AppliedOK ==
    applied =>
        /\ call \in {"none", "patch"} /\ ~suspended
        /\ raw = desired.raw /\ Real(term, desired)
        /\ pipe \in Seq(FrameCommands)
        /\ b.active.screen = desired.screen /\ (b.pushed <=> desired.keyboard = "enhanced")

Shows(t, frame) ==
    /\ t.cells = "good" /\ t.parser = "ground" /\ ~t.sync /\ t.cursor = frame.cursor
    /\ t.screen = "alternate" => t.upload = <<>> /\ Pictures(t) = frame.scene

FrameOK ==
    /\ ~fullRepaint /\ call = "none" =>
          applied /\ Shows(term, shown) /\ pipe = <<>> /\ ~b.kittyUncertain
    /\ call = "gone" => fullRepaint

\* The patch on its way, against what its frame starts from.
PatchModeOK ==
    /\ applied /\ ~fullRepaint /\ phase \in {"recover", "frame"} /\ closing = -1
    /\ goal.cursor = shown.cursor
    /\ goal.full => goal.runs
    /\ ~goal.full => /\ term.cells = "good" /\ term.parser = "ground" /\ ~term.sync
                     /\ pipe = <<>> /\ ~b.kittyUncertain
    /\ goal.silent => ~goal.runs /\ ~HasOutput(goal.update) /\ term.cursor = shown.cursor
PatchImagesOK ==
    /\ ~goal.updates => /\ goal.update = NoUpdate
                        /\ b.active.screen = "alternate" =>
                             ~goal.full /\ term.upload = <<>> /\ Pictures(term) = shown.scene
    /\ goal.updates => /\ b.active.screen = "alternate"
                       /\ goal.update.scene = shown.scene
                       /\ goal.update.recover = b.kittyUncertain
                       /\ Ids(Virtual) \subseteq goal.update.delete
                       /\ Virtual.upload # <<>> => goal.update.delete # {}
                       /\ goal.update.delete \cup Wire(goal.update) = b.owned
                       /\ goal.update.scene \subseteq DOMAIN b.mapping
                       /\ \A i \in goal.update.scene : goal.update.id[i] = b.mapping[i]
PatchOK == call = "patch" => PatchModeOK /\ PatchImagesOK

\* Where a call is.
PhaseOK ==
    /\ phase \in {"recover", "settle", "body", "cook", "clear", "cook after error", "frame", "idle"}
    /\ call \in {"open", "resume", "apply", "patch", "suspend", "undo open", "undo resume", "drop",
                 "none", "gone"}
    /\ phase = "idle" <=> call \in {"none", "gone"}
    /\ phase = "frame" => call = "patch"
    /\ phase \in {"clear", "cook after error"} => Restoring
    /\ phase \in {"recover", "settle", "body", "cook"} /\ ~Restoring /\ call # "patch" =>
          call \in {"open", "resume", "apply"} /\ goal = desired
    /\ phase \in {"settle", "body"} => ~Restoring /\ call # "patch"
RunningOK ==
    /\ phase \in {"settle", "body", "clear", "frame"} => ~b.lifecycleUncertain /\ ~b.syncPending
    /\ phase = "settle" => b.active.screen = "alternate" /\ MustSettle(goal)
    /\ phase = "body" => ~b.kittyUncertain /\ (Leaving(goal) => b.owned = {})
    /\ phase = "cook" /\ Restoring => Clean(term) /\ pipe = <<>>
    /\ phase = "cook" /\ ~Restoring =>
          /\ Real(term, desired) /\ pipe = <<>> /\ ~desired.raw /\ b.raw
          /\ b.active.screen = desired.screen /\ (b.pushed <=> desired.keyboard = "enhanced")

SuspendedOK ==
    /\ cleanup => suspended
    /\ suspended => fullRepaint
    /\ call \in {"open", "undo open", "apply", "patch"} => ~suspended
    /\ call \in {"resume", "undo resume", "suspend", "drop"} => suspended
    /\ call \in {"suspend", "drop"} => cleanup
    /\ call \in {"none", "gone"} /\ suspended /\ ~cleanup => Clean(term) /\ ~raw /\ pipe = <<>>

ClosingOK ==
    /\ closing >= -1
    /\ closing >= 0 =>
        /\ call \in {"none", "suspend", "drop", "gone"} /\ suspended
        /\ call = "suspend" /\ phase = "cook after error" => closing >= 1
        /\ call = "none" /\ cleanup => closing >= 1
        /\ call = "drop" => closing >= 1
        /\ call = "drop" /\ phase = "cook after error" => closing >= 2
        /\ call = "gone" /\ closing < 2 => Clean(term) /\ ~raw

MapOK ==
    /\ \A i, j \in DOMAIN b.mapping : b.mapping[i] = b.mapping[j] => i = j
    /\ b.owned \subseteq {b.mapping[i] : i \in DOMAIN b.mapping}

RawOK == raw => b.raw

Inv ==
    /\ TypesOK /\ KnownOK /\ AppliedOK /\ FrameOK /\ PatchOK /\ PhaseOK /\ RunningOK
    /\ SuspendedOK /\ ClosingOK /\ MapOK /\ RawOK

-----------------------------------------------------------------------------
(* What the first commands of a phase do.                                  *)

\* What is known of a terminal is known of one that differs in nothing known.
LEMMA KnownAlike ==
    ASSUME NEW t, NEW u, NEW k, NEW late, Known(t, k, late),
           u.screen = t.screen, u.keyboard = t.keyboard, u.mouse = t.mouse, u.paste = t.paste,
           u.nowrap = t.nowrap, u.images = t.images, u.upload = t.upload, u.foreign = t.foreign,
           u.title = t.title \/ k.titleUnconfirmed,
           u.parser = t.parser \/ u.parser = "ground", u.sync => t.sync
    PROVE  Known(u, k, late)
<1>1. KnowsWriting(u, k) /\ Enhanced(k)
  BY DEF Known, KnowsWriting
<1>2. KnowsScreen(u, k, late)
  BY DEF Known, KnowsScreen, Keys
<1>3. KnowsModes(u, k, late)
  BY DEF Known, KnowsModes
<1>4. KnowsImages(u, k)
  BY DEF Known, KnowsImages, Ids
<1> QED BY <1>1, <1>2, <1>3, <1>4 DEF Known

\* Recovery ends what was cut short, and the synchronized update.
KnownTerminals(k, late) == {t \in Terminals : Known(t, k, late)}
Ready(T) == {t \in T : t.parser = "ground"}
Unheld(T) == {t \in T : ~t.sync}

Alike(u, t) ==
    /\ u.screen = t.screen /\ u.keyboard = t.keyboard /\ u.mouse = t.mouse /\ u.paste = t.paste
    /\ u.nowrap = t.nowrap /\ u.cursor = t.cursor /\ u.images = t.images /\ u.upload = t.upload
    /\ u.foreign = t.foreign /\ u.cells = t.cells

LEMMA STPath ==
    ASSUME NEW k, NEW late, NEW T, T \subseteq KnownTerminals(k, late),
           NEW U, \A t \in T, u \in Ready(KnownTerminals(k, late)) :
                     Alike(u, t) /\ u.sync = t.sync => u \in U,
           NEW kind, NEW K
    PROVE  Path(T \X K, << <<"ST", "">> >>, kind, U \X K, T \X K)
<1> DEFINE c == <<"ST", "">>
<1>1. c \in Commands /\ c[1] = "ST" /\ c \in Given
  BY SomeCommands, CommandIsGiven
<1> HIDE DEF c
<1>2. ASSUME NEW t \in T PROVE Receive(t, c) \in U /\ t \in T /\ Receive(t, Torn(c)) \in T
  <2> DEFINE u == Receive(t, c)
  <2>1. t \in Terminals /\ Known(t, k, late)
    BY DEF KnownTerminals
  <2>2. u \in Terminals
    BY <1>1, <2>1, CommandIsGiven, GivenTyped
  <2>3. /\ u.parser = "ground" /\ Receive(t, Torn(c)) = t
        /\ u.screen = t.screen /\ u.keyboard = t.keyboard /\ u.mouse = t.mouse /\ u.paste = t.paste
        /\ u.nowrap = t.nowrap /\ u.cursor = t.cursor /\ u.sync = t.sync /\ u.images = t.images
        /\ u.upload = t.upload /\ u.foreign = t.foreign /\ u.cells = t.cells
        /\ t.parser # "osc" => u.title = t.title
    BY <1>1, <2>1, AfterST
  <2> HIDE DEF u
  <2>4. t.parser = "osc" => k.titleUnconfirmed
    BY <2>1 DEF Known, KnowsWriting
  <2>5. Known(u, k, late)
    BY <2>1, <2>3, <2>4, KnownAlike
  <2>6. u \in Ready(KnownTerminals(k, late))
    BY <2>2, <2>3, <2>5 DEF Ready, KnownTerminals
  <2>7. u \in U
    BY <2>3, <2>6 DEF Alike
  <2> QED BY <2>3, <2>7 DEF u
<1>3. \A x \in K : Done(x, c, kind) \in K /\ Attempt(x, c) \in K
  BY <1>1, Silent
<1>4. Path(T \X K, <<c>>, kind, U \X K, T \X K)
  BY <1>1, <1>2, <1>3, PathTerm
<1> QED BY <1>4 DEF c

LEMMA SyncEnds ==
    ASSUME NEW t \in Terminals, t.parser = "ground", NEW k, NEW late, Known(t, k, late),
           NEW c, c[1] = "sync", ~c[2], c \in Commands, NEW u, u = Receive(t, c)
    PROVE  /\ u \in Terminals /\ Known(u, k, late) /\ u.parser = "ground" /\ ~u.sync
           /\ Alike(u, t) /\ u.title = t.title /\ Receive(t, Torn(c)) = t
<1>1. u \in Terminals
  BY CommandIsGiven, GivenTyped
<1>2. u = [t EXCEPT !.sync = c[2]]
  BY Grounded
<1>3. Receive(t, Torn(c)) = t
  BY TornGrounded
<1>4. /\ u.parser = "ground" /\ ~u.sync
      /\ u.screen = t.screen /\ u.keyboard = t.keyboard
      /\ u.images = t.images /\ u.upload = t.upload /\ u.cells = t.cells /\ u.cursor = t.cursor
      /\ u.mouse = t.mouse /\ u.paste = t.paste /\ u.nowrap = t.nowrap /\ u.title = t.title
      /\ u.foreign = t.foreign
  BY <1>2 DEF Terminals
<1>5. Known(u, k, late)
  BY <1>4, KnownAlike
<1> QED BY <1>1, <1>3, <1>4, <1>5 DEF Alike

LEMMA KittyPath ==
    ASSUME NEW k, NEW late, NEW T, T \subseteq KnownTerminals(k, late), NEW needed \in BOOLEAN,
           NEW U, ~needed => T \subseteq U,
           \A t \in T, u \in Unheld(Ready(KnownTerminals(k, late))) :
               Alike(u, t) => u \in U,
           NEW kind, NEW K
    PROVE  Path(T \X K, KittyRecovery(needed), kind, U \X K, KnownTerminals(k, late) \X K)
<1> DEFINE S == KnownTerminals(k, late)
<1>1. CASE ~needed
  <2>1. KittyRecovery(needed) = <<>>
    BY <1>1 DEF KittyRecovery, If
  <2>2. Path(T \X K, <<>>, kind, U \X K, S \X K)
    BY <1>1, PathTermEmpty
  <2> QED BY <2>1, <2>2
<1>2. CASE needed
  <2> DEFINE c == <<"ST", "">>
             d == <<"sync", FALSE>>
             M == {u \in Ready(S) : \E t \in T : Alike(u, t)}
  <2>1. KittyRecovery(needed) = <<c>> \o <<d>>
    <3>1. KittyRecovery(needed) = <<c, d>>
      BY <1>2 DEF KittyRecovery, If
    <3> HIDE DEF c, d
    <3> QED BY <3>1, Two
  <2>2. c \in Given /\ d \in Given /\ d \in Commands /\ d[1] = "sync" /\ ~d[2]
    BY SomeCommands, CommandIsGiven
  <2>3. Path(T \X K, <<c>>, kind, M \X K, T \X K)
    BY STPath
  <2> HIDE DEF c, d
  <2>4. ASSUME NEW t \in M PROVE Receive(t, d) \in U /\ t \in S /\ Receive(t, Torn(d)) \in S
    <3> DEFINE u == Receive(t, d)
    <3>1. t \in Terminals /\ t.parser = "ground" /\ Known(t, k, late)
      BY DEF Ready, KnownTerminals
    <3>2. PICK s \in T : Alike(t, s)
      OBVIOUS
    <3>3. /\ u \in Terminals /\ Known(u, k, late) /\ u.parser = "ground" /\ ~u.sync
          /\ Alike(u, t) /\ Receive(t, Torn(d)) = t
      BY <2>2, <3>1, SyncEnds
    <3> HIDE DEF u
    <3>4. u \in Unheld(Ready(KnownTerminals(k, late)))
      BY <3>3 DEF Unheld, Ready, KnownTerminals
    <3>5. u \in U
      <4>1. Alike(u, s)
        BY <3>2, <3>3 DEF Alike
      <4> QED BY <3>4, <4>1
    <3>6. t \in S
      BY DEF Ready
    <3> QED BY <3>3, <3>5, <3>6 DEF u
  <2> HIDE DEF M
  <2>5. \A x \in K : Done(x, d, kind) \in K /\ Attempt(x, d) \in K
    BY <2>2, Silent
  <2>6. Path(M \X K, <<d>>, kind, U \X K, S \X K)
    BY <2>2, <2>4, <2>5, PathTerm
  <2>7. Path(T \X K, <<c>>, kind, M \X K, S \X K)
    <3>1. T \X K \subseteq S \X K
      OBVIOUS
    <3> DEFINE A == T \X K
               B == M \X K
               D == S \X K
    <3> HIDE DEF A, B, D
    <3>2. A \subseteq D /\ Path(A, <<c>>, kind, B, A)
      BY <2>3, <3>1 DEF A, B, D
    <3>3. Path(A, <<c>>, kind, B, D)
      BY <3>2, PathWeaker
    <3> QED BY <3>3 DEF A, B, D
  <2> DEFINE A == T \X K
             B == M \X K
             D == S \X K
             E == U \X K
  <2> HIDE DEF A, B, D, E
  <2>8. Path(A, <<c>>, kind, B, D) /\ Path(B, <<d>>, kind, E, D)
    BY <2>6, <2>7 DEF A, B, D, E
  <2>9. <<c>> \in Seq(Given) /\ <<d>> \in Seq(Given)
    BY <2>2
  <2>10. Path(A, <<c>> \o <<d>>, kind, E, D)
    BY <2>8, <2>9, PathBoth
  <2> QED BY <2>1, <2>10 DEF A, D, E
<1> QED BY <1>1, <1>2

-----------------------------------------------------------------------------
(* The commands of a frame.                                                *)

LEMMA GraphicsKeeps ==
    ASSUME NEW t \in Terminals, NEW kind \in Kitty, NEW a, NEW u, u = Graphics(t, kind, a)
    PROVE  /\ u.screen = t.screen /\ u.keyboard = t.keyboard /\ u.mouse = t.mouse /\ u.paste = t.paste
           /\ u.nowrap = t.nowrap /\ u.title = t.title /\ u.parser = t.parser /\ u.sync = t.sync
           /\ u.cells = t.cells /\ u.cursor = t.cursor
           /\ t.screen # "main" => u.foreign = t.foreign
<1>1. CASE t.screen = "main"
  <2>1. u = [t EXCEPT !.foreign = FALSE]
    BY <1>1 DEF Graphics
  <2> QED BY <1>1, <2>1 DEF Terminals
<1>2. CASE t.screen # "main" /\ kind = "delete"
  <2>1. u = [t EXCEPT !.images = {i \in @ : i[1] # a}, !.upload = <<>>]
    BY <1>2 DEF Graphics
  <2> QED BY <2>1 DEF Terminals
<1>3. CASE t.screen # "main" /\ kind = "first"
  <2>1. \E x : u = [t EXCEPT !.upload = x]
    BY <1>3 DEF Graphics
  <2> QED BY <2>1 DEF Terminals
<1>4. CASE t.screen # "main" /\ kind = "last"
  <2>1. CASE t.upload = a
    <3>1. u = [t EXCEPT !.images = {i \in @ : i[1] # a[1]} \cup {a}, !.upload = <<>>]
      BY <1>4, <2>1 DEF Graphics
    <3> QED BY <3>1 DEF Terminals
  <2>2. CASE t.upload # a
    <3>1. u = [t EXCEPT !.upload = <<0, "mixed">>]
      BY <1>4, <2>2 DEF Graphics
    <3> QED BY <3>1 DEF Terminals
  <2> QED BY <2>1, <2>2
<1> QED BY <1>1, <1>2, <1>3, <1>4 DEF Kitty

LEMMA FrameCommandsKeep ==
    ASSUME NEW t \in Terminals, NEW c \in FrameCommands, t.parser # "osc", NEW u, u = Receive(t, c)
    PROVE  /\ u.screen = t.screen /\ u.keyboard = t.keyboard /\ u.mouse = t.mouse /\ u.paste = t.paste
           /\ u.nowrap = t.nowrap /\ u.title = t.title /\ u.parser # "osc"
           /\ u.parser = "apc" => \/ t.parser = "apc"
                                  \/ c[1] = "torn" /\ c[2] \in Kitty
           /\ t.screen # "main" => u.foreign = t.foreign
           /\ u.sync => t.sync \/ (c[1] = "sync" /\ c[2])
<1>1. CASE t.parser = "ground" /\ c[1] # "torn"
  <2>0. c[1] \in FrameKinds
    BY <1>1 DEF FrameCommands
  <2>1. CASE c[1] \in {"note", "ST"}
    <3>1. u = t
      BY <1>1, <2>1, Grounded
    <3> QED BY <1>1, <3>1
  <2>2. CASE c[1] = "sync"
    <3>1. u = [t EXCEPT !.sync = c[2]]
      BY <1>1, <2>2, Grounded
    <3> QED BY <1>1, <2>2, <3>1 DEF Terminals
  <2>3. CASE c[1] = "erase"
    <3>1. u = [t EXCEPT !.cells = "erased"]
      BY <1>1, <2>3, Grounded
    <3> QED BY <1>1, <3>1 DEF Terminals
  <2>4. CASE c[1] = "cells"
    <3>1. \E x : u = [t EXCEPT !.cells = x]
      BY <1>1, <2>4 DEF Receive, Understood, Kitty
    <3> QED BY <1>1, <3>1 DEF Terminals
  <2>5. CASE c[1] = "cursor"
    <3>1. u = [t EXCEPT !.cursor = c[2]]
      BY <1>1, <2>5, Grounded
    <3> QED BY <1>1, <3>1 DEF Terminals
  <2>6. CASE c[1] \in Kitty
    <3>1. u = Graphics(t, c[1], c[2])
      BY <1>1, <2>6, Grounded
    <3> QED BY <1>1, <2>6, <3>1, GraphicsKeeps
  <2> QED BY <2>0, <2>1, <2>2, <2>3, <2>4, <2>5, <2>6 DEF FrameKinds, Kitty
<1>2. CASE t.parser = "apc" /\ c[1] # "torn"
  <2>1. u = Swallowed(t, c[1])
    BY <1>2, InString
  <2>2. u = t \/ u = [t EXCEPT !.cells = "lost"] \/ u = Ended(t)
    BY <2>1 DEF Swallowed
  <2>3. CASE u = Ended(t)
    <3>1. u = [t EXCEPT !.parser = "ground", !.title = t.title]
      BY <1>2, <2>3 DEF Ended
    <3> QED BY <1>2, <3>1 DEF Terminals
  <2>4. CASE u = t
    BY <1>2, <2>4
  <2>5. CASE u = [t EXCEPT !.cells = "lost"]
    BY <1>2, <2>5 DEF Terminals
  <2> QED BY <2>2, <2>3, <2>4, <2>5
<1>3. CASE t.parser = "apc" /\ c[1] = "torn"
  <2>1. u = t
    BY <1>3, InString
  <2> QED BY <1>3, <2>1
<1>4. CASE t.parser = "ground" /\ c[1] = "torn"
  <2>1. c[2] \in FrameKinds
    BY <1>4 DEF FrameCommands, FrameKinds
  <2>2. u = Cut(t, c[2], c[3])
    BY <1>4 DEF Receive
  <2>3. CASE c[2] \in Kitty
    <3>1. \E x : u = [t EXCEPT !.parser = "apc", !.upload = x]
      BY <2>2, <2>3 DEF Cut, Kitty
    <3> QED BY <1>4, <2>3, <3>1 DEF Terminals
  <2>4. CASE c[2] = "cells"
    <3>1. u = [t EXCEPT !.cells = "lost"]
      BY <2>2, <2>4 DEF Cut, Kitty
    <3> QED BY <1>4, <3>1 DEF Terminals
  <2>5. CASE c[2] \notin Kitty /\ c[2] # "cells"
    <3>1. u = t
      BY <2>1, <2>2, <2>5 DEF Cut, FrameKinds
    <3> QED BY <1>4, <3>1
  <2> QED BY <2>3, <2>4, <2>5
<1>5. t.parser \in {"ground", "osc", "apc"}
  BY DEF Terminals
<1> QED BY <1>1, <1>2, <1>3, <1>4, <1>5

LEMMA FrameKeepsReal ==
    ASSUME NEW t \in Terminals, NEW d, Real(t, d), NEW cs \in Seq(FrameCommands)
    PROVE  ReceiveAll(t, cs) \in Terminals /\ Real(ReceiveAll(t, cs), d)
<1> DEFINE T == {u \in Terminals : Real(u, d)}
<1>1. ASSUME NEW u \in T, NEW c \in FrameCommands PROVE Receive(u, c) \in T
  <2> DEFINE w == Receive(u, c)
  <2>1. w \in Terminals /\ u \in Terminals /\ Real(u, d)
    BY SentTyped DEF FrameCommands
  <2>2. u.parser # "osc"
    BY <2>1 DEF Real
  <2>3. /\ w.screen = u.screen /\ w.keyboard = u.keyboard /\ w.mouse = u.mouse /\ w.paste = u.paste
        /\ w.nowrap = u.nowrap /\ w.title = u.title /\ w.parser # "osc"
    BY <2>1, <2>2, FrameCommandsKeep
  <2> HIDE DEF w
  <2>4. Real(w, d)
    BY <2>1, <2>3 DEF Real, Keys
  <2> QED BY <2>1, <2>4 DEF w
<1>2. \A u \in T : \A i \in DOMAIN cs : Receive(u, cs[i]) \in T
  <2>1. \A i \in DOMAIN cs : cs[i] \in FrameCommands
    OBVIOUS
  <2> QED BY <1>1, <2>1
<1>3. t \in T
  OBVIOUS
<1> HIDE DEF T
<1>4. ReceiveAll(t, cs) \in T
  BY <1>2, <1>3, ReceivesAllKeep
<1> QED BY <1>4 DEF T

LEMMA SubSeqTyped ==
    ASSUME NEW C, NEW cs \in Seq(C), NEW i \in Nat, NEW n \in Nat, i >= 1, n <= Len(cs)
    PROVE  SubSeq(cs, i, n) \in Seq(C)
<1>1. \A j \in i..n : cs[j] \in C
  <2>1. \A j \in i..n : j \in 1..Len(cs)
    OBVIOUS
  <2> QED BY <2>1, ElementOfSeq
<1> QED BY <1>1, SubSeqProperties

LEMMA FrameSends ==
    ASSUME term \in Terminals, NEW d, Real(term, d), pipe \in Seq(FrameCommands),
           NEW cs \in Seq(FrameCommands), Sends(cs)
    PROVE  Real(term', d) /\ pipe' \in Seq(FrameCommands)
<1> DEFINE ds == pipe \o cs
<1>1. ds \in Seq(FrameCommands)
  BY ConcatProperties
<1>2. term' = ReceiveAll(term, ds) /\ pipe' = <<>>
  BY DEF Sends
<1> HIDE DEF ds
<1> QED BY <1>1, <1>2, FrameKeepsReal

LEMMA FrameDelivers ==
    ASSUME term \in Terminals, NEW d, Real(term, d), pipe \in Seq(FrameCommands),
           NEW cs \in Seq(FrameCommands), Delivers(cs)
    PROVE  Real(term', d) /\ pipe' \in Seq(FrameCommands)
<1> DEFINE ds == pipe \o cs
<1>1. ds \in Seq(FrameCommands)
  BY ConcatProperties
<1>2. PICK n \in 0..Len(ds) : term' = ReceiveAll(term, SubSeq(ds, 1, n))
                              /\ pipe' = SubSeq(ds, n + 1, Len(ds))
  BY DEF Delivers
<1> HIDE DEF ds
<1>3. SubSeq(ds, 1, n) \in Seq(FrameCommands) /\ SubSeq(ds, n + 1, Len(ds)) \in Seq(FrameCommands)
  BY <1>1, SubSeqTyped
<1> QED BY <1>2, <1>3, FrameKeepsReal

LEMMA FrameStops ==
    ASSUME term \in Terminals, NEW d, Real(term, d), pipe \in Seq(FrameCommands),
           NEW cs \in Seq(Given \cap FrameCommands), NEW i \in 1 .. Len(cs) + 1, StopsAt(cs, i)
    PROVE  Real(term', d) /\ pipe' \in Seq(FrameCommands)
<1> DEFINE D == Given \cap FrameCommands
<1>1. ASSUME NEW c \in D PROVE Torn(c) \in FrameCommands
  <2>1. c[1] \in FrameKinds
    BY TornIsSent DEF FrameCommands
  <2>2. Torn(c)[1] = "torn" /\ Torn(c)[2] = c[1] /\ Torn(c) \in Sent
    BY DEF Torn, Sent
  <2> QED BY <2>1, <2>2 DEF FrameCommands
<1> DEFINE before == SubSeq(cs, 1, i - 1)
<1>2. before \in Seq(D) /\ before \in Seq(FrameCommands)
  <2>1. i - 1 \in Nat /\ i - 1 <= Len(cs)
    OBVIOUS
  <2>2. before \in Seq(D)
    BY <2>1, SubSeqTyped
  <2> QED BY <2>2, SeqMonotonic
<1>3. CASE Delivers(before)
  BY <1>2, <1>3, FrameDelivers
<1>4. CASE i <= Len(cs) /\ Delivers(Append(before, Torn(cs[i])))
  <2> DEFINE ds == Append(before, Torn(cs[i]))
  <2>1. cs[i] \in D
    BY <1>4, ElementOfSeq
  <2>2. ds \in Seq(FrameCommands)
    BY <1>1, <1>2, <2>1
  <2> HIDE DEF ds
  <2> QED BY <1>4, <2>2, FrameDelivers DEF ds
<1> QED BY <1>3, <1>4 DEF StopsAt

-----------------------------------------------------------------------------
(* Recover.                                                                *)

LEMMA RecoveryTyped == b.syncPending \in BOOLEAN => Recovery \in Seq(Given \cap FrameCommands) /\ Recovery \in Seq(Given)
<1> DEFINE c == <<"ST", "">>
           d == <<"sync", FALSE>>
           D == Given \cap FrameCommands
<1>1. c \in D /\ d \in D
  <2>1. c \in Given /\ d \in Given
    BY SomeCommands, CommandIsGiven
  <2> QED BY <2>1 DEF FrameCommands, FrameKinds, Sent
<1> HIDE DEF c, d, D
<1>2. <<c>> \in Seq(D) /\ <<d>> \in Seq(D) /\ <<>> \in Seq(D)
  BY <1>1
<1>3. Recovery = <<c>> \o If(b.syncPending, <<d>>)
  BY DEF Recovery, c, d
<1>4. If(b.syncPending, <<d>>) \in Seq(D)
  BY <1>2 DEF If
<1> DEFINE e == If(b.syncPending, <<d>>)
<1> HIDE DEF e
<1>5. <<c>> \o e \in Seq(D)
  BY <1>2, <1>4, ConcatProperties DEF e
<1>6. Recovery \in Seq(D)
  BY <1>3, <1>5 DEF e
<1>7. D \subseteq Given
  BY DEF D
<1>8. Recovery \in Seq(Given)
  BY <1>6, <1>7, SeqMonotonic
<1> QED BY <1>6, <1>8 DEF D

Recovered(k, late, t) == {u \in Unheld(Ready(KnownTerminals(k, late))) : Alike(u, t)}

LEMMA RecoveryPath ==
    ASSUME NEW late, b \in Backends, NEW t \in KnownTerminals(b, late)
    PROVE  Path({t} \X {b}, Recovery, "recover", Recovered(b, late, t) \X {b},
                KnownTerminals(b, late) \X {b})
<1> DEFINE S == KnownTerminals(b, late)
           U == Recovered(b, late, t)
           K == {b}
           M == {u \in Ready(S) : Alike(u, t)}
           c == <<"ST", "">>
           d == <<"sync", FALSE>>
           e == If(b.syncPending, <<d>>)
           kind == "recover"
<1>1. c \in Given /\ d \in Given /\ d[1] = "sync" /\ ~d[2] /\ d \in Commands
  BY SomeCommands, CommandIsGiven
<1>2. Recovery = <<c>> \o e
  BY DEF Recovery
<1>3. Path({t} \X K, <<c>>, kind, M \X K, {t} \X K)
  BY STPath, ZenonT(40)
<1>4. Path({t} \X K, <<c>>, kind, M \X K, S \X K)
  <2> DEFINE A == {t} \X K
             B == M \X K
             D == S \X K
  <2>1. A \subseteq D
    OBVIOUS
  <2> HIDE DEF A, B, D
  <2>2. Path(A, <<c>>, kind, B, A)
    BY <1>3 DEF A, B
  <2>3. Path(A, <<c>>, kind, B, D)
    BY <2>1, <2>2, PathWeaker
  <2> QED BY <2>3 DEF A, B, D
<1>5. Path(M \X K, e, kind, U \X K, S \X K)
  <2>1. CASE b.syncPending
    <3> HIDE DEF c, d
    <3>1. e = <<d>>
      BY <2>1 DEF If
    <3>2. ASSUME NEW x \in M PROVE Receive(x, d) \in U /\ x \in S /\ Receive(x, Torn(d)) \in S
      <4> DEFINE u == Receive(x, d)
      <4>1. x \in Terminals /\ x.parser = "ground" /\ Known(x, b, late) /\ x \in S /\ Alike(x, t)
        BY DEF Ready, KnownTerminals
      <4>2. /\ u \in Terminals /\ Known(u, b, late) /\ u.parser = "ground" /\ ~u.sync
            /\ Alike(u, x) /\ Receive(x, Torn(d)) = x
        BY <1>1, <4>1, SyncEnds
      <4> HIDE DEF u
      <4>3. Alike(u, t)
        BY <4>1, <4>2 DEF Alike
      <4>4. u \in U
        BY <4>2, <4>3 DEF Recovered, Unheld, Ready, KnownTerminals
      <4> QED BY <4>1, <4>2, <4>4 DEF u
    <3>3. \A x \in K : Done(x, d, kind) \in K /\ Attempt(x, d) \in K
      BY <1>1, Silent
    <3> HIDE DEF M, U, S, K, kind
    <3>4. Path(M \X K, <<d>>, kind, U \X K, S \X K)
      BY <1>1, <3>2, <3>3, PathTerm
    <3> QED BY <3>1, <3>4
  <2>2. CASE ~b.syncPending
    <3>1. e = <<>>
      BY <2>2 DEF If
    <3>2. M \subseteq U
      BY <2>2 DEF Recovered, Unheld, Ready, KnownTerminals, Known, KnowsWriting
    <3> HIDE DEF M, U, S, K, kind
    <3>3. Path(M \X K, <<>>, kind, U \X K, S \X K)
      BY <3>2, PathTermEmpty
    <3> QED BY <3>1, <3>3
  <2> QED BY <2>1, <2>2
<1> DEFINE A == {t} \X K
           B == M \X K
           D == S \X K
           E == U \X K
<1> HIDE DEF A, B, D, E, c, d, e, kind
<1>6. Path(A, <<c>>, kind, B, D) /\ Path(B, e, kind, E, D)
  BY <1>4, <1>5 DEF A, B, D, E
<1>7. <<c>> \in Seq(Given) /\ e \in Seq(Given)
  BY <1>1 DEF e, If
<1>8. Path(A, <<c>> \o e, kind, E, D)
  BY <1>6, <1>7, PathBoth
<1> QED BY <1>2, <1>8 DEF A, D, E, kind

-----------------------------------------------------------------------------
(* What the session makes of the answers.                                  *)

SessionTypes ==
    /\ suspended \in BOOLEAN /\ cleanup \in BOOLEAN /\ fullRepaint \in BOOLEAN /\ applied \in BOOLEAN
    /\ desired \in Desired /\ shown \in Frames /\ closing \in Int
    /\ call = "patch" => goal \in Patches

ControlOK == SessionTypes /\ FrameOK /\ PatchOK /\ PhaseOK /\ RunningOK /\ SuspendedOK /\ ClosingOK

LEMMA NoFrameTyped == NoFrame \in Frames
BY DEF NoFrame, Frames

LEMMA FailsReturn ==
    ASSUME ControlOK, AppliedOK, ~Restoring, phase # "idle", Steady, Fault, Returns(FALSE)
    PROVE  /\ ControlOK' /\ phase' # "cook after error" /\ (applied' => applied /\ call = "patch")
           /\ applied' => call' \in {"none", "patch"} /\ ~suspended'
<1>0. SessionTypes /\ FrameOK /\ PatchOK /\ PhaseOK /\ RunningOK /\ SuspendedOK /\ ClosingOK
  BY DEF ControlOK
<1>1. call \in {"open", "resume", "apply", "patch"} /\ closing = -1
  <2>1. call \in {"open", "resume", "apply", "patch"}
    BY <1>0 DEF PhaseOK, Restoring
  <2>2. ~(closing >= 0) /\ closing >= -1 /\ closing \in Int
    BY <1>0, <2>1 DEF ClosingOK, SessionTypes
  <2> QED BY <2>1, <2>2
<1>2. closing' = -1 /\ desired' = desired
  BY <1>1 DEF Fault, Steady
<1>3. CASE call \in {"open", "resume"}
  <2>1. /\ call' = (IF call = "open" THEN "undo open" ELSE "undo resume") /\ phase' = "recover"
        /\ UNCHANGED <<suspended, cleanup, fullRepaint, applied, goal, shown>>
    BY <1>3 DEF Returns, Undoes
  <2>2. ~applied
    BY <1>3 DEF AppliedOK
  <2>3. call' \in {"undo open", "undo resume"}
    BY <2>1
  <2>4. SessionTypes'
    <3>1. suspended' \in BOOLEAN /\ cleanup' \in BOOLEAN /\ fullRepaint' \in BOOLEAN /\ applied' \in BOOLEAN
      BY <1>0, <2>1 DEF SessionTypes
    <3>2. desired' \in Desired
      BY <1>0, <1>2 DEF SessionTypes
    <3>3. shown' \in Frames
      BY <1>0, <2>1 DEF SessionTypes
    <3>4. closing' \in Int
      BY <1>2
    <3>5. call' # "patch"
      BY <2>3
    <3> QED BY <3>1, <3>2, <3>3, <3>4, <3>5 DEF SessionTypes
  <2>5. FrameOK' /\ PatchOK' /\ ClosingOK'
    <3>1. FrameOK' /\ PatchOK'
      BY <2>3 DEF FrameOK, PatchOK
    <3>2. ClosingOK'
      BY <1>2 DEF ClosingOK
    <3> QED BY <3>1, <3>2
  <2>6. PhaseOK'
    BY <1>3, <2>1 DEF PhaseOK, Restoring
  <2>7. SuspendedOK' /\ RunningOK'
    BY <1>0, <1>3, <2>1 DEF SuspendedOK, RunningOK, Restoring
  <2> QED BY <2>1, <2>2, <2>4, <2>5, <2>6, <2>7 DEF ControlOK
<1>4. CASE call \in {"apply", "patch"}
  <2>1. /\ call' = "none" /\ phase' = "idle" /\ suspended' = suspended /\ cleanup' = cleanup
        /\ fullRepaint' = TRUE /\ shown' = NoFrame
        /\ applied' = IF call = "apply" THEN FALSE ELSE applied
    BY <1>0, <1>4 DEF Returns, Undoes, SessionTypes
  <2>2. ~suspended /\ ~cleanup
    BY <1>0, <1>4 DEF SuspendedOK, SessionTypes
  <2>4. SessionTypes'
    <3>1. applied' \in BOOLEAN
      BY <1>0, <2>1 DEF SessionTypes
    <3>2. suspended' \in BOOLEAN /\ cleanup' \in BOOLEAN /\ fullRepaint' \in BOOLEAN
      BY <1>0, <2>1 DEF SessionTypes
    <3>3. desired' \in Desired
      BY <1>0, <1>2 DEF SessionTypes
    <3>4. shown' \in Frames
      BY <2>1, NoFrameTyped
    <3>5. closing' \in Int /\ call' # "patch"
      BY <1>2, <2>1
    <3> QED BY <3>1, <3>2, <3>3, <3>4, <3>5 DEF SessionTypes
  <2>5. FrameOK' /\ PatchOK' /\ ClosingOK'
    <3>1. FrameOK' /\ PatchOK'
      BY <2>1 DEF FrameOK, PatchOK
    <3>2. ClosingOK'
      BY <1>2 DEF ClosingOK
    <3> QED BY <3>1, <3>2
  <2>6. PhaseOK'
    BY <1>4, <2>1 DEF PhaseOK, Restoring
  <2>7. SuspendedOK' /\ RunningOK'
    BY <1>4, <2>1, <2>2 DEF SuspendedOK, RunningOK, Restoring
  <2> QED BY <1>4, <2>1, <2>2, <2>4, <2>5, <2>6, <2>7 DEF ControlOK
<1> QED BY <1>1, <1>3, <1>4

LEMMA InvFrom ==
    ASSUME ControlOK', (term \in Terminals)', (pipe \in Seq(Sent))', (b \in Backends)',
           (raw \in BOOLEAN)', KnownOK', AppliedOK', MapOK', RawOK'
    PROVE  Inv'
BY DEF Inv, ControlOK, SessionTypes, TypesOK

LEMMA InvTo ==
    ASSUME Inv
    PROVE  /\ ControlOK /\ term \in Terminals /\ pipe \in Seq(Sent) /\ b \in Backends /\ raw \in BOOLEAN
           /\ KnownOK /\ AppliedOK /\ MapOK /\ RawOK
BY DEF Inv, ControlOK, SessionTypes, TypesOK

\* The terminal that is to come is known, before restore has failed.
LEMMA VirtualKnown ==
    ASSUME Inv, phase # "cook after error"
    PROVE  Virtual \in KnownTerminals(b, FALSE)
<1>1. Known(Virtual, b, FALSE)
  BY DEF Inv, KnownOK
<1>2. Virtual \in Terminals
  <2>1. term \in Terminals /\ pipe \in Seq(Sent)
    BY DEF Inv, TypesOK
  <2> QED BY <2>1, ReceivesTyped DEF Virtual
<1> QED BY <1>1, <1>2 DEF KnownTerminals

-----------------------------------------------------------------------------
(* The steps.                                                              *)

LEMMA InitKeeps == ASSUME Init PROVE Inv
<1>1. term \in Terminals
  <2>1. "shell" \in Titles /\ {} \in SUBSET Parts /\ <<>> \in Received
    BY DEF Titles, Received
  <2> QED BY <2>1 DEF Init, Fresh, Terminals, Screens
<1>2. b \in Backends
  BY NoStateTyped, NoMapping, MaxIdIs DEF Init, NewBackend, Backends
<1>3. SessionTypes
  <2>1. suspended \in BOOLEAN /\ cleanup \in BOOLEAN /\ fullRepaint \in BOOLEAN /\ applied \in BOOLEAN
    BY DEF Init
  <2>2. desired \in Desired
    BY DEF Init
  <2>3. shown \in Frames
    BY NoFrameTyped DEF Init
  <2>4. closing \in Int /\ call # "patch"
    BY DEF Init
  <2> QED BY <2>1, <2>2, <2>3, <2>4 DEF SessionTypes
<1>4. Virtual = term /\ term = Fresh /\ b = NewBackend
  BY ReceivesNothing DEF Init, Virtual
<1>5. Known(Fresh, NewBackend, FALSE)
  <2>1. KnowsWriting(Fresh, NewBackend) /\ Enhanced(NewBackend)
    BY DEF KnowsWriting, Fresh, NewBackend, Enhanced
  <2>2. KnowsScreen(Fresh, NewBackend, FALSE)
    BY DEF KnowsScreen, Kept, Keys, Fresh, NewBackend, NoState, Screens
  <2>3. KnowsModes(Fresh, NewBackend, FALSE)
    BY DEF KnowsModes, Kept, TitleKept, TitleIs, Fresh, NewBackend, NoState
  <2>4. KnowsImages(Fresh, NewBackend)
    BY DEF KnowsImages, Ids, Fresh, NewBackend
  <2> QED BY <2>1, <2>2, <2>3, <2>4 DEF Known
<1>6. KnownOK
  BY <1>4, <1>5 DEF KnownOK, Init
<1>7. AppliedOK /\ FrameOK /\ PatchOK
  BY DEF Init, AppliedOK, FrameOK, PatchOK
<1>8. PhaseOK /\ RunningOK
  BY DEF Init, PhaseOK, RunningOK, Restoring
<1>9. SuspendedOK /\ ClosingOK
  BY DEF Init, SuspendedOK, ClosingOK
<1>10. MapOK /\ RawOK
  BY DEF Init, NewBackend, MapOK, RawOK
<1>11. pipe \in Seq(Sent)
  BY DEF Init
<1>12. raw \in BOOLEAN
  BY DEF Init
<1> QED BY <1>1, <1>2, <1>3, <1>6, <1>7, <1>8, <1>9, <1>10, <1>11, <1>12 DEF Inv, SessionTypes, TypesOK

\* What Recover makes of the terminal.
LEMMA RecoverSends ==
    ASSUME Inv, Recover
    PROVE  /\ Virtual' \in Unheld(KnownTerminals(b, FALSE)) /\ Alike(Virtual', Virtual)
           /\ Virtual'.parser # "osc" /\ term' \in Terminals /\ pipe' \in Seq(Sent)
           /\ pipe = <<>> => term' = Virtual' /\ pipe' = <<>> /\ term = Virtual
           /\ Virtual.parser = "ground" => Virtual'.parser = "ground"
<1>1. phase = "recover" /\ b \in Backends /\ pipe \in Seq(Sent) /\ term \in Terminals
  BY InvTo DEF Recover
<1>2. Virtual \in KnownTerminals(b, FALSE)
  BY <1>1, VirtualKnown
<1>3. CASE MustRecover
  <2>1. Sends(Recovery)
    BY <1>3 DEF Recover
  <2>2. Recovery \in Seq(Given)
    BY <1>1, RecoveryTyped DEF Backends
  <2>3. Recovery \in Seq(Sent)
    <3>1. Given \subseteq Sent
      BY DEF Sent
    <3> QED BY <2>2, <3>1, SeqMonotonic
  <2>4. term' = ReceiveAll(Virtual, Recovery) /\ pipe' = <<>> /\ Virtual' = term'
    BY <1>1, <2>1, <2>3, SendsAll
  <2>5. ReceiveAll(Virtual, Recovery) \in Recovered(b, FALSE, Virtual)
    <3> DEFINE t == Virtual
               U == Recovered(b, FALSE, t)
               z == <<t, b>>
    <3>1. Path({t} \X {b}, Recovery, "recover", U \X {b}, KnownTerminals(b, FALSE) \X {b})
      BY <1>1, <1>2, RecoveryPath
    <3>2. z \in {t} \X {b} /\ z[1] = t
      OBVIOUS
    <3> HIDE DEF t, U, z
    <3>3. <<ReceiveAll(z[1], Recovery), AllDone(z[2], Recovery, "recover")>> \in U \X {b}
      BY <3>1, <3>2 DEF Path
    <3> QED BY <3>2, <3>3 DEF t, U
  <2>6. Virtual' \in Recovered(b, FALSE, Virtual)
    BY <2>4, <2>5
  <2>7. pipe = <<>> => term = Virtual
    BY ReceivesNothing DEF Virtual
  <2>8. Virtual' \in Terminals
    BY <2>6 DEF Recovered, Unheld, Ready, KnownTerminals
  <2>9. /\ Virtual' \in Unheld(KnownTerminals(b, FALSE)) /\ Alike(Virtual', Virtual)
        /\ Virtual'.parser = "ground"
    BY <2>6 DEF Recovered, Unheld, Ready
  <2>10. term' \in Terminals
    BY <2>4, <2>8
  <2>11. pipe' \in Seq(Sent)
    BY <2>4
  <2> QED BY <2>4, <2>7, <2>9, <2>10, <2>11
<1>4. CASE ~MustRecover
  <2>1. term' = term /\ pipe' = pipe
    BY <1>4 DEF Recover
  <2>2. Virtual' = Virtual
    BY <2>1 DEF Virtual
  <2>3. Virtual.parser # "osc" /\ ~Virtual.sync
    BY <1>2, <1>4 DEF MustRecover, KnownTerminals, Known, KnowsWriting
  <2>4. pipe = <<>> => term = Virtual
    BY ReceivesNothing DEF Virtual
  <2> QED BY <1>1, <1>2, <2>1, <2>2, <2>3, <2>4 DEF Unheld, Alike
<1> QED BY <1>3, <1>4

LEMMA RecoverKeeps == ASSUME Inv, Recover PROVE Inv'
<1>1. /\ ControlOK /\ term \in Terminals /\ pipe \in Seq(Sent) /\ b \in Backends /\ raw \in BOOLEAN
      /\ KnownOK /\ AppliedOK /\ MapOK /\ RawOK
  BY InvTo
<1>2. SessionTypes /\ FrameOK /\ PatchOK /\ PhaseOK /\ RunningOK /\ SuspendedOK /\ ClosingOK
  BY <1>1 DEF ControlOK
<1>3. /\ phase = "recover" /\ Steady /\ NoFault /\ UNCHANGED raw
      /\ b' = [b EXCEPT !.lifecycleUncertain = FALSE, !.syncPending = FALSE]
      /\ Goes(CASE Restoring -> "clear"
                [] call = "patch" -> "frame"
                [] OTHER -> IF MustSettle(goal) THEN "settle" ELSE "body")
  BY DEF Recover
<1>4. /\ Virtual' \in Unheld(KnownTerminals(b, FALSE)) /\ Alike(Virtual', Virtual)
      /\ Virtual'.parser # "osc" /\ term' \in Terminals /\ pipe' \in Seq(Sent)
      /\ pipe = <<>> => term' = Virtual' /\ pipe' = <<>> /\ term = Virtual
      /\ Virtual.parser = "ground" => Virtual'.parser = "ground"
  BY RecoverSends
<1>5. /\ b' \in Backends /\ b'.active = b.active /\ b'.confirmed = b.confirmed /\ b'.pushed = b.pushed
      /\ b'.mouseUnconfirmed = b.mouseUnconfirmed /\ b'.titleUnconfirmed = b.titleUnconfirmed
      /\ ~b'.lifecycleUncertain /\ ~b'.syncPending /\ b'.mapping = b.mapping /\ b'.owned = b.owned
      /\ b'.kittyUncertain = b.kittyUncertain /\ b'.raw = b.raw
  BY <1>1, <1>3 DEF Backends
<1>6. Known(Virtual', b', FALSE)
  <2>1. Known(Virtual', b, FALSE) /\ ~Virtual'.sync
    BY <1>4 DEF Unheld, KnownTerminals
  <2>2. KnowsWriting(Virtual', b') /\ Enhanced(b')
    BY <1>4, <1>5, <2>1 DEF Known, KnowsWriting, Enhanced
  <2>3. KnowsScreen(Virtual', b', FALSE)
    BY <1>5, <2>1 DEF Known, KnowsScreen
  <2>4. KnowsModes(Virtual', b', FALSE)
    BY <1>5, <2>1 DEF Known, KnowsModes
  <2>5. KnowsImages(Virtual', b')
    BY <1>5, <2>1 DEF Known, KnowsImages
  <2> QED BY <2>2, <2>3, <2>4, <2>5 DEF Known
<1>7. /\ call' = call /\ suspended' = suspended /\ cleanup' = cleanup /\ fullRepaint' = fullRepaint
      /\ applied' = applied /\ goal' = goal /\ shown' = shown /\ desired' = desired
      /\ closing' = closing /\ raw' = raw
  BY <1>3 DEF Goes, Steady, NoFault
<1>8. /\ phase' \in {"clear", "frame", "settle", "body"}
      /\ phase' = "clear" => Restoring
      /\ phase' = "frame" <=> (call = "patch" /\ ~Restoring)
      /\ phase' \in {"settle", "body"} => ~Restoring /\ call # "patch" /\ (phase' = "settle" <=> MustSettle(goal))
  <2>1. CASE Restoring
    BY <1>3, <2>1 DEF Goes, Restoring
  <2>2. CASE ~Restoring /\ call = "patch"
    BY <1>3, <2>2 DEF Goes
  <2>3. CASE ~Restoring /\ call # "patch"
    <3>1. phase' = IF MustSettle(goal) THEN "settle" ELSE "body"
      BY <1>3, <2>3 DEF Goes
    <3> QED BY <2>3, <3>1
  <2> QED BY <2>1, <2>2, <2>3
<1>9. KnownOK'
  BY <1>6, <1>8 DEF KnownOK
<1>10. AppliedOK'
  <2>1. CASE applied /\ MustRecover
    <3>1. Real(term, desired) /\ pipe \in Seq(FrameCommands) /\ Sends(Recovery)
      BY <1>1, <2>1 DEF AppliedOK, Recover
    <3>2. Recovery \in Seq(FrameCommands)
      <4>1. Given \cap FrameCommands \subseteq FrameCommands
        OBVIOUS
      <4>2. Recovery \in Seq(Given \cap FrameCommands)
        BY <1>1, RecoveryTyped DEF Backends
      <4> HIDE DEF FrameCommands
      <4> QED BY <4>1, <4>2, SeqMonotonic
    <3>3. Real(term', desired) /\ pipe' \in Seq(FrameCommands)
      BY <1>1, <3>1, <3>2, FrameSends
    <3> QED BY <1>1, <1>5, <1>7, <3>3 DEF AppliedOK
  <2>2. CASE applied /\ ~MustRecover
    <3>1. term' = term /\ pipe' = pipe
      BY <2>2 DEF Recover
    <3> QED BY <1>1, <1>5, <1>7, <2>2, <3>1 DEF AppliedOK
  <2>3. CASE ~applied
    BY <1>7, <2>3 DEF AppliedOK
  <2> QED BY <2>1, <2>2, <2>3
<1>11. FrameOK'
  <2>1. call # "none"
    BY <1>2, <1>3 DEF PhaseOK
  <2> QED BY <1>2, <1>7, <2>1 DEF FrameOK
<1>12. PatchOK'
  <2> SUFFICES ASSUME call = "patch" PROVE PatchModeOK' /\ PatchImagesOK'
    BY <1>7 DEF PatchOK
  <2>1. PatchModeOK /\ PatchImagesOK /\ ~Restoring
    BY <1>2 DEF PatchOK, Restoring
  <2>2. Virtual'.cells = Virtual.cells /\ Virtual'.cursor = Virtual.cursor
        /\ Virtual'.images = Virtual.images /\ Virtual'.upload = Virtual.upload
    BY <1>4 DEF Alike
  <2>3. ~Virtual'.sync
    BY <1>4 DEF Unheld
  <2>4. ~goal.full => /\ term'.cells = "good" /\ term'.parser = "ground" /\ ~term'.sync
                      /\ pipe' = <<>> /\ ~b'.kittyUncertain
    BY <1>4, <1>5, <2>1, <2>2, <2>3 DEF PatchModeOK
  <2>5. goal.silent => ~goal.runs /\ ~HasOutput(goal.update) /\ term'.cursor = shown.cursor
    BY <1>4, <2>1, <2>2 DEF PatchModeOK
  <2>6. PatchModeOK'
    BY <1>7, <1>8, <2>1, <2>4, <2>5 DEF PatchModeOK
  <2>7. Ids(Virtual') = Ids(Virtual)
    BY <2>2 DEF Ids
  <2>8. ASSUME ~goal.updates
        PROVE  /\ goal.update = NoUpdate
               /\ b'.active.screen = "alternate" =>
                    ~goal.full /\ term'.upload = <<>> /\ Pictures(term') = shown.scene
    <3>1. goal.update = NoUpdate
      BY <2>1, <2>8 DEF PatchImagesOK
    <3>2. ASSUME b'.active.screen = "alternate"
          PROVE  ~goal.full /\ term'.upload = <<>> /\ Pictures(term') = shown.scene
      <4>1. ~goal.full /\ term.upload = <<>> /\ Pictures(term) = shown.scene
        BY <1>5, <2>1, <2>8, <3>2 DEF PatchImagesOK
      <4>2. term' = Virtual' /\ term = Virtual
        BY <1>4, <2>1, <4>1 DEF PatchModeOK
      <4> QED BY <2>2, <4>1, <4>2 DEF Pictures
    <3> QED BY <3>1, <3>2
  <2>9. PatchImagesOK'
    BY <1>5, <1>7, <2>1, <2>2, <2>7, <2>8 DEF PatchImagesOK
  <2> QED BY <2>6, <2>9
<1>13. PhaseOK'
  BY <1>2, <1>3, <1>7, <1>8 DEF PhaseOK, Restoring
<1>14. RunningOK'
  <2>1. phase' = "settle" => b'.active.screen = "alternate" /\ MustSettle(goal)'
    <3>1. ASSUME MustSettle(goal) PROVE b.active.screen = "alternate"
      <4>1. b.kittyUncertain \/ b.owned # {}
        BY <3>1 DEF MustSettle
      <4>2. KnowsScreen(Virtual, b, FALSE) /\ KnowsImages(Virtual, b)
        BY <1>1, <1>3 DEF KnownOK, Known
      <4> QED BY <4>1, <4>2 DEF KnowsScreen, KnowsImages
    <3>2. MustSettle(goal)' <=> MustSettle(goal)
      BY <1>5, <1>7 DEF MustSettle, Leaving
    <3> QED BY <1>5, <1>8, <3>1, <3>2
  <2>2. phase' = "body" => ~b'.kittyUncertain /\ (Leaving(goal)' => b'.owned = {})
    <3>1. ASSUME ~MustSettle(goal) PROVE ~b.kittyUncertain /\ (Leaving(goal) => b.owned = {})
      BY <3>1 DEF MustSettle
    <3>2. Leaving(goal)' = Leaving(goal)
      BY <1>5, <1>7 DEF Leaving
    <3> QED BY <1>5, <1>8, <3>1, <3>2
  <2> QED BY <1>5, <1>7, <1>8, <2>1, <2>2 DEF RunningOK
<1>15. SuspendedOK'
  <2>1. call \notin {"none", "gone"}
    BY <1>2, <1>3 DEF PhaseOK
  <2> QED BY <1>2, <1>7, <2>1 DEF SuspendedOK
<1>16. ClosingOK'
  <2>1. call \notin {"none", "gone"}
    BY <1>2, <1>3 DEF PhaseOK
  <2> QED BY <1>2, <1>7, <1>8, <2>1 DEF ClosingOK
<1>17. SessionTypes'
  BY <1>2, <1>7 DEF SessionTypes
<1>18. MapOK' /\ RawOK'
  BY <1>1, <1>5, <1>7 DEF MapOK, RawOK
<1>19. ControlOK'
  BY <1>11, <1>12, <1>13, <1>14, <1>15, <1>16, <1>17 DEF ControlOK
<1> QED BY <1>1, <1>4, <1>5, <1>7, <1>9, <1>10, <1>18, <1>19, InvFrom

\* An error of restore: the pictures may still be there, and nothing is forgotten.
LEMMA StillKnown ==
    ASSUME NEW t, NEW k \in Backends, NEW late \in BOOLEAN, Known(t, k, late), NEW j \in Backends,
           j = [k EXCEPT !.kittyUncertain = @ \/ k.owned # {}]
    PROVE  Known(t, j, TRUE) /\ Known(t, j, late)
<1>1. /\ j.kittyUncertain <=> (k.kittyUncertain \/ k.owned # {})
      /\ j.active = k.active /\ j.confirmed = k.confirmed /\ j.pushed = k.pushed /\ j.owned = k.owned
      /\ j.mouseUnconfirmed = k.mouseUnconfirmed /\ j.titleUnconfirmed = k.titleUnconfirmed
      /\ j.lifecycleUncertain = k.lifecycleUncertain /\ j.syncPending = k.syncPending
  BY DEF Backends
<1>2. KnowsWriting(t, j) /\ KnowsImages(t, j) /\ Enhanced(j)
  BY <1>1 DEF Known, KnowsWriting, KnowsImages, Enhanced
<1>3. KnowsScreen(t, j, TRUE)
  <2>1. CASE k.kittyUncertain
    BY <1>1, <2>1 DEF Known, KnowsScreen
  <2>2. CASE ~k.kittyUncertain /\ k.owned # {}
    <3>1. /\ t.screen = "alternate" /\ Keys(t, t.screen, k.pushed) /\ k.active.screen = "alternate"
      BY <2>2 DEF Known, KnowsScreen, KnowsImages
    <3>2. "main" \in Screens \ {t.screen} /\ "alternate" \in Screens
      BY <3>1 DEF Screens
    <3>3. t.keyboard["main"] = 0
      BY <3>1, <3>2 DEF Keys
    <3>4. t.keyboard["alternate"] = IF k.pushed THEN 1 ELSE 0
      BY <3>1 DEF Keys
    <3> QED BY <1>1, <2>2, <3>1, <3>3, <3>4 DEF KnowsScreen, Kept
  <2>3. CASE ~k.kittyUncertain /\ k.owned = {}
    BY <1>1, <2>3 DEF Known, KnowsScreen, Kept
  <2> QED BY <2>1, <2>2, <2>3
<1>4. KnowsModes(t, j, TRUE) /\ KnowsModes(t, j, late)
  BY <1>1 DEF Known, KnowsModes, Kept, TitleKept
<1>5. KnowsScreen(t, j, late)
  <2>1. CASE j.kittyUncertain
    BY <1>3, <2>1 DEF KnowsScreen
  <2>2. CASE ~j.kittyUncertain
    BY <1>1, <2>2 DEF Known, KnowsScreen, Kept
  <2> QED BY <2>1, <2>2
<1> QED BY <1>2, <1>3, <1>4, <1>5 DEF Known

LEMMA FaultCounts ==
    ASSUME closing \in Int, closing >= -1, Fault
    PROVE  /\ closing' \in Int /\ closing' >= -1
           /\ closing >= 0 <=> closing' >= 0
           /\ closing >= 0 => closing' >= 1
           /\ closing >= 1 => closing' >= 2
<1>1. closing' = IF closing >= 0 THEN closing + 1 ELSE closing
  BY DEF Fault
<1> QED BY <1>1

LEMMA ErrorGoes ==
    ASSUME ControlOK, AppliedOK, Restoring, phase \in {"recover", "clear"}, Steady, Fault,
           Goes("cook after error")
    PROVE  ControlOK' /\ ~applied' /\ phase' = "cook after error"
<1>1. SessionTypes /\ FrameOK /\ PatchOK /\ PhaseOK /\ RunningOK /\ SuspendedOK /\ ClosingOK
  BY DEF ControlOK
<1>2. /\ phase' = "cook after error" /\ call' = call /\ suspended' = suspended /\ cleanup' = cleanup
      /\ fullRepaint' = fullRepaint /\ applied' = applied /\ goal' = goal /\ shown' = shown
      /\ desired' = desired
  BY DEF Goes, Steady
<1>3. call \in {"suspend", "undo open", "undo resume", "drop"} /\ ~applied
  BY DEF Restoring, AppliedOK
<1>4. closing \in Int /\ closing >= -1
  BY <1>1 DEF SessionTypes, ClosingOK
<1>11. /\ closing' \in Int /\ closing' >= -1
       /\ closing >= 0 <=> closing' >= 0
       /\ closing >= 0 => closing' >= 1
       /\ closing >= 1 => closing' >= 2
  BY <1>4, FaultCounts
<1>5. SessionTypes'
  <2>1. closing' \in Int
    BY <1>11
  <2> QED BY <1>1, <1>2, <1>3, <2>1 DEF SessionTypes
<1>6. FrameOK' /\ PatchOK'
  BY <1>2, <1>3 DEF FrameOK, PatchOK
<1>7. PhaseOK'
  BY <1>2, <1>3 DEF PhaseOK, Restoring
<1>8. RunningOK'
  BY <1>2 DEF RunningOK
<1>9. SuspendedOK'
  BY <1>1, <1>2, <1>3 DEF SuspendedOK
<1>10. ClosingOK'
  <2>1. closing' >= 0 => /\ call \in {"suspend", "drop"} /\ suspended /\ closing' >= 1
                         /\ call = "drop" => closing' >= 2
    BY <1>1, <1>3, <1>11 DEF ClosingOK
  <2> QED BY <1>2, <1>11, <2>1 DEF ClosingOK
<1> QED BY <1>2, <1>3, <1>5, <1>6, <1>7, <1>8, <1>9, <1>10 DEF ControlOK

LEMMA RecoverFailsKeeps == ASSUME Inv, RecoverFails PROVE Inv'
<1>1. /\ ControlOK /\ term \in Terminals /\ pipe \in Seq(Sent) /\ b \in Backends /\ raw \in BOOLEAN
      /\ KnownOK /\ AppliedOK /\ MapOK /\ RawOK
  BY InvTo
<1>2. phase = "recover" /\ Steady /\ Fault /\ raw' = raw
  BY DEF RecoverFails
<1>3. PICK i \in 1 .. Len(Recovery) + 1 : StopsAt(Recovery, i)
  BY DEF RecoverFails
<1>4. Recovery \in Seq(Given \cap FrameCommands) /\ Recovery \in Seq(Given)
  BY <1>1, RecoveryTyped DEF Backends
<1>5. Virtual \in KnownTerminals(b, FALSE)
  BY <1>2, VirtualKnown
<1>6. Virtual' \in KnownTerminals(b, FALSE) /\ term' \in Terminals /\ pipe' \in Seq(Sent)
  <2> DEFINE P == {Virtual} \X {b}
             Q == Recovered(b, FALSE, Virtual) \X {b}
             R == KnownTerminals(b, FALSE) \X {b}
  <2>1. Path(P, Recovery, "recover", Q, R)
    BY <1>1, <1>5, RecoveryPath
  <2>2. Q \subseteq R
    BY DEF Recovered, Unheld, Ready
  <2>3. <<Virtual, b>> \in P
    OBVIOUS
  <2> HIDE DEF P, Q, R
  <2>4. <<Virtual', StoppedAt(Recovery, i, "recover")>> \in R /\ term' \in Terminals /\ pipe' \in Seq(Sent)
    BY <1>1, <1>3, <1>4, <2>1, <2>2, <2>3, PathStops
  <2> QED BY <2>4 DEF R
<1>7. Known(Virtual', b, FALSE)
  BY <1>6 DEF KnownTerminals
<1>8. CASE Restoring
  <2>1. b' = ClearFailed(b) /\ Goes("cook after error")
    BY <1>8 DEF RecoverFails
  <2>2. b' = [b EXCEPT !.kittyUncertain = @ \/ b.owned # {}]
    BY <2>1 DEF ClearFailed
  <2>3. b' \in Backends /\ b'.mapping = b.mapping /\ b'.owned = b.owned /\ b'.raw = b.raw
    BY <1>1, <2>2 DEF Backends
  <2>4. Known(Virtual', b', TRUE)
    BY <1>1, <1>7, <2>2, <2>3, StillKnown
  <2>5. ControlOK' /\ ~applied' /\ phase' = "cook after error"
    BY <1>1, <1>2, <1>8, <2>1, ErrorGoes
  <2>6. KnownOK' /\ AppliedOK' /\ MapOK' /\ RawOK'
    <3>1. KnownOK' /\ AppliedOK'
      BY <2>4, <2>5 DEF KnownOK, AppliedOK
    <3>2. MapOK' /\ RawOK'
      BY <1>1, <1>2, <2>3 DEF MapOK, RawOK
    <3> QED BY <3>1, <3>2
  <2> QED BY <1>1, <1>2, <1>6, <2>3, <2>5, <2>6, InvFrom
<1>9. CASE ~Restoring
  <2>1. b' = b /\ Returns(FALSE)
    BY <1>9 DEF RecoverFails
  <2>2. /\ ControlOK' /\ phase' # "cook after error" /\ (applied' => applied /\ call = "patch")
        /\ applied' => call' \in {"none", "patch"} /\ ~suspended'
    BY <1>1, <1>2, <1>9, <2>1, FailsReturn
  <2>3. KnownOK' /\ MapOK' /\ RawOK'
    BY <1>1, <1>2, <1>7, <2>1, <2>2 DEF KnownOK, MapOK, RawOK
  <2>4. AppliedOK'
    <3> SUFFICES ASSUME applied' PROVE AppliedOK'
      BY DEF AppliedOK
    <3>1. Real(term, desired) /\ pipe \in Seq(FrameCommands)
      BY <1>1, <2>2 DEF AppliedOK
    <3>2. Real(term', desired) /\ pipe' \in Seq(FrameCommands)
      BY <1>1, <1>3, <1>4, <3>1, FrameStops
    <3> QED BY <1>1, <1>2, <2>1, <2>2, <3>2 DEF AppliedOK, Steady
  <2> QED BY <1>1, <1>2, <1>6, <2>1, <2>2, <2>3, <2>4, InvFrom
<1> QED BY <1>8, <1>9

-----------------------------------------------------------------------------
(* Settle.                                                                 *)

\* While the images are uncertain, so is the screen.
LEMMA UncertainAlike ==
    ASSUME NEW t, NEW u, NEW k, NEW late, k.kittyUncertain, Known(t, k, late),
           u.mouse = t.mouse, u.paste = t.paste, u.nowrap = t.nowrap, u.title = t.title,
           u.foreign = t.foreign, u.sync => t.sync,
           u.parser = t.parser \/ u.parser = "ground" \/ u.parser = "apc",
           u.images \subseteq t.images, u.upload = t.upload \/ u.upload = <<>>,
           u.keyboard["main"] = t.keyboard["main"],
           u.keyboard["alternate"] = t.keyboard["alternate"] \/ u.keyboard["alternate"] = 0
    PROVE  Known(u, k, late)
<1>1. KnowsWriting(u, k) /\ Enhanced(k)
  BY DEF Known, KnowsWriting
<1>2. KnowsScreen(u, k, late)
  BY DEF Known, KnowsScreen, Kept
<1>3. KnowsModes(u, k, late)
  BY DEF Known, KnowsModes
<1>4. KnowsImages(u, k)
  BY DEF Known, KnowsImages, Ids
<1> QED BY <1>1, <1>2, <1>3, <1>4 DEF Known

SettledTerminals(k, screen) ==
    {t \in Unheld(Ready(KnownTerminals(k, FALSE))) :
        /\ t.screen = screen /\ t.images = {} /\ t.upload = <<>> /\ t.keyboard["alternate"] = 0}

LEMMA SettlePath ==
    ASSUME b \in Backends, Virtual \in KnownTerminals(b, FALSE), ~b.lifecycleUncertain, ~b.syncPending,
           NEW d \in Desired, MustSettle(d), NEW k \in Backends, k = [b EXCEPT !.kittyUncertain = TRUE]
    PROVE  /\ Settlement(d) \in Seq(Given)
           /\ Path({Virtual} \X Backends, Settlement(d), "settle",
                   SettledTerminals(k, d.screen) \X Backends, KnownTerminals(k, FALSE) \X Backends)
<1> DEFINE R == KnownTerminals(k, FALSE)
           T0 == {Virtual}
           T1 == Unheld(Ready(R))
           T2 == {t \in T1 : t.screen = "alternate"}
           T3 == {t \in T2 : t.images = {} /\ t.upload = <<>>}
           T4 == {t \in T3 : t.keyboard["alternate"] = 0}
           T5 == SettledTerminals(k, d.screen)
           K == Backends
           kind == "settle"
           pop == <<"keyboard", "pop">>
           main == <<"screen", "main">>
           alternate == <<"screen", "alternate">>
<1>0. PICK pops \in BOOLEAN : pops <=> (b.pushed \/ "enhanced" \in {b.active.keyboard, b.confirmed.keyboard})
  OBVIOUS
<1>1. /\ k.kittyUncertain /\ k.active = b.active /\ k.confirmed = b.confirmed /\ k.pushed = b.pushed
      /\ k.owned = b.owned /\ k.lifecycleUncertain = b.lifecycleUncertain
      /\ k.syncPending = b.syncPending
  BY DEF Backends
<1>2. Virtual \in Terminals /\ Known(Virtual, b, FALSE)
  BY DEF KnownTerminals
<1>3. Known(Virtual, k, FALSE)
  <2>1. b.kittyUncertain \/ b.owned # {}
    BY DEF MustSettle
  <2>2. k = [b EXCEPT !.kittyUncertain = @ \/ b.owned # {}]
    BY <2>1 DEF Backends
  <2> QED BY <1>2, <2>2, StillKnown
<1>4. T0 \subseteq R
  BY <1>2, <1>3 DEF KnownTerminals
<1>5. \A t \in R : /\ t \in Terminals /\ Known(t, k, FALSE) /\ ~t.sync /\ t.parser # "osc"
                   /\ Ids(t) \subseteq b.owned /\ (t.upload # <<>> => b.owned # {})
                   /\ t.keyboard["main"] = 0 /\ t.keyboard["alternate"] \in {0, 1}
                   /\ (t.keyboard["alternate"] = 1 => b.pushed)
  BY <1>1 DEF KnownTerminals, Known, KnowsWriting, KnowsImages, KnowsScreen
<1>6. \A t \in R : t.parser = "ground" => t \in T1
  BY <1>5 DEF Unheld, Ready
<1>7. \A t \in T1 : t \in R /\ t.parser = "ground"
  BY DEF Unheld, Ready
<1>8. d.screen \in Screens /\ b.kittyUncertain \in BOOLEAN /\ b.owned \in SUBSET (1..MaxId)
      /\ (d.screen = "main") \in BOOLEAN
  BY WantedTyped DEF TerminalState, Backends
<1>9. \A t \in T5 : t \in T1 /\ t.screen = d.screen /\ t.images = {} /\ t.upload = <<>> /\ t.keyboard["alternate"] = 0
  BY DEF SettledTerminals
<1>10. \A t \in T1 : t.screen = d.screen /\ t.images = {} /\ t.upload = <<>> /\ t.keyboard["alternate"] = 0 => t \in T5
  BY DEF SettledTerminals
<1>11. \A x \in K : \A c \in Commands : Done(x, c, kind) \in K /\ Attempt(x, c) \in K
  BY AttemptTyped, DoneTyped, CommandIsGiven
<1>12. pop \in Commands /\ main \in Commands /\ alternate \in Commands
       /\ pop \in Given /\ main \in Given /\ alternate \in Given
       /\ pop[1] = "keyboard" /\ pop[2] = "pop"
  BY SomeCommands, CommandIsGiven DEF Screens
<1> HIDE DEF T1, T5, R, K, kind
<1>20. /\ Path(T0 \X K, KittyRecovery(b.kittyUncertain), kind, T1 \X K, R \X K)
       /\ KittyRecovery(b.kittyUncertain) \in Seq(Given)
  <2>1. ~b.kittyUncertain => T0 \subseteq T1
    <3>1. ~b.kittyUncertain => Virtual.parser = "ground"
      BY <1>2 DEF Known, KnowsWriting, Terminals
    <3> QED BY <1>4, <1>6, <3>1
  <2>2. \A t \in T0, u \in Unheld(Ready(KnownTerminals(k, FALSE))) : Alike(u, t) => u \in T1
    BY DEF T1, R
  <2>3. Path(T0 \X K, KittyRecovery(b.kittyUncertain), kind, T1 \X K, R \X K)
    BY <1>4, <1>8, <2>1, <2>2, KittyPath, ZenonT(40) DEF R
  <2> QED BY <1>8, <2>3, KittyTyped
<1>21. Path(T1 \X K, <<alternate>>, kind, T2 \X K, R \X K) /\ <<alternate>> \in Seq(Given)
  <2>1. ASSUME NEW t \in T1
        PROVE  Receive(t, alternate) \in T2 /\ t \in R /\ Receive(t, Torn(alternate)) \in R
    <3> DEFINE u == Receive(t, alternate)
    <3>1. t \in R /\ t.parser = "ground" /\ t \in Terminals /\ Known(t, k, FALSE)
      BY <1>5, <1>7
    <3>2. /\ u \in Terminals /\ Receive(t, Torn(alternate)) = t
          /\ u.screen = "alternate" /\ u.keyboard = t.keyboard /\ u.mouse = t.mouse /\ u.paste = t.paste
          /\ u.nowrap = t.nowrap /\ u.title = t.title /\ u.cursor = t.cursor /\ u.sync = t.sync
          /\ u.parser = t.parser /\ u.images = t.images /\ u.upload = t.upload /\ u.foreign = t.foreign
      BY <3>1, Switches DEF Screens
    <3> HIDE DEF u
    <3>3. Known(u, k, FALSE)
      BY <1>1, <3>1, <3>2, UncertainAlike, ZenonT(40)
    <3>4. u \in T1
      BY <1>6, <3>1, <3>2, <3>3 DEF R, KnownTerminals
    <3> QED BY <3>1, <3>2, <3>4 DEF u
  <2>2. alternate[1] # "note"
    OBVIOUS
  <2>3. \A x \in K : Done(x, alternate, kind) \in K /\ Attempt(x, alternate) \in K
    BY <1>11, <1>12
  <2> HIDE DEF T2, alternate
  <2>4. Path(T1 \X K, <<alternate>>, kind, T2 \X K, R \X K)
    BY <2>1, <2>2, <2>3, PathTerm
  <2>5. <<alternate>> \in Seq(Given)
    BY <1>12
  <2> QED BY <2>4, <2>5
<1>22. Path(T2 \X K, Deletions(b.owned), kind, T3 \X K, R \X K) /\ Deletions(b.owned) \in Seq(Given)
  <2>1. T2 \subseteq Terminals /\ T2 \subseteq R
    BY <1>5, <1>7
  <2>2. \A t \in T2 : /\ t.parser = "ground" /\ t.screen = "alternate" /\ Ids(t) \subseteq b.owned
                      /\ t.upload # <<>> => b.owned # {}
    BY <1>5, <1>7
  <2>3. ASSUME NEW t \in T2, NEW u \in Terminals,
               SameButImages(u, t), u.images \subseteq t.images, u.upload = <<>>
        PROVE  u \in T2
    <3>1. t \in R /\ Known(t, k, FALSE) /\ t.parser = "ground"
      BY <1>5, <1>7
    <3>2. /\ u.screen = "alternate" /\ u.keyboard = t.keyboard /\ u.mouse = t.mouse /\ u.paste = t.paste
          /\ u.nowrap = t.nowrap /\ u.title = t.title /\ u.sync = t.sync
          /\ u.parser = t.parser /\ u.foreign = t.foreign
      BY <2>3 DEF SameButImages
    <3>3. Known(u, k, FALSE)
      BY <1>1, <2>3, <3>1, <3>2, UncertainAlike
    <3>4. u \in T1
      BY <1>6, <3>1, <3>2, <3>3 DEF R, KnownTerminals
    <3> QED BY <3>2, <3>4
  <2>4. ASSUME NEW t \in T2, NEW u \in Terminals, u = [t EXCEPT !.parser = "apc"]
        PROVE  u \in R
    <3>1. t \in R /\ Known(t, k, FALSE) /\ t \in Terminals
      BY <1>5, <1>7
    <3>2. /\ u.keyboard = t.keyboard /\ u.mouse = t.mouse /\ u.paste = t.paste
          /\ u.nowrap = t.nowrap /\ u.title = t.title /\ u.sync = t.sync /\ u.parser = "apc"
          /\ u.foreign = t.foreign /\ u.images = t.images /\ u.upload = t.upload
      BY <2>4, <3>1 DEF Terminals
    <3>3. Known(u, k, FALSE)
      BY <1>1, <3>1, <3>2, UncertainAlike
    <3> QED BY <3>3 DEF R, KnownTerminals
  <2> HIDE DEF T2
  <2>5. Path(T2 \X K, Deletions(b.owned), kind, {t \in T2 : t.images = {} /\ t.upload = <<>>} \X K, R \X K)
    BY <1>8, <2>1, <2>2, <2>3, <2>4, DeletionsPath
  <2>6. Deletions(b.owned) \in Seq(Given)
    BY <1>8, DeletionsAre
  <2> QED BY <2>5, <2>6
<1>23. Path(T3 \X K, If(pops, <<pop>>), kind, T4 \X K, R \X K) /\ If(pops, <<pop>>) \in Seq(Given)
  <2>1. \A t \in T3 : t \in T2 /\ t \in T1 /\ t \in R /\ t.parser = "ground" /\ t.screen = "alternate"
                      /\ t.images = {} /\ t.upload = <<>>
    BY <1>7
  <2>2. ~pops => T3 \subseteq T4
    <3>1. ~pops => \A t \in T3 : t.keyboard["alternate"] = 0
      BY <1>0, <1>5, <2>1
    <3> QED BY <3>1
  <2>3. ASSUME NEW t \in T3
        PROVE  Receive(t, pop) \in T4 /\ t \in R /\ Receive(t, Torn(pop)) \in R
    <3> DEFINE u == Receive(t, pop)
    <3>1. t \in R /\ t.parser = "ground" /\ t \in Terminals /\ Known(t, k, FALSE) /\ t.screen = "alternate"
          /\ t.keyboard["alternate"] \in {0, 1} /\ t.images = {} /\ t.upload = <<>>
      BY <1>5, <2>1
    <3>2. /\ u \in Terminals /\ Receive(t, Torn(pop)) = t
          /\ u.screen = t.screen /\ u.mouse = t.mouse /\ u.paste = t.paste
          /\ u.nowrap = t.nowrap /\ u.title = t.title /\ u.cursor = t.cursor /\ u.sync = t.sync
          /\ u.parser = t.parser /\ u.images = t.images /\ u.upload = t.upload /\ u.foreign = t.foreign
          /\ \A s \in Screens : s # t.screen => u.keyboard[s] = t.keyboard[s]
          /\ u.keyboard[t.screen] = 0
      BY <1>12, <3>1, Keyboards
    <3>3. u.keyboard["main"] = t.keyboard["main"] /\ u.keyboard["alternate"] = 0
      BY <3>1, <3>2 DEF Screens
    <3> HIDE DEF u
    <3>4. Known(u, k, FALSE)
      BY <1>1, <3>1, <3>2, <3>3, UncertainAlike
    <3>5. u \in T1
      BY <1>6, <3>1, <3>2, <3>4 DEF R, KnownTerminals
    <3> QED BY <3>1, <3>2, <3>3, <3>5 DEF u
  <2>4. \A x \in K : Done(x, pop, kind) \in K /\ Attempt(x, pop) \in K
    BY <1>11, <1>12
  <2> HIDE DEF T3, T4, pop
  <2>5. pops => \A t \in T3 : Receive(t, pop) \in T4 /\ t \in R /\ Receive(t, Torn(pop)) \in R
    BY <2>3
  <2>6. pop \in Commands /\ pops \in BOOLEAN
    BY <1>12
  <2> QED BY <2>2, <2>4, <2>5, <2>6, PathIf
<1>24. /\ Path(T4 \X K, If(d.screen = "main", <<main>>), kind, T5 \X K, R \X K)
       /\ If(d.screen = "main", <<main>>) \in Seq(Given)
  <2>1. \A t \in T4 : t \in T1 /\ t \in R /\ t.parser = "ground" /\ t.screen = "alternate"
                      /\ t.images = {} /\ t.upload = <<>> /\ t.keyboard["alternate"] = 0
    BY <1>7
  <2>2. d.screen # "main" => T4 \subseteq T5
    BY <1>8, <1>10, <2>1 DEF Screens
  <2>3. ASSUME d.screen = "main", NEW t \in T4
        PROVE  Receive(t, main) \in T5 /\ t \in R /\ Receive(t, Torn(main)) \in R
    <3> DEFINE u == Receive(t, main)
    <3>1. t \in R /\ t.parser = "ground" /\ t \in Terminals /\ Known(t, k, FALSE)
          /\ t.images = {} /\ t.upload = <<>> /\ t.keyboard["alternate"] = 0
      BY <1>5, <2>1
    <3>2. /\ u \in Terminals /\ Receive(t, Torn(main)) = t
          /\ u.screen = "main" /\ u.keyboard = t.keyboard /\ u.mouse = t.mouse /\ u.paste = t.paste
          /\ u.nowrap = t.nowrap /\ u.title = t.title /\ u.cursor = t.cursor /\ u.sync = t.sync
          /\ u.parser = t.parser /\ u.images = t.images /\ u.upload = t.upload /\ u.foreign = t.foreign
      BY <3>1, Switches DEF Screens
    <3> HIDE DEF u
    <3>3. Known(u, k, FALSE)
      BY <1>1, <3>1, <3>2, UncertainAlike
    <3>4. u \in T1
      BY <1>6, <3>1, <3>2, <3>3 DEF R, KnownTerminals
    <3>5. u \in T5
      BY <1>10, <2>3, <3>1, <3>2, <3>4
    <3> QED BY <3>1, <3>2, <3>5 DEF u
  <2>4. \A x \in K : Done(x, main, kind) \in K /\ Attempt(x, main) \in K
    BY <1>11, <1>12
  <2> HIDE DEF T4, main
  <2> QED BY <1>8, <1>12, <2>2, <2>3, <2>4, PathIf, ZenonT(40)
<1> DEFINE s1 == KittyRecovery(b.kittyUncertain)
           s2 == s1 \o <<alternate>>
           s3 == s2 \o Deletions(b.owned)
           s4 == s3 \o If(pops, <<pop>>)
           s5 == s4 \o If(d.screen = "main", <<main>>)
           S == R \X K
           e2 == <<alternate>>
           e3 == Deletions(b.owned)
           e4 == If(pops, <<pop>>)
           e5 == If(d.screen = "main", <<main>>)
<1>30. Settlement(d) = s5
  BY <1>0 DEF Settlement, If
<1> HIDE DEF T0, T2, T3, T4, S, s1, e2, e3, e4, e5
<1>31. /\ Path(T0 \X K, s1, kind, T1 \X K, S) /\ s1 \in Seq(Given)
       /\ Path(T1 \X K, e2, kind, T2 \X K, S) /\ e2 \in Seq(Given)
       /\ Path(T2 \X K, e3, kind, T3 \X K, S) /\ e3 \in Seq(Given)
       /\ Path(T3 \X K, e4, kind, T4 \X K, S) /\ e4 \in Seq(Given)
       /\ Path(T4 \X K, e5, kind, T5 \X K, S) /\ e5 \in Seq(Given)
  BY <1>20, <1>21, <1>22, <1>23, <1>24 DEF s1, e2, e3, e4, e5, S
<1>32. Path(T0 \X K, s1 \o e2, kind, T2 \X K, S) /\ s1 \o e2 \in Seq(Given)
  BY <1>31, PathThen
<1>33. Path(T0 \X K, (s1 \o e2) \o e3, kind, T3 \X K, S) /\ (s1 \o e2) \o e3 \in Seq(Given)
  BY <1>31, <1>32, PathThen
<1>34. Path(T0 \X K, ((s1 \o e2) \o e3) \o e4, kind, T4 \X K, S) /\ ((s1 \o e2) \o e3) \o e4 \in Seq(Given)
  BY <1>31, <1>33, PathThen
<1>35. Path(T0 \X K, (((s1 \o e2) \o e3) \o e4) \o e5, kind, T5 \X K, S) /\ (((s1 \o e2) \o e3) \o e4) \o e5 \in Seq(Given)
  BY <1>31, <1>34, PathThen
<1>36. Settlement(d) = (((s1 \o e2) \o e3) \o e4) \o e5
  BY <1>30 DEF e2, e3, e4, e5
<1> QED BY <1>35, <1>36 DEF T0, T5, K, kind, S, R

LEMMA SettlingFacts ==
    ASSUME Inv, phase = "settle", Steady
    PROVE  /\ call \in {"open", "resume", "apply"} /\ goal = desired /\ goal \in Desired /\ ~Restoring /\ ~applied
           /\ ~b.lifecycleUncertain /\ ~b.syncPending /\ MustSettle(goal) /\ b.active.screen = "alternate"
           /\ Virtual \in KnownTerminals(b, FALSE) /\ closing = -1
<1>1. ControlOK /\ AppliedOK
  BY InvTo
<1>2. SessionTypes /\ PhaseOK /\ RunningOK /\ ClosingOK
  BY <1>1 DEF ControlOK
<1>3. call \in {"open", "resume", "apply"} /\ goal = desired /\ ~Restoring
  BY <1>2 DEF PhaseOK
<1>4. ~applied
  BY <1>1, <1>3 DEF AppliedOK
<1>5. ~b.lifecycleUncertain /\ ~b.syncPending /\ MustSettle(goal) /\ b.active.screen = "alternate"
  BY <1>2 DEF RunningOK
<1>6. goal \in Desired
  BY <1>2, <1>3 DEF SessionTypes
<1>7. closing = -1
  BY <1>2, <1>3 DEF ClosingOK, SessionTypes
<1>8. Virtual \in KnownTerminals(b, FALSE)
  BY VirtualKnown
<1> QED BY <1>3, <1>4, <1>5, <1>6, <1>7, <1>8

LEMMA EmptyMap == DOMAIN <<>> = {}
OBVIOUS

LEMMA SettleKeeps == ASSUME Inv, Settle PROVE Inv'
<1>1. /\ ControlOK /\ term \in Terminals /\ pipe \in Seq(Sent) /\ b \in Backends /\ raw \in BOOLEAN
      /\ KnownOK /\ AppliedOK /\ MapOK /\ RawOK
  BY InvTo
<1>2. SessionTypes /\ FrameOK /\ PatchOK /\ PhaseOK /\ RunningOK /\ SuspendedOK /\ ClosingOK
  BY <1>1 DEF ControlOK
<1>3. phase = "settle" /\ Steady /\ NoFault /\ raw' = raw /\ Sends(Settlement(goal)) /\ b' = Settled(goal)
      /\ Goes("body")
  BY DEF Settle
<1>4. /\ call \in {"open", "resume", "apply"} /\ goal = desired /\ goal \in Desired /\ ~Restoring /\ ~applied
      /\ ~b.lifecycleUncertain /\ ~b.syncPending /\ MustSettle(goal) /\ b.active.screen = "alternate"
      /\ Virtual \in KnownTerminals(b, FALSE) /\ closing = -1
  BY <1>3, SettlingFacts
<1> DEFINE k == [b EXCEPT !.kittyUncertain = TRUE]
<1>5. /\ k \in Backends /\ k.active = b.active /\ k.confirmed = b.confirmed
      /\ k.mouseUnconfirmed = b.mouseUnconfirmed /\ k.titleUnconfirmed = b.titleUnconfirmed /\ k.kittyUncertain
  BY <1>1 DEF Backends
<1>6. Virtual' \in SettledTerminals(k, goal.screen) /\ term' \in Terminals /\ pipe' = <<>>
  <2> DEFINE P == {Virtual} \X Backends
             Q == SettledTerminals(k, goal.screen) \X Backends
             R == KnownTerminals(k, FALSE) \X Backends
             cs == Settlement(goal)
  <2>1. cs \in Seq(Given) /\ Path(P, cs, "settle", Q, R)
    BY <1>1, <1>4, <1>5, SettlePath
  <2>2. <<Virtual, b>> \in P
    BY <1>1
  <2>3. Sends(cs)
    BY <1>3
  <2> HIDE DEF P, Q, R, cs
  <2>4. <<Virtual', AllDone(b, cs, "settle")>> \in Q /\ term' \in Terminals /\ pipe' = <<>>
    BY <1>1, <2>1, <2>2, <2>3, PathSends
  <2> QED BY <2>4 DEF Q
<1>7. /\ Virtual'.screen = goal.screen /\ Virtual'.images = {} /\ Virtual'.upload = <<>>
      /\ Virtual'.keyboard["alternate"] = 0 /\ Virtual'.parser = "ground" /\ ~Virtual'.sync
      /\ Known(Virtual', k, FALSE)
  BY <1>6 DEF SettledTerminals, Unheld, Ready, KnownTerminals
<1> HIDE DEF k
<1>8. goal.screen \in Screens
  BY <1>4, WantedTyped DEF TerminalState
<1>9. /\ b' \in Backends /\ b'.active = [b.active EXCEPT !.screen = goal.screen]
      /\ b'.confirmed = [NoState EXCEPT !.screen = goal.screen] /\ ~b'.pushed /\ ~b'.kittyUncertain
      /\ b'.mouseUnconfirmed = b.mouseUnconfirmed /\ b'.titleUnconfirmed = b.titleUnconfirmed
      /\ b'.lifecycleUncertain = b.lifecycleUncertain /\ b'.syncPending = b.syncPending
      /\ b'.mapping = <<>> /\ b'.owned = {} /\ b'.raw = b.raw
  <2>1. b' = [b EXCEPT !.mapping = <<>>, !.owned = {}, !.kittyUncertain = FALSE, !.pushed = FALSE,
                       !.active.screen = goal.screen, !.confirmed = [NoState EXCEPT !.screen = goal.screen]]
    BY <1>3 DEF Settled, ConfirmCleanup
  <2>2. [NoState EXCEPT !.screen = goal.screen] \in ModeStates
    BY <1>8, NoStateTyped DEF ModeStates
  <2> DEFINE entered == [b.active EXCEPT !.screen = goal.screen]
             known == [NoState EXCEPT !.screen = goal.screen]
  <2>4. b' = [b EXCEPT !.mapping = <<>>, !.owned = {}, !.kittyUncertain = FALSE, !.pushed = FALSE,
                       !.active = entered, !.confirmed = known]
    BY <1>1, <2>1 DEF Backends
  <2>5. entered = [b.active EXCEPT !.screen = goal.screen] /\ known = [NoState EXCEPT !.screen = goal.screen]
    OBVIOUS
  <2>3. b' \in Backends
    <3>1. entered \in ModeStates
      BY <1>1, <1>8 DEF Backends, ModeStates
    <3> HIDE DEF entered, known
    <3>2. known \in ModeStates
      BY <2>2, <2>5
    <3> QED BY <1>1, <2>4, <3>1, <3>2, NoMapping DEF Backends
  <2> HIDE DEF entered, known
  <2>6. b'.active = entered /\ b'.confirmed = known /\ ~b'.pushed /\ ~b'.kittyUncertain
    BY <1>1, <2>4 DEF Backends
  <2>7. /\ b'.mouseUnconfirmed = b.mouseUnconfirmed /\ b'.titleUnconfirmed = b.titleUnconfirmed
        /\ b'.lifecycleUncertain = b.lifecycleUncertain /\ b'.syncPending = b.syncPending
    BY <1>1, <2>4 DEF Backends
  <2>8. b'.mapping = <<>> /\ b'.owned = {} /\ b'.raw = b.raw
    BY <1>1, <2>4 DEF Backends
  <2> QED BY <2>3, <2>5, <2>6, <2>7, <2>8
<1>10. /\ b'.active.screen = goal.screen /\ b'.confirmed.screen = goal.screen
       /\ b'.active.mouse = b.active.mouse /\ b'.active.paste = b.active.paste
       /\ b'.active.nowrap = b.active.nowrap /\ b'.active.title = b.active.title
       /\ b'.confirmed.mouse = "off" /\ b'.confirmed.paste = FALSE /\ b'.confirmed.nowrap = FALSE
       /\ b'.confirmed.title = "none"
  <2>1. b.active \in ModeStates
    BY <1>1 DEF Backends
  <2> QED BY <1>9, <2>1 DEF ModeStates, NoState
<1>11. Known(Virtual', b', FALSE)
  <2>1. KnowsWriting(Virtual', b') /\ Enhanced(b')
    BY <1>7, <1>9 DEF Known, KnowsWriting, Enhanced
  <2>2. KnowsScreen(Virtual', b', FALSE)
    <3>1. Virtual'.keyboard["main"] = 0
      BY <1>5, <1>7 DEF Known, KnowsScreen, Kept
    <3>2. Keys(Virtual', Virtual'.screen, b'.pushed)
      BY <1>7, <1>8, <1>9, <3>1 DEF Keys, Screens
    <3> QED BY <1>7, <1>9, <1>10, <3>2 DEF KnowsScreen, Kept
  <2>3. KnowsModes(Virtual', b', FALSE)
    <3>1. KnowsModes(Virtual', k, FALSE)
      BY <1>7 DEF Known
    <3> QED BY <1>5, <1>9, <1>10, <3>1 DEF KnowsModes, Kept, TitleKept
  <2>4. KnowsImages(Virtual', b')
    BY <1>7, <1>9 DEF KnowsImages, Ids
  <2> QED BY <2>1, <2>2, <2>3, <2>4 DEF Known
<1>12. /\ phase' = "body" /\ call' = call /\ suspended' = suspended /\ cleanup' = cleanup
       /\ fullRepaint' = fullRepaint /\ applied' = applied /\ goal' = goal /\ shown' = shown
       /\ desired' = desired /\ closing' = closing
  BY <1>3 DEF Goes, Steady, NoFault
<1>13. KnownOK' /\ AppliedOK'
  BY <1>4, <1>11, <1>12 DEF KnownOK, AppliedOK
<1>14. SessionTypes' /\ FrameOK' /\ PatchOK'
  <2>1. SessionTypes'
    BY <1>2, <1>4, <1>12 DEF SessionTypes
  <2>2. FrameOK' /\ PatchOK'
    BY <1>4, <1>12 DEF FrameOK, PatchOK
  <2> QED BY <2>1, <2>2
<1>15. PhaseOK'
  BY <1>2, <1>4, <1>12 DEF PhaseOK, Restoring
<1>16. RunningOK'
  BY <1>4, <1>9, <1>12 DEF RunningOK
<1>17. SuspendedOK' /\ ClosingOK'
  <2>1. SuspendedOK'
    BY <1>2, <1>4, <1>12 DEF SuspendedOK
  <2>2. ClosingOK'
    BY <1>4, <1>12 DEF ClosingOK
  <2> QED BY <2>1, <2>2
<1>18. MapOK' /\ RawOK'
  BY <1>1, <1>3, <1>9, EmptyMap DEF MapOK, RawOK
<1>19. (pipe \in Seq(Sent))' /\ (raw \in BOOLEAN)'
  BY <1>1, <1>3, <1>6
<1> QED BY <1>6, <1>9, <1>13, <1>14, <1>15, <1>16, <1>17, <1>18, <1>19, InvFrom DEF ControlOK

LEMMA SettleFailsKeeps == ASSUME Inv, SettleFails PROVE Inv'
<1>1. /\ ControlOK /\ term \in Terminals /\ pipe \in Seq(Sent) /\ b \in Backends /\ raw \in BOOLEAN
      /\ KnownOK /\ AppliedOK /\ MapOK /\ RawOK
  BY InvTo
<1>2. phase = "settle" /\ Steady /\ Fault /\ raw' = raw /\ Returns(FALSE)
      /\ b' = [b EXCEPT !.kittyUncertain = TRUE]
  BY DEF SettleFails
<1>3. PICK i \in 1 .. Len(Settlement(goal)) + 1 : StopsAt(Settlement(goal), i)
  BY DEF SettleFails
<1>4. /\ call \in {"open", "resume", "apply"} /\ goal = desired /\ goal \in Desired /\ ~Restoring /\ ~applied
      /\ ~b.lifecycleUncertain /\ ~b.syncPending /\ MustSettle(goal) /\ b.active.screen = "alternate"
      /\ Virtual \in KnownTerminals(b, FALSE) /\ closing = -1
  BY <1>2, SettlingFacts
<1> DEFINE k == [b EXCEPT !.kittyUncertain = TRUE]
<1>5. k \in Backends /\ k.mapping = b.mapping /\ k.owned = b.owned /\ k.raw = b.raw
  BY <1>1 DEF Backends
<1>6. Virtual' \in KnownTerminals(k, FALSE) /\ term' \in Terminals /\ pipe' \in Seq(Sent)
  <2> DEFINE P == {Virtual} \X Backends
             Q == SettledTerminals(k, goal.screen) \X Backends
             R == KnownTerminals(k, FALSE) \X Backends
             cs == Settlement(goal)
  <2>1. cs \in Seq(Given) /\ Path(P, cs, "settle", Q, R)
    BY <1>1, <1>4, <1>5, SettlePath
  <2>2. <<Virtual, b>> \in P
    BY <1>1
  <2>3. Q \subseteq R
    <3> HIDE DEF k
    <3> QED BY DEF SettledTerminals, Unheld, Ready
  <2>4. i \in 1 .. Len(cs) + 1 /\ StopsAt(cs, i)
    BY <1>3
  <2> HIDE DEF P, Q, R, cs
  <2>5. <<Virtual', StoppedAt(cs, i, "settle")>> \in R /\ term' \in Terminals /\ pipe' \in Seq(Sent)
    BY <1>1, <2>1, <2>2, <2>3, <2>4, PathStops
  <2> QED BY <2>5 DEF R
<1>7. Known(Virtual', b', FALSE)
  BY <1>2, <1>6 DEF KnownTerminals
<1>8. /\ ControlOK' /\ phase' # "cook after error" /\ (applied' => applied /\ call = "patch")
  BY <1>1, <1>2, <1>4, FailsReturn
<1>9. KnownOK' /\ AppliedOK'
  BY <1>4, <1>7, <1>8 DEF KnownOK, AppliedOK
<1>10. MapOK' /\ RawOK' /\ (b \in Backends)' /\ (raw \in BOOLEAN)'
  BY <1>1, <1>2, <1>5 DEF MapOK, RawOK
<1> QED BY <1>6, <1>8, <1>9, <1>10, InvFrom

-----------------------------------------------------------------------------
(* Apply.                                                                  *)

\* What holds wherever the commands of apply_state are stopped.
Base(t, k) ==
    /\ Known(t, k, FALSE) /\ k.mapping = b.mapping /\ k.owned = b.owned /\ ~k.kittyUncertain
    /\ k.raw = b.raw /\ k.confirmed = b.confirmed /\ ~k.syncPending

\* A mode before, and after, its command.
MouseAt(t, k, done) ==
    IF done THEN t.mouse = goal.mouse /\ k.active.mouse = goal.mouse
    ELSE k.active.mouse = b.active.mouse /\ (k.mouseUnconfirmed <=> b.mouseUnconfirmed)
PasteAt(t, k, done) ==
    IF done THEN (t.paste <=> goal.paste) /\ (k.active.paste <=> goal.paste)
    ELSE k.active.paste <=> b.active.paste
KeyboardAt(k, done) ==
    IF done THEN k.active.keyboard = goal.keyboard /\ (k.pushed <=> goal.keyboard = "enhanced")
    ELSE k.active.keyboard = b.active.keyboard /\ (k.pushed <=> b.pushed /\ ~Changed(goal, "screen"))
NowrapAt(t, k, done) ==
    IF done THEN (t.nowrap <=> goal.nowrap) /\ (k.active.nowrap <=> goal.nowrap)
    ELSE k.active.nowrap <=> b.active.nowrap
TitleAt(t, k, done) ==
    IF done THEN TitleIs(t.title, goal.title) /\ k.active.title = goal.title
    ELSE k.active.title = b.active.title /\ (k.titleUnconfirmed <=> b.titleUnconfirmed)

At(t, k, n) ==
    /\ Base(t, k) /\ t.parser = "ground" /\ ~t.sync
    /\ t.screen = goal.screen /\ k.active.screen = goal.screen
    /\ MouseAt(t, k, n >= 1) /\ PasteAt(t, k, n >= 2) /\ KeyboardAt(k, n >= 3)
    /\ NowrapAt(t, k, n >= 4) /\ TitleAt(t, k, n >= 5)

LEMMA ModeBase ==
    ASSUME NEW t, NEW u, NEW k, NEW j, Base(t, k),
           u.screen = t.screen, u.keyboard = t.keyboard, u.images = t.images, u.upload = t.upload,
           u.foreign = t.foreign, u.sync = t.sync,
           j.active.screen = k.active.screen, j.active.keyboard = k.active.keyboard,
           j.confirmed = k.confirmed, j.pushed = k.pushed, j.owned = k.owned, j.mapping = k.mapping,
           j.kittyUncertain = k.kittyUncertain, j.syncPending = k.syncPending, j.raw = k.raw,
           u.parser = "osc" => j.lifecycleUncertain /\ j.titleUnconfirmed, u.parser # "apc",
           KnowsModes(u, j, FALSE)
    PROVE  Base(u, j)
<1>1. Known(t, k, FALSE)
  BY DEF Base
<1>2. KnowsWriting(u, j) /\ Enhanced(j)
  BY <1>1 DEF Known, KnowsWriting, Enhanced
<1>3. KnowsScreen(u, j, FALSE)
  BY <1>1 DEF Known, KnowsScreen, Kept, Keys
<1>4. KnowsImages(u, j)
  BY <1>1 DEF Known, KnowsImages, Ids
<1>5. Known(u, j, FALSE)
  BY <1>2, <1>3, <1>4 DEF Known
<1> QED BY <1>5 DEF Base

LEMMA MouseStep ==
    ASSUME NEW t \in Terminals, NEW k \in Backends, goal \in Desired, At(t, k, 0),
           NEW c, c = <<"mouse", goal.mouse>>
    PROVE  /\ At(Receive(t, c), Done(k, c, "body"), 1)
           /\ Base(t, Attempt(k, c)) /\ Base(Receive(t, Torn(c)), Attempt(k, c))
<1>1. c \in Given /\ c[1] = "mouse" /\ c[2] = goal.mouse /\ goal.mouse \in {"off", "capture"}
  <2>1. goal.mouse \in {"off", "capture"}
    BY WantedTyped DEF TerminalState
  <2> QED BY <2>1, SomeCommands, CommandIsGiven
<1>2. /\ Base(t, k) /\ t.parser = "ground" /\ ~t.sync /\ t.screen = goal.screen
      /\ k.active.screen = goal.screen
      /\ PasteAt(t, k, FALSE) /\ KeyboardAt(k, FALSE) /\ NowrapAt(t, k, FALSE) /\ TitleAt(t, k, FALSE)
  BY SMTT(30) DEF At, PasteAt, KeyboardAt, NowrapAt, TitleAt
<1> DEFINE u == Receive(t, c)
           v == Receive(t, Torn(c))
           a == Attempt(k, c)
           j == Done(k, c, "body")
<1>3. u = [t EXCEPT !.mouse = goal.mouse] /\ v = [t EXCEPT !.mouse = "partial"]
  BY <1>1, <1>2, Grounded, TornGrounded, ZenonT(40)
<1>4. a = [k EXCEPT !.mouseUnconfirmed = TRUE]
  BY <1>1, AttemptTyped
<1>5. j = [k EXCEPT !.mouseUnconfirmed = TRUE, !.active.mouse = goal.mouse]
  <2>1. j = [a EXCEPT !.active[c[1]] = c[2]]
    BY <1>1, DoneIs
  <2> QED BY <1>1, <1>4, <2>1 DEF Backends, ModeStates
<1> HIDE DEF u, v, a, j
<1>6. /\ u.screen = t.screen /\ u.keyboard = t.keyboard /\ u.images = t.images /\ u.upload = t.upload
      /\ u.foreign = t.foreign /\ u.sync = t.sync /\ u.parser = t.parser /\ u.mouse = goal.mouse
      /\ u.paste = t.paste /\ u.nowrap = t.nowrap /\ u.title = t.title
  BY <1>3 DEF Terminals
<1>7. /\ v.screen = t.screen /\ v.keyboard = t.keyboard /\ v.images = t.images /\ v.upload = t.upload
      /\ v.foreign = t.foreign /\ v.sync = t.sync /\ v.parser = t.parser
      /\ v.paste = t.paste /\ v.nowrap = t.nowrap /\ v.title = t.title
  BY <1>3 DEF Terminals
<1>8. /\ a.active = k.active /\ a.confirmed = k.confirmed /\ a.pushed = k.pushed /\ a.owned = k.owned
      /\ a.mapping = k.mapping /\ a.kittyUncertain = k.kittyUncertain /\ a.syncPending = k.syncPending
      /\ a.raw = k.raw /\ a.mouseUnconfirmed /\ a.titleUnconfirmed = k.titleUnconfirmed
  BY <1>4 DEF Backends
<1>9. /\ j.active.screen = k.active.screen /\ j.active.keyboard = k.active.keyboard
      /\ j.active.paste = k.active.paste /\ j.active.nowrap = k.active.nowrap
      /\ j.active.title = k.active.title /\ j.active.mouse = goal.mouse
      /\ j.confirmed = k.confirmed /\ j.pushed = k.pushed /\ j.owned = k.owned
      /\ j.mapping = k.mapping /\ j.kittyUncertain = k.kittyUncertain /\ j.syncPending = k.syncPending
      /\ j.raw = k.raw /\ j.mouseUnconfirmed /\ j.titleUnconfirmed = k.titleUnconfirmed
  BY <1>5 DEF Backends, ModeStates
<1>10. KnowsModes(t, k, FALSE)
  BY <1>2 DEF Base, Known
<1>11. KnowsModes(t, a, FALSE) /\ KnowsModes(v, a, FALSE) /\ KnowsModes(u, j, FALSE)
  BY <1>6, <1>7, <1>8, <1>9, <1>10 DEF KnowsModes
<1>12. Base(t, a)
  BY <1>2, <1>8, <1>11, ModeBase
<1>13. Base(v, a)
  BY <1>2, <1>7, <1>8, <1>11, ModeBase
<1>14. Base(u, j)
  BY <1>2, <1>6, <1>9, <1>11, ModeBase
<1>15. MouseAt(u, j, TRUE) /\ PasteAt(u, j, FALSE) /\ KeyboardAt(j, FALSE) /\ NowrapAt(u, j, FALSE) /\ TitleAt(u, j, FALSE)
  BY <1>2, <1>6, <1>9 DEF MouseAt, PasteAt, KeyboardAt, NowrapAt, TitleAt
<1>16. At(u, j, 1)
  BY <1>2, <1>6, <1>9, <1>14, <1>15 DEF At, MouseAt, PasteAt, KeyboardAt, NowrapAt, TitleAt
<1> QED BY <1>12, <1>13, <1>16 DEF u, v, a, j

LEMMA PasteStep ==
    ASSUME NEW t \in Terminals, NEW k \in Backends, goal \in Desired, At(t, k, 1),
           NEW c, c = <<"paste", goal.paste>>
    PROVE  /\ At(Receive(t, c), Done(k, c, "body"), 2)
           /\ Base(t, Attempt(k, c)) /\ Base(Receive(t, Torn(c)), Attempt(k, c))
<1>1. c \in Given /\ c[1] = "paste" /\ c[2] = goal.paste /\ goal.paste \in BOOLEAN
  <2>1. goal.paste \in BOOLEAN
    BY WantedTyped DEF TerminalState
  <2> QED BY <2>1, SomeCommands, CommandIsGiven
<1>2. /\ Base(t, k) /\ t.parser = "ground" /\ ~t.sync /\ t.screen = goal.screen
      /\ k.active.screen = goal.screen
      /\ MouseAt(t, k, TRUE) /\ PasteAt(t, k, FALSE) /\ KeyboardAt(k, FALSE)
      /\ NowrapAt(t, k, FALSE) /\ TitleAt(t, k, FALSE)
  BY SMTT(30) DEF At, MouseAt, PasteAt, KeyboardAt, NowrapAt, TitleAt
<1> DEFINE u == Receive(t, c)
           v == Receive(t, Torn(c))
           a == Attempt(k, c)
           j == Done(k, c, "body")
<1>3. u = [t EXCEPT !.paste = goal.paste] /\ v = t
  BY <1>1, <1>2, Grounded, TornGrounded, ZenonT(40)
<1>4. a = k
  BY <1>1, AttemptTyped
<1>5. j = [k EXCEPT !.active.paste = goal.paste]
  <2>1. j = [a EXCEPT !.active[c[1]] = c[2]]
    BY <1>1, DoneIs
  <2> QED BY <1>1, <1>4, <2>1 DEF Backends, ModeStates
<1> HIDE DEF u, v, a, j
<1>6. /\ u.screen = t.screen /\ u.keyboard = t.keyboard /\ u.images = t.images /\ u.upload = t.upload
      /\ u.foreign = t.foreign /\ u.sync = t.sync /\ u.parser = t.parser /\ u.mouse = t.mouse
      /\ u.nowrap = t.nowrap /\ u.title = t.title /\ u.paste = goal.paste
  BY <1>3 DEF Terminals
<1>7. /\ j.active.screen = k.active.screen /\ j.active.keyboard = k.active.keyboard
      /\ j.active.mouse = k.active.mouse /\ j.active.nowrap = k.active.nowrap
      /\ j.active.title = k.active.title /\ j.active.paste = goal.paste
      /\ j.confirmed = k.confirmed /\ j.pushed = k.pushed /\ j.owned = k.owned
      /\ j.mapping = k.mapping /\ j.kittyUncertain = k.kittyUncertain /\ j.syncPending = k.syncPending
      /\ j.raw = k.raw /\ j.mouseUnconfirmed = k.mouseUnconfirmed
      /\ j.titleUnconfirmed = k.titleUnconfirmed
  BY <1>5 DEF Backends, ModeStates
<1>8. KnowsModes(t, k, FALSE)
  BY <1>2 DEF Base, Known
<1>9. KnowsModes(u, j, FALSE)
  BY <1>6, <1>7, <1>8 DEF KnowsModes, Kept, TitleKept
<1>10. Base(t, a) /\ Base(v, a)
  BY <1>2, <1>3, <1>4
<1>11. Base(u, j)
  BY <1>2, <1>6, <1>7, <1>9, ModeBase
<1>12. MouseAt(u, j, TRUE) /\ PasteAt(u, j, TRUE) /\ KeyboardAt(j, FALSE)
      /\ NowrapAt(u, j, FALSE) /\ TitleAt(u, j, FALSE)
  BY <1>2, <1>6, <1>7 DEF MouseAt, PasteAt, KeyboardAt, NowrapAt, TitleAt
<1>13. At(u, j, 2)
  BY <1>2, <1>6, <1>7, <1>11, <1>12 DEF At, MouseAt, PasteAt, KeyboardAt, NowrapAt, TitleAt
<1> QED BY <1>10, <1>13 DEF u, v, a, j

LEMMA NowrapStep ==
    ASSUME NEW t \in Terminals, NEW k \in Backends, goal \in Desired, At(t, k, 3),
           NEW c, c = <<"nowrap", goal.nowrap>>
    PROVE  /\ At(Receive(t, c), Done(k, c, "body"), 4)
           /\ Base(t, Attempt(k, c)) /\ Base(Receive(t, Torn(c)), Attempt(k, c))
<1>1. c \in Given /\ c[1] = "nowrap" /\ c[2] = goal.nowrap /\ goal.nowrap \in BOOLEAN
  <2>1. goal.nowrap \in BOOLEAN
    BY WantedTyped DEF TerminalState
  <2> QED BY <2>1, SomeCommands, CommandIsGiven
<1>2. /\ Base(t, k) /\ t.parser = "ground" /\ ~t.sync /\ t.screen = goal.screen
      /\ k.active.screen = goal.screen
      /\ MouseAt(t, k, TRUE) /\ PasteAt(t, k, TRUE) /\ KeyboardAt(k, TRUE)
      /\ NowrapAt(t, k, FALSE) /\ TitleAt(t, k, FALSE)
  BY SMTT(30) DEF At, MouseAt, PasteAt, KeyboardAt, NowrapAt, TitleAt
<1> DEFINE u == Receive(t, c)
           v == Receive(t, Torn(c))
           a == Attempt(k, c)
           j == Done(k, c, "body")
<1>3. u = [t EXCEPT !.nowrap = goal.nowrap] /\ v = t
  BY <1>1, <1>2, Grounded, TornGrounded, ZenonT(40)
<1>4. a = k
  BY <1>1, AttemptTyped
<1>5. j = [k EXCEPT !.active.nowrap = goal.nowrap]
  <2>1. j = [a EXCEPT !.active[c[1]] = c[2]]
    BY <1>1, DoneIs
  <2> QED BY <1>1, <1>4, <2>1 DEF Backends, ModeStates
<1> HIDE DEF u, v, a, j
<1>6. /\ u.screen = t.screen /\ u.keyboard = t.keyboard /\ u.images = t.images /\ u.upload = t.upload
      /\ u.foreign = t.foreign /\ u.sync = t.sync /\ u.parser = t.parser /\ u.mouse = t.mouse
      /\ u.paste = t.paste /\ u.title = t.title /\ u.nowrap = goal.nowrap
  BY <1>3 DEF Terminals
<1>7. /\ j.active.screen = k.active.screen /\ j.active.keyboard = k.active.keyboard
      /\ j.active.mouse = k.active.mouse /\ j.active.paste = k.active.paste
      /\ j.active.title = k.active.title /\ j.active.nowrap = goal.nowrap
      /\ j.confirmed = k.confirmed /\ j.pushed = k.pushed /\ j.owned = k.owned
      /\ j.mapping = k.mapping /\ j.kittyUncertain = k.kittyUncertain /\ j.syncPending = k.syncPending
      /\ j.raw = k.raw /\ j.mouseUnconfirmed = k.mouseUnconfirmed
      /\ j.titleUnconfirmed = k.titleUnconfirmed
  BY <1>5 DEF Backends, ModeStates
<1>8. KnowsModes(t, k, FALSE)
  BY <1>2 DEF Base, Known
<1>9. KnowsModes(u, j, FALSE)
  BY <1>6, <1>7, <1>8 DEF KnowsModes, Kept, TitleKept
<1>10. Base(t, a) /\ Base(v, a)
  BY <1>2, <1>3, <1>4
<1>11. Base(u, j)
  BY <1>2, <1>6, <1>7, <1>9, ModeBase
<1>12. MouseAt(u, j, TRUE) /\ PasteAt(u, j, TRUE) /\ KeyboardAt(j, TRUE)
      /\ NowrapAt(u, j, TRUE) /\ TitleAt(u, j, FALSE)
  BY <1>2, <1>6, <1>7 DEF MouseAt, PasteAt, KeyboardAt, NowrapAt, TitleAt
<1>13. At(u, j, 4)
  BY <1>2, <1>6, <1>7, <1>11, <1>12 DEF At, MouseAt, PasteAt, KeyboardAt, NowrapAt, TitleAt
<1> QED BY <1>10, <1>13 DEF u, v, a, j

LEMMA TitleStep ==
    ASSUME NEW t \in Terminals, NEW k \in Backends, goal \in Desired, At(t, k, 4),
           NEW c, c = <<"title", TitleText(goal)>>
    PROVE  /\ At(Receive(t, c), Done(k, c, "body"), 5)
           /\ Base(t, Attempt(k, c)) /\ Base(Receive(t, Torn(c)), Attempt(k, c))
<1>1. c \in Given /\ c[1] = "title" /\ c[2] = TitleText(goal) /\ goal.title \in Titles
  <2>1. TitleText(goal) \in Titles /\ goal.title \in Titles
    BY WantedTyped
  <2> HIDE DEF Titles
  <2> QED BY <2>1, SomeCommands, CommandIsGiven
<1>2. /\ Base(t, k) /\ t.parser = "ground" /\ ~t.sync /\ t.screen = goal.screen
      /\ k.active.screen = goal.screen
      /\ MouseAt(t, k, TRUE) /\ PasteAt(t, k, TRUE) /\ KeyboardAt(k, TRUE)
      /\ NowrapAt(t, k, TRUE) /\ TitleAt(t, k, FALSE)
  BY DEF At, MouseAt, PasteAt, KeyboardAt, NowrapAt, TitleAt
<1> DEFINE u == Receive(t, c)
           v == Receive(t, Torn(c))
           a == Attempt(k, c)
           j == Done(k, c, "body")
           text == TitleText(goal)
<1>3. u = [t EXCEPT !.title = text] /\ v = [t EXCEPT !.parser = "osc"]
  <2>1. v = [t EXCEPT !.parser = "osc"]
    BY <1>1, <1>2, TornGrounded
  <2>2. u = [t EXCEPT !.title = c[2]]
    BY <1>1, <1>2, Grounded
  <2> QED BY <1>1, <2>1, <2>2, SMTT(30)
<1>4. a = [k EXCEPT !.titleUnconfirmed = TRUE, !.lifecycleUncertain = TRUE]
  BY <1>1, AttemptTyped
<1>5. j = [k EXCEPT !.titleUnconfirmed = TRUE, !.lifecycleUncertain = TRUE, !.active.title = goal.title]
  <2>1. j = [a EXCEPT !.active.title = goal.title]
    BY <1>1, DoneIs
  <2> QED BY <1>4, <2>1 DEF Backends, ModeStates
<1>0. TitleIs(text, goal.title)
  BY DEF TitleIs, TitleText
<1> HIDE DEF u, v, a, j, text
<1>6. /\ u.screen = t.screen /\ u.keyboard = t.keyboard /\ u.images = t.images /\ u.upload = t.upload
      /\ u.foreign = t.foreign /\ u.sync = t.sync /\ u.parser = t.parser /\ u.mouse = t.mouse
      /\ u.paste = t.paste /\ u.nowrap = t.nowrap /\ u.title = text
  BY <1>3 DEF Terminals
<1>7. /\ v.screen = t.screen /\ v.keyboard = t.keyboard /\ v.images = t.images /\ v.upload = t.upload
      /\ v.foreign = t.foreign /\ v.sync = t.sync /\ v.parser = "osc" /\ v.mouse = t.mouse
      /\ v.paste = t.paste /\ v.nowrap = t.nowrap
  BY <1>3 DEF Terminals
<1>8. /\ a.active = k.active /\ a.confirmed = k.confirmed /\ a.pushed = k.pushed /\ a.owned = k.owned
      /\ a.mapping = k.mapping /\ a.kittyUncertain = k.kittyUncertain /\ a.syncPending = k.syncPending
      /\ a.raw = k.raw /\ a.mouseUnconfirmed = k.mouseUnconfirmed /\ a.titleUnconfirmed
      /\ a.lifecycleUncertain
  BY <1>4 DEF Backends
<1>9. /\ j.active.screen = k.active.screen /\ j.active.keyboard = k.active.keyboard
      /\ j.active.paste = k.active.paste /\ j.active.nowrap = k.active.nowrap
      /\ j.active.title = goal.title /\ j.active.mouse = k.active.mouse
      /\ j.confirmed = k.confirmed /\ j.pushed = k.pushed /\ j.owned = k.owned
      /\ j.mapping = k.mapping /\ j.kittyUncertain = k.kittyUncertain /\ j.syncPending = k.syncPending
      /\ j.raw = k.raw /\ j.mouseUnconfirmed = k.mouseUnconfirmed /\ j.titleUnconfirmed
  BY <1>5 DEF Backends, ModeStates
<1>10. KnowsModes(t, k, FALSE)
  BY <1>2 DEF Base, Known
<1>11. KnowsModes(t, a, FALSE) /\ KnowsModes(v, a, FALSE) /\ KnowsModes(u, j, FALSE)
  BY <1>6, <1>7, <1>8, <1>9, <1>10 DEF KnowsModes
<1>12. Base(t, a)
  BY <1>2, <1>8, <1>11, ModeBase
<1>13. Base(v, a)
  BY <1>2, <1>7, <1>8, <1>11, ModeBase
<1>14. Base(u, j)
  BY <1>2, <1>6, <1>9, <1>11, ModeBase
<1>15. MouseAt(u, j, TRUE) /\ PasteAt(u, j, TRUE) /\ KeyboardAt(j, TRUE) /\ NowrapAt(u, j, TRUE)
  BY <1>2, <1>6, <1>9 DEF MouseAt, PasteAt, KeyboardAt, NowrapAt
<1>16. TitleAt(u, j, TRUE)
  BY <1>0, <1>6, <1>9 DEF TitleAt
<1>17. At(u, j, 5)
  BY <1>2, <1>6, <1>9, <1>14, <1>15, <1>16 DEF At, MouseAt, PasteAt, KeyboardAt, NowrapAt, TitleAt
<1> QED BY <1>12, <1>13, <1>17 DEF u, v, a, j

LEMMA CursorStep ==
    ASSUME NEW t \in Terminals, NEW k \in Backends, goal \in Desired, At(t, k, 5),
           NEW c, c = <<"cursor", goal.cursor>>
    PROVE  /\ At(Receive(t, c), Done(k, c, "body"), 5)
           /\ Base(t, Attempt(k, c)) /\ Base(Receive(t, Torn(c)), Attempt(k, c))
<1>1. c \in Given /\ c[1] = "cursor" /\ c[2] = goal.cursor
  <2>1. goal.cursor \in {"hidden", "shown"}
    BY WantedTyped DEF TerminalState
  <2> QED BY <2>1, SomeCommands, CommandIsGiven
<1>2. /\ Base(t, k) /\ t.parser = "ground" /\ ~t.sync /\ t.screen = goal.screen
      /\ k.active.screen = goal.screen
      /\ MouseAt(t, k, TRUE) /\ PasteAt(t, k, TRUE) /\ KeyboardAt(k, TRUE)
      /\ NowrapAt(t, k, TRUE) /\ TitleAt(t, k, TRUE)
  BY SMTT(30) DEF At, MouseAt, PasteAt, KeyboardAt, NowrapAt, TitleAt
<1> DEFINE u == Receive(t, c)
           v == Receive(t, Torn(c))
           a == Attempt(k, c)
           j == Done(k, c, "body")
<1>3. u = [t EXCEPT !.cursor = goal.cursor] /\ v = t
  BY <1>1, <1>2, Grounded, TornGrounded, ZenonT(40)
<1>4. a = k
  BY <1>1, AttemptTyped
<1>5. j = [k EXCEPT !.active.cursor = goal.cursor]
  <2>1. j = [a EXCEPT !.active[c[1]] = c[2]]
    BY <1>1, DoneIs
  <2> QED BY <1>1, <1>4, <2>1 DEF Backends, ModeStates
<1> HIDE DEF u, v, a, j
<1>6. /\ u.screen = t.screen /\ u.keyboard = t.keyboard /\ u.images = t.images /\ u.upload = t.upload
      /\ u.foreign = t.foreign /\ u.sync = t.sync /\ u.parser = t.parser /\ u.mouse = t.mouse
      /\ u.paste = t.paste /\ u.nowrap = t.nowrap /\ u.title = t.title
  BY <1>3 DEF Terminals
<1>7. /\ j.active.screen = k.active.screen /\ j.active.keyboard = k.active.keyboard
      /\ j.active.paste = k.active.paste /\ j.active.nowrap = k.active.nowrap
      /\ j.active.title = k.active.title /\ j.active.mouse = k.active.mouse
      /\ j.confirmed = k.confirmed /\ j.pushed = k.pushed /\ j.owned = k.owned
      /\ j.mapping = k.mapping /\ j.kittyUncertain = k.kittyUncertain /\ j.syncPending = k.syncPending
      /\ j.raw = k.raw /\ j.mouseUnconfirmed = k.mouseUnconfirmed
      /\ j.titleUnconfirmed = k.titleUnconfirmed
  BY <1>5 DEF Backends, ModeStates
<1>8. KnowsModes(u, j, FALSE)
  <2>1. KnowsModes(t, k, FALSE)
    BY <1>2 DEF Base, Known
  <2> QED BY <1>6, <1>7, <2>1 DEF KnowsModes, Kept, TitleKept
<1>9. Base(t, a) /\ Base(v, a)
  BY <1>2, <1>3, <1>4
<1>10. Base(u, j)
  BY <1>2, <1>6, <1>7, <1>8, ModeBase
<1>11. /\ MouseAt(u, j, TRUE) /\ PasteAt(u, j, TRUE) /\ KeyboardAt(j, TRUE)
       /\ NowrapAt(u, j, TRUE) /\ TitleAt(u, j, TRUE)
  BY <1>2, <1>6, <1>7 DEF MouseAt, PasteAt, KeyboardAt, NowrapAt, TitleAt
<1>12. At(u, j, 5)
  BY <1>2, <1>6, <1>7, <1>10, <1>11 DEF At, MouseAt, PasteAt, KeyboardAt, NowrapAt, TitleAt
<1> QED BY <1>9, <1>12 DEF u, v, a, j

\* The keyboard's command, and the note that follows it.
LEMMA KeyboardStep ==
    ASSUME NEW t \in Terminals, NEW k \in Backends, goal \in Desired, At(t, k, 2),
           NEW c \in Given, c[1] = "keyboard",
           c[2] = "push" <=> goal.keyboard = "enhanced", k.pushed <=> goal.keyboard # "enhanced",
           NEW j, j = [Done(k, c, "body") EXCEPT !.active.keyboard = goal.keyboard]
    PROVE  At(Receive(t, c), j, 3) /\ Attempt(k, c) = k /\ Receive(t, Torn(c)) = t
<1>1. c[2] \in {"push", "pop"}
  BY Kinds
<1>2. /\ Base(t, k) /\ t.parser = "ground" /\ ~t.sync /\ t.screen = goal.screen
      /\ k.active.screen = goal.screen
      /\ MouseAt(t, k, TRUE) /\ PasteAt(t, k, TRUE) /\ NowrapAt(t, k, FALSE) /\ TitleAt(t, k, FALSE)
  BY DEF At, MouseAt, PasteAt, NowrapAt, TitleAt
<1> DEFINE u == Receive(t, c)
<1>3. /\ u \in Terminals /\ Receive(t, Torn(c)) = t
      /\ u.screen = t.screen /\ u.mouse = t.mouse /\ u.paste = t.paste
      /\ u.nowrap = t.nowrap /\ u.title = t.title /\ u.cursor = t.cursor /\ u.sync = t.sync
      /\ u.parser = t.parser /\ u.images = t.images /\ u.upload = t.upload /\ u.foreign = t.foreign
      /\ \A s \in Screens : s # t.screen => u.keyboard[s] = t.keyboard[s]
      /\ c[2] = "push" => u.keyboard[t.screen] = t.keyboard[t.screen] + 1
      /\ c[2] = "pop" /\ t.keyboard[t.screen] \in {0, 1} => u.keyboard[t.screen] = 0
  BY <1>2, Keyboards
<1>4. Attempt(k, c) = k
  BY AttemptTyped
<1>5. /\ goal.keyboard = "enhanced" => j = [k EXCEPT !.pushed = TRUE, !.active.keyboard = goal.keyboard]
      /\ goal.keyboard # "enhanced" => j = [k EXCEPT !.pushed = FALSE, !.active.keyboard = goal.keyboard]
  <2>1. CASE c[2] = "push"
    <3>1. Done(k, c, "body") = [k EXCEPT !.pushed = TRUE]
      BY <2>1, DoneIs
    <3> QED BY <2>1, <3>1
  <2>2. CASE c[2] # "push"
    <3>1. Done(k, c, "body") = [k EXCEPT !.pushed = FALSE]
      BY <2>2, DoneIs
    <3> QED BY <2>2, <3>1
  <2> QED BY <2>1, <2>2
<1> HIDE DEF u
<1>6. /\ j.active.screen = k.active.screen /\ j.active.keyboard = goal.keyboard
      /\ j.active.paste = k.active.paste /\ j.active.nowrap = k.active.nowrap
      /\ j.active.title = k.active.title /\ j.active.mouse = k.active.mouse
      /\ j.confirmed = k.confirmed /\ (j.pushed <=> goal.keyboard = "enhanced") /\ j.owned = k.owned
      /\ j.mapping = k.mapping /\ j.kittyUncertain = k.kittyUncertain /\ j.syncPending = k.syncPending
      /\ j.raw = k.raw /\ j.mouseUnconfirmed = k.mouseUnconfirmed
      /\ j.titleUnconfirmed = k.titleUnconfirmed /\ j.lifecycleUncertain = k.lifecycleUncertain
  <2>1. CASE goal.keyboard = "enhanced"
    <3>1. j = [k EXCEPT !.pushed = TRUE, !.active.keyboard = goal.keyboard]
      BY <1>5, <2>1
    <3>2. j.pushed
      BY <3>1 DEF Backends
    <3>3. j.active = [k.active EXCEPT !.keyboard = goal.keyboard] /\ k.active \in ModeStates
      BY <3>1 DEF Backends
    <3>4. /\ j.confirmed = k.confirmed /\ j.owned = k.owned
          /\ j.mapping = k.mapping /\ j.kittyUncertain = k.kittyUncertain /\ j.syncPending = k.syncPending
          /\ j.raw = k.raw /\ j.mouseUnconfirmed = k.mouseUnconfirmed
          /\ j.titleUnconfirmed = k.titleUnconfirmed /\ j.lifecycleUncertain = k.lifecycleUncertain
      BY <3>1 DEF Backends
    <3> QED BY <2>1, <3>2, <3>3, <3>4 DEF ModeStates
  <2>2. CASE goal.keyboard # "enhanced"
    <3>1. j = [k EXCEPT !.pushed = FALSE, !.active.keyboard = goal.keyboard]
      BY <1>5, <2>2
    <3>2. ~j.pushed
      BY <3>1 DEF Backends
    <3>3. j.active = [k.active EXCEPT !.keyboard = goal.keyboard] /\ k.active \in ModeStates
      BY <3>1 DEF Backends
    <3>4. /\ j.confirmed = k.confirmed /\ j.owned = k.owned
          /\ j.mapping = k.mapping /\ j.kittyUncertain = k.kittyUncertain /\ j.syncPending = k.syncPending
          /\ j.raw = k.raw /\ j.mouseUnconfirmed = k.mouseUnconfirmed
          /\ j.titleUnconfirmed = k.titleUnconfirmed /\ j.lifecycleUncertain = k.lifecycleUncertain
      BY <3>1 DEF Backends
    <3> QED BY <2>2, <3>2, <3>3, <3>4 DEF ModeStates
  <2> QED BY <2>1, <2>2
<1>7. Known(t, k, FALSE) /\ ~k.kittyUncertain
  BY <1>2 DEF Base
<1>8. Known(u, j, FALSE)
  <2>1. KnowsWriting(u, j) /\ Enhanced(j)
    BY <1>2, <1>3, <1>6, <1>7 DEF Known, KnowsWriting, Enhanced
  <2>2. KnowsScreen(u, j, FALSE)
    <3>1. Kept(t.screen, k.active.screen, k.confirmed.screen, "main", FALSE) /\ Keys(t, t.screen, k.pushed)
          /\ (k.owned # {} => t.screen = "alternate")
      BY <1>7 DEF Known, KnowsScreen
    <3>2. t.keyboard[t.screen] = (IF k.pushed THEN 1 ELSE 0) /\ \A s \in Screens \ {t.screen} : t.keyboard[s] = 0
      BY <3>1 DEF Keys
    <3>3. u.keyboard[u.screen] = IF j.pushed THEN 1 ELSE 0
      BY <1>1, <1>3, <1>6, <3>2
    <3>4. Keys(u, u.screen, j.pushed)
      BY <1>3, <3>2, <3>3 DEF Keys
    <3>5. Kept(u.screen, j.active.screen, j.confirmed.screen, "main", FALSE)
      BY <1>3, <1>6, <3>1 DEF Kept
    <3> QED BY <1>3, <1>6, <1>7, <3>1, <3>4, <3>5 DEF KnowsScreen
  <2>3. KnowsModes(u, j, FALSE)
    BY <1>3, <1>6, <1>7 DEF Known, KnowsModes, Kept, TitleKept
  <2>4. KnowsImages(u, j)
    BY <1>3, <1>6, <1>7 DEF Known, KnowsImages, Ids
  <2> QED BY <2>1, <2>2, <2>3, <2>4 DEF Known
<1>9. Base(u, j)
  BY <1>2, <1>6, <1>8 DEF Base
<1>10. /\ MouseAt(u, j, TRUE) /\ PasteAt(u, j, TRUE) /\ KeyboardAt(j, TRUE)
       /\ NowrapAt(u, j, FALSE) /\ TitleAt(u, j, FALSE)
  BY <1>2, <1>3, <1>6 DEF MouseAt, PasteAt, KeyboardAt, NowrapAt, TitleAt
<1>11. At(u, j, 3)
  BY <1>2, <1>3, <1>6, <1>9, <1>10 DEF At, MouseAt, PasteAt, KeyboardAt, NowrapAt, TitleAt
<1> QED BY <1>3, <1>4, <1>11 DEF u

\* Pairs of a terminal and a backend on the way through apply_state.
BodyBase == {z \in Terminals \X Backends : Base(z[1], z[2])}
BodyStage(n) == {z \in Terminals \X Backends : At(z[1], z[2], n)}

\* A mode that is as wanted already.
LEMMA ModesSkipped ==
    ASSUME NEW t \in Terminals, NEW k \in Backends, goal \in Desired, b \in Backends
    PROVE  /\ At(t, k, 0) /\ ~(b.mouseUnconfirmed \/ Changed(goal, "mouse")) => At(t, k, 1)
           /\ At(t, k, 1) /\ ~Changed(goal, "paste") => At(t, k, 2)
           /\ At(t, k, 3) /\ ~Changed(goal, "nowrap") => At(t, k, 4)
           /\ At(t, k, 4) /\ ~(b.titleUnconfirmed \/ Changed(goal, "title")) => At(t, k, 5)
<1>1. ASSUME At(t, k, 0), ~(b.mouseUnconfirmed \/ Changed(goal, "mouse")) PROVE At(t, k, 1)
  <2>1. goal.mouse = b.active.mouse /\ goal.mouse = b.confirmed.mouse /\ ~b.mouseUnconfirmed
    BY <1>1 DEF Changed
  <2>2. k.active.mouse = b.active.mouse /\ ~k.mouseUnconfirmed
    BY <1>1, <2>1 DEF At, MouseAt
  <2>3. k.confirmed = b.confirmed /\ KnowsModes(t, k, FALSE)
    BY <1>1 DEF At, Base, Known
  <2>4. t.mouse = goal.mouse
    BY <2>1, <2>2, <2>3 DEF KnowsModes, Kept
  <2>5. MouseAt(t, k, TRUE)
    BY <2>1, <2>2, <2>4 DEF MouseAt
  <2> QED BY <1>1, <2>5 DEF At, MouseAt, PasteAt, KeyboardAt, NowrapAt, TitleAt
<1>2. ASSUME At(t, k, 1), ~Changed(goal, "paste") PROVE At(t, k, 2)
  <2>1. goal.paste = b.active.paste /\ goal.paste = b.confirmed.paste
    BY <1>2 DEF Changed
  <2>2. k.active.paste <=> b.active.paste
    BY <1>2 DEF At, PasteAt
  <2>3. k.confirmed = b.confirmed /\ KnowsModes(t, k, FALSE)
    BY <1>2 DEF At, Base, Known
  <2>4. t.paste \in BOOLEAN /\ k.active.paste \in BOOLEAN /\ b.active.paste \in BOOLEAN /\ goal.paste \in BOOLEAN
    BY WantedTyped DEF Terminals, Backends, ModeStates, TerminalState
  <2>5. t.paste <=> goal.paste
    BY <2>1, <2>2, <2>3, <2>4 DEF KnowsModes, Kept
  <2>6. PasteAt(t, k, TRUE)
    BY <2>1, <2>2, <2>4, <2>5 DEF PasteAt
  <2> QED BY <1>2, <2>6 DEF At, MouseAt, PasteAt, KeyboardAt, NowrapAt, TitleAt
<1>3. ASSUME At(t, k, 3), ~Changed(goal, "nowrap") PROVE At(t, k, 4)
  <2>1. goal.nowrap = b.active.nowrap /\ goal.nowrap = b.confirmed.nowrap
    BY <1>3 DEF Changed
  <2>2. k.active.nowrap <=> b.active.nowrap
    BY <1>3 DEF At, NowrapAt
  <2>3. k.confirmed = b.confirmed /\ KnowsModes(t, k, FALSE)
    BY <1>3 DEF At, Base, Known
  <2>4. t.nowrap \in BOOLEAN /\ k.active.nowrap \in BOOLEAN /\ b.active.nowrap \in BOOLEAN /\ goal.nowrap \in BOOLEAN
    BY WantedTyped DEF Terminals, Backends, ModeStates, TerminalState
  <2>5. t.nowrap <=> goal.nowrap
    BY <2>1, <2>2, <2>3, <2>4 DEF KnowsModes, Kept
  <2>6. NowrapAt(t, k, TRUE)
    BY <2>1, <2>2, <2>4, <2>5 DEF NowrapAt
  <2> QED BY <1>3, <2>6 DEF At, MouseAt, PasteAt, KeyboardAt, NowrapAt, TitleAt
<1>4. ASSUME At(t, k, 4), ~(b.titleUnconfirmed \/ Changed(goal, "title")) PROVE At(t, k, 5)
  <2>1. goal.title = b.active.title /\ goal.title = b.confirmed.title /\ ~b.titleUnconfirmed
    BY <1>4 DEF Changed
  <2>2. k.active.title = b.active.title /\ ~k.titleUnconfirmed
    BY <1>4, <2>1 DEF At, TitleAt
  <2>3. k.confirmed = b.confirmed /\ KnowsModes(t, k, FALSE)
    BY <1>4 DEF At, Base, Known
  <2>4. TitleIs(t.title, goal.title)
    BY <2>1, <2>2, <2>3 DEF KnowsModes, TitleKept
  <2>5. TitleAt(t, k, TRUE)
    BY <2>1, <2>2, <2>4 DEF TitleAt
  <2> QED BY <1>4, <2>5 DEF At, MouseAt, PasteAt, KeyboardAt, NowrapAt, TitleAt
<1> QED BY <1>1, <1>2, <1>3, <1>4

\* The keyboard's note alone, or nothing.
LEMMA KeyboardSkipped ==
    ASSUME NEW t \in Terminals, NEW k \in Backends, goal \in Desired, b \in Backends, At(t, k, 2),
           k.pushed <=> goal.keyboard = "enhanced"
    PROVE  /\ \A j : j = [k EXCEPT !.active.keyboard = goal.keyboard] => At(t, j, 3)
           /\ ~Changed(goal, "keyboard") => At(t, k, 3)
<1>1. /\ Base(t, k) /\ t.parser = "ground" /\ ~t.sync /\ t.screen = goal.screen
      /\ k.active.screen = goal.screen
      /\ MouseAt(t, k, TRUE) /\ PasteAt(t, k, TRUE) /\ NowrapAt(t, k, FALSE) /\ TitleAt(t, k, FALSE)
      /\ k.active.keyboard = b.active.keyboard
  BY DEF At, MouseAt, PasteAt, NowrapAt, TitleAt, KeyboardAt
<1>2. ASSUME NEW j, j = [k EXCEPT !.active.keyboard = goal.keyboard] PROVE At(t, j, 3)
  <2>1. j.active = [k.active EXCEPT !.keyboard = goal.keyboard] /\ k.active \in ModeStates
    BY <1>2 DEF Backends
  <2>2. /\ j.confirmed = k.confirmed /\ j.owned = k.owned /\ j.pushed = k.pushed
        /\ j.mapping = k.mapping /\ j.kittyUncertain = k.kittyUncertain /\ j.syncPending = k.syncPending
        /\ j.raw = k.raw /\ j.mouseUnconfirmed = k.mouseUnconfirmed
        /\ j.titleUnconfirmed = k.titleUnconfirmed /\ j.lifecycleUncertain = k.lifecycleUncertain
    BY <1>2 DEF Backends
  <2>3. /\ j.active.screen = k.active.screen /\ j.active.keyboard = goal.keyboard
        /\ j.active.paste = k.active.paste /\ j.active.nowrap = k.active.nowrap
        /\ j.active.title = k.active.title /\ j.active.mouse = k.active.mouse
    BY <2>1 DEF ModeStates
  <2>4. Known(t, k, FALSE)
    BY <1>1 DEF Base
  <2>5. KnowsWriting(t, j) /\ KnowsScreen(t, j, FALSE)
    BY <2>2, <2>3, <2>4 DEF Known, KnowsWriting, KnowsScreen
  <2>6. KnowsModes(t, j, FALSE) /\ KnowsImages(t, j) /\ Enhanced(j)
    BY <2>2, <2>3, <2>4 DEF Known, KnowsModes, KnowsImages, Enhanced
  <2>7. Base(t, j)
    BY <1>1, <2>2, <2>5, <2>6 DEF Base, Known
  <2>8. /\ MouseAt(t, j, TRUE) /\ PasteAt(t, j, TRUE) /\ KeyboardAt(j, TRUE)
        /\ NowrapAt(t, j, FALSE) /\ TitleAt(t, j, FALSE)
    BY <1>1, <2>2, <2>3 DEF MouseAt, PasteAt, KeyboardAt, NowrapAt, TitleAt
  <2> QED BY <1>1, <2>3, <2>7, <2>8 DEF At, MouseAt, PasteAt, KeyboardAt, NowrapAt, TitleAt
<1>3. ASSUME ~Changed(goal, "keyboard") PROVE At(t, k, 3)
  <2>1. goal.keyboard = b.active.keyboard
    BY <1>3 DEF Changed
  <2>2. KeyboardAt(k, TRUE)
    BY <1>1, <2>1 DEF KeyboardAt
  <2> QED BY <1>1, <2>2 DEF At, MouseAt, PasteAt, KeyboardAt, NowrapAt, TitleAt
<1> QED BY <1>2, <1>3

\* A command that is not always sent, between pairs.
LEMMA PairIf ==
    ASSUME NEW P, NEW Q, NEW R, NEW c \in Given, NEW kind, NEW condition \in BOOLEAN,
           \A z \in P : <<z[1], z[2]>> = z,
           ~condition => P \subseteq Q,
           condition => \A z \in P : /\ <<Receive(z[1], c), Done(z[2], c, kind)>> \in Q
                                     /\ c[1] # "note" =>
                                          /\ <<z[1], Attempt(z[2], c)>> \in R
                                          /\ <<Receive(z[1], Torn(c)), Attempt(z[2], c)>> \in R
    PROVE  Path(P, If(condition, <<c>>), kind, Q, R) /\ If(condition, <<c>>) \in Seq(Given)
<1>1. CASE condition
  <2>1. If(condition, <<c>>) = <<c>>
    BY <1>1 DEF If
  <2>2. Path(P, <<c>>, kind, Q, R)
    BY <1>1, PathOne
  <2> QED BY <2>1, <2>2, SMTT(30)
<1>2. CASE ~condition
  <2>1. If(condition, <<c>>) = <<>>
    BY <1>2 DEF If
  <2>2. Path(P, <<>>, kind, Q, R)
    BY <1>2, PathEmpty
  <2> QED BY <2>1, <2>2
<1> QED BY <1>1, <1>2

LEMMA PairThen ==
    ASSUME NEW front \in Seq(Given), NEW cs \in Seq(Given), NEW P, NEW Q, NEW S,
           NEW R, NEW kind, Path(P, front, kind, Q, R), Path(Q, cs, kind, S, R)
    PROVE  Path(P, front \o cs, kind, S, R) /\ front \o cs \in Seq(Given)
BY PathBoth, ConcatProperties

\* What apply_state starts from.
Starts == 
    /\ b \in Backends /\ Virtual \in KnownTerminals(b, FALSE) /\ goal \in Desired
    /\ ~b.lifecycleUncertain /\ ~b.syncPending /\ ~b.kittyUncertain
    /\ Leaving(goal) => b.owned = {}

LEMMA StartBase ==
    ASSUME Starts
    PROVE  /\ Base(Virtual, b) /\ Virtual \in Terminals /\ Virtual.parser = "ground" /\ ~Virtual.sync
           /\ ~Changed(goal, "screen") => At(Virtual, b, 0)
<1>1. Known(Virtual, b, FALSE) /\ Virtual \in Terminals /\ ~b.lifecycleUncertain /\ ~b.syncPending
      /\ ~b.kittyUncertain
  BY DEF Starts, KnownTerminals
<1>2. Base(Virtual, b)
  BY <1>1 DEF Base
<1>3. Virtual.parser = "ground" /\ ~Virtual.sync
  BY <1>1 DEF Known, KnowsWriting, Terminals
<1>4. ASSUME ~Changed(goal, "screen") PROVE At(Virtual, b, 0)
  <2>1. goal.screen = b.active.screen /\ goal.screen = b.confirmed.screen
    BY <1>4 DEF Changed
  <2>2. KnowsScreen(Virtual, b, FALSE)
    BY <1>1 DEF Known
  <2>3. Virtual.screen = goal.screen
    BY <1>1, <2>1, <2>2 DEF KnowsScreen, Kept
  <2>4. KeyboardAt(b, FALSE)
    BY <1>4 DEF KeyboardAt
  <2>5. MouseAt(Virtual, b, FALSE) /\ PasteAt(Virtual, b, FALSE) /\ NowrapAt(Virtual, b, FALSE)
        /\ TitleAt(Virtual, b, FALSE)
    BY DEF MouseAt, PasteAt, NowrapAt, TitleAt
  <2> QED BY <1>2, <1>3, <2>1, <2>3, <2>4, <2>5 DEF At, MouseAt, PasteAt, KeyboardAt, NowrapAt, TitleAt
<1> QED BY <1>1, <1>2, <1>3, <1>4

\* Before the screen is switched no keyboard mode is left on it.
Popped(t, k) ==
    /\ Base(t, k) /\ t.parser = "ground" /\ ~t.sync
    /\ k.active = b.active /\ k.mouseUnconfirmed = b.mouseUnconfirmed
    /\ k.titleUnconfirmed = b.titleUnconfirmed /\ ~k.pushed
PoppedPairs == {z \in Terminals \X Backends : Popped(z[1], z[2])}

LEMMA PopDone ==
    ASSUME NEW k, NEW c \in Given, c[1] = "keyboard", c[2] = "pop", NEW kind
    PROVE  Done(k, c, kind) = [k EXCEPT !.pushed = FALSE]
BY DoneIs, SMTT(30)

LEMMA PopStep ==
    ASSUME Starts, NEW c, c = <<"keyboard", "pop">>
    PROVE  /\ ~b.pushed => Popped(Virtual, b)
           /\ Popped(Receive(Virtual, c), Done(b, c, "body"))
           /\ Attempt(b, c) = b /\ Receive(Virtual, Torn(c)) = Virtual
<1>1. Base(Virtual, b) /\ Virtual \in Terminals /\ Virtual.parser = "ground" /\ ~Virtual.sync
  BY StartBase
<1>2. c \in Given /\ c[1] = "keyboard" /\ c[2] = "pop"
  BY SomeCommands, CommandIsGiven
<1>3. b \in Backends
  BY DEF Starts
<1>4. ~b.pushed => Popped(Virtual, b)
  BY <1>1 DEF Popped
<1> DEFINE t == Virtual
           u == Receive(t, c)
           j == Done(b, c, "body")
<1>5. j = [b EXCEPT !.pushed = FALSE] /\ Attempt(b, c) = b
  <2>1. j = [b EXCEPT !.pushed = FALSE]
    <3>1. \A kind : Done(b, c, kind) = [b EXCEPT !.pushed = FALSE]
      BY <1>2, PopDone
    <3> QED BY <3>1
  <2>2. Attempt(b, c) = b
    BY <1>2, <1>3, AttemptTyped
  <2> QED BY <2>1, <2>2
<1> HIDE DEF t
<1>10. Base(t, b) /\ t \in Terminals /\ t.parser = "ground" /\ ~t.sync
  BY <1>1 DEF t
<1>6. /\ u \in Terminals /\ Receive(t, Torn(c)) = t
      /\ u.screen = t.screen /\ u.mouse = t.mouse /\ u.paste = t.paste
      /\ u.nowrap = t.nowrap /\ u.title = t.title /\ u.cursor = t.cursor /\ u.sync = t.sync
      /\ u.parser = t.parser /\ u.images = t.images /\ u.upload = t.upload /\ u.foreign = t.foreign
      /\ \A s \in Screens : s # t.screen => u.keyboard[s] = t.keyboard[s]
      /\ c[2] = "pop" /\ t.keyboard[t.screen] \in {0, 1} => u.keyboard[t.screen] = 0
  BY <1>2, <1>10, Keyboards
<1> HIDE DEF u, j
<1>7. /\ j.active = b.active /\ j.confirmed = b.confirmed /\ ~j.pushed /\ j.owned = b.owned
      /\ j.mapping = b.mapping /\ j.kittyUncertain = b.kittyUncertain /\ j.syncPending = b.syncPending
      /\ j.raw = b.raw /\ j.mouseUnconfirmed = b.mouseUnconfirmed
      /\ j.titleUnconfirmed = b.titleUnconfirmed /\ j.lifecycleUncertain = b.lifecycleUncertain
  BY <1>3, <1>5 DEF Backends
<1>8. Known(t, b, FALSE) /\ ~b.kittyUncertain
  BY <1>10 DEF Base
<1>9. Known(u, j, FALSE)
  <2>1. KnowsWriting(u, j) /\ Enhanced(j)
    BY <1>6, <1>7, <1>8 DEF Known, KnowsWriting, Enhanced
  <2>2. KnowsScreen(u, j, FALSE)
    <3>1. Kept(t.screen, b.active.screen, b.confirmed.screen, "main", FALSE) /\ Keys(t, t.screen, b.pushed)
          /\ (b.owned # {} => t.screen = "alternate")
      BY <1>8 DEF Known, KnowsScreen
    <3>2. t.keyboard[t.screen] \in {0, 1} /\ \A s \in Screens \ {t.screen} : t.keyboard[s] = 0
      BY <3>1 DEF Keys
    <3>3. u.keyboard[u.screen] = 0
      BY <1>2, <1>6, <3>2
    <3>4. Keys(u, u.screen, j.pushed)
      BY <1>6, <1>7, <3>2, <3>3 DEF Keys
    <3>5. Kept(u.screen, j.active.screen, j.confirmed.screen, "main", FALSE)
      BY <1>6, <1>7, <3>1 DEF Kept
    <3> QED BY <1>6, <1>7, <1>8, <3>1, <3>4, <3>5 DEF KnowsScreen
  <2>3. KnowsModes(u, j, FALSE)
    BY <1>6, <1>7, <1>8 DEF Known, KnowsModes, Kept, TitleKept
  <2>4. KnowsImages(u, j)
    BY <1>6, <1>7, <1>8 DEF Known, KnowsImages, Ids
  <2> QED BY <2>1, <2>2, <2>3, <2>4 DEF Known
<1>11. Base(u, j)
  BY <1>7, <1>9, <1>10 DEF Base
<1>12. Popped(u, j)
  BY <1>6, <1>7, <1>10, <1>11 DEF Popped
<1> QED BY <1>4, <1>5, <1>6, <1>12 DEF u, j, t

LEMMA ScreenStep ==
    ASSUME Starts, Changed(goal, "screen"), NEW t \in Terminals, NEW k \in Backends, Popped(t, k),
           NEW c, c = <<"screen", goal.screen>>
    PROVE  At(Receive(t, c), Done(k, c, "body"), 0) /\ Attempt(k, c) = k /\ Receive(t, Torn(c)) = t
<1>1. goal \in Desired /\ b \in Backends /\ (Leaving(goal) => b.owned = {})
  BY DEF Starts
<1>2. goal.screen \in Screens
  BY <1>1, WantedTyped DEF TerminalState
<1>3. c \in Given /\ c[1] = "screen" /\ c[2] = goal.screen
  BY <1>2, SomeCommands, CommandIsGiven
<1>4. /\ Base(t, k) /\ t.parser = "ground" /\ ~t.sync
      /\ k.active = b.active /\ k.mouseUnconfirmed = b.mouseUnconfirmed
      /\ k.titleUnconfirmed = b.titleUnconfirmed /\ ~k.pushed
  BY DEF Popped
<1> DEFINE u == Receive(t, c)
           j == Done(k, c, "body")
<1>5. /\ u \in Terminals /\ Receive(t, Torn(c)) = t
      /\ u.screen = goal.screen /\ u.keyboard = t.keyboard /\ u.mouse = t.mouse /\ u.paste = t.paste
      /\ u.nowrap = t.nowrap /\ u.title = t.title /\ u.cursor = t.cursor /\ u.sync = t.sync
      /\ u.parser = t.parser /\ u.images = t.images /\ u.upload = t.upload /\ u.foreign = t.foreign
  BY <1>2, <1>4, Switches
<1>6. Attempt(k, c) = k
  BY <1>3, AttemptTyped
<1>7. j = [k EXCEPT !.active.screen = goal.screen]
  <2>1. j = [Attempt(k, c) EXCEPT !.active[c[1]] = c[2]]
    BY <1>3, DoneIs
  <2> QED BY <1>3, <1>6, <2>1 DEF Backends, ModeStates
<1> HIDE DEF u, j
<1>8. j.active = [k.active EXCEPT !.screen = goal.screen] /\ k.active \in ModeStates
  BY <1>7 DEF Backends
<1>9. /\ j.confirmed = k.confirmed /\ j.owned = k.owned /\ j.pushed = k.pushed
      /\ j.mapping = k.mapping /\ j.kittyUncertain = k.kittyUncertain /\ j.syncPending = k.syncPending
      /\ j.raw = k.raw /\ j.mouseUnconfirmed = k.mouseUnconfirmed
      /\ j.titleUnconfirmed = k.titleUnconfirmed /\ j.lifecycleUncertain = k.lifecycleUncertain
  BY <1>7 DEF Backends
<1>10. /\ j.active.screen = goal.screen /\ j.active.keyboard = k.active.keyboard
       /\ j.active.paste = k.active.paste /\ j.active.nowrap = k.active.nowrap
       /\ j.active.title = k.active.title /\ j.active.mouse = k.active.mouse
  BY <1>8 DEF ModeStates
<1>11. Known(t, k, FALSE) /\ ~k.kittyUncertain /\ k.owned = b.owned
  BY <1>4 DEF Base
<1>12. k.owned # {} => goal.screen = "alternate"
  <2>1. k.owned # {} => b.active.screen = "alternate"
    BY <1>4, <1>11 DEF Known, KnowsImages
  <2>2. k.owned # {} => ~Leaving(goal)
    BY <1>1, <1>11
  <2> QED BY <1>2, <2>1, <2>2 DEF Leaving, Screens
<1>13. Known(u, j, FALSE)
  <2>1. KnowsWriting(u, j) /\ Enhanced(j)
    BY <1>4, <1>5, <1>9, <1>11 DEF Known, KnowsWriting, Enhanced
  <2>2. KnowsScreen(u, j, FALSE)
    <3>1. Keys(t, t.screen, k.pushed)
      BY <1>11 DEF Known, KnowsScreen
    <3>2. \A s \in Screens : t.keyboard[s] = 0
      BY <1>4, <3>1 DEF Keys
    <3>3. Keys(u, u.screen, j.pushed)
      BY <1>2, <1>4, <1>5, <1>9, <3>2 DEF Keys
    <3>4. Kept(u.screen, j.active.screen, j.confirmed.screen, "main", FALSE)
      BY <1>5, <1>10 DEF Kept
    <3> QED BY <1>5, <1>9, <1>11, <1>12, <3>3, <3>4 DEF KnowsScreen
  <2>3. KnowsModes(u, j, FALSE)
    BY <1>5, <1>9, <1>10, <1>11 DEF Known, KnowsModes, Kept, TitleKept
  <2>4. KnowsImages(u, j)
    BY <1>5, <1>9, <1>10, <1>11, <1>12 DEF Known, KnowsImages, Ids
  <2> QED BY <2>1, <2>2, <2>3, <2>4 DEF Known
<1>14. Base(u, j)
  BY <1>4, <1>9, <1>13 DEF Base
<1>15. /\ MouseAt(u, j, FALSE) /\ PasteAt(u, j, FALSE) /\ KeyboardAt(j, FALSE)
       /\ NowrapAt(u, j, FALSE) /\ TitleAt(u, j, FALSE)
  BY <1>4, <1>9, <1>10 DEF MouseAt, PasteAt, KeyboardAt, NowrapAt, TitleAt
<1>16. At(u, j, 0)
  BY <1>4, <1>5, <1>10, <1>14, <1>15 DEF At, MouseAt, PasteAt, KeyboardAt, NowrapAt, TitleAt
<1> QED BY <1>5, <1>6, <1>16 DEF u, j

LEMMA NoDeletions == Deletions({}) = <<>>
BY FS_EmptySet DEF Deletions

LEMMA Pairs ==
    /\ \A n : \A z \in BodyStage(n) : /\ <<z[1], z[2]>> = z /\ z[1] \in Terminals /\ z[2] \in Backends
                                      /\ At(z[1], z[2], n)
    /\ \A z \in PoppedPairs : /\ <<z[1], z[2]>> = z /\ z[1] \in Terminals /\ z[2] \in Backends
                              /\ Popped(z[1], z[2])
    /\ \A n : \A t \in Terminals, k \in Backends : At(t, k, n) => <<t, k>> \in BodyStage(n)
    /\ \A t \in Terminals, k \in Backends : Popped(t, k) => <<t, k>> \in PoppedPairs
    /\ \A t \in Terminals, k \in Backends : Base(t, k) => <<t, k>> \in BodyBase
BY DEF BodyStage, PoppedPairs, BodyBase

LEMMA ScreenPath ==
    ASSUME Starts, NEW cs,
           cs = If(Changed(goal, "screen"),
                   If(b.pushed, << <<"keyboard", "pop">> >>)
                     \o If(Leaving(goal), Deletions(b.owned)) \o << <<"screen", goal.screen>> >>)
    PROVE  cs \in Seq(Given) /\ Path({<<Virtual, b>>}, cs, "body", BodyStage(0), BodyBase)
<1> DEFINE P == {<<Virtual, b>>}
           pop == <<"keyboard", "pop">>
           to == <<"screen", goal.screen>>
           s1 == If(b.pushed, <<pop>>)
           s2 == If(Leaving(goal), Deletions(b.owned))
           s3 == <<to>>
           Q == BodyStage(0)
           R == BodyBase
<1>1. b \in Backends /\ goal \in Desired /\ Virtual \in Terminals
  BY DEF Starts, KnownTerminals
<1>2. goal.screen \in Screens
  BY <1>1, WantedTyped DEF TerminalState
<1>3. pop \in Given /\ to \in Given /\ pop \in Commands /\ to \in Commands /\ pop[1] = "keyboard"
  BY <1>2, SomeCommands, CommandIsGiven
<1>4. s2 = <<>>
  <2>1. Leaving(goal) => b.owned = {}
    BY DEF Starts
  <2> QED BY <2>1, NoDeletions DEF If
<1>5. CASE ~Changed(goal, "screen")
  <2>1. cs = <<>>
    BY <1>5 DEF If
  <2>2. At(Virtual, b, 0)
    BY <1>5, StartBase
  <2>3. <<Virtual, b>> \in Q
    BY <1>1, <2>2, Pairs
  <2> HIDE DEF Q, R
  <2>4. \A z \in P : <<z[1], z[2]>> \in Q
    BY <2>3
  <2> HIDE DEF P
  <2>5. Path(P, <<>>, "body", Q, R)
    BY <2>4, PathEmpty
  <2>6. cs \in Seq(Given)
    <3>1. <<>> \in Seq(Given)
      BY EmptySeq
    <3> QED BY <2>1, <3>1, Zenon
  <2> QED BY <2>1, <2>5, <2>6 DEF P, Q, R
<1>6. CASE Changed(goal, "screen")
  <2>1. cs = (s1 \o s2) \o s3
    BY <1>6 DEF If
  <2>2. Path(P, s1, "body", PoppedPairs, R) /\ s1 \in Seq(Given)
    <3>1. b.pushed \in BOOLEAN
      BY <1>1 DEF Backends
    <3>2. /\ ~b.pushed => Popped(Virtual, b)
          /\ Popped(Receive(Virtual, pop), Done(b, pop, "body"))
          /\ Attempt(b, pop) = b /\ Receive(Virtual, Torn(pop)) = Virtual
      BY PopStep
    <3>3. <<Virtual, b>> \in R
      BY <1>1, StartBase, Pairs
    <3>4. ~b.pushed => <<Virtual, b>> \in PoppedPairs
      BY <1>1, <3>2, Pairs
    <3> HIDE DEF pop, R
    <3>5. Receive(Virtual, pop) \in Terminals /\ Done(b, pop, "body") \in Backends
      BY <1>1, <1>3, GivenTyped, DoneTyped
    <3>6. <<Receive(Virtual, pop), Done(b, pop, "body")>> \in PoppedPairs
      BY <3>2, <3>5, Pairs
    <3>7. \A z \in P : <<z[1], z[2]>> = z
      OBVIOUS
    <3>8. ~b.pushed => P \subseteq PoppedPairs
      BY <3>4
    <3>9. b.pushed => \A z \in P : /\ <<Receive(z[1], pop), Done(z[2], pop, "body")>> \in PoppedPairs
                                   /\ pop[1] # "note" =>
                                        /\ <<z[1], Attempt(z[2], pop)>> \in R
                                        /\ <<Receive(z[1], Torn(pop)), Attempt(z[2], pop)>> \in R
      BY <3>2, <3>3, <3>6
    <3> HIDE DEF P
    <3> QED BY <1>3, <3>1, <3>7, <3>8, <3>9, PairIf
  <2>3. Path(PoppedPairs, s3, "body", Q, R) /\ s3 \in Seq(Given)
    <3>1. ASSUME NEW z \in PoppedPairs
          PROVE  /\ <<Receive(z[1], to), Done(z[2], to, "body")>> \in Q
                 /\ to[1] # "note" => /\ <<z[1], Attempt(z[2], to)>> \in R
                                      /\ <<Receive(z[1], Torn(to)), Attempt(z[2], to)>> \in R
      <4> DEFINE t == z[1]
                 k == z[2]
      <4>1. t \in Terminals /\ k \in Backends /\ Popped(t, k)
        BY Pairs
      <4>2. At(Receive(t, to), Done(k, to, "body"), 0) /\ Attempt(k, to) = k /\ Receive(t, Torn(to)) = t
        BY <1>6, <4>1, ScreenStep
      <4>3. <<t, k>> \in R
        BY <4>1, Pairs DEF Popped
      <4> HIDE DEF to, t, k
      <4>4. Receive(t, to) \in Terminals /\ Done(k, to, "body") \in Backends
        BY <1>1, <1>3, <4>1, GivenTyped, DoneTyped
      <4>5. <<Receive(t, to), Done(k, to, "body")>> \in Q
        BY <4>2, <4>4, Pairs
      <4> QED BY <4>2, <4>3, <4>5 DEF t, k
    <3> HIDE DEF to, Q, R
    <3>2. Path(PoppedPairs, <<to>>, "body", Q, R)
      BY <3>1, PathOne
    <3> QED BY <1>3, <3>2
  <2> HIDE DEF s1, s2, s3, P, Q, R
  <2>4. s1 \o s2 = s1
    BY <1>4, <2>2, ConcatEmptySeq
  <2>5. Path(P, s1 \o s3, "body", Q, R) /\ s1 \o s3 \in Seq(Given)
    BY <2>2, <2>3, PairThen
  <2> QED BY <2>1, <2>4, <2>5 DEF P, Q, R
<1> QED BY <1>5, <1>6

LEMMA ModesPath ==
    ASSUME Starts
    PROVE  /\ \A cs : cs = If(b.mouseUnconfirmed \/ Changed(goal, "mouse"), << <<"mouse", goal.mouse>> >>) =>
                 cs \in Seq(Given) /\ Path(BodyStage(0), cs, "body", BodyStage(1), BodyBase)
           /\ \A cs : cs = If(Changed(goal, "paste"), << <<"paste", goal.paste>> >>) =>
                 cs \in Seq(Given) /\ Path(BodyStage(1), cs, "body", BodyStage(2), BodyBase)
           /\ \A cs : cs = If(Changed(goal, "nowrap"), << <<"nowrap", goal.nowrap>> >>) =>
                 cs \in Seq(Given) /\ Path(BodyStage(3), cs, "body", BodyStage(4), BodyBase)
           /\ \A cs : cs = If(b.titleUnconfirmed \/ Changed(goal, "title"), << <<"title", TitleText(goal)>> >>) =>
                 cs \in Seq(Given) /\ Path(BodyStage(4), cs, "body", BodyStage(5), BodyBase)
           /\ \A cs : cs = If(Changed(goal, "cursor"), << <<"cursor", goal.cursor>> >>) =>
                 cs \in Seq(Given) /\ Path(BodyStage(5), cs, "body", BodyStage(5), BodyBase)
<1>1. b \in Backends /\ goal \in Desired
  BY DEF Starts
<1>2. /\ goal.mouse \in {"off", "capture"} /\ goal.paste \in BOOLEAN /\ goal.nowrap \in BOOLEAN
      /\ goal.cursor \in {"hidden", "shown"}
  BY <1>1, WantedTyped DEF TerminalState
<1>3. TitleText(goal) \in Titles
  BY <1>1, WantedTyped
\* One of the modes, from stage m to stage n.
<1>4. ASSUME NEW m, NEW n, NEW condition \in BOOLEAN, NEW c \in Given,
             \A t \in Terminals, k \in Backends : At(t, k, m) /\ ~condition => At(t, k, n),
             \A t \in Terminals, k \in Backends : At(t, k, m) =>
                 /\ At(Receive(t, c), Done(k, c, "body"), n)
                 /\ Base(t, Attempt(k, c)) /\ Base(Receive(t, Torn(c)), Attempt(k, c))
      PROVE  /\ If(condition, <<c>>) \in Seq(Given)
             /\ Path(BodyStage(m), If(condition, <<c>>), "body", BodyStage(n), BodyBase)
  <2> DEFINE P == BodyStage(m)
             Q == BodyStage(n)
             R == BodyBase
  <2>1. ASSUME NEW z \in P
        PROVE  /\ <<z[1], z[2]>> = z
               /\ ~condition => z \in Q
               /\ <<Receive(z[1], c), Done(z[2], c, "body")>> \in Q
               /\ <<z[1], Attempt(z[2], c)>> \in R
               /\ <<Receive(z[1], Torn(c)), Attempt(z[2], c)>> \in R
    <3> DEFINE t == z[1]
               k == z[2]
    <3>1. t \in Terminals /\ k \in Backends /\ At(t, k, m) /\ <<t, k>> = z
      BY Pairs
    <3> HIDE DEF t, k
    <3>2. /\ At(Receive(t, c), Done(k, c, "body"), n)
          /\ Base(t, Attempt(k, c)) /\ Base(Receive(t, Torn(c)), Attempt(k, c))
          /\ ~condition => At(t, k, n)
      BY <1>4, <3>1, SMTT(30)
    <3>3. /\ Receive(t, c) \in Terminals /\ Receive(t, Torn(c)) \in Terminals
          /\ Done(k, c, "body") \in Backends /\ Attempt(k, c) \in Backends
      BY <1>1, <3>1, GivenTyped, TornTyped, DoneTyped, AttemptTyped
    <3>4. <<Receive(t, c), Done(k, c, "body")>> \in Q
      BY <3>2, <3>3, Pairs
    <3>5. ~condition => <<t, k>> \in Q
      BY <3>1, <3>2, Pairs
    <3>6. <<t, Attempt(k, c)>> \in R /\ <<Receive(t, Torn(c)), Attempt(k, c)>> \in R
      BY <3>1, <3>2, <3>3, Pairs
    <3> QED BY <3>1, <3>4, <3>5, <3>6 DEF t, k
  <2> HIDE DEF P, Q, R
  <2>2. ~condition => P \subseteq Q
    BY <2>1
  <2>3. Path(P, If(condition, <<c>>), "body", Q, R) /\ If(condition, <<c>>) \in Seq(Given)
    BY <2>1, <2>2, PairIf
  <2> QED BY <2>3 DEF P, Q, R
<1>5. ASSUME NEW cs, cs = If(b.mouseUnconfirmed \/ Changed(goal, "mouse"), << <<"mouse", goal.mouse>> >>)
      PROVE  cs \in Seq(Given) /\ Path(BodyStage(0), cs, "body", BodyStage(1), BodyBase)
  <2> DEFINE c == <<"mouse", goal.mouse>>
  <2>1. c \in Given
    BY <1>2, SomeCommands, CommandIsGiven
  <2>2. PICK condition \in BOOLEAN : condition <=> b.mouseUnconfirmed \/ Changed(goal, "mouse")
    OBVIOUS
  <2>3. \A t \in Terminals, k \in Backends : At(t, k, 0) /\ ~condition => At(t, k, 1)
    BY <1>1, <2>2, ModesSkipped
  <2>4. \A t \in Terminals, k \in Backends : At(t, k, 0) =>
                 /\ At(Receive(t, c), Done(k, c, "body"), 1)
                 /\ Base(t, Attempt(k, c)) /\ Base(Receive(t, Torn(c)), Attempt(k, c))
    BY <1>1, MouseStep
  <2>5. cs = If(condition, <<c>>)
    BY <1>5, <2>2 DEF If
  <2> HIDE DEF c
  <2> QED BY <1>4, <2>1, <2>3, <2>4, <2>5
<1>6. ASSUME NEW cs, cs = If(Changed(goal, "paste"), << <<"paste", goal.paste>> >>)
      PROVE  cs \in Seq(Given) /\ Path(BodyStage(1), cs, "body", BodyStage(2), BodyBase)
  <2> DEFINE c == <<"paste", goal.paste>>
  <2>1. c \in Given
    BY <1>2, SomeCommands, CommandIsGiven
  <2>2. PICK condition \in BOOLEAN : condition <=> Changed(goal, "paste")
    OBVIOUS
  <2>3. \A t \in Terminals, k \in Backends : At(t, k, 1) /\ ~condition => At(t, k, 2)
    BY <1>1, <2>2, ModesSkipped
  <2>4. \A t \in Terminals, k \in Backends : At(t, k, 1) =>
                 /\ At(Receive(t, c), Done(k, c, "body"), 2)
                 /\ Base(t, Attempt(k, c)) /\ Base(Receive(t, Torn(c)), Attempt(k, c))
    BY <1>1, PasteStep
  <2>5. cs = If(condition, <<c>>)
    BY <1>6, <2>2 DEF If
  <2> HIDE DEF c
  <2> QED BY <1>4, <2>1, <2>3, <2>4, <2>5
<1>7. ASSUME NEW cs, cs = If(Changed(goal, "nowrap"), << <<"nowrap", goal.nowrap>> >>)
      PROVE  cs \in Seq(Given) /\ Path(BodyStage(3), cs, "body", BodyStage(4), BodyBase)
  <2> DEFINE c == <<"nowrap", goal.nowrap>>
  <2>1. c \in Given
    BY <1>2, SomeCommands, CommandIsGiven
  <2>2. PICK condition \in BOOLEAN : condition <=> Changed(goal, "nowrap")
    OBVIOUS
  <2>3. \A t \in Terminals, k \in Backends : At(t, k, 3) /\ ~condition => At(t, k, 4)
    BY <1>1, <2>2, ModesSkipped
  <2>4. \A t \in Terminals, k \in Backends : At(t, k, 3) =>
                 /\ At(Receive(t, c), Done(k, c, "body"), 4)
                 /\ Base(t, Attempt(k, c)) /\ Base(Receive(t, Torn(c)), Attempt(k, c))
    BY <1>1, NowrapStep
  <2>5. cs = If(condition, <<c>>)
    BY <1>7, <2>2 DEF If
  <2> HIDE DEF c
  <2> QED BY <1>4, <2>1, <2>3, <2>4, <2>5
<1>8. ASSUME NEW cs, cs = If(b.titleUnconfirmed \/ Changed(goal, "title"), << <<"title", TitleText(goal)>> >>)
      PROVE  cs \in Seq(Given) /\ Path(BodyStage(4), cs, "body", BodyStage(5), BodyBase)
  <2> DEFINE c == <<"title", TitleText(goal)>>
  <2>1. c \in Given
    <3> HIDE DEF Titles
    <3> QED BY <1>3, SomeCommands, CommandIsGiven
  <2>2. PICK condition \in BOOLEAN : condition <=> b.titleUnconfirmed \/ Changed(goal, "title")
    OBVIOUS
  <2>3. \A t \in Terminals, k \in Backends : At(t, k, 4) /\ ~condition => At(t, k, 5)
    BY <1>1, <2>2, ModesSkipped
  <2>4. \A t \in Terminals, k \in Backends : At(t, k, 4) =>
                 /\ At(Receive(t, c), Done(k, c, "body"), 5)
                 /\ Base(t, Attempt(k, c)) /\ Base(Receive(t, Torn(c)), Attempt(k, c))
    BY <1>1, TitleStep
  <2>5. cs = If(condition, <<c>>)
    BY <1>8, <2>2 DEF If
  <2> HIDE DEF c
  <2> QED BY <1>4, <2>1, <2>3, <2>4, <2>5
<1>9. ASSUME NEW cs, cs = If(Changed(goal, "cursor"), << <<"cursor", goal.cursor>> >>)
      PROVE  cs \in Seq(Given) /\ Path(BodyStage(5), cs, "body", BodyStage(5), BodyBase)
  <2> DEFINE c == <<"cursor", goal.cursor>>
  <2>1. c \in Given
    BY <1>2, SomeCommands, CommandIsGiven
  <2>2. PICK condition \in BOOLEAN : condition <=> Changed(goal, "cursor")
    OBVIOUS
  <2>3. \A t \in Terminals, k \in Backends : At(t, k, 5) /\ ~condition => At(t, k, 5)
    OBVIOUS
  <2>4. \A t \in Terminals, k \in Backends : At(t, k, 5) =>
                 /\ At(Receive(t, c), Done(k, c, "body"), 5)
                 /\ Base(t, Attempt(k, c)) /\ Base(Receive(t, Torn(c)), Attempt(k, c))
    BY <1>1, CursorStep
  <2>5. cs = If(condition, <<c>>)
    BY <1>9, <2>2 DEF If
  <2> HIDE DEF c
  <2> QED BY <1>4, <2>1, <2>3, <2>4, <2>5
<1> QED BY <1>5, <1>6, <1>7, <1>8, <1>9

LEMMA KeyboardPath ==
    ASSUME Starts, NEW pushed \in BOOLEAN, pushed <=> b.pushed /\ ~Changed(goal, "screen"), NEW cs,
           cs = If(Changed(goal, "keyboard") \/ (goal.keyboard = "enhanced" /\ ~pushed),
                   If(pushed # (goal.keyboard = "enhanced"),
                      << <<"keyboard", IF pushed THEN "pop" ELSE "push">> >>)
                   \o << <<"note", "keyboard">> >>)
    PROVE  cs \in Seq(Given) /\ Path(BodyStage(2), cs, "body", BodyStage(3), BodyBase)
<1> DEFINE P == BodyStage(2)
           Q == BodyStage(3)
           R == BodyBase
           c == <<"keyboard", IF pushed THEN "pop" ELSE "push">>
           e == <<"note", "keyboard">>
<1>1. b \in Backends /\ goal \in Desired
  BY DEF Starts
<1>2. PICK enhanced \in BOOLEAN : enhanced <=> goal.keyboard = "enhanced"
  OBVIOUS
<1>3. ASSUME NEW z \in P
      PROVE  /\ <<z[1], z[2]>> = z /\ z[1] \in Terminals /\ z[2] \in Backends /\ At(z[1], z[2], 2)
             /\ (z[2].pushed <=> pushed) /\ <<z[1], z[2]>> \in R
  <2>1. <<z[1], z[2]>> = z /\ z[1] \in Terminals /\ z[2] \in Backends /\ At(z[1], z[2], 2)
    BY Pairs
  <2>2. z[2].pushed <=> pushed
    BY <2>1 DEF At, KeyboardAt
  <2>3. Base(z[1], z[2])
    BY <2>1 DEF At
  <2> HIDE DEF R
  <2>4. <<z[1], z[2]>> \in R
    BY <2>1, <2>3, Pairs DEF R
  <2> QED BY <2>1, <2>2, <2>4
<1>4. c \in Given /\ c[1] = "keyboard" /\ (c[2] = "push" <=> ~pushed)
  BY SomeCommands, CommandIsGiven
<1>5. e \in Given /\ e[1] = "note" /\ e[2] = "keyboard"
  BY DEF Given, Notes
<1>6. CASE ~Changed(goal, "keyboard") /\ ~(enhanced /\ ~pushed)
  <2>1. cs = <<>>
    BY <1>2, <1>6 DEF If
  <2>2. ASSUME NEW z \in P PROVE <<z[1], z[2]>> \in Q
    <3> DEFINE t == z[1]
               k == z[2]
    <3>1. t \in Terminals /\ k \in Backends /\ At(t, k, 2) /\ (k.pushed <=> pushed)
      BY <1>3
    <3> HIDE DEF t, k, P
    <3>2. goal.keyboard = b.active.keyboard /\ k.active.keyboard = b.active.keyboard
      BY <1>6, <3>1 DEF Changed, At, KeyboardAt
    <3>3. Enhanced(k)
      BY <3>1 DEF At, Base, Known
    <3>4. k.pushed <=> goal.keyboard = "enhanced"
      BY <1>2, <1>6, <3>1, <3>2, <3>3 DEF Enhanced
    <3>5. At(t, k, 3)
      BY <1>1, <1>6, <3>1, <3>4, KeyboardSkipped
    <3>6. <<t, k>> \in Q
      BY <3>1, <3>5, Pairs
    <3> QED BY <3>6 DEF t, k
  <2> HIDE DEF P, Q, R
  <2>3. Path(P, <<>>, "body", Q, R)
    BY <2>2, PathEmpty
  <2>4. <<>> \in Seq(Given)
    BY EmptySeq
  <2>5. cs \in Seq(Given)
    BY <2>1, <2>4, Zenon
  <2> QED BY <2>1, <2>3, <2>5 DEF P, Q, R
<1>7. CASE (Changed(goal, "keyboard") \/ (enhanced /\ ~pushed)) /\ (pushed <=> enhanced)
  <2>1. cs = <<>> \o <<e>>
    BY <1>2, <1>7 DEF If
  <2>2. cs = <<e>>
    <3> HIDE DEF e
    <3>1. <<e>> \in Seq(Given)
      BY <1>5
    <3> QED BY <2>1, <3>1, ConcatEmptySeq
  <2>3. ASSUME NEW z \in P
        PROVE  <<Receive(z[1], e), Done(z[2], e, "body")>> \in Q
    <3> DEFINE t == z[1]
               k == z[2]
               j == Done(k, e, "body")
    <3>1. t \in Terminals /\ k \in Backends /\ At(t, k, 2) /\ (k.pushed <=> pushed)
      BY <1>3
    <3> HIDE DEF t, k, P, e
    <3>2. j = [k EXCEPT !.active.keyboard = goal.keyboard]
      BY <1>5, DoneIs
    <3>3. Receive(t, e) = t
      BY <1>5, <3>1, Grounded DEF At
    <3>4. At(t, j, 3)
      BY <1>1, <1>2, <1>7, <3>1, <3>2, KeyboardSkipped
    <3>5. j \in Backends
      BY <1>1, <1>5, <3>1, DoneTyped
    <3> HIDE DEF j
    <3>6. <<Receive(t, e), j>> \in Q
      BY <3>1, <3>3, <3>4, <3>5, Pairs
    <3> QED BY <3>6 DEF t, k, j
  <2> HIDE DEF P, Q, R, e
  <2>4. Path(P, <<e>>, "body", Q, R)
    BY <1>5, <2>3, PathOne
  <2>5. <<e>> \in Seq(Given)
    BY <1>5
  <2>6. cs \in Seq(Given)
    BY <2>2, <2>5, Zenon
  <2> QED BY <2>2, <2>4, <2>6 DEF P, Q, R
<1>8. CASE (Changed(goal, "keyboard") \/ (enhanced /\ ~pushed)) /\ ~(pushed <=> enhanced)
  <2>1. cs = <<c>> \o <<e>>
    BY <1>2, <1>8 DEF If
  <2> DEFINE M == {<<Receive(z[1], c), Done(z[2], c, "body")>> : z \in P}
  <2>2. ASSUME NEW z \in P
        PROVE  /\ <<z[1], Attempt(z[2], c)>> \in R /\ <<Receive(z[1], Torn(c)), Attempt(z[2], c)>> \in R
               /\ <<Receive(Receive(z[1], c), e), Done(Done(z[2], c, "body"), e, "body")>> \in Q
    <3> DEFINE t == z[1]
               k == z[2]
               u == Receive(t, c)
               j == Done(k, c, "body")
               l == Done(j, e, "body")
    <3>1. t \in Terminals /\ k \in Backends /\ At(t, k, 2) /\ (k.pushed <=> pushed) /\ <<t, k>> \in R
      BY <1>3
    <3> HIDE DEF t, k, P, e, c, R
    <3>2. l = [j EXCEPT !.active.keyboard = goal.keyboard]
      BY <1>5, DoneIs
    <3>3. At(u, l, 3) /\ Attempt(k, c) = k /\ Receive(t, Torn(c)) = t
      BY <1>2, <1>1, <1>4, <1>8, <3>1, <3>2, KeyboardStep
    <3>4. u.parser = "ground"
      BY <3>3 DEF At
    <3>5. Receive(u, e) = u
      BY <1>5, <3>4, Grounded
    <3>6. u \in Terminals /\ l \in Backends
      BY <1>1, <1>4, <1>5, <3>1, DoneTyped, GivenTyped
    <3> HIDE DEF u, l, j
    <3>7. <<u, l>> \in Q
      BY <3>3, <3>6, Pairs
    <3> QED BY <3>1, <3>3, <3>5, <3>7 DEF t, k, u, j, l
  <2> HIDE DEF P, Q, R, e, c
  <2>3. \A z \in P : <<Receive(z[1], c), Done(z[2], c, "body")>> \in M
    OBVIOUS
  <2>4. ASSUME NEW x \in M PROVE <<Receive(x[1], e), Done(x[2], e, "body")>> \in Q
    <3>1. PICK z \in P : x = <<Receive(z[1], c), Done(z[2], c, "body")>>
      OBVIOUS
    <3>2. x[1] = Receive(z[1], c) /\ x[2] = Done(z[2], c, "body")
      BY <3>1
    <3> QED BY <2>2, <3>2
  <2> HIDE DEF M
  <2>5. Path(P, <<c>>, "body", M, R)
    BY <2>2, <2>3, PathOne
  <2>6. Path(M, <<e>>, "body", Q, R)
    BY <1>5, <2>4, PathOne
  <2>7. <<c>> \in Seq(Given) /\ <<e>> \in Seq(Given)
    BY <1>4, <1>5
  <2>8. Path(P, <<c>> \o <<e>>, "body", Q, R) /\ <<c>> \o <<e>> \in Seq(Given)
    BY <2>5, <2>6, <2>7, PairThen
  <2>9. cs \in Seq(Given)
    BY <2>1, <2>8, Zenon
  <2> QED BY <2>1, <2>8, <2>9 DEF P, Q, R
<1> QED BY <1>6, <1>7, <1>8

LEMMA NotePath ==
    ASSUME Starts, NEW cs, cs = << <<"note", "sync">> >>
    PROVE  cs \in Seq(Given) /\ Path(BodyStage(5), cs, "body", BodyStage(5), BodyBase)
<1> DEFINE P == BodyStage(5)
           R == BodyBase
           c == <<"note", "sync">>
<1>1. c \in Given /\ c[1] = "note" /\ c[2] = "sync"
  BY DEF Given, Notes
<1>2. goal \in Desired
  BY DEF Starts
<1>3. ASSUME NEW z \in P PROVE <<Receive(z[1], c), Done(z[2], c, "body")>> \in P
  <2> DEFINE t == z[1]
             k == z[2]
             j == Done(k, c, "body")
  <2>1. t \in Terminals /\ k \in Backends /\ At(t, k, 5)
    BY Pairs
  <2> HIDE DEF t, k, c
  <2>2. Receive(t, c) = t
    BY <1>1, <2>1, Grounded DEF At
  <2>3. j = [k EXCEPT !.sync = goal.sync]
    BY <1>1, DoneIs
  <2>4. j \in Backends
    BY <1>1, <1>2, <2>1, DoneTyped
  <2> HIDE DEF j
  <2>5. /\ j.active = k.active /\ j.confirmed = k.confirmed /\ j.pushed = k.pushed /\ j.owned = k.owned
        /\ j.mapping = k.mapping /\ j.kittyUncertain = k.kittyUncertain /\ j.syncPending = k.syncPending
        /\ j.raw = k.raw /\ j.mouseUnconfirmed = k.mouseUnconfirmed
        /\ j.titleUnconfirmed = k.titleUnconfirmed /\ j.lifecycleUncertain = k.lifecycleUncertain
    BY <2>1, <2>3 DEF Backends
  <2>6. Base(t, j)
    BY <2>1, <2>5 DEF At, Base, Known, KnowsWriting, KnowsScreen, KnowsModes, KnowsImages, Enhanced
  <2>7. At(t, j, 5)
    BY <2>1, <2>5, <2>6 DEF At, MouseAt, PasteAt, KeyboardAt, NowrapAt, TitleAt
  <2>8. <<t, j>> \in P
    BY <2>1, <2>4, <2>7, Pairs
  <2> QED BY <2>2, <2>8 DEF t, k, j
<1>4. cs = <<c>>
  OBVIOUS
<1> HIDE DEF P, R, c
<1>5. Path(P, <<c>>, "body", P, R)
  BY <1>1, <1>3, PathOne
<1>6. <<c>> \in Seq(Given)
  BY <1>1
<1> QED BY <1>4, <1>5, <1>6, Zenon DEF P, R

LEMMA BodyPath ==
    ASSUME Starts
    PROVE  Body(goal) \in Seq(Given) /\ Path({<<Virtual, b>>}, Body(goal), "body", BodyStage(5), BodyBase)
<1> DEFINE pushed == b.pushed /\ ~Changed(goal, "screen")
           e1 == If(Changed(goal, "screen"),
                    If(b.pushed, << <<"keyboard", "pop">> >>)
                      \o If(Leaving(goal), Deletions(b.owned)) \o << <<"screen", goal.screen>> >>)
           e2 == If(b.mouseUnconfirmed \/ Changed(goal, "mouse"), << <<"mouse", goal.mouse>> >>)
           e3 == If(Changed(goal, "paste"), << <<"paste", goal.paste>> >>)
           e4 == If(Changed(goal, "keyboard") \/ (goal.keyboard = "enhanced" /\ ~pushed),
                    If(pushed # (goal.keyboard = "enhanced"),
                       << <<"keyboard", IF pushed THEN "pop" ELSE "push">> >>)
                    \o << <<"note", "keyboard">> >>)
           e5 == If(Changed(goal, "nowrap"), << <<"nowrap", goal.nowrap>> >>)
           e6 == If(b.titleUnconfirmed \/ Changed(goal, "title"), << <<"title", TitleText(goal)>> >>)
           e7 == If(Changed(goal, "cursor"), << <<"cursor", goal.cursor>> >>)
           e8 == << <<"note", "sync">> >>
           P == {<<Virtual, b>>}
           R == BodyBase
           Z == BodyStage(5)
<1>2. Body(goal) = ((((((e1 \o e2) \o e3) \o e4) \o e5) \o e6) \o e7) \o e8
  BY DEF Body
<1>1. pushed \in BOOLEAN /\ (pushed <=> b.pushed /\ ~Changed(goal, "screen"))
  OBVIOUS
<1>3. e1 \in Seq(Given) /\ Path(P, e1, "body", BodyStage(0), R)
  BY ScreenPath
<1>4. e2 \in Seq(Given) /\ Path(BodyStage(0), e2, "body", BodyStage(1), R)
  BY ModesPath
<1>5. e3 \in Seq(Given) /\ Path(BodyStage(1), e3, "body", BodyStage(2), R)
  BY ModesPath
<1>6. e4 \in Seq(Given) /\ Path(BodyStage(2), e4, "body", BodyStage(3), R)
  <2> HIDE DEF pushed
  <2> QED BY <1>1, KeyboardPath
<1>7. e5 \in Seq(Given) /\ Path(BodyStage(3), e5, "body", BodyStage(4), R)
  BY ModesPath
<1>8. e6 \in Seq(Given) /\ Path(BodyStage(4), e6, "body", BodyStage(5), R)
  BY ModesPath
<1>9. e7 \in Seq(Given) /\ Path(BodyStage(5), e7, "body", BodyStage(5), R)
  BY ModesPath
<1>10. e8 \in Seq(Given) /\ Path(BodyStage(5), e8, "body", BodyStage(5), R)
  BY NotePath
<1>0. /\ e6 \in Seq(Given) /\ Path(BodyStage(4), e6, "body", Z, R)
      /\ e7 \in Seq(Given) /\ Path(Z, e7, "body", Z, R)
      /\ e8 \in Seq(Given) /\ Path(Z, e8, "body", Z, R)
  BY <1>8, <1>9, <1>10
<1> HIDE DEF pushed, Z, e1, e2, e3, e4, e5, e6, e7, e8, P, R
<1>11. Path(P, e1 \o e2, "body", BodyStage(1), R) /\ e1 \o e2 \in Seq(Given)
  BY <1>3, <1>4, PairThen
<1> DEFINE f2 == e1 \o e2
           f3 == f2 \o e3
           f4 == f3 \o e4
           f5 == f4 \o e5
           f6 == f5 \o e6
           f7 == f6 \o e7
           f8 == f7 \o e8
<1> HIDE DEF f2, f3, f4, f5, f6, f7, f8
<1>12. Path(P, f2, "body", BodyStage(1), R) /\ f2 \in Seq(Given)
  BY <1>11 DEF f2
<1>13. Path(P, f3, "body", BodyStage(2), R) /\ f3 \in Seq(Given)
  BY <1>5, <1>12, PairThen DEF f3
<1>14. Path(P, f4, "body", BodyStage(3), R) /\ f4 \in Seq(Given)
  BY <1>6, <1>13, PairThen DEF f4
<1>15. Path(P, f5, "body", BodyStage(4), R) /\ f5 \in Seq(Given)
  BY <1>7, <1>14, PairThen DEF f5
<1>16. Path(P, f6, "body", Z, R) /\ f6 \in Seq(Given)
  BY <1>0, <1>15, PairThen DEF f6
<1>17. Path(P, f7, "body", Z, R) /\ f7 \in Seq(Given)
  BY <1>0, <1>16, PairThen DEF f7
<1>18. Path(P, f8, "body", Z, R) /\ f8 \in Seq(Given)
  BY <1>0, <1>17, PairThen DEF f8
<1> QED BY <1>2, <1>18 DEF f2, f3, f4, f5, f6, f7, f8, P, R, Z

\* The backend after the commands of apply_state.
Finished(k) ==
    LET j == Confirmed(k)
    IN  [(IF Leaving(goal) THEN ConfirmCleanup(j) ELSE j) EXCEPT
            !.raw = @ \/ goal.raw, !.confirmed = Modes(goal)]

LEMMA FinishedIs ==
    ASSUME NEW k \in Backends, goal \in Desired, Base(Virtual, b), NEW j, j = Finished(k)
    PROVE  /\ j \in Backends /\ j.active = k.active /\ j.confirmed = Modes(goal) /\ j.pushed = k.pushed
           /\ ~j.mouseUnconfirmed /\ ~j.titleUnconfirmed /\ ~j.lifecycleUncertain
           /\ j.syncPending = k.syncPending /\ (j.raw <=> k.raw \/ goal.raw)
           /\ ~Leaving(goal) => /\ j.mapping = k.mapping /\ j.owned = k.owned
                                /\ j.kittyUncertain = k.kittyUncertain
           /\ Leaving(goal) => j.mapping = <<>> /\ j.owned = {} /\ ~j.kittyUncertain
<1>1. goal.raw \in BOOLEAN /\ Modes(goal) \in ModeStates
  BY WantedTyped DEF TerminalState
<1> DEFINE m == Modes(goal)
<1> HIDE DEF m
<1>2. PICK r \in BOOLEAN : r = (k.raw \/ goal.raw)
  BY <1>1 DEF Backends
<1>3. CASE Leaving(goal)
  <2>1. j = [k EXCEPT !.mouseUnconfirmed = FALSE, !.lifecycleUncertain = FALSE,
                      !.titleUnconfirmed = FALSE, !.mapping = <<>>, !.owned = {},
                      !.kittyUncertain = FALSE, !.raw = @ \/ goal.raw, !.confirmed = m]
    BY <1>3 DEF Finished, ConfirmCleanup, Confirmed, Backends, m
  <2>2. j = [k EXCEPT !.mouseUnconfirmed = FALSE, !.lifecycleUncertain = FALSE,
                      !.titleUnconfirmed = FALSE, !.mapping = <<>>, !.owned = {},
                      !.kittyUncertain = FALSE, !.raw = r, !.confirmed = m]
    BY <1>2, <2>1
  <2>3. /\ j.active = k.active /\ j.confirmed = m /\ j.pushed = k.pushed
        /\ ~j.mouseUnconfirmed /\ ~j.titleUnconfirmed /\ ~j.lifecycleUncertain
        /\ j.syncPending = k.syncPending /\ j.raw = r
        /\ j.mapping = <<>> /\ j.owned = {} /\ ~j.kittyUncertain
    BY <2>2 DEF Backends
  <2>4. j \in Backends
    <3>1. [k EXCEPT !.mouseUnconfirmed = FALSE, !.lifecycleUncertain = FALSE,
                    !.titleUnconfirmed = FALSE, !.kittyUncertain = FALSE] \in Backends
      BY DEF Backends
    <3> DEFINE h == [k EXCEPT !.mouseUnconfirmed = FALSE, !.lifecycleUncertain = FALSE,
                              !.titleUnconfirmed = FALSE, !.kittyUncertain = FALSE]
    <3>2. j = [h EXCEPT !.mapping = <<>>, !.owned = {}, !.raw = r, !.confirmed = m]
      BY <2>2
    <3> HIDE DEF h
    <3>3. h \in Backends
      BY <3>1 DEF h
    <3> QED BY <1>1, <3>2, <3>3, NoMapping, ZenonT(40) DEF Backends, m
  <2> QED BY <1>2, <1>3, <2>3, <2>4 DEF m
<1>4. CASE ~Leaving(goal)
  <2>1. j = [k EXCEPT !.mouseUnconfirmed = FALSE, !.lifecycleUncertain = FALSE,
                      !.titleUnconfirmed = FALSE, !.raw = @ \/ goal.raw, !.confirmed = m]
    BY <1>4 DEF Finished, Confirmed, Backends, m
  <2>2. j = [k EXCEPT !.mouseUnconfirmed = FALSE, !.lifecycleUncertain = FALSE,
                      !.titleUnconfirmed = FALSE, !.raw = r, !.confirmed = m]
    BY <1>2, <2>1
  <2>3. /\ j.active = k.active /\ j.confirmed = m /\ j.pushed = k.pushed
        /\ ~j.mouseUnconfirmed /\ ~j.titleUnconfirmed /\ ~j.lifecycleUncertain
        /\ j.syncPending = k.syncPending /\ j.raw = r
        /\ j.mapping = k.mapping /\ j.owned = k.owned /\ j.kittyUncertain = k.kittyUncertain
    BY <2>2 DEF Backends
  <2>4. j \in Backends
    BY <1>1, <2>2, ZenonT(40) DEF Backends, m
  <2> QED BY <1>2, <1>4, <2>3, <2>4 DEF m
<1> QED BY <1>3, <1>4

LEMMA FinishedKnown ==
    ASSUME Starts, NEW t \in Terminals, NEW k \in Backends, At(t, k, 5), NEW j, j = Finished(k)
    PROVE  /\ j \in Backends /\ Known(t, j, FALSE) /\ Real(t, goal) /\ ~j.kittyUncertain
           /\ j.active.screen = goal.screen /\ (j.pushed <=> goal.keyboard = "enhanced")
           /\ (j.raw <=> b.raw \/ goal.raw)
           /\ (j.mapping = b.mapping /\ j.owned = b.owned) \/ (j.mapping = <<>> /\ j.owned = {})
<1>1. goal \in Desired /\ Base(Virtual, b) /\ (Leaving(goal) => b.owned = {})
  BY StartBase DEF Starts
<1>2. /\ j \in Backends /\ j.active = k.active /\ j.confirmed = Modes(goal) /\ j.pushed = k.pushed
      /\ ~j.mouseUnconfirmed /\ ~j.titleUnconfirmed /\ ~j.lifecycleUncertain
      /\ j.syncPending = k.syncPending /\ (j.raw <=> k.raw \/ goal.raw)
      /\ ~Leaving(goal) => /\ j.mapping = k.mapping /\ j.owned = k.owned
                           /\ j.kittyUncertain = k.kittyUncertain
      /\ Leaving(goal) => j.mapping = <<>> /\ j.owned = {} /\ ~j.kittyUncertain
  BY <1>1, FinishedIs
<1>3. /\ Base(t, k) /\ t.parser = "ground" /\ ~t.sync /\ t.screen = goal.screen
      /\ k.active.screen = goal.screen
      /\ MouseAt(t, k, TRUE) /\ PasteAt(t, k, TRUE) /\ KeyboardAt(k, TRUE)
      /\ NowrapAt(t, k, TRUE) /\ TitleAt(t, k, TRUE)
  BY DEF At, MouseAt, PasteAt, KeyboardAt, NowrapAt, TitleAt
<1>4. /\ Known(t, k, FALSE) /\ k.mapping = b.mapping /\ k.owned = b.owned /\ ~k.kittyUncertain
      /\ k.raw = b.raw /\ ~k.syncPending
  BY <1>3 DEF Base
<1>5. j.owned = b.owned
  BY <1>1, <1>2, <1>4
<1>6. /\ t.mouse = goal.mouse /\ k.active.mouse = goal.mouse
      /\ (t.paste <=> goal.paste) /\ (k.active.paste <=> goal.paste)
      /\ k.active.keyboard = goal.keyboard /\ (k.pushed <=> goal.keyboard = "enhanced")
      /\ (t.nowrap <=> goal.nowrap) /\ (k.active.nowrap <=> goal.nowrap)
      /\ TitleIs(t.title, goal.title) /\ k.active.title = goal.title
  BY <1>3 DEF MouseAt, PasteAt, KeyboardAt, NowrapAt, TitleAt
<1>7. /\ t.paste \in BOOLEAN /\ t.nowrap \in BOOLEAN /\ goal.paste \in BOOLEAN /\ goal.nowrap \in BOOLEAN
      /\ k.active.paste \in BOOLEAN /\ k.active.nowrap \in BOOLEAN
  BY <1>1, WantedTyped DEF Terminals, TerminalState, Backends, ModeStates
<1>8. Keys(t, t.screen, k.pushed) /\ (k.owned # {} => t.screen = "alternate")
  BY <1>4 DEF Known, KnowsScreen
<1>9. Real(t, goal)
  <2>1. Keys(t, goal.screen, goal.keyboard = "enhanced")
    BY <1>3, <1>6, <1>8 DEF Keys
  <2>2. t.paste = goal.paste /\ t.nowrap = goal.nowrap
    BY <1>6, <1>7
  <2> QED BY <1>3, <1>6, <2>1, <2>2 DEF Real
<1>10. Known(t, j, FALSE)
  <2>1. KnowsWriting(t, j) /\ Enhanced(j)
    BY <1>2, <1>3, <1>4 DEF Known, KnowsWriting, Enhanced
  <2>2. KnowsScreen(t, j, FALSE)
    <3>1. ~j.kittyUncertain
      BY <1>2, <1>4
    <3>2. Kept(t.screen, j.active.screen, j.confirmed.screen, "main", FALSE)
      BY <1>2, <1>3 DEF Kept
    <3>3. Keys(t, t.screen, j.pushed)
      BY <1>2, <1>8 DEF Keys
    <3> QED BY <1>4, <1>5, <1>8, <3>1, <3>2, <3>3 DEF KnowsScreen
  <2>3. KnowsModes(t, j, FALSE)
    <3>1. t.paste = j.active.paste /\ t.nowrap = j.active.nowrap /\ t.mouse = j.active.mouse
      BY <1>2, <1>6, <1>7
    <3>2. TitleIs(t.title, j.active.title)
      BY <1>2, <1>6
    <3> QED BY <3>1, <3>2 DEF KnowsModes, Kept, TitleKept
  <2>4. KnowsImages(t, j)
    BY <1>2, <1>4, <1>5 DEF Known, KnowsImages, Ids
  <2> QED BY <2>1, <2>2, <2>3, <2>4 DEF Known
<1> QED BY <1>2, <1>3, <1>4, <1>6, <1>9, <1>10, ZenonT(40)

LEMMA StartsBody ==
    ASSUME Inv, phase = "body"
    PROVE  /\ call \in {"open", "resume", "apply"} /\ goal = desired /\ ~Restoring /\ ~applied
           /\ Starts /\ closing = -1
<1>1. ControlOK /\ AppliedOK /\ b \in Backends
  BY InvTo
<1>2. SessionTypes /\ PhaseOK /\ RunningOK /\ ClosingOK
  BY <1>1 DEF ControlOK
<1>3. call \in {"open", "resume", "apply"} /\ goal = desired /\ ~Restoring
  BY <1>2 DEF PhaseOK
<1>4. ~applied
  BY <1>1, <1>3 DEF AppliedOK
<1>5. ~b.lifecycleUncertain /\ ~b.syncPending /\ ~b.kittyUncertain /\ (Leaving(goal) => b.owned = {})
  BY <1>2 DEF RunningOK
<1>6. goal \in Desired
  BY <1>2, <1>3 DEF SessionTypes
<1>7. closing = -1
  BY <1>2, <1>3 DEF ClosingOK, SessionTypes
<1>8. Virtual \in KnownTerminals(b, FALSE)
  BY VirtualKnown
<1> QED BY <1>1, <1>3, <1>4, <1>5, <1>6, <1>7, <1>8 DEF Starts

\* apply_state has succeeded.
LEMMA SucceedsReturn ==
    ASSUME ControlOK, call \in {"open", "resume", "apply"}, closing = -1, Steady, NoFault, Returns(TRUE)
    PROVE  /\ ControlOK' /\ applied' /\ call' = "none" /\ ~suspended' /\ phase' = "idle"
           /\ desired' = desired
<1>0. SessionTypes /\ SuspendedOK
  BY DEF ControlOK
<1>1. /\ call' = "none" /\ phase' = "idle" /\ suspended' = (suspended /\ call # "resume")
      /\ cleanup' = (IF call = "apply" THEN cleanup ELSE FALSE)
      /\ fullRepaint' = TRUE /\ shown' = NoFrame /\ goal' = desired /\ applied' = TRUE
  <2>1. call' = "none" /\ phase' = "idle" /\ goal' = desired
    BY DEF Returns
  <2>2. suspended' = (suspended /\ call # "resume") /\ applied' = TRUE
    BY DEF Returns
  <2>3. cleanup' = (IF call = "apply" THEN cleanup ELSE FALSE)
    BY <1>0 DEF Returns, SessionTypes
  <2>4. fullRepaint' = TRUE
    BY DEF Returns
  <2>5. shown' = NoFrame
    BY <2>4 DEF Returns
  <2> QED BY <2>1, <2>2, <2>3, <2>4, <2>5
<1>2. desired' = desired /\ closing' = -1
  BY DEF Steady, NoFault
<1>3. ~suspended' /\ ~cleanup'
  BY <1>0, <1>1 DEF SuspendedOK
<1>4. SessionTypes'
  <2>1. suspended' \in BOOLEAN /\ cleanup' \in BOOLEAN /\ fullRepaint' \in BOOLEAN /\ applied' \in BOOLEAN
    BY <1>0, <1>1 DEF SessionTypes
  <2>2. desired' \in Desired /\ shown' \in Frames
    BY <1>0, <1>1, <1>2, NoFrameTyped DEF SessionTypes
  <2>3. closing' \in Int /\ call' # "patch"
    BY <1>1, <1>2
  <2> QED BY <2>1, <2>2, <2>3 DEF SessionTypes
<1>5. FrameOK' /\ PatchOK' /\ PhaseOK' /\ RunningOK'
  <2>1. FrameOK' /\ PatchOK'
    BY <1>1 DEF FrameOK, PatchOK
  <2>2. PhaseOK'
    BY <1>1 DEF PhaseOK
  <2>3. RunningOK'
    BY <1>1 DEF RunningOK
  <2> QED BY <2>1, <2>2, <2>3
<1>6. SuspendedOK' /\ ClosingOK'
  <2>1. SuspendedOK'
    BY <1>1, <1>3 DEF SuspendedOK
  <2>2. ClosingOK'
    BY <1>2 DEF ClosingOK
  <2> QED BY <2>1, <2>2
<1> QED BY <1>1, <1>2, <1>3, <1>4, <1>5, <1>6 DEF ControlOK

LEMMA ApplyKeeps == ASSUME Inv, Apply PROVE Inv'
<1>1. /\ ControlOK /\ term \in Terminals /\ pipe \in Seq(Sent) /\ b \in Backends /\ raw \in BOOLEAN
      /\ KnownOK /\ AppliedOK /\ MapOK /\ RawOK
  BY InvTo
<1>2. phase = "body" /\ Steady /\ NoFault /\ raw' = (raw \/ goal.raw) /\ Sends(Body(goal))
      /\ b' = Finished(AllDone(b, Body(goal), "body"))
      /\ IF goal.raw \/ ~b.raw THEN Returns(TRUE) ELSE Goes("cook")
  BY DEF Apply, Finished
<1>3. /\ call \in {"open", "resume", "apply"} /\ goal = desired /\ ~Restoring /\ ~applied
      /\ Starts /\ closing = -1
  BY <1>2, StartsBody
<1> DEFINE k == AllDone(b, Body(goal), "body")
<1>4. <<Virtual', k>> \in BodyStage(5) /\ term' \in Terminals /\ pipe' = <<>> /\ Virtual' = term'
  <2> DEFINE P == {<<Virtual, b>>}
             Q == BodyStage(5)
             cs == Body(goal)
  <2>1. cs \in Seq(Given) /\ Path(P, cs, "body", Q, BodyBase)
    BY <1>3, BodyPath
  <2>2. <<Virtual, b>> \in P
    OBVIOUS
  <2>3. Sends(cs)
    BY <1>2
  <2> HIDE DEF P, Q, cs
  <2>4. <<Virtual', AllDone(b, cs, "body")>> \in Q /\ term' \in Terminals /\ pipe' = <<>> /\ Virtual' = term'
    BY <1>1, <2>1, <2>2, <2>3, PathSends
  <2> QED BY <2>4 DEF Q, cs
<1> HIDE DEF k
<1> DEFINE t == term'
<1>5. t \in Terminals /\ k \in Backends /\ At(t, k, 5)
  <2> DEFINE z == <<Virtual', k>>
  <2>1. z \in BodyStage(5) /\ z[1] = term' /\ z[2] = k
    BY <1>4
  <2> HIDE DEF z
  <2> QED BY <2>1, Pairs
<1> DEFINE j == b'
<1>6. j = Finished(k)
  BY <1>2 DEF k
<1> HIDE DEF t, j
<1>7. /\ j \in Backends /\ Known(t, j, FALSE) /\ Real(t, goal) /\ ~j.kittyUncertain
      /\ j.active.screen = goal.screen /\ (j.pushed <=> goal.keyboard = "enhanced")
      /\ (j.raw <=> b.raw \/ goal.raw)
      /\ (j.mapping = b.mapping /\ j.owned = b.owned) \/ (j.mapping = <<>> /\ j.owned = {})
  BY <1>3, <1>5, <1>6, FinishedKnown
<1>8. /\ b' \in Backends /\ Known(Virtual', b', FALSE) /\ Real(term', desired)
      /\ b'.active.screen = desired.screen /\ (b'.pushed <=> desired.keyboard = "enhanced")
      /\ (b'.raw <=> b.raw \/ goal.raw) /\ ~b'.kittyUncertain
      /\ (b'.mapping = b.mapping /\ b'.owned = b.owned) \/ (b'.mapping = <<>> /\ b'.owned = {})
  BY <1>3, <1>4, <1>7 DEF t, j
<1>9. MapOK' /\ RawOK' /\ (raw \in BOOLEAN)' /\ (pipe \in Seq(Sent))'
  <2>1. MapOK'
    BY <1>1, <1>8, EmptyMap DEF MapOK
  <2>2. RawOK'
    BY <1>1, <1>2, <1>8 DEF RawOK
  <2>3. (raw \in BOOLEAN)' /\ (pipe \in Seq(Sent))'
    BY <1>2, <1>4
  <2> QED BY <2>1, <2>2, <2>3
<1>10. goal.raw \in BOOLEAN
  BY <1>3, WantedTyped DEF Starts, TerminalState
<1>11. CASE goal.raw \/ ~b.raw
  <2>1. /\ ControlOK' /\ applied' /\ call' = "none" /\ ~suspended' /\ phase' = "idle"
        /\ desired' = desired
    BY <1>1, <1>2, <1>3, <1>11, SucceedsReturn
  <2>2. KnownOK'
    BY <1>8, <2>1 DEF KnownOK
  <2>3. raw' = desired'.raw
    BY <1>1, <1>2, <1>3, <1>10, <1>11, <2>1 DEF RawOK
  <2>4. pipe' \in Seq(FrameCommands)
    BY <1>4
  <2>5. AppliedOK'
    BY <1>8, <2>1, <2>3, <2>4 DEF AppliedOK
  <2> QED BY <1>4, <1>8, <1>9, <2>1, <2>2, <2>5, InvFrom
<1>12. CASE ~(goal.raw \/ ~b.raw)
  <2>1. Goes("cook") /\ ~desired.raw /\ b.raw
    BY <1>2, <1>3, <1>12
  <2>2. /\ phase' = "cook" /\ call' = call /\ suspended' = suspended /\ cleanup' = cleanup
        /\ fullRepaint' = fullRepaint /\ applied' = applied /\ goal' = goal /\ shown' = shown
        /\ desired' = desired /\ closing' = closing
    BY <1>2, <2>1 DEF Goes, Steady, NoFault
  <2>3. KnownOK' /\ AppliedOK'
    BY <1>3, <1>8, <2>2 DEF KnownOK, AppliedOK
  <2>4. SessionTypes /\ PhaseOK /\ SuspendedOK
    BY <1>1 DEF ControlOK
  <2>5. SessionTypes'
    BY <1>3, <2>2, <2>4 DEF SessionTypes
  <2>6. FrameOK' /\ PatchOK'
    BY <1>3, <2>2 DEF FrameOK, PatchOK
  <2>7. PhaseOK'
    BY <1>3, <2>2, <2>4 DEF PhaseOK, Restoring
  <2>8. ~Restoring'
    BY <1>3, <2>2 DEF Restoring
  <2>9. RunningOK'
    BY <1>4, <1>8, <2>1, <2>2, <2>8 DEF RunningOK
  <2>10. SuspendedOK'
    BY <1>3, <2>2, <2>4 DEF SuspendedOK
  <2>11. ClosingOK'
    BY <1>3, <2>2 DEF ClosingOK
  <2>12. ControlOK'
    BY <2>5, <2>6, <2>7, <2>9, <2>10, <2>11, SMTT(30) DEF ControlOK
  <2> QED BY <1>4, <1>8, <1>9, <2>3, <2>12, InvFrom
<1> QED BY <1>11, <1>12

LEMMA ApplyFailsKeeps == ASSUME Inv, ApplyFails PROVE Inv'
<1>1. /\ ControlOK /\ term \in Terminals /\ pipe \in Seq(Sent) /\ b \in Backends /\ raw \in BOOLEAN
      /\ KnownOK /\ AppliedOK /\ MapOK /\ RawOK
  BY InvTo
<1>2. phase = "body" /\ Steady /\ Fault /\ Returns(FALSE)
  BY DEF ApplyFails
<1>3. /\ call \in {"open", "resume", "apply"} /\ goal = desired /\ ~Restoring /\ ~applied
      /\ Starts /\ closing = -1
  BY <1>2, StartsBody
<1>4. ControlOK' /\ phase' # "cook after error" /\ ~applied'
  BY <1>1, <1>2, <1>3, FailsReturn
<1>5. ~(b.kittyUncertain \/ (Leaving(goal) /\ b.owned # {}))
  BY <1>3 DEF Starts
<1>6. goal.raw \in BOOLEAN
  BY <1>3, WantedTyped DEF Starts, TerminalState
<1>7. CASE b' = [b EXCEPT !.kittyUncertain = b.kittyUncertain \/ (Leaving(goal) /\ b.owned # {})]
           /\ UNCHANGED <<raw, term, pipe>>
  <2>1. b' = b
    <3>1. b' = [b EXCEPT !.kittyUncertain = FALSE] /\ ~b.kittyUncertain
      BY <1>5, <1>7
    <3> QED BY <1>1, <3>1 DEF Backends
  <2>2. Virtual' = Virtual
    BY <1>7 DEF Virtual
  <2>3. Known(Virtual', b', FALSE)
    BY <1>3, <2>1, <2>2 DEF Starts, KnownTerminals
  <2>4. KnownOK' /\ AppliedOK'
    BY <1>4, <2>3 DEF KnownOK, AppliedOK
  <2>5. MapOK' /\ RawOK' /\ (b \in Backends)' /\ (raw \in BOOLEAN)' /\ (pipe \in Seq(Sent))' /\ (term \in Terminals)'
    BY <1>1, <1>7, <2>1 DEF MapOK, RawOK
  <2> QED BY <1>4, <2>4, <2>5, InvFrom
<1>8. ASSUME NEW i \in 1 .. Len(Body(goal)) + 1, StopsAt(Body(goal), i), raw' = (raw \/ goal.raw),
             b' = [StoppedAt(Body(goal), i, "body") EXCEPT
                      !.raw = @ \/ goal.raw,
                      !.kittyUncertain = b.kittyUncertain \/ (Leaving(goal) /\ b.owned # {})]
      PROVE  Inv'
  <2> DEFINE k == StoppedAt(Body(goal), i, "body")
  <2>1. <<Virtual', k>> \in BodyBase /\ term' \in Terminals /\ pipe' \in Seq(Sent)
    <3> DEFINE P == {<<Virtual, b>>}
               Q == BodyStage(5)
               cs == Body(goal)
    <3>1. cs \in Seq(Given) /\ Path(P, cs, "body", Q, BodyBase)
      BY <1>3, BodyPath
    <3>2. <<Virtual, b>> \in P
      OBVIOUS
    <3>3. i \in 1 .. Len(cs) + 1 /\ StopsAt(cs, i)
      BY <1>8
    <3>4. Q \subseteq BodyBase
      BY DEF BodyStage, BodyBase, At
    <3> HIDE DEF P, Q, cs, k
    <3>5. <<Virtual', StoppedAt(cs, i, "body")>> \in BodyBase /\ term' \in Terminals /\ pipe' \in Seq(Sent)
      BY <1>1, <3>1, <3>2, <3>3, <3>4, PathStops
    <3> QED BY <3>5 DEF cs, k
  <2>2. b' = [k EXCEPT !.raw = @ \/ goal.raw, !.kittyUncertain = FALSE]
    BY <1>5, <1>8
  <2> HIDE DEF k
  <2>3. k \in Backends /\ Base(Virtual', k)
    BY <2>1 DEF BodyBase
  <2>4. Known(Virtual', k, FALSE) /\ k.mapping = b.mapping /\ k.owned = b.owned /\ ~k.kittyUncertain /\ k.raw = b.raw
    BY <2>3 DEF Base
  <2>5. PICK r \in BOOLEAN : r = (k.raw \/ goal.raw)
    BY <1>6, <2>3 DEF Backends
  <2> DEFINE j == [k EXCEPT !.raw = r, !.kittyUncertain = FALSE]
  <2>6. b' = j
    BY <2>2, <2>5
  <2>7. /\ j \in Backends /\ j.active = k.active /\ j.confirmed = k.confirmed /\ j.pushed = k.pushed
        /\ j.owned = k.owned /\ j.mapping = k.mapping /\ j.kittyUncertain = k.kittyUncertain
        /\ j.syncPending = k.syncPending /\ j.raw = r /\ j.mouseUnconfirmed = k.mouseUnconfirmed
        /\ j.titleUnconfirmed = k.titleUnconfirmed /\ j.lifecycleUncertain = k.lifecycleUncertain
    BY <2>3, <2>4 DEF Backends
  <2> HIDE DEF j
  <2>8. Known(Virtual', j, FALSE)
    BY <2>4, <2>7 DEF Known, KnowsWriting, KnowsScreen, KnowsModes, KnowsImages, Enhanced
  <2>9. KnownOK' /\ AppliedOK'
    BY <1>4, <2>6, <2>8 DEF KnownOK, AppliedOK
  <2>10. MapOK'
    BY <1>1, <2>4, <2>6, <2>7 DEF MapOK
  <2>11. RawOK' /\ (b \in Backends)' /\ (raw \in BOOLEAN)'
    BY <1>1, <1>6, <1>8, <2>4, <2>5, <2>6, <2>7 DEF RawOK
  <2> QED BY <1>4, <2>1, <2>9, <2>10, <2>11, InvFrom
<1> QED BY <1>7, <1>8 DEF ApplyFails

LEMMA CookKeeps == ASSUME Inv, NEW fails \in BOOLEAN, Cook(fails) PROVE Inv'
<1>1. /\ ControlOK /\ term \in Terminals /\ pipe \in Seq(Sent) /\ b \in Backends /\ raw \in BOOLEAN
      /\ KnownOK /\ AppliedOK /\ MapOK /\ RawOK
  BY InvTo
<1>2. phase = "cook" /\ ~Restoring /\ Steady /\ Cooks(fails) /\ b' = [b EXCEPT !.raw = fails]
      /\ term' = term /\ pipe' = pipe /\ Returns(~fails)
  BY DEF Cook
<1>3. SessionTypes /\ PhaseOK /\ RunningOK /\ ClosingOK
  BY <1>1 DEF ControlOK
<1>4. Real(term, desired) /\ pipe = <<>> /\ ~desired.raw /\ b.raw
      /\ b.active.screen = desired.screen /\ (b.pushed <=> desired.keyboard = "enhanced")
  BY <1>2, <1>3 DEF RunningOK
<1>5. call # "patch"
  <2>1. ASSUME call = "patch" PROVE FALSE
    <3>1. PatchOK
      BY <1>1 DEF ControlOK
    <3> QED BY <1>2, <2>1, <3>1 DEF PatchOK, PatchModeOK
  <2> QED BY <2>1
<1>6. call \in {"open", "resume", "apply"} /\ goal = desired
  BY <1>2, <1>3, <1>5 DEF PhaseOK
<1>7. ~applied
  BY <1>1, <1>6 DEF AppliedOK
<1>8. closing = -1
  <2>1. ~(closing >= 0) /\ closing >= -1 /\ closing \in Int
    BY <1>3, <1>6 DEF ClosingOK, SessionTypes
  <2> QED BY <2>1
<1>9. Known(Virtual, b, FALSE)
  BY <1>2, VirtualKnown DEF KnownTerminals
<1>10. Virtual' = Virtual
  BY <1>2 DEF Virtual
<1>11. /\ b' \in Backends /\ b'.active = b.active /\ b'.confirmed = b.confirmed /\ b'.pushed = b.pushed
       /\ b'.owned = b.owned /\ b'.mapping = b.mapping /\ b'.kittyUncertain = b.kittyUncertain
       /\ b'.syncPending = b.syncPending /\ b'.raw = fails /\ b'.mouseUnconfirmed = b.mouseUnconfirmed
       /\ b'.titleUnconfirmed = b.titleUnconfirmed /\ b'.lifecycleUncertain = b.lifecycleUncertain
  BY <1>1, <1>2 DEF Backends
<1>12. Known(Virtual', b', FALSE)
  BY <1>9, <1>10, <1>11 DEF Known, KnowsWriting, KnowsScreen, KnowsModes, KnowsImages, Enhanced
<1>13. MapOK' /\ (term \in Terminals)' /\ (pipe \in Seq(Sent))'
  BY <1>1, <1>2, <1>11 DEF MapOK
<1>14. CASE fails
  <2>1. Fault /\ raw' = raw /\ Returns(FALSE)
    BY <1>2, <1>14 DEF Cooks
  <2>2. ControlOK' /\ phase' # "cook after error" /\ ~applied'
    BY <1>1, <1>2, <1>6, <1>7, <2>1, FailsReturn
  <2>3. KnownOK' /\ AppliedOK' /\ RawOK' /\ (raw \in BOOLEAN)'
    BY <1>1, <1>11, <1>12, <1>14, <2>1, <2>2 DEF KnownOK, AppliedOK, RawOK
  <2> QED BY <1>11, <1>13, <2>2, <2>3, InvFrom
<1>15. CASE ~fails
  <2>1. NoFault /\ raw' = FALSE /\ Returns(TRUE)
    BY <1>2, <1>15 DEF Cooks
  <2>2. /\ ControlOK' /\ applied' /\ call' = "none" /\ ~suspended' /\ phase' = "idle"
        /\ desired' = desired
    BY <1>1, <1>2, <1>6, <1>8, <2>1, SucceedsReturn
  <2>3. desired.raw \in BOOLEAN
    BY <1>3, WantedTyped DEF SessionTypes, TerminalState
  <2>4. pipe' \in Seq(FrameCommands)
    BY <1>2, <1>4
  <2>5. raw' = desired'.raw
    BY <1>4, <2>1, <2>2, <2>3
  <2>6. KnownOK' /\ RawOK' /\ (raw \in BOOLEAN)'
    BY <1>12, <2>1, <2>2 DEF KnownOK, RawOK
  <2>7. AppliedOK'
    BY <1>2, <1>4, <1>11, <2>2, <2>4, <2>5 DEF AppliedOK
  <2> QED BY <1>11, <1>13, <2>2, <2>6, <2>7, InvFrom
<1> QED BY <1>14, <1>15

=============================================================================
