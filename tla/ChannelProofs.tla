---------------------------- MODULE ChannelProofs ----------------------------
(***************************************************************************)
(* Proofs about Channel, for any finite set of processes, any set of data  *)
(* and any capacity: the semaphore counts exactly, its assertion holds, no *)
(* wakeup is lost, and the channel implements a bounded FIFO queue.        *)
(***************************************************************************)
EXTENDS Channel, FiniteSetTheorems, TLAPS

USE ConstantsAssumption

\* The set of processes at a place of the code is finite.
LEMMA AtFinite ==
  ASSUME NEW l PROVE IsFiniteSet(At(l)) /\ Cardinality(At(l)) \in Nat
<1>1. At(l) \subseteq Proc
  BY DEF At
<1> QED
  BY <1>1, FS_Subset, FS_CardinalityType

\* A process enters: one more at l.
LEMMA Enter ==
  ASSUME NEW l, NEW p \in Proc, p \notin At(l), At(l)' = At(l) \cup {p}
  PROVE  Cardinality(At(l)') = Cardinality(At(l)) + 1
  BY AtFinite, FS_AddElement

\* A process leaves: there was one, and there is one less at l.
LEMMA Exit ==
  ASSUME NEW l, NEW p \in Proc, p \in At(l), At(l)' = At(l) \ {p}
  PROVE  /\ Cardinality(At(l)') = Cardinality(At(l)) - 1
         /\ Cardinality(At(l)) >= 1
<1>1. At(l) # {}
  OBVIOUS
<1>2. Cardinality(At(l)) # 0
  BY <1>1, AtFinite, FS_EmptySet
<1>3. Cardinality(At(l) \ {p}) = Cardinality(At(l)) - 1
  BY AtFinite, FS_RemoveElement
<1> QED
  BY <1>2, <1>3, AtFinite

\* Every step of send(), recv() and kill() keeps the types and the mutex.
LEMMA TypeStep ==
  TypeOK /\ LockedInPost /\ [Next]_vars /\ NoPanic' => TypeOK' /\ LockedInPost'
<1> SUFFICES ASSUME TypeOK, LockedInPost, [Next]_vars, NoPanic'
             PROVE  TypeOK' /\ LockedInPost'
  OBVIOUS
<1> USE DEF TypeOK, LockedInPost, Label, Goto, NotifyAll
<1>1. ASSUME NEW p \in Proc, NEW d \in Data, Send(p, d) PROVE TypeOK' /\ LockedInPost'
  BY <1>1 DEF Send
<1>2. ASSUME NEW p \in Proc, SemWait(p) PROVE TypeOK' /\ LockedInPost'
  BY <1>2 DEF SemWait
<1>3. ASSUME NEW p \in Proc, Push(p) PROVE TypeOK' /\ LockedInPost'
  <2>1. buf' \in Seq(Data)
    BY <1>3, msg[p] \in Data DEF Push
  <2>2. pc' \in [Proc -> Label] /\ LockedInPost'
    BY <1>3 DEF Push
  <2> QED
    BY <1>3, <2>1, <2>2 DEF Push
<1>4. ASSUME NEW p \in Proc, Recv(p) PROVE TypeOK' /\ LockedInPost'
  BY <1>4 DEF Recv
<1>5. ASSUME NEW p \in Proc, Pop(p) PROVE TypeOK' /\ LockedInPost'
  <2>1. CASE buf = <<>>
    BY <1>5, <2>1 DEF Pop
  <2>2. CASE buf # <<>>
    <3>1. Head(buf) \in Data /\ Tail(buf) \in Seq(Data)
      BY <2>2
    <3>2. buf' \in Seq(Data) /\ msg' \in [Proc -> Data] /\ cnt' = cnt
      BY <1>5, <2>2, <3>1 DEF Pop
    <3>3. pc' = [pc EXCEPT ![p] = "post"] /\ bufLock' = p /\ bufLock = NoProc
      BY <1>5, <2>2 DEF Pop
    <3>4. pc' \in [Proc -> Label] /\ LockedInPost'
      BY <3>3
    <3> QED
      BY <3>2, <3>3, <3>4
  <2> QED
    BY <2>1, <2>2
<1>6. ASSUME NEW p \in Proc, Post(p) PROVE TypeOK' /\ LockedInPost'
  <2>1. cnt # 0
    BY <1>6 DEF Post, NoPanic
  <2>2. cnt' = cnt - 1 /\ cnt' \in 0 .. Max /\ bufLock' = NoProc
    BY <1>6, <2>1 DEF Post
  <2>3. NotifyAll(p, "idle", "full", "wait")
    BY <1>6, <2>1, <2>2 DEF Post
  <2>4. pc' \in [Proc -> Label] /\ LockedInPost'
    BY <1>6, <2>2, <2>3 DEF Post
  <2> QED
    BY <1>6, <2>2, <2>4 DEF Post
<1>7. ASSUME NEW p \in Proc, Kill(p) PROVE TypeOK' /\ LockedInPost'
  BY <1>7 DEF Kill
<1>8. CASE UNCHANGED vars
  BY <1>8 DEF vars
<1> QED
  BY <1>1, <1>2, <1>3, <1>4, <1>5, <1>6, <1>7, <1>8 DEF Next, Step

\* The count moves with the buffer and the processes around it.
LEMMA CountStep ==
  TypeOK /\ LockedInPost /\ CountIsExact /\ NoPanic /\ [Next]_vars
    => CountIsExact' /\ NoPanic'
<1> SUFFICES ASSUME TypeOK, LockedInPost, CountIsExact, NoPanic, [Next]_vars
             PROVE  CountIsExact' /\ NoPanic'
  OBVIOUS
<1> DEFINE push == Cardinality(At("push"))
           post == Cardinality(At("post"))
           Same(l) == At(l)' = At(l)
<1>0. push \in Nat /\ post \in Nat /\ Len(buf) \in Nat /\ cnt \in Nat
  BY AtFinite DEF TypeOK
<1>1. ASSUME Same("push"), Same("post"), UNCHANGED <<cnt, buf>>
      PROVE  CountIsExact'
  BY <1>1 DEF CountIsExact
<1>2. ASSUME NEW p \in Proc, NEW d \in Data, Send(p, d)
      PROVE  CountIsExact' /\ NoPanic'
  <2>1. Same("push") /\ Same("post") /\ NoPanic'
    BY <1>2 DEF Send, Goto, At, NoPanic, TypeOK, Label
  <2> QED
    BY <1>1, <1>2, <2>1 DEF Send
<1>3. ASSUME NEW p \in Proc, SemWait(p) PROVE CountIsExact' /\ NoPanic'
  <2>1. NoPanic' /\ Same("post") /\ p \notin At("push") /\ buf' = buf
    BY <1>3 DEF SemWait, Goto, At, NoPanic, TypeOK, Label
  <2>2. CASE cnt >= Max
    <3>1. Same("push") /\ cnt' = cnt
      BY <1>3, <2>2 DEF SemWait, Goto, At, TypeOK, Label
    <3> QED
      BY <1>1, <2>1, <3>1
  <2>3. CASE ~(cnt >= Max)
    <3>1. cnt' = cnt + 1
      BY <1>3, <2>3 DEF SemWait
    <3>2. At("push")' = At("push") \cup {p}
      BY <1>3, <2>3 DEF SemWait, Goto, At, TypeOK, Label
    <3>3. Cardinality(At("push")') = push + 1
      BY <2>1, <3>2, Enter
    <3> QED
      BY <1>0, <2>1, <3>1, <3>3 DEF CountIsExact
  <2> QED
    BY <2>2, <2>3
<1>4. ASSUME NEW p \in Proc, Push(p) PROVE CountIsExact' /\ NoPanic'
  <2>1. NoPanic' /\ Same("post") /\ cnt' = cnt
    BY <1>4 DEF Push, NotifyAll, At, NoPanic, TypeOK, Label
  <2>2. p \in At("push") /\ At("push")' = At("push") \ {p}
    BY <1>4 DEF Push, NotifyAll, At, TypeOK, Label
  <2>3. Cardinality(At("push")') = push - 1 /\ push >= 1
    BY <2>2, Exit
  <2>4. Len(buf') = Len(buf) + 1
    BY <1>4, msg[p] \in Data DEF Push, TypeOK
  <2> QED
    BY <1>0, <2>1, <2>3, <2>4 DEF CountIsExact
<1>5. ASSUME NEW p \in Proc, Recv(p) PROVE CountIsExact' /\ NoPanic'
  <2>1. Same("push") /\ Same("post") /\ NoPanic'
    BY <1>5 DEF Recv, Goto, At, NoPanic, TypeOK, Label
  <2> QED
    BY <1>1, <1>5, <2>1 DEF Recv
<1>6. ASSUME NEW p \in Proc, Pop(p) PROVE CountIsExact' /\ NoPanic'
  <2>1. NoPanic' /\ Same("push") /\ p \notin At("post") /\ cnt' = cnt
    BY <1>6 DEF Pop, Goto, At, NoPanic, TypeOK, Label
  <2>2. CASE buf = <<>>
    <3>1. Same("post") /\ buf' = buf
      BY <1>6, <2>2 DEF Pop, Goto, At, TypeOK, Label
    <3> QED
      BY <1>1, <2>1, <3>1
  <2>3. CASE buf # <<>>
    <3>1. Len(buf') = Len(buf) - 1
      BY <1>6, <2>3 DEF Pop, TypeOK
    <3>2. At("post")' = At("post") \cup {p}
      BY <1>6, <2>3 DEF Pop, Goto, At, TypeOK, Label
    <3>3. Cardinality(At("post")') = post + 1
      BY <2>1, <3>2, Enter
    <3> QED
      BY <1>0, <2>1, <3>1, <3>3 DEF CountIsExact
  <2> QED
    BY <2>2, <2>3
<1>7. ASSUME NEW p \in Proc, Post(p) PROVE CountIsExact' /\ NoPanic'
  <2>1. p \in At("post") /\ buf' = buf
    BY <1>7 DEF Post, At
  <2>2. post # 0
    BY <2>1, AtFinite, FS_EmptySet
  <2>3. cnt # 0
    BY <1>0, <2>2 DEF CountIsExact
  <2>4. cnt' = cnt - 1 /\ cnt' <= Max
    BY <1>7, <2>3 DEF Post, TypeOK
  <2>5. NotifyAll(p, "idle", "full", "wait")
    BY <1>7, <2>3, <2>4 DEF Post
  <2>6. At("post")' = At("post") \ {p} /\ Same("push") /\ NoPanic'
    BY <2>5, <1>7 DEF Post, NotifyAll, At, NoPanic, TypeOK, Label
  <2>7. Cardinality(At("post")') = post - 1
    BY <2>1, <2>6, Exit
  <2> QED
    BY <1>0, <2>1, <2>4, <2>6, <2>7 DEF CountIsExact
<1>8. ASSUME NEW p \in Proc, Kill(p) PROVE CountIsExact' /\ NoPanic'
  <2>1. Same("push") /\ Same("post") /\ NoPanic'
    BY <1>8 DEF Kill, Goto, At, NoPanic, TypeOK, Label
  <2> QED
    BY <1>1, <1>8, <2>1 DEF Kill
<1>9. CASE UNCHANGED vars
  BY <1>9, <1>1 DEF vars, At, NoPanic
<1> QED
  BY <1>2, <1>3, <1>4, <1>5, <1>6, <1>7, <1>8, <1>9 DEF Next, Step

\* notify_all() leaves no sleeper without a reason to sleep.
LEMMA SleepersStep ==
  TypeOK /\ SleepersHaveReason /\ [Next]_vars /\ NoPanic'
    => SleepersHaveReason'
<1> SUFFICES ASSUME TypeOK, SleepersHaveReason, [Next]_vars, NoPanic'
             PROVE  SleepersHaveReason'
  OBVIOUS
<1> USE DEF TypeOK, SleepersHaveReason, At, Label
<1>1. ASSUME NEW p \in Proc, NEW d \in Data, Send(p, d) PROVE SleepersHaveReason'
  BY <1>1 DEF Send, Goto
<1>2. ASSUME NEW p \in Proc, SemWait(p) PROVE SleepersHaveReason'
  BY <1>2 DEF SemWait, Goto
<1>3. ASSUME NEW p \in Proc, Push(p) PROVE SleepersHaveReason'
  <2>1. At("empty")' = {} /\ At("full")' = At("full") /\ cnt' = cnt
    BY <1>3 DEF Push, NotifyAll
  <2> QED
    BY <2>1
<1>4. ASSUME NEW p \in Proc, Recv(p) PROVE SleepersHaveReason'
  BY <1>4 DEF Recv, Goto
<1>5. ASSUME NEW p \in Proc, Pop(p) PROVE SleepersHaveReason'
  <2>1. CASE buf = <<>>
    BY <1>5, <2>1 DEF Pop, Goto
  <2>2. CASE buf # <<>>
    <3>1. At("empty") = {}
      BY <2>2
    <3>2. At("empty")' = {} /\ At("full")' = At("full") /\ cnt' = cnt
      BY <1>5, <2>2, <3>1 DEF Pop, Goto
    <3> QED
      BY <3>2
  <2> QED
    BY <2>1, <2>2
<1>6. ASSUME NEW p \in Proc, Post(p) PROVE SleepersHaveReason'
  <2>1. cnt # 0
    BY <1>6 DEF Post, Goto, NoPanic
  <2>2. cnt' <= Max
    BY <1>6, <2>1 DEF Post
  <2>3. NotifyAll(p, "idle", "full", "wait") /\ buf' = buf
    BY <1>6, <2>1, <2>2 DEF Post
  <2>4. At("full")' = {} /\ At("empty")' = At("empty")
    BY <1>6, <2>3 DEF Post, NotifyAll
  <2> QED
    BY <2>3, <2>4
<1>7. ASSUME NEW p \in Proc, Kill(p) PROVE SleepersHaveReason'
  BY <1>7 DEF Kill, Goto
<1>8. CASE UNCHANGED vars
  BY <1>8 DEF vars
<1> QED
  BY <1>1, <1>2, <1>3, <1>4, <1>5, <1>6, <1>7, <1>8 DEF Next, Step

\* IInv is an invariant of the channel.
LEMMA Invariance == Spec => []IInv
<1>1. Init => IInv
  <2> SUFFICES ASSUME Init PROVE IInv
    OBVIOUS
  <2>1. TypeOK
    BY DEF Init, TypeOK, Label
  <2>2. LockedInPost /\ NoPanic /\ SleepersHaveReason
    BY DEF Init, LockedInPost, NoPanic, SleepersHaveReason, At
  <2>3. At("push") = {} /\ At("post") = {} /\ Len(buf) = 0 /\ cnt = 0
    BY DEF Init, At
  <2>4. Cardinality(At("push")) = 0 /\ Cardinality(At("post")) = 0
    BY <2>3, FS_EmptySet
  <2>5. CountIsExact
    BY <2>3, <2>4 DEF CountIsExact
  <2> QED
    BY <2>1, <2>2, <2>5 DEF IInv
<1>2. IInv /\ [Next]_vars => IInv'
  BY TypeStep, CountStep, SleepersStep DEF IInv
<1> QED
  BY <1>1, <1>2, PTL DEF Spec

(***************************************************************************)
(* Type correctness: in particular the count stays within 0 .. max.        *)
(***************************************************************************)
THEOREM ChannelTypeCorrect == Spec => []TypeOK
<1>1. IInv => TypeOK
  BY DEF IInv
<1> QED
  BY <1>1, Invariance, PTL

(***************************************************************************)
(* The count of the semaphore is exact, whatever the number of senders and *)
(* receivers and the capacity.                                             *)
(***************************************************************************)
THEOREM SemaphoreCounts == Spec => []CountIsExact
<1>1. IInv => CountIsExact
  BY DEF IInv
<1> QED
  BY <1>1, Invariance, PTL

(***************************************************************************)
(* The assertion in Semaphore::post never fails.                           *)
(***************************************************************************)
THEOREM ChannelNeverPanics == Spec => []NoPanic
<1>1. IInv => NoPanic
  BY DEF IInv
<1> QED
  BY <1>1, Invariance, PTL

(***************************************************************************)
(* No notify_all() of send() or of post() is missed.                       *)
(***************************************************************************)
THEOREM ChannelKeepsWakeups == Spec => []SleepersHaveReason
<1>1. IInv => SleepersHaveReason
  BY DEF IInv
<1> QED
  BY <1>1, Invariance, PTL

(***************************************************************************)
(* send() and recv() implement a FIFO queue of at most max elements.       *)
(***************************************************************************)
THEOREM ChannelIsFifo == Spec => ImplementsFifo
<1>1. Init => Fifo!Init
  BY DEF Init, Fifo!Init
<1>2. IInv /\ [Next]_vars => [Fifo!Next]_buf
  <2> SUFFICES ASSUME IInv, [Next]_vars PROVE [Fifo!Next]_buf
    OBVIOUS
  <2>1. ASSUME NEW p \in Proc, Push(p) PROVE Fifo!Next
    <3>1. At("push") # {}
      BY <2>1 DEF Push, At
    <3>2. Cardinality(At("push")) # 0
      BY <3>1, AtFinite, FS_EmptySet
    <3>3. Len(buf) < Max
      BY <3>2, AtFinite DEF IInv, CountIsExact, TypeOK
    <3> QED
      BY <2>1, <3>3 DEF Push, IInv, TypeOK, Fifo!Next, Fifo!Put
  <2>2. ASSUME NEW p \in Proc, Pop(p) PROVE [Fifo!Next]_buf
    BY <2>2 DEF Pop, Fifo!Next, Fifo!Get
  <2> QED
    BY <2>1, <2>2 DEF Next, Step, Send, SemWait, Recv, Post, Kill, vars
<1> QED
  BY <1>1, <1>2, Invariance, PTL DEF Spec, ImplementsFifo, Fifo!Spec
=============================================================================
