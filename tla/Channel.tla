------------------------------- MODULE Channel -------------------------------
(***************************************************************************)
(* The bounded channel of kernel/mpmc.rs, built on the counting semaphore  *)
(* of semaphore.rs and the condition variable of condvar.rs, with any      *)
(* number of senders and receivers.                                        *)
(*                                                                         *)
(* A critical section of the semaphore's mutex is one step, and so is one  *)
(* of the buffer's mutex, except in recv(), which calls sem.post() with    *)
(* the buffer locked: bufLock holds between those two steps.  wait() on a  *)
(* condition variable gives up the mutex and sleeps in one step, and       *)
(* notify_all() wakes every sleeper (module SleepLock has the detail of    *)
(* both); a process woken, by notify_all() or by kill(), tests again.      *)
(***************************************************************************)
EXTENDS Naturals, Sequences, FiniteSets

CONSTANTS
  Proc,    \* the processes that share the channel
  Data,    \* what is sent
  Max,     \* Semaphore.max, the capacity given to sync_channel
  NoProc   \* a mutex that is free

ASSUME ConstantsAssumption ==
  /\ IsFiniteSet(Proc)
  /\ NoProc \notin Proc
  /\ Max \in Nat \ {0}

VARIABLES
  cnt,      \* the count under Semaphore.mutex
  buf,      \* the list under buf: Mutex<LinkedList<T>>
  bufLock,  \* who holds the mutex of buf across two steps
  msg,      \* msg[p]: what p is sending, or has received last
  pc        \* where p is in send() or recv()

vars == <<cnt, buf, bufLock, msg, pc>>

Label == {"idle", "wait", "full", "push", "recv", "empty", "post", "panic"}

Goto(p, l) == pc' = [pc EXCEPT ![p] = l]

\* Procs::wakeup on the channel of the sleepers at `asleep`; p goes to l.
NotifyAll(p, l, asleep, retry) ==
  pc' = [q \in Proc |-> IF q = p THEN l
                        ELSE IF pc[q] = asleep THEN retry ELSE pc[q]]

Init ==
  /\ cnt = 0 /\ buf = <<>> /\ bufLock = NoProc
  /\ msg \in [Proc -> Data]
  /\ pc = [p \in Proc |-> "idle"]

-----------------------------------------------------------------------------
(***************************************************************************)
(* SyncSender::send                                                        *)
(***************************************************************************)
Send(p, d) ==
  /\ pc[p] = "idle"
  /\ msg' = [msg EXCEPT ![p] = d]
  /\ Goto(p, "wait")
  /\ UNCHANGED <<cnt, buf, bufLock>>

\* Variant: the count stops one short of the maximum.
SemWaitSaturates(p) ==
  /\ pc[p] = "wait"
  /\ IF cnt >= Max
       THEN Goto(p, "full") /\ UNCHANGED cnt
       ELSE Goto(p, "push") /\ cnt' = IF cnt + 1 < Max THEN cnt + 1 ELSE cnt
  /\ UNCHANGED <<buf, bufLock, msg>>

\* Semaphore::wait: sleep while the count is at its maximum, else take one.
SemWait(p) ==
  /\ pc[p] = "wait"
  /\ IF cnt >= Max
       THEN Goto(p, "full") /\ UNCHANGED cnt
       ELSE Goto(p, "push") /\ cnt' = cnt + 1
  /\ UNCHANGED <<buf, bufLock, msg>>

\* Variant: receivers are not notified.
PushQuietly(p) ==
  /\ pc[p] = "push"
  /\ bufLock = NoProc
  /\ buf' = Append(buf, msg[p])
  /\ Goto(p, "idle")
  /\ UNCHANGED <<cnt, bufLock, msg>>

\* Variant: the element goes to the front.
PushFront(p) ==
  /\ pc[p] = "push"
  /\ bufLock = NoProc
  /\ buf' = <<msg[p]>> \o buf
  /\ NotifyAll(p, "idle", "empty", "recv")
  /\ UNCHANGED <<cnt, bufLock, msg>>

\* buf.lock(); push_back; cond.notify_all()
Push(p) ==
  /\ pc[p] = "push"
  /\ bufLock = NoProc
  /\ buf' = Append(buf, msg[p])
  /\ NotifyAll(p, "idle", "empty", "recv")
  /\ UNCHANGED <<cnt, bufLock, msg>>

-----------------------------------------------------------------------------
(***************************************************************************)
(* SyncReceiver::recv                                                      *)
(***************************************************************************)
Recv(p) ==
  /\ pc[p] = "idle"
  /\ Goto(p, "recv")
  /\ UNCHANGED <<cnt, buf, bufLock, msg>>

\* One pass of the loop: pop_front, or wait on the condition variable.
Pop(p) ==
  /\ pc[p] = "recv"
  /\ bufLock = NoProc
  /\ IF buf = <<>>
       THEN Goto(p, "empty") /\ UNCHANGED <<buf, bufLock, msg>>
       ELSE /\ msg' = [msg EXCEPT ![p] = Head(buf)]
            /\ buf' = Tail(buf)
            /\ bufLock' = p
            /\ Goto(p, "post")
  /\ UNCHANGED cnt

\* Variant: senders are notified only when the count reaches zero.
PostNotifiesLate(p) ==
  /\ pc[p] = "post"
  /\ IF cnt = 0
       THEN Goto(p, "panic") /\ UNCHANGED <<cnt, bufLock>>
       ELSE /\ cnt' = cnt - 1
            /\ IF cnt' = 0
                 THEN NotifyAll(p, "idle", "full", "wait")
                 ELSE Goto(p, "idle")
            /\ bufLock' = NoProc
  /\ UNCHANGED <<buf, msg>>

\* Semaphore::post, its assertion included; then the guard of buf is dropped.
Post(p) ==
  /\ pc[p] = "post"
  /\ IF cnt = 0
       THEN Goto(p, "panic") /\ UNCHANGED <<cnt, bufLock>>
       ELSE /\ cnt' = cnt - 1
            /\ IF cnt' <= Max
                 THEN NotifyAll(p, "idle", "full", "wait")
                 ELSE Goto(p, "idle")
            /\ bufLock' = NoProc
  /\ UNCHANGED <<buf, msg>>

-----------------------------------------------------------------------------
\* Procs::kill makes a sleeper RUNNABLE; sleep() returns and it tests again.
Kill(p) ==
  /\ pc[p] \in {"full", "empty"}
  /\ Goto(p, IF pc[p] = "full" THEN "wait" ELSE "recv")
  /\ UNCHANGED <<cnt, buf, bufLock, msg>>

Step(p) == SemWait(p) \/ Push(p) \/ Pop(p) \/ Post(p)

Next == \E p \in Proc :
          (\E d \in Data : Send(p, d)) \/ Recv(p) \/ Step(p) \/ Kill(p)

Spec == Init /\ [][Next]_vars

\* A process inside send() or recv() runs; nobody has to call either.
FairSpec == Spec /\ \A p \in Proc : WF_vars(Step(p))

-----------------------------------------------------------------------------
TypeOK ==
  /\ cnt \in 0 .. Max
  /\ buf \in Seq(Data)
  /\ bufLock \in Proc \cup {NoProc}
  /\ msg \in [Proc -> Data]
  /\ pc \in [Proc -> Label]

At(l) == {p \in Proc : pc[p] = l}

(***************************************************************************)
(* The semaphore counts the elements in the buffer and those on their way  *)
(* in or out of it, though send() and recv() update the count and the      *)
(* buffer under different mutexes.                                         *)
(***************************************************************************)
CountIsExact ==
  cnt = Len(buf) + Cardinality(At("push")) + Cardinality(At("post"))

\* Semaphore::post never finds its count at zero, so its assertion holds,
\* although the count and the buffer are under different mutexes.
NoPanic == \A p \in Proc : pc[p] # "panic"

(***************************************************************************)
(* No wakeup of the channel is lost: a process sleeps in recv() only while *)
(* the buffer is empty, and in send() only while the count is at its       *)
(* maximum, although every receiver and sender shares one condition        *)
(* variable with the others and any of them may take what woke it.         *)
(***************************************************************************)
SleepersHaveReason ==
  /\ At("empty") # {} => buf = <<>>
  /\ At("full") # {} => cnt = Max

(***************************************************************************)
(* The channel implements a FIFO queue of at most max elements: push_back  *)
(* finds room and pop_front takes the oldest element.                      *)
(***************************************************************************)
Fifo == INSTANCE BoundedFifo WITH queue <- buf

ImplementsFifo == Fifo!Spec

(***************************************************************************)
(* Progress: while something is in the channel and somebody is in recv(),  *)
(* an element is received; while there is room and somebody is in send(),  *)
(* an element is sent.                                                     *)
(***************************************************************************)
ReceiversProgress ==
  (buf # <<>> /\ At("recv") \cup At("empty") # {}) ~> At("post") # {}

SendersProgress ==
  (cnt < Max /\ At("wait") \cup At("full") # {}) ~> At("push") # {}

-----------------------------------------------------------------------------
(***************************************************************************)
(* The inductive invariant behind the safety properties.                   *)
(***************************************************************************)
\* The mutex of buf is held across steps by the one receiver in post().
LockedInPost == \A p \in Proc : pc[p] = "post" <=> bufLock = p

IInv ==
  /\ TypeOK
  /\ LockedInPost
  /\ CountIsExact
  /\ NoPanic
  /\ SleepersHaveReason
=============================================================================
