--------------------------- MODULE SleepLockProofs ---------------------------
(***************************************************************************)
(* Proofs about SleepLock, for any set of processes and whether or not     *)
(* p.inner stays held while p sleeps: the type invariant, mutual exclusion,*)
(* that no assertion on the sleep lock fires, and that no wakeup is lost.  *)
(***************************************************************************)
EXTENDS SleepLock, TLAPS

USE ConstantsAssumption DEF Label, NoChan, Self, Goto, SpinLock, SpinUnlock

(***************************************************************************)
(* Every step of lock(), sleep(), drop(), wakeup() and kill() keeps the    *)
(* type of locked, pid and lk of the SleepLock and of state, chan and      *)
(* inner of every process.                                                 *)
(***************************************************************************)
LEMMA TypeStep == TypeOK /\ [Next]_vars => TypeOK'
<1> SUFFICES ASSUME TypeOK, [Next]_vars PROVE TypeOK'
  OBVIOUS
<1> USE DEF TypeOK
<1>1. ASSUME NEW p \in Proc, Call(p) PROVE TypeOK'
  BY <1>1 DEF Call
<1>2. ASSUME NEW p \in Proc, Lock(p) PROVE TypeOK'
  BY <1>2 DEF Lock
<1>3. ASSUME NEW p \in Proc, Test(p) PROVE TypeOK'
  BY <1>3 DEF Test
<1>4. ASSUME NEW p \in Proc, SetPid(p) PROVE TypeOK'
  BY <1>4 DEF SetPid
<1>5. ASSUME NEW p \in Proc, SleepLockInner(p) PROVE TypeOK'
  BY <1>5 DEF SleepLockInner
<1>6. ASSUME NEW p \in Proc, SleepUnlock(p) PROVE TypeOK'
  BY <1>6 DEF SleepUnlock
<1>7. ASSUME NEW p \in Proc, Sched(p) PROVE TypeOK'
  BY <1>7 DEF Sched, SetSleeping
<1>8. ASSUME NEW p \in Proc, Resume(p) PROVE TypeOK'
  BY <1>8 DEF Resume
<1>9. ASSUME NEW p \in Proc, Tidy(p) PROVE TypeOK'
  BY <1>9 DEF Tidy
<1>10. ASSUME NEW p \in Proc, Done(p) PROVE TypeOK'
  BY <1>10 DEF Done
<1>11. ASSUME NEW p \in Proc, Holding(p) PROVE TypeOK'
  BY <1>11 DEF Holding
<1>12. ASSUME NEW p \in Proc, Check(p) PROVE TypeOK'
  BY <1>12 DEF Check
<1>13. ASSUME NEW p \in Proc, Drop(p) PROVE TypeOK'
  BY <1>13 DEF Drop
<1>14. ASSUME NEW p \in Proc, Clear(p) PROVE TypeOK'
  BY <1>14 DEF Clear
<1>15. ASSUME NEW p \in Proc, NEW q \in Proc, Wakeup(p, q) PROVE TypeOK'
  BY <1>15 DEF Wakeup
<1>16. ASSUME NEW p \in Proc, Release(p) PROVE TypeOK'
  BY <1>16 DEF Release
<1>17. ASSUME NEW p \in Proc, Kill(p) PROVE TypeOK'
  BY <1>17 DEF Kill
<1>18. ASSUME NEW p \in Proc, SchedCaught(p) PROVE TypeOK'
  BY <1>18 DEF SchedCaught, SetSleeping
<1>19. ASSUME NEW p \in Proc, NEW q \in Proc, WakeupCaught(p, q) PROVE TypeOK'
  BY <1>19 DEF WakeupCaught
<1>20. CASE UNCHANGED vars
  BY <1>20 DEF vars
<1> QED
  BY <1>1, <1>2, <1>3, <1>4, <1>5, <1>6, <1>7, <1>8, <1>9, <1>10, <1>11,
     <1>12, <1>13, <1>14, <1>15, <1>16, <1>17, <1>18, <1>19, <1>20 DEF Next, Step

(***************************************************************************)
(* Every reachable state of the sleep lock is type correct.                *)
(***************************************************************************)
THEOREM TypeCorrect == Spec => []TypeOK
<1>1. Init => TypeOK
  BY DEF Init, TypeOK
<1> QED
  BY <1>1, TypeStep, PTL DEF Spec

(***************************************************************************)
(* IInv is inductive.  The steps that carry the argument are Clear, where  *)
(* every process committed to sleep enters the releaser's wakeup() list;   *)
(* Wakeup, where an entry leaves the list only once that process is off    *)
(* its CPU (its inner lock is free) and so sees the new state; and Test,   *)
(* where a process commits to sleeping only under lk with locked = true.   *)
(***************************************************************************)
LEMMA InvStep == IInv /\ [Next]_vars => IInv'
<1> SUFFICES ASSUME IInv, [Next]_vars PROVE IInv'
  OBVIOUS
<1>0. TypeOK'
  BY TypeStep DEF IInv
<1> USE <1>0 DEF IInv, TypeOK, SpinlockHeld, InnerHeld, OwnerRecorded, Owner,
    Guarded, HoldsLk, SleepsOnLock, OnlySleepersAreWoken, NoPanic,
    NoLostWakeup, Committed
<1>1. ASSUME NEW p \in Proc, Call(p) PROVE IInv'
  BY <1>1 DEF Call
<1>2. ASSUME NEW p \in Proc, Lock(p) PROVE IInv'
  BY <1>2 DEF Lock
<1>3. ASSUME NEW p \in Proc, Test(p) PROVE IInv'
  BY <1>3 DEF Test
<1>4. ASSUME NEW p \in Proc, SetPid(p) PROVE IInv'
  BY <1>4 DEF SetPid
<1>5. ASSUME NEW p \in Proc, SleepLockInner(p) PROVE IInv'
  BY <1>5 DEF SleepLockInner
<1>6. ASSUME NEW p \in Proc, SleepUnlock(p) PROVE IInv'
  BY <1>6 DEF SleepUnlock
<1>7. ASSUME NEW p \in Proc, Sched(p) PROVE IInv'
  BY <1>7 DEF Sched, SetSleeping
<1>8. ASSUME NEW p \in Proc, Resume(p) PROVE IInv'
  BY <1>8 DEF Resume
<1>9. ASSUME NEW p \in Proc, Tidy(p) PROVE IInv'
  BY <1>9 DEF Tidy
<1>10. ASSUME NEW p \in Proc, Done(p) PROVE IInv'
  BY <1>10 DEF Done
<1>11. ASSUME NEW p \in Proc, Holding(p) PROVE IInv'
  BY <1>11 DEF Holding
<1>12. ASSUME NEW p \in Proc, Check(p) PROVE IInv'
  BY <1>12 DEF Check
<1>13. ASSUME NEW p \in Proc, Drop(p) PROVE IInv'
  BY <1>13 DEF Drop
<1>14. ASSUME NEW p \in Proc, Clear(p) PROVE IInv'
  BY <1>14 DEF Clear
<1>15. ASSUME NEW p \in Proc, NEW q \in Proc, Wakeup(p, q) PROVE IInv'
  BY <1>15 DEF Wakeup
<1>16. ASSUME NEW p \in Proc, Release(p) PROVE IInv'
  BY <1>16 DEF Release
<1>17. ASSUME NEW p \in Proc, Kill(p) PROVE IInv'
  BY <1>17 DEF Kill
<1>18. ASSUME NEW p \in Proc, SchedCaught(p) PROVE IInv'
  BY <1>18 DEF SchedCaught, SetSleeping
<1>19. ASSUME NEW p \in Proc, NEW q \in Proc, WakeupCaught(p, q) PROVE IInv'
  BY <1>19 DEF WakeupCaught
<1>20. CASE UNCHANGED vars
  BY <1>20 DEF vars
<1> QED
  BY <1>1, <1>2, <1>3, <1>4, <1>5, <1>6, <1>7, <1>8, <1>9, <1>10, <1>11,
     <1>12, <1>13, <1>14, <1>15, <1>16, <1>17, <1>18, <1>19, <1>20 DEF Next, Step

(***************************************************************************)
(* The inductive invariant holds in every reachable state.                 *)
(***************************************************************************)
LEMMA Invariance == Spec => []IInv
<1>1. Init => IInv
  BY DEF Init, IInv, TypeOK, SpinlockHeld, InnerHeld, OwnerRecorded, Owner,
     Guarded, HoldsLk, SleepsOnLock, OnlySleepersAreWoken, NoPanic,
     NoLostWakeup, Committed
<1> QED
  BY <1>1, InvStep, PTL DEF Spec

(***************************************************************************)
(* SleepLock::lock hands out one guard at a time, for any number of        *)
(* processes and whether or not a sleeper's p.inner is released.           *)
(***************************************************************************)
THEOREM SleepLockExcludes == Spec => []MutualExclusion
<1>1. IInv => MutualExclusion
  BY DEF IInv, OwnerRecorded, Owner, MutualExclusion
<1> QED
  BY <1>1, Invariance, PTL

(***************************************************************************)
(* The assertions "acquire" of Mutex::lock and "release" of the sleep      *)
(* lock's drop() never fire, pid 0 included.                               *)
(***************************************************************************)
THEOREM SleepLockNeverPanics == Spec => []NoPanic
<1>1. IInv => NoPanic
  BY DEF IInv
<1> QED
  BY <1>1, Invariance, PTL

(***************************************************************************)
(* sleep() and wakeup() never miss each other: no process is asleep, or on *)
(* its way to sleep, on a free lock unless the releaser's loop will still  *)
(* visit it.                                                               *)
(***************************************************************************)
THEOREM SleepLockKeepsWakeups == Spec => []NoLostWakeup
<1>1. IInv => NoLostWakeup
  BY DEF IInv
<1> QED
  BY <1>1, Invariance, PTL
=============================================================================
