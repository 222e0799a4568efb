---------------------------- MODULE ProcessProofs -----------------------------
(***************************************************************************)
(* The safety of module Process, for any size of the process table: IInv   *)
(* is inductive.  One lemma per action, one step per conjunct of IInv; the *)
(* actions that touch neither parents nor sleepers need fewer.             *)
(***************************************************************************)
EXTENDS Process, TLAPS

(* Addresses: entries, init among them, differ from 0 and from TICKS.      *)
LEMMA PoolFacts ==
  /\ InitProc \in Pool /\ None \notin Pool /\ TicksChan \notin Pool /\ None = 0
  /\ \A p \in Pool : p \in Nat /\ p \in 0 .. TicksChan /\ (p # NPROC => p + 1 \in Pool)
  /\ 1 \in Pool /\ TicksChan \in 0 .. TicksChan /\ 0 \in 0 .. TicksChan
  /\ 0 \in 0 .. MaxPid
BY ConstantsAssumption DEF Pool, None, InitProc, TicksChan

(* fork() takes an UNUSED entry, which is nobody's parent.                 *)
LEMMA ForkKeeps ==
  ASSUME IInv, NEW p \in Pool, Fork(p)
  PROVE  IInv'
<1>. USE PoolFacts DEF IInv, TypeOK, At, Goto, entry, Fork, alloc_proc, free_proc, Unused
<1>1. TypeOK'
  <2>1. CASE Unused = {} \/ nextId > MaxPid
    BY <2>1 DEF Fork, States, Places
  <2>2. CASE ~(Unused = {} \/ nextId > MaxPid)
    <3>1. PICK np \in Unused : alloc_proc(p, np)
      BY <2>2 DEF Fork
    <3>2. nextId \in 0 .. MaxPid /\ nextId + 1 \in Nat /\ np \in Pool /\ np \in Nat
      BY <2>2, ConstantsAssumption DEF Unused
    <3>3. CASE free_proc(np) /\ Goto(p, "ret") /\ UNCHANGED arg
      BY <3>1, <3>2, <3>3 DEF States, Places
    <3>4. CASE ~(free_proc(np) /\ Goto(p, "ret") /\ UNCHANGED arg)
      BY <3>1, <3>2, <3>4 DEF States, Places
    <3>. QED BY <3>3, <3>4
  <2>. QED BY <2>1, <2>2
<1>2. InPlace' BY DEF InPlace
<1>3. LocksHeld' BY DEF LocksHeld
<1>4. ForkersApart' BY DEF ForkersApart
<1>5. InitLives' BY DEF InitLives
<1>6. FoundIsCurrent' BY DEF FoundIsCurrent
<1>7. ParentsAreLive' BY DEF ParentsAreLive
<1>8. NoUnseenZombie' BY DEF NoUnseenZombie
<1>9. NoMissedTick' BY DEF NoMissedTick
<1>. QED BY <1>1, <1>2, <1>3, <1>4, <1>5, <1>6, <1>7, <1>8, <1>9

(* The new entry, USED, is made a child of a running process.              *)
LEMMA ForkParentKeeps ==
  ASSUME IInv, NEW p \in Pool, ForkParent(p)
  PROVE  IInv'
<1>. USE PoolFacts DEF IInv, TypeOK, At, Goto, entry, ForkParent
<1>1. TypeOK' BY ConstantsAssumption DEF States, Places
<1>2. InPlace' BY DEF InPlace
<1>3. LocksHeld' BY DEF LocksHeld
<1>4. ForkersApart' BY DEF ForkersApart
<1>5. InitLives' BY DEF InitLives
<1>6. FoundIsCurrent' BY DEF FoundIsCurrent
<1>7. ParentsAreLive' BY DEF ParentsAreLive
<1>8. NoUnseenZombie' BY DEF NoUnseenZombie
<1>9. NoMissedTick' BY DEF NoMissedTick
<1>. QED BY <1>1, <1>2, <1>3, <1>4, <1>5, <1>6, <1>7, <1>8, <1>9

(* The child starts to run; it has its parent by now.                      *)
LEMMA ForkRunKeeps ==
  ASSUME IInv, NEW p \in Pool, ForkRun(p)
  PROVE  IInv'
<1>. USE PoolFacts DEF IInv, TypeOK, At, Goto, entry, ForkRun
<1>1. TypeOK' BY ConstantsAssumption DEF States, Places
<1>2. InPlace' BY DEF InPlace
<1>3. LocksHeld' BY DEF LocksHeld
<1>4. ForkersApart' BY DEF ForkersApart
<1>5. InitLives' BY DEF InitLives
<1>6. FoundIsCurrent' BY DEF FoundIsCurrent
<1>7. ParentsAreLive' BY DEF ParentsAreLive, ForkersApart
<1>8. NoUnseenZombie' BY DEF NoUnseenZombie
<1>9. NoMissedTick' BY DEF NoMissedTick
<1>. QED BY <1>1, <1>2, <1>3, <1>4, <1>5, <1>6, <1>7, <1>8, <1>9

(* reparent() moves children to init, which does not exit and, being woken, *)
(* is not asleep in wait() when it inherits a zombie.                      *)
LEMMA ExitKeeps ==
  ASSUME IInv, NEW p \in Pool, Exit(p)
  PROVE  IInv'
<1>. USE PoolFacts DEF IInv, TypeOK, At, Goto, entry, Exit, reparent, Children, Woken
<1>1. TypeOK' BY ConstantsAssumption DEF States, Places
<1>2. InPlace' BY DEF InPlace
<1>3. LocksHeld' BY DEF LocksHeld
<1>4. ForkersApart' BY DEF ForkersApart
<1>5. InitLives' BY DEF InitLives
<1>6. FoundIsCurrent' BY DEF FoundIsCurrent, LocksHeld
<1>7. ParentsAreLive' BY DEF ParentsAreLive, InitLives
<1>8. NoUnseenZombie' BY DEF NoUnseenZombie, InPlace
<1>9. NoMissedTick' BY DEF NoMissedTick
<1>. QED BY <1>1, <1>2, <1>3, <1>4, <1>5, <1>6, <1>7, <1>8, <1>9

(* The parent, if asleep in wait(), sleeps on its own address.             *)
LEMMA WakeParentKeeps ==
  ASSUME IInv, NEW p \in Pool, WakeParent(p)
  PROVE  IInv'
<1>. USE PoolFacts DEF IInv, TypeOK, At, Goto, entry, WakeParent, Woken
<1>1. TypeOK' BY ConstantsAssumption DEF States, Places
<1>2. InPlace' BY DEF InPlace
<1>3. LocksHeld' BY DEF LocksHeld
<1>4. ForkersApart' BY DEF ForkersApart
<1>5. InitLives' BY DEF InitLives
<1>6. FoundIsCurrent' BY DEF FoundIsCurrent, InPlace
<1>7. ParentsAreLive' BY DEF ParentsAreLive
<1>8. NoUnseenZombie' BY DEF NoUnseenZombie
<1>9. NoMissedTick' BY DEF NoMissedTick
<1>. QED BY <1>1, <1>2, <1>3, <1>4, <1>5, <1>6, <1>7, <1>8, <1>9

(* The parent was woken and cannot have gone back to sleep: it needs wait_lock. *)
LEMMA ZombieKeeps ==
  ASSUME IInv, NEW p \in Pool, Zombie(p)
  PROVE  IInv'
<1>. USE PoolFacts DEF IInv, TypeOK, At, Goto, entry, Zombie
<1>1. TypeOK' BY ConstantsAssumption DEF States, Places
<1>2. InPlace' BY DEF InPlace
<1>3. LocksHeld' BY DEF LocksHeld
<1>4. ForkersApart' BY DEF ForkersApart
<1>5. InitLives' BY DEF InitLives
<1>6. FoundIsCurrent' BY DEF FoundIsCurrent, LocksHeld
<1>7. ParentsAreLive' BY DEF ParentsAreLive, FoundIsCurrent
<1>8. NoUnseenZombie' BY DEF NoUnseenZombie, FoundIsCurrent
<1>9. NoMissedTick' BY DEF NoMissedTick
<1>. QED BY <1>1, <1>2, <1>3, <1>4, <1>5, <1>6, <1>7, <1>8, <1>9

(* The scan frees a zombie, which is nobody's parent, or finds there is none. *)
LEMMA WaitScanKeeps ==
  ASSUME IInv, NEW p \in Pool, WaitScan(p)
  PROVE  IInv'
<1>. USE PoolFacts DEF IInv, TypeOK, At, Goto, entry, WaitScan, free_proc, Children
<1>0. \/ UNCHANGED entry
      \/ \E q \in Pool : parent[q] = p /\ state[q] = "ZOMBIE" /\ free_proc(q)
  BY DEF WaitScan, Children
<1>1. TypeOK'
  <2>1. CASE UNCHANGED entry BY <2>1 DEF WaitScan, Places
  <2>2. ASSUME NEW q \in Pool, free_proc(q) PROVE TypeOK'
    BY <2>2 DEF WaitScan, free_proc, States, Places
  <2>. QED BY <1>0, <2>1, <2>2
<1>2. InPlace' BY DEF InPlace
<1>3. LocksHeld' BY DEF LocksHeld
<1>4. ForkersApart' BY DEF ForkersApart
<1>5. InitLives' BY DEF InitLives
<1>6. FoundIsCurrent' BY DEF FoundIsCurrent
<1>7. ParentsAreLive'
  <2>1. CASE UNCHANGED entry BY <2>1 DEF ParentsAreLive
  <2>2. ASSUME NEW q \in Pool, state[q] = "ZOMBIE", free_proc(q) PROVE ParentsAreLive'
    BY <2>2 DEF ParentsAreLive, free_proc
  <2>. QED BY <1>0, <2>1, <2>2
<1>8. NoUnseenZombie' BY DEF NoUnseenZombie
<1>9. NoMissedTick' BY DEF NoMissedTick
<1>. QED BY <1>1, <1>2, <1>3, <1>4, <1>5, <1>6, <1>7, <1>8, <1>9

(* The parent goes to sleep with no zombie to reap.                        *)
LEMMA WaitSleepKeeps ==
  ASSUME IInv, NEW p \in Pool, WaitSleep(p)
  PROVE  IInv'
<1>. USE PoolFacts DEF IInv, TypeOK, At, Goto, entry, WaitSleep, sleep
<1>1. TypeOK' BY ConstantsAssumption DEF States, Places
<1>2. InPlace' BY DEF InPlace
<1>3. LocksHeld' BY DEF LocksHeld
<1>4. ForkersApart' BY DEF ForkersApart
<1>5. InitLives' BY DEF InitLives
<1>6. FoundIsCurrent' BY DEF FoundIsCurrent, LocksHeld
<1>7. ParentsAreLive' BY DEF ParentsAreLive
<1>8. NoUnseenZombie' BY DEF NoUnseenZombie, FoundIsCurrent
<1>9. NoMissedTick' BY DEF NoMissedTick
<1>. QED BY <1>1, <1>2, <1>3, <1>4, <1>5, <1>6, <1>7, <1>8, <1>9

(* The sleep call counts with the ticks lock held: nobody sleeps yet.      *)
LEMMA SleepCheckKeeps ==
  ASSUME IInv, NEW p \in Pool, SleepCheck(p)
  PROVE  IInv'
<1>. USE PoolFacts DEF IInv, TypeOK, At, Goto, entry, SleepCheck
<1>1. TypeOK' BY ConstantsAssumption DEF States, Places
<1>2. InPlace' /\ LocksHeld' /\ ForkersApart' /\ InitLives' /\ FoundIsCurrent'
  BY DEF InPlace, LocksHeld, ForkersApart, InitLives, FoundIsCurrent
<1>3. ParentsAreLive' /\ NoUnseenZombie' /\ NoMissedTick'
  BY DEF ParentsAreLive, NoUnseenZombie, NoMissedTick
<1>. QED BY <1>1, <1>2, <1>3

(* The sleep call goes to sleep with ticks left.                           *)
LEMMA SleepSleepKeeps ==
  ASSUME IInv, NEW p \in Pool, SleepSleep(p)
  PROVE  IInv'
<1>. USE PoolFacts DEF IInv, TypeOK, At, Goto, entry, SleepSleep, sleep
<1>1. TypeOK' BY ConstantsAssumption DEF States, Places
<1>2. InPlace' BY DEF InPlace
<1>3. LocksHeld' BY DEF LocksHeld
<1>4. ForkersApart' BY DEF ForkersApart
<1>5. InitLives' BY DEF InitLives
<1>6. FoundIsCurrent' BY DEF FoundIsCurrent
<1>7. ParentsAreLive' BY DEF ParentsAreLive
<1>8. NoUnseenZombie' BY DEF NoUnseenZombie
<1>9. NoMissedTick' BY DEF NoMissedTick, LocksHeld
<1>. QED BY <1>1, <1>2, <1>3, <1>4, <1>5, <1>6, <1>7, <1>8, <1>9

(* kill() marks a process and wakes it, whatever it sleeps on.             *)
LEMMA KillKeeps ==
  ASSUME IInv, NEW p \in Pool, kill(p)
  PROVE  IInv'
<1>. USE PoolFacts DEF IInv, TypeOK, At, Goto, entry,
       kill
<1>1. TypeOK' BY ConstantsAssumption DEF States, Places
<1>2. InPlace' /\ LocksHeld' BY DEF InPlace, LocksHeld
<1>3. ForkersApart' /\ InitLives' BY DEF ForkersApart, InitLives
<1>4. FoundIsCurrent' BY DEF FoundIsCurrent
<1>5. ParentsAreLive' /\ NoUnseenZombie' /\ NoMissedTick'
  BY DEF ParentsAreLive, NoUnseenZombie, NoMissedTick
<1>. QED BY <1>1, <1>2, <1>3, <1>4, <1>5

(* usertrap_ret, or exit(), which then still holds no lock.                *)
LEMMA ReturnKeeps ==
  ASSUME IInv, NEW p \in Pool, Return(p)
  PROVE  IInv'
BY PoolFacts, ConstantsAssumption
   DEF IInv, TypeOK, States, Places, InPlace, LocksHeld, ForkersApart, InitLives, FoundIsCurrent,
       ParentsAreLive, NoUnseenZombie, NoMissedTick, At, Goto, entry,
       Return, usertrap_ret

(* A system call starts with no lock held.                                 *)
LEMMA EcallKeeps ==
  ASSUME IInv, NEW p \in Pool, Ecall(p)
  PROVE  IInv'
<1>. USE PoolFacts DEF IInv, TypeOK, At, Goto, entry,
       Ecall, syscall, sys_exit, sys_fork, sys_wait, sys_sleep, sys_kill
<1>1. TypeOK' BY ConstantsAssumption DEF States, Places
<1>2. InPlace' /\ LocksHeld' BY DEF InPlace, LocksHeld
<1>3. ForkersApart' /\ InitLives' BY DEF ForkersApart, InitLives
<1>4. FoundIsCurrent' BY DEF FoundIsCurrent
<1>5. ParentsAreLive' /\ NoUnseenZombie' /\ NoMissedTick'
  BY DEF ParentsAreLive, NoUnseenZombie, NoMissedTick
<1>. QED BY <1>1, <1>2, <1>3, <1>4, <1>5

(* An interrupt or a fault in user code holds no lock either.              *)
LEMMA TrapKeeps ==
  ASSUME IInv, NEW p \in Pool, Trap(p)
  PROVE  IInv'
<1>. USE PoolFacts DEF IInv, TypeOK, At, Goto, entry, Trap
<1>1. TypeOK' BY ConstantsAssumption DEF States, Places
<1>2. InPlace' /\ LocksHeld' /\ ForkersApart' /\ InitLives' /\ FoundIsCurrent'
  BY DEF InPlace, LocksHeld, ForkersApart, InitLives, FoundIsCurrent
<1>3. ParentsAreLive' /\ NoUnseenZombie' /\ NoMissedTick'
  BY DEF ParentsAreLive, NoUnseenZombie, NoMissedTick
<1>. QED BY <1>1, <1>2, <1>3

(* A tick wakes all that may have no ticks left, or none.                  *)
LEMMA ClockintrKeeps ==
  ASSUME IInv, clockintr
  PROVE  IInv'
<1>1. TypeOK'
  <2>1. idleTick' \in BOOLEAN BY Zenon DEF clockintr
  <2>2. /\ state' = state \/ state' = Woken(None, TicksChan)
        /\ arg' = [p \in Pool |-> IF pc[p] \in {"sleep", "sleepSleep"} /\ arg[p] > 0
                                  THEN arg[p] - 1 ELSE arg[p]]
        /\ UNCHANGED <<pid, parent, killed, chan, pc, at, nextId, waitLock, ticksLock, scans>>
    BY DEF clockintr
  <2>. QED BY <2>1, <2>2, PoolFacts DEF IInv, TypeOK, Woken, States, Places
<1>. USE PoolFacts DEF IInv, TypeOK, At, Goto, entry, clockintr, Woken
<1>2. InPlace' BY DEF InPlace
<1>3. LocksHeld' BY DEF LocksHeld
<1>4. ForkersApart' BY DEF ForkersApart
<1>5. InitLives' BY DEF InitLives
<1>6. FoundIsCurrent' BY DEF FoundIsCurrent
<1>7. ParentsAreLive' BY DEF ParentsAreLive
<1>8. NoUnseenZombie' BY DEF NoUnseenZombie
<1>9. NoMissedTick' BY DEF NoMissedTick, InPlace
<1>. QED BY <1>1, <1>2, <1>3, <1>4, <1>5, <1>6, <1>7, <1>8, <1>9

-----------------------------------------------------------------------------
(* user_init leaves one process, in user code and with no lock.            *)
LEMMA InitIInv == Init => IInv
<1>. SUFFICES ASSUME Init PROVE IInv
  OBVIOUS
<1>. USE PoolFacts DEF Init, FirstPid
<1>0. idleTick \in BOOLEAN /\ scans \in BOOLEAN BY Zenon
<1>1. TypeOK BY <1>0 DEF TypeOK, States, Places
<1>2. InPlace /\ LocksHeld /\ ForkersApart /\ InitLives
  BY DEF InPlace, LocksHeld, ForkersApart, InitLives
<1>3. FoundIsCurrent /\ ParentsAreLive /\ NoUnseenZombie /\ NoMissedTick
  BY DEF FoundIsCurrent, ParentsAreLive, NoUnseenZombie, NoMissedTick
<1>. QED BY <1>1, <1>2, <1>3 DEF IInv

(* No step of any process, and no tick, breaks the invariant.              *)
LEMMA StepIInv == IInv /\ [Next]_vars => IInv'
<1>. SUFFICES ASSUME IInv, [Next]_vars PROVE IInv'
  OBVIOUS
<1>1. CASE UNCHANGED vars
  BY <1>1 DEF vars, IInv, TypeOK, InPlace, LocksHeld, ForkersApart, InitLives, FoundIsCurrent,
              ParentsAreLive, NoUnseenZombie, NoMissedTick, At
<1>2. CASE Panicked
  BY <1>1, <1>2 DEF Panicked
<1>3. CASE clockintr
  BY <1>3, ClockintrKeeps, PoolFacts
<1>4. ASSUME NEW p \in Pool, Kernel(p) \/ Ecall(p) \/ Trap(p)
      PROVE  IInv'
  BY <1>4, ForkKeeps, ForkParentKeeps, ForkRunKeeps, ExitKeeps, WakeParentKeeps, ZombieKeeps,
     WaitScanKeeps, WaitSleepKeeps, SleepCheckKeeps, SleepSleepKeeps, KillKeeps, ReturnKeeps,
     EcallKeeps, TrapKeeps DEF Kernel
<1>. QED BY <1>1, <1>2, <1>3, <1>4 DEF Next

(* It holds in every state the process table can reach.                    *)
LEMMA Invariance == Spec => []IInv
BY InitIInv, StepIInv, PTL DEF Spec

(***************************************************************************)
(* Every process but init has a parent and no parent has exited, however   *)
(* forks, exits and waits interleave and whatever the size of the table    *)
(* (fork, exit, reparent, wait).                                           *)
(***************************************************************************)
THEOREM OrphansGoToInit == Spec => []ParentsAreLive
<1>1. IInv => ParentsAreLive BY DEF IInv
<1>. QED BY <1>1, Invariance, PTL

(***************************************************************************)
(* Nobody sleeps in wait() with a zombie to reap, also when reparent gave  *)
(* it the zombie (wait, exit, reparent, wakeup).                           *)
(***************************************************************************)
THEOREM ZombiesAreSeen == Spec => []NoUnseenZombie
<1>1. IInv => NoUnseenZombie BY DEF IInv
<1>. QED BY <1>1, Invariance, PTL

(***************************************************************************)
(* Nobody sleeps in the sleep system call once its ticks have passed,      *)
(* unless the last tick found CPU 0 idle and woke nobody: no interleaving  *)
(* of the test and the tick loses one (SysCalls::sleep, clockintr).        *)
(***************************************************************************)
THEOREM TicksAreSeen == Spec => []NoMissedTick
<1>1. IInv => NoMissedTick BY DEF IInv
<1>. QED BY <1>1, Invariance, PTL
=============================================================================
