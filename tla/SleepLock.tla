------------------------------ MODULE SleepLock ------------------------------
(***************************************************************************)
(* The sleeping lock of kernel/sleeplock.rs together with the code that    *)
(* blocks and unblocks a process under it: Mutex::lock and its guard       *)
(* (spinlock.rs), Process::sleep, Procs::wakeup, Procs::kill, Cpu::sched   *)
(* and scheduler() (proc.rs).                                              *)
(*                                                                         *)
(* Granularity.  A step is one acquisition or release of a spinlock with   *)
(* the code that runs under it.  The spinlock `lk` of the sleep lock is    *)
(* held across several steps.  The spinlock `inner` of a process is held   *)
(* across steps only by the process itself, on its way to sleep and back;  *)
(* wakeup(), kill() and pid() take it for one access of ProcInner, so each *)
(* of those is one step whose guard is that `inner` is free.               *)
(*                                                                         *)
(* A process that holds a spinlock runs with interrupts off on one CPU, so *)
(* the CPU in Mutex.locked is identified with the process running on it.   *)
(*                                                                         *)
(* What becomes of p.inner when p switches back to scheduler() is left     *)
(* open at each sleep.  In the code it stays held: the guard was moved     *)
(* into c.proc_lock and taken out by fork_ret, and nothing releases the    *)
(* lock p took in sleep().  sleep() needs it released ("Reacquires lock    *)
(* when awakend"), as the comment in scheduler() describes.  A lock that   *)
(* stays held belongs to the CPU p slept on, which may be that of any      *)
(* other process: "caught" is where that process panics over it.           *)
(***************************************************************************)
EXTENDS Naturals

CONSTANTS
  Proc,    \* the processes, named by their pid
  NoProc   \* a spinlock that is free (a null Cpu pointer)

ASSUME ConstantsAssumption ==
  /\ Proc \subseteq Nat
  /\ NoProc \notin Proc

VARIABLES
  lk,      \* SleepLock.lk: the process holding the spinlock, or NoProc
  locked,  \* SleepLockInfo.locked
  pid,     \* SleepLockInfo.pid
  inner,   \* inner[p]: is Proc.inner of p held across steps (by p, from sleep on)?
  state,   \* ProcInner.state
  chan,    \* ProcInner.chan
  todo,    \* todo[p]: pool entries the wakeup() loop of p has yet to visit
  pc       \* where p is in lock(), sleep() or drop()

vars == <<lk, locked, pid, inner, state, chan, todo, pc>>

NoChan == 0    \* the value sleep() leaves in chan
Self == 1      \* the address of the sleep lock, its sleep channel

Label == {"idle", "lock", "test", "sleep", "unlock", "sched", "asleep",
          "tidy", "pid", "cs", "holding", "check", "drop", "clear", "wakeup",
          "panic", "caught"}

\* The states in which p owns a SleepLockGuard.
Guarded == {"cs", "holding", "check", "drop", "clear"}

Goto(p, l) == pc' = [pc EXCEPT ![p] = l]

Init ==
  /\ lk = NoProc
  /\ locked = FALSE
  /\ pid = 0
  /\ inner = [p \in Proc |-> FALSE]
  /\ state = [p \in Proc |-> "RUNNING"]
  /\ chan = [p \in Proc |-> NoChan]
  /\ todo = [p \in Proc |-> {}]
  /\ pc = [p \in Proc |-> "idle"]

-----------------------------------------------------------------------------
(***************************************************************************)
(* Mutex::lock on the sleep lock's spinlock.  The assertion that this CPU  *)
(* does not hold the lock already comes before the compare_exchange loop.  *)
(***************************************************************************)
SpinLock(p, next) ==
  \/ /\ lk = p
     /\ Goto(p, "panic")
     /\ UNCHANGED lk
  \/ /\ lk = NoProc
     /\ lk' = p
     /\ Goto(p, next)

\* MutexGuard::drop.
SpinUnlock(p, next) ==
  /\ lk' = NoProc
  /\ Goto(p, next)

-----------------------------------------------------------------------------
(***************************************************************************)
(* SleepLock::lock                                                         *)
(***************************************************************************)
\* The caller enters lock().
Call(p) ==
  /\ pc[p] = "idle"
  /\ Goto(p, "lock")
  /\ UNCHANGED <<lk, locked, pid, inner, state, chan, todo>>

\* self.lk.lock(), at the start of lock() and at the end of sleep().
Lock(p) ==
  /\ pc[p] = "lock"
  /\ SpinLock(p, "test")
  /\ UNCHANGED <<locked, pid, inner, state, chan, todo>>

\* while lk.locked { sleep }; lk.locked = true
Test(p) ==
  /\ pc[p] = "test"
  /\ IF locked
       THEN Goto(p, "sleep") /\ UNCHANGED locked
       ELSE Goto(p, "pid") /\ locked' = TRUE
  /\ UNCHANGED <<lk, pid, inner, state, chan, todo>>

\* Variant: the pid is not recorded.
SetPidForgotten(p) ==
  /\ pc[p] = "pid"
  /\ ~inner[p]
  /\ SpinUnlock(p, "cs")
  /\ UNCHANGED <<locked, pid, inner, state, chan, todo>>

\* lk.pid = p.pid(), which takes p.inner; then lk is dropped.
SetPid(p) ==
  /\ pc[p] = "pid"
  /\ ~inner[p]
  /\ pid' = p
  /\ SpinUnlock(p, "cs")
  /\ UNCHANGED <<locked, inner, state, chan, todo>>

-----------------------------------------------------------------------------
(***************************************************************************)
(* Process::sleep(chan, guard of lk)                                       *)
(***************************************************************************)
\* Variant: p.inner is not taken before lk is released.
SleepWithoutInner(p) ==
  /\ pc[p] = "sleep"
  /\ Goto(p, "unlock")
  /\ UNCHANGED <<lk, locked, pid, inner, state, chan, todo>>

\* let mut lock = self.inner.lock()
SleepLockInner(p) ==
  /\ pc[p] = "sleep"
  /\ ~inner[p]
  /\ inner' = [inner EXCEPT ![p] = TRUE]
  /\ Goto(p, "unlock")
  /\ UNCHANGED <<lk, locked, pid, state, chan, todo>>

\* mutex = Mutex::unlock(mutex_guard)
SleepUnlock(p) ==
  /\ pc[p] = "unlock"
  /\ SpinUnlock(p, "sched")
  /\ UNCHANGED <<locked, pid, inner, state, chan, todo>>

\* lock.chan = chan; lock.state = SLEEPING; sched().  Whether p.inner is free
\* while p sleeps is up to scheduler().
SetSleeping(p) ==
  /\ pc[p] = "sched"
  /\ chan' = [chan EXCEPT ![p] = Self]
  /\ state' = [state EXCEPT ![p] = "SLEEPING"]
  /\ UNCHANGED <<lk, locked, pid, todo>>

Sched(p) ==
  /\ SetSleeping(p)
  /\ \E kept \in BOOLEAN : inner' = [inner EXCEPT ![p] = kept]
  /\ Goto(p, "asleep")

\* The CPU of p may have kept p.inner of q, which slept on it before.
Kept(q) == pc[q] = "asleep" /\ inner[q]

\* sched() asserts that p.inner is the only lock its CPU holds.
SchedCaught(p) ==
  /\ SetSleeping(p)
  /\ \E q \in Proc : Kept(q)
  /\ Goto(p, "caught")
  /\ UNCHANGED inner

\* scheduler(): lock p.inner, see RUNNABLE, switch to p.
Resume(p) ==
  /\ pc[p] = "asleep"
  /\ ~inner[p]
  /\ state[p] = "RUNNABLE"
  /\ inner' = [inner EXCEPT ![p] = TRUE]
  /\ state' = [state EXCEPT ![p] = "RUNNING"]
  /\ Goto(p, "tidy")
  /\ UNCHANGED <<lk, locked, pid, chan, todo>>

\* Variant: `if` for `while`, so the woken process does not test again.
TidyTakesLock(p) ==
  /\ pc[p] = "tidy"
  /\ lk = NoProc
  /\ lk' = p
  /\ locked' = TRUE
  /\ chan' = [chan EXCEPT ![p] = NoChan]
  /\ inner' = [inner EXCEPT ![p] = FALSE]
  /\ Goto(p, "pid")
  /\ UNCHANGED <<pid, state, todo>>

\* lock.chan = 0; the guard of p.inner is dropped; then mutex.lock().
Tidy(p) ==
  /\ pc[p] = "tidy"
  /\ chan' = [chan EXCEPT ![p] = NoChan]
  /\ inner' = [inner EXCEPT ![p] = FALSE]
  /\ Goto(p, "lock")
  /\ UNCHANGED <<lk, locked, pid, state, todo>>

-----------------------------------------------------------------------------
(***************************************************************************)
(* SleepLockGuard::drop                                                    *)
(***************************************************************************)
\* The holder is done with the data.
Done(p) ==
  /\ pc[p] = "cs"
  /\ Goto(p, "holding")
  /\ UNCHANGED <<lk, locked, pid, inner, state, chan, todo>>

\* SleepLock::holding takes lk ...
Holding(p) ==
  /\ pc[p] = "holding"
  /\ SpinLock(p, "check")
  /\ UNCHANGED <<locked, pid, inner, state, chan, todo>>

\* ... and compares pid with p.pid() when locked; drop() asserts the result.
Check(p) ==
  /\ pc[p] = "check"
  /\ locked => ~inner[p]
  /\ SpinUnlock(p, IF locked /\ pid = p THEN "drop" ELSE "panic")
  /\ UNCHANGED <<locked, pid, inner, state, chan, todo>>

\* let mut lk = self.sleep_lock.lk.lock()
Drop(p) ==
  /\ pc[p] = "drop"
  /\ SpinLock(p, "clear")
  /\ UNCHANGED <<locked, pid, inner, state, chan, todo>>

\* lk.locked = false; lk.pid = 0; PROCS.wakeup(..) starts over the pool.
Clear(p) ==
  /\ pc[p] = "clear"
  /\ locked' = FALSE
  /\ pid' = 0
  /\ todo' = [todo EXCEPT ![p] = Proc \ {p}]
  /\ Goto(p, "wakeup")
  /\ UNCHANGED <<lk, inner, state, chan>>

(***************************************************************************)
(* Procs::wakeup: one iteration, for pool entry q (never the caller).  Any *)
(* order of the entries is allowed: pids say nothing about pool positions. *)
(***************************************************************************)
Wakeup(p, q) ==
  /\ pc[p] = "wakeup"
  /\ q \in todo[p]
  /\ ~inner[q]
  /\ state' = IF state[q] = "SLEEPING" /\ chan[q] = Self
                THEN [state EXCEPT ![q] = "RUNNABLE"]
                ELSE state
  /\ todo' = [todo EXCEPT ![p] = @ \ {q}]
  /\ UNCHANGED <<lk, locked, pid, inner, chan, pc>>

\* Mutex::lock on p.inner of q asserts that this CPU does not hold it.
WakeupCaught(p, q) ==
  /\ pc[p] = "wakeup"
  /\ q \in todo[p]
  /\ Kept(q)
  /\ Goto(p, "caught")
  /\ UNCHANGED <<lk, locked, pid, inner, state, chan, todo>>

\* The end of drop(): the guard of lk goes out of scope.
Release(p) ==
  /\ pc[p] = "wakeup"
  /\ todo[p] = {}
  /\ SpinUnlock(p, "idle")
  /\ UNCHANGED <<locked, pid, inner, state, chan, todo>>

-----------------------------------------------------------------------------
(***************************************************************************)
(* Procs::kill(q), from any process outside this lock's code: a sleeper is *)
(* made RUNNABLE though nobody released the lock.                          *)
(***************************************************************************)
Kill(q) ==
  /\ ~inner[q]
  /\ state[q] = "SLEEPING"
  /\ state' = [state EXCEPT ![q] = "RUNNABLE"]
  /\ UNCHANGED <<lk, locked, pid, inner, chan, todo, pc>>

Step(p) ==
  \/ Lock(p) \/ Test(p) \/ SetPid(p)
  \/ SleepLockInner(p) \/ SleepUnlock(p) \/ Sched(p) \/ SchedCaught(p)
  \/ Resume(p) \/ Tidy(p)
  \/ Done(p) \/ Holding(p) \/ Check(p) \/ Drop(p) \/ Clear(p)
  \/ \E q \in Proc : Wakeup(p, q) \/ WakeupCaught(p, q)
  \/ Release(p)

Next == \E p \in Proc : Call(p) \/ Step(p) \/ Kill(p)

Spec == Init /\ [][Next]_vars

-----------------------------------------------------------------------------
TypeOK ==
  /\ lk \in Proc \cup {NoProc}
  /\ locked \in BOOLEAN
  /\ pid \in Proc \cup {0}
  /\ inner \in [Proc -> BOOLEAN]
  /\ state \in [Proc -> {"RUNNING", "RUNNABLE", "SLEEPING"}]
  /\ chan \in [Proc -> {NoChan, Self}]
  /\ todo \in [Proc -> SUBSET Proc]
  /\ pc \in [Proc -> Label]

(***************************************************************************)
(* SleepLock::lock returns a guard to one process at a time, whatever the  *)
(* interleaving of lock(), sleep(), drop(), wakeup() and kill().           *)
(***************************************************************************)
MutualExclusion ==
  \A p, q \in Proc : pc[p] \in Guarded /\ pc[q] \in Guarded => p = q

(***************************************************************************)
(* No assertion of the lock's code fires on the sleep lock: not "acquire"  *)
(* of lk in Mutex::lock (a CPU taking a spinlock it holds), and not        *)
(* "release" in drop(), which compares the recorded pid with the caller's  *)
(* although pid 0 is both the first process and the value drop() leaves    *)
(* behind.                                                                 *)
(***************************************************************************)
NoPanic == \A p \in Proc : pc[p] # "panic"

(***************************************************************************)
(* No wakeup is lost between the test of `locked` and going to sleep: when *)
(* the lock is free, a process that is asleep, or committed to sleeping,   *)
(* has been made RUNNABLE or is still ahead of the releaser's loop, even   *)
(* one that was caught in it.                                              *)
(***************************************************************************)
Committed(p) ==
  \/ pc[p] \in {"sleep", "unlock", "sched"}
  \/ pc[p] = "asleep" /\ state[p] = "SLEEPING"

NoLostWakeup ==
  \A p \in Proc : Committed(p) =>
    \/ locked
    \/ \E q \in Proc : pc[q] \in {"wakeup", "caught"} /\ p \in todo[q]

(***************************************************************************)
(* wakeup() and kill() only act on a process that has left its CPU: a      *)
(* process in any other part of the code is RUNNING, and one that was      *)
(* caught in sched() keeps p.inner.                                        *)
(***************************************************************************)
OnlySleepersAreWoken ==
  \A p \in Proc :
    state[p] # "RUNNING" => \/ pc[p] = "asleep"
                            \/ pc[p] = "caught" /\ inner[p]

-----------------------------------------------------------------------------
(***************************************************************************)
(* The inductive invariant behind the safety properties.                   *)
(***************************************************************************)
\* lk names the one process that is between SpinLock and SpinUnlock.
HoldsLk == {"test", "pid", "sleep", "unlock", "check", "clear", "wakeup"}

SpinlockHeld ==
  \A p \in Proc : /\ pc[p] \in HoldsLk => lk = p
                  /\ lk = p => pc[p] \in HoldsLk \cup {"caught"}

\* p holds its own inner lock from sleep() until it is off its CPU, and again
\* from the switch back until it tidies up.
InnerHeld ==
  \A p \in Proc :
    /\ pc[p] \in {"unlock", "sched", "tidy"} => inner[p]
    /\ inner[p] => pc[p] \in {"unlock", "sched", "asleep", "tidy", "caught"}

\* `locked` and `pid` describe the process that owns the lock.
Owner == Guarded \cup {"pid"}

OwnerRecorded ==
  /\ \A p \in Proc : pc[p] \in Owner => locked
  /\ \A p \in Proc : pc[p] \in Guarded => pid = p
  /\ \A p, q \in Proc : pc[p] \in Owner /\ pc[q] \in Owner => p = q

\* A sleeper sleeps on this lock's channel.
SleepsOnLock == \A p \in Proc : pc[p] = "asleep" => chan[p] = Self

IInv ==
  /\ TypeOK
  /\ SpinlockHeld
  /\ InnerHeld
  /\ OwnerRecorded
  /\ SleepsOnLock
  /\ OnlySleepersAreWoken
  /\ NoPanic
  /\ NoLostWakeup
=============================================================================
