------------------------------- MODULE Process -------------------------------
(***************************************************************************)
(* The life of a process in kernel/proc.rs: fork(), exit(), wait(), kill() *)
(* and what they call, the system calls around them, sleep() of            *)
(* kernel/syscall.rs, and the decisions of usertrap() in kernel/trap.rs.   *)
(*                                                                         *)
(* A step is one critical section.  wait_lock is a variable, because wait() *)
(* and exit() hold it over several sections of p.inner; so is the lock of  *)
(* TICKS, which the sleep system call holds while it looks at `killed`.    *)
(* Which CPU runs a process is left to module Sched: "RUNNABLE" stands for *)
(* RUNNING too, and such a process may take its next step at any time.      *)
(* Memory is left to module Vm: allocations succeed or fail.               *)
(*                                                                         *)
(* The variable scans is chosen at the start.  FALSE is the code at hand:  *)
(* alloc_proc() returns None at the first entry that is not UNUSED, so     *)
(* that no fork() succeeds while init lives.  TRUE is its comment, "look   *)
(* in the process table for an UNUSED proc".                               *)
(***************************************************************************)
EXTENDS Naturals, FiniteSets

CONSTANTS
  NPROC,      \* entries of PROCS.pool
  MaxPid,     \* bound: the last pid handed out
  MaxSleep    \* bound: ticks a process asks to sleep for

ASSUME ConstantsAssumption ==
  /\ NPROC \in Nat \ {0}
  /\ MaxPid \in Nat
  /\ MaxSleep \in Nat

Pool == 1 .. NPROC
None == 0              \* no process; the null channel
InitProc == 1          \* the entry user_init() finds
TicksChan == NPROC + 1 \* the address of TICKS; that of entry p is p

VARIABLES
  state, pid, parent, killed, chan,  \* the fields of Proc and ProcInner
  pc,         \* where each process is: user code, or a place in the kernel
  arg,        \* argument of its system call: ticks left, pid to kill, child
  at,         \* the entry kill() looks at next
  nextId,     \* NEXTID of PId::alloc
  waitLock,   \* who holds PROCS.wait_lock
  ticksLock,  \* who holds TICKS
  panic,      \* has the kernel panicked?
  idleTick,   \* history: did the last tick leave sleepers, with CPU 0 idle?
  scans       \* does alloc_proc() go on to the next entry?

vars == <<state, pid, parent, killed, chan, pc, arg, at, nextId, waitLock, ticksLock, panic,
          idleTick, scans>>
entry == <<state, pid, parent, killed>>

States == {"UNUSED", "USED", "SLEEPING", "RUNNABLE", "ZOMBIE"}
Places == {"user", "ret", "fork", "forkParent", "forkRun", "exit", "exitWake", "exitZombie",
           "dead", "wait", "waitSleep", "sleep", "sleepSleep", "kill"}

Goto(p, place) == pc' = [pc EXCEPT ![p] = place]
At(p, place) == state[p] = "RUNNABLE" /\ pc[p] = place

(* PId::alloc: the first pid is 0, and init gets it. *)
FirstPid == 0

(* user_init(): the first entry becomes init. *)
Init ==
  /\ state = [p \in Pool |-> IF p = InitProc THEN "RUNNABLE" ELSE "UNUSED"]
  /\ pid = [p \in Pool |-> IF p = InitProc THEN FirstPid ELSE 0]
  /\ parent = [p \in Pool |-> None]
  /\ killed = [p \in Pool |-> FALSE]
  /\ chan = [p \in Pool |-> None]
  /\ pc = [p \in Pool |-> "user"]
  /\ arg = [p \in Pool |-> 0]
  /\ at = [p \in Pool |-> 1]
  /\ nextId = FirstPid + 1
  /\ waitLock = None
  /\ ticksLock = None
  /\ panic = FALSE
  /\ idleTick = FALSE
  /\ scans \in BOOLEAN

-----------------------------------------------------------------------------
(* wakeup(chan), called by process me: everybody asleep on chan but me. *)
Woken(me, c) ==
  [p \in Pool |-> IF p # me /\ state[p] = "SLEEPING" /\ chan[p] = c THEN "RUNNABLE" ELSE state[p]]

(* free_proc() of entry p.  Its chan is 0 already: it is not asleep. *)
free_proc(p) ==
  /\ state' = [state EXCEPT ![p] = "UNUSED"]
  /\ pid' = [pid EXCEPT ![p] = 0]
  /\ parent' = [parent EXCEPT ![p] = None]
  /\ killed' = [killed EXCEPT ![p] = FALSE]

(* The entries alloc_proc() may find. *)
Unused == {p \in Pool : state[p] = "UNUSED" /\ (scans \/ p = 1)}

(* alloc_proc() finds entry np: without memory for a trapframe or a page    *)
(* table the entry is freed again.  Either way a pid is used up.           *)
alloc_proc(p, np) ==
  /\ nextId' = nextId + 1
  /\ \/ /\ state' = [state EXCEPT ![np] = "USED"]
        /\ pid' = [pid EXCEPT ![np] = nextId]
        /\ arg' = [arg EXCEPT ![p] = np]
        /\ Goto(p, "forkParent")
        /\ UNCHANGED <<parent, killed>>
     \/ free_proc(np) /\ Goto(p, "ret") /\ UNCHANGED arg

(* fork(), first part: everything under np.inner.  A copy of user memory    *)
(* that fails has the effect of an allocation that fails.  Once the pids   *)
(* up to MaxPid are used up, every fork() fails.                           *)
Fork(p) ==
  /\ At(p, "fork")
  /\ IF Unused = {} \/ nextId > MaxPid
     THEN Goto(p, "ret") /\ UNCHANGED <<entry, arg, nextId>>
     ELSE \E np \in Unused : (\A r \in Unused : np <= r) /\ alloc_proc(p, np)
  /\ UNCHANGED <<chan, at, waitLock, ticksLock, panic, idleTick, scans>>

(* Variant: the child is made RUNNABLE before it has a parent. *)
RunBeforeParent(p) ==
  /\ At(p, "forkParent")
  /\ waitLock = None
  /\ state' = [state EXCEPT ![arg[p]] = "RUNNABLE"]
  /\ pc' = [pc EXCEPT ![p] = "forkRun", ![arg[p]] = "user"]
  /\ UNCHANGED <<pid, parent, killed, chan, arg, at, nextId, waitLock, ticksLock, panic, idleTick, scans>>

(* fork(), second part: the parent, under wait_lock. *)
ForkParent(p) ==
  /\ At(p, "forkParent")
  /\ waitLock = None
  /\ parent' = [parent EXCEPT ![arg[p]] = p]
  /\ Goto(p, "forkRun")
  /\ UNCHANGED <<state, pid, killed, chan, arg, at, nextId, waitLock, ticksLock, panic, idleTick, scans>>

(* fork(), last part.  fork_ret() takes the child to user space. *)
ForkRun(p) ==
  /\ At(p, "forkRun")
  /\ state' = [state EXCEPT ![arg[p]] = "RUNNABLE"]
  /\ pc' = [pc EXCEPT ![p] = "ret", ![arg[p]] = "user"]
  /\ arg' = [arg EXCEPT ![p] = 0]
  /\ UNCHANGED <<pid, parent, killed, chan, at, nextId, waitLock, ticksLock, panic, idleTick, scans>>

-----------------------------------------------------------------------------
Children(p) == {q \in Pool : parent[q] = p}

(* reparent(): the children of p go to init, who is woken if there are any. *)
reparent(p) ==
  /\ parent' = [q \in Pool |-> IF q \in Children(p) THEN InitProc ELSE parent[q]]
  /\ state' = IF Children(p) = {} THEN state ELSE Woken(p, InitProc)

(* exit(), first part: the assertion, the files (module Files), wait_lock   *)
(* and reparent().                                                         *)
Exit(p) ==
  /\ At(p, "exit")
  /\ p = InitProc \/ waitLock = None
  /\ IF p = InitProc
     THEN panic' = TRUE /\ UNCHANGED <<entry, pc, waitLock>>
     ELSE /\ waitLock' = p
          /\ reparent(p)
          /\ Goto(p, "exitWake")
          /\ UNCHANGED <<pid, killed, panic>>
  /\ UNCHANGED <<chan, arg, at, nextId, ticksLock, idleTick, scans>>

(* Variant: the exiting process wakes its own channel. *)
WakeSelf(p) ==
  /\ At(p, "exitWake")
  /\ state' = Woken(p, p)
  /\ Goto(p, "exitZombie")
  /\ UNCHANGED <<pid, parent, killed, chan, arg, at, nextId, waitLock, ticksLock, panic, idleTick, scans>>

(* Variant: the lock is released before the process is a zombie. *)
WakeAndUnlock(p) ==
  /\ At(p, "exitWake")
  /\ state' = Woken(p, parent[p])
  /\ waitLock' = None
  /\ Goto(p, "exitZombie")
  /\ UNCHANGED <<pid, parent, killed, chan, arg, at, nextId, ticksLock, panic, idleTick, scans>>

(* exit(), second part: "parent might be sleeping in wait()". *)
WakeParent(p) ==
  /\ At(p, "exitWake")
  /\ state' = Woken(p, parent[p])
  /\ Goto(p, "exitZombie")
  /\ UNCHANGED <<pid, parent, killed, chan, arg, at, nextId, waitLock, ticksLock, panic, idleTick, scans>>

(* exit(), last part: ZOMBIE, wait_lock is released, and sched(). *)
Zombie(p) ==
  /\ At(p, "exitZombie")
  /\ state' = [state EXCEPT ![p] = "ZOMBIE"]
  /\ waitLock' = None
  /\ Goto(p, "dead")
  /\ UNCHANGED <<pid, parent, killed, chan, arg, at, nextId, ticksLock, panic, idleTick, scans>>

(* wait(): the scan.  No process becomes a zombie, or anybody's child,      *)
(* while wait_lock is held, so the scan is one step.  The exit status is    *)
(* copied out through the child's page table; if that fails the child      *)
(* stays a zombie.  havekids is never reset, and need not be.               *)
WaitScan(p) ==
  /\ At(p, "wait")
  /\ waitLock = None
  /\ chan' = [chan EXCEPT ![p] = None]
  /\ LET zombies == {q \in Children(p) : state[q] = "ZOMBIE"}
     IN IF zombies # {}
        THEN /\ Goto(p, "ret")
             /\ \E q \in zombies : (\A r \in zombies : q <= r) /\ (free_proc(q) \/ UNCHANGED entry)
             /\ UNCHANGED waitLock
        ELSE IF Children(p) = {} \/ killed[p]
        THEN Goto(p, "ret") /\ UNCHANGED <<entry, waitLock>>
        ELSE Goto(p, "waitSleep") /\ waitLock' = p /\ UNCHANGED entry
  /\ UNCHANGED <<arg, at, nextId, ticksLock, panic, idleTick, scans>>

(* sleep() on channel c.  The caller's lock is released, and taken again on *)
(* the way out, when chan is tidied up (module SleepLock).                 *)
sleep(p, c) ==
  /\ state' = [state EXCEPT ![p] = "SLEEPING"]
  /\ chan' = [chan EXCEPT ![p] = c]

(* wait() goes to sleep on the address of its own process. *)
WaitSleep(p) ==
  /\ At(p, "waitSleep")
  /\ sleep(p, p)
  /\ waitLock' = None
  /\ Goto(p, "wait")
  /\ UNCHANGED <<pid, parent, killed, arg, at, nextId, ticksLock, panic, idleTick, scans>>

-----------------------------------------------------------------------------
(* Variant: TICKS is released before the process is asleep. *)
SleepCheckUnlocked(p) ==
  /\ At(p, "sleep")
  /\ ticksLock = None
  /\ Goto(p, IF arg[p] = 0 \/ killed[p] THEN "ret" ELSE "sleepSleep")
  /\ UNCHANGED <<entry, chan, arg, at, nextId, waitLock, ticksLock, panic, idleTick, scans>>

(* The sleep system call: TICKS is held, `killed` is looked at. *)
SleepCheck(p) ==
  /\ At(p, "sleep")
  /\ ticksLock = None
  /\ chan' = [chan EXCEPT ![p] = None]
  /\ IF arg[p] = 0 \/ killed[p]
     THEN /\ Goto(p, "ret")
          /\ arg' = [arg EXCEPT ![p] = 0]
          /\ UNCHANGED ticksLock
     ELSE Goto(p, "sleepSleep") /\ ticksLock' = p /\ UNCHANGED arg
  /\ UNCHANGED <<entry, at, nextId, waitLock, panic, idleTick, scans>>

(* The sleep system call goes to sleep on the address of TICKS. *)
SleepSleep(p) ==
  /\ At(p, "sleepSleep")
  /\ sleep(p, TicksChan)
  /\ ticksLock' = None
  /\ Goto(p, "sleep")
  /\ UNCHANGED <<pid, parent, killed, arg, at, nextId, waitLock, panic, idleTick, scans>>

(* clockintr(), from a timer interrupt on CPU 0.  Ticks are counted as what *)
(* is left of n - (ticks - ticks0) in each call of sleep.  wakeup() does    *)
(* its work if CPU 0 runs a process, which is not asleep, and nothing       *)
(* otherwise.                                                              *)
clockintr ==
  /\ ticksLock = None
  /\ arg' = [p \in Pool |-> IF pc[p] \in {"sleep", "sleepSleep"} /\ arg[p] > 0
                            THEN arg[p] - 1 ELSE arg[p]]
  /\ \/ /\ \E me \in Pool : state[me] = "RUNNABLE"
        /\ state' = Woken(None, TicksChan)
        /\ idleTick' = FALSE
     \/ /\ UNCHANGED state
        /\ idleTick' = \E p \in Pool : state[p] = "SLEEPING" /\ chan[p] = TicksChan
  /\ UNCHANGED <<pid, parent, killed, chan, pc, at, nextId, waitLock, ticksLock, panic, scans>>

(* kill(): looks at one entry per step, in or out of use. *)
kill(p) ==
  /\ At(p, "kill")
  /\ LET q == at[p]
         hit == pid[q] = arg[p]
     IN /\ killed' = IF hit THEN [killed EXCEPT ![q] = TRUE] ELSE killed
        /\ state' = IF hit /\ state[q] = "SLEEPING" THEN [state EXCEPT ![q] = "RUNNABLE"] ELSE state
        /\ IF hit \/ q = NPROC
           THEN /\ Goto(p, "ret")
                /\ arg' = [arg EXCEPT ![p] = 0]
                /\ at' = [at EXCEPT ![p] = 1]
           ELSE at' = [at EXCEPT ![p] = q + 1] /\ UNCHANGED <<pc, arg>>
  /\ UNCHANGED <<pid, parent, chan, nextId, waitLock, ticksLock, panic, idleTick, scans>>

-----------------------------------------------------------------------------
(* The process system calls, with any argument. *)
sys_exit(p) == Goto(p, "exit") /\ UNCHANGED arg
sys_fork(p) == Goto(p, "fork") /\ UNCHANGED arg
sys_wait(p) == Goto(p, "wait") /\ UNCHANGED arg
sys_sleep(p) == Goto(p, "sleep") /\ \E n \in 0 .. MaxSleep : arg' = [arg EXCEPT ![p] = n]
sys_kill(p) == Goto(p, "kill") /\ \E n \in 0 .. MaxPid : arg' = [arg EXCEPT ![p] = n]

(* syscall(): the dispatch. *)
syscall(p) == sys_exit(p) \/ sys_fork(p) \/ sys_wait(p) \/ sys_sleep(p) \/ sys_kill(p)

(* usertrap() for a system call: a killed process goes no further. *)
Ecall(p) ==
  /\ At(p, "user")
  /\ IF killed[p] THEN Goto(p, "exit") /\ UNCHANGED arg ELSE syscall(p)
  /\ UNCHANGED <<entry, chan, at, nextId, waitLock, ticksLock, panic, idleTick, scans>>

(* usertrap() for an interrupt that devintr() knows, or for anything else,  *)
(* which kills the process.                                                *)
Trap(p) ==
  /\ At(p, "user")
  /\ \/ UNCHANGED killed
     \/ killed' = [killed EXCEPT ![p] = TRUE]
  /\ Goto(p, "ret")
  /\ UNCHANGED <<state, pid, parent, chan, arg, at, nextId, waitLock, ticksLock, panic, idleTick, scans>>

(* Variant: only the entry to a system call looks at `killed`. *)
ReturnAnyway(p) ==
  /\ At(p, "ret")
  /\ Goto(p, "user")
  /\ UNCHANGED <<entry, chan, arg, at, nextId, waitLock, ticksLock, panic, idleTick, scans>>

(* usertrap_ret(): back to user code. *)
usertrap_ret(p) == Goto(p, "user")

(* usertrap(), the end: a process that was killed meanwhile exits. *)
Return(p) ==
  /\ At(p, "ret")
  /\ IF killed[p] THEN Goto(p, "exit") ELSE usertrap_ret(p)
  /\ UNCHANGED <<entry, chan, arg, at, nextId, waitLock, ticksLock, panic, idleTick, scans>>

(* The panic handler: an endless loop. *)
Panicked == panic /\ UNCHANGED vars

Kernel(p) ==
  \/ Fork(p) \/ ForkParent(p) \/ ForkRun(p)
  \/ Exit(p) \/ WakeParent(p) \/ Zombie(p)
  \/ WaitScan(p) \/ WaitSleep(p)
  \/ SleepCheck(p) \/ SleepSleep(p)
  \/ kill(p) \/ Return(p)

Next ==
  \/ Panicked
  \/ ~panic /\ clockintr
  \/ \E p \in Pool : ~panic /\ (Kernel(p) \/ Ecall(p) \/ Trap(p))

Spec == Init /\ [][Next]_vars

(* CPUs execute kernel code, a spinlock that is free again and again is    *)
(* taken, and timers interrupt user code.  Nothing is asked of the clock,  *)
(* whose ticks may find CPU 0 idle for ever.                               *)
FairSpec ==
  /\ Spec
  /\ \A p \in Pool : SF_vars(~panic /\ Kernel(p)) /\ WF_vars(~panic /\ Trap(p))

-----------------------------------------------------------------------------
(***************************************************************************)
(* The types of the variables.                                             *)
(***************************************************************************)
TypeOK ==
  /\ state \in [Pool -> States]
  /\ pid \in [Pool -> 0 .. MaxPid]
  /\ parent \in [Pool -> Pool \cup {None}]
  /\ killed \in [Pool -> BOOLEAN]
  /\ chan \in [Pool -> 0 .. TicksChan]
  /\ pc \in [Pool -> Places]
  /\ arg \in [Pool -> Nat]
  /\ at \in [Pool -> Pool]
  /\ nextId \in Nat
  /\ waitLock \in Pool \cup {None}
  /\ ticksLock \in Pool \cup {None}
  /\ idleTick \in BOOLEAN /\ scans \in BOOLEAN

(***************************************************************************)
(* Every process that runs, sleeps or waits to be reaped, except init, has *)
(* a parent, and no parent has exited: what exit() wakes, reparent() moves *)
(* children away from and wait() scans for.                                *)
(***************************************************************************)
ParentsAreLive ==
  \A p \in Pool :
    /\ state[p] \in {"RUNNABLE", "SLEEPING", "ZOMBIE"} /\ p # InitProc => parent[p] # None
    /\ parent[p] # None => state[parent[p]] \in {"RUNNABLE", "SLEEPING"}

(***************************************************************************)
(* Nobody sleeps in wait() with a zombie to reap, though exit() wakes the  *)
(* parent before the child is a zombie, and though a zombie may change     *)
(* parents while init sleeps.                                              *)
(***************************************************************************)
NoUnseenZombie ==
  \A p, q \in Pool :
    state[p] = "SLEEPING" /\ pc[p] = "wait" /\ parent[q] = p => state[q] # "ZOMBIE"

(***************************************************************************)
(* Nobody sleeps in the sleep system call once its ticks have passed,      *)
(* unless the last tick passed it by on an idle CPU 0: the lock of TICKS   *)
(* covers the test and the way into sleep(), and a tick on a CPU with a    *)
(* process wakes all sleepers, those that earlier ticks left included.     *)
(***************************************************************************)
NoMissedTick ==
  \A p \in Pool : state[p] = "SLEEPING" /\ pc[p] = "sleep" => arg[p] > 0 \/ idleTick

(***************************************************************************)
(* What makes these inductive.  First, states and places agree, and who is  *)
(* in the middle of a critical section of several steps holds the lock.    *)
(***************************************************************************)
InPlace ==
  \A p \in Pool :
    /\ state[p] = "SLEEPING" => \/ pc[p] = "wait" /\ chan[p] = p
                                \/ pc[p] = "sleep" /\ chan[p] = TicksChan
    /\ state[p] = "ZOMBIE" => pc[p] = "dead"
    /\ state[p] \in {"UNUSED", "USED"} => pc[p] \in {"user", "dead"}
LocksHeld ==
  \A p \in Pool :
    /\ pc[p] \in {"exitWake", "exitZombie", "waitSleep"} => waitLock = p
    /\ pc[p] = "sleepSleep" => ticksLock = p /\ arg[p] > 0

(***************************************************************************)
(* Calls of fork() under way have distinct new entries, and init does not   *)
(* exit: the parent of a child is there when it starts to run.             *)
(***************************************************************************)
ForkersApart ==
  \A p \in Pool : pc[p] \in {"forkParent", "forkRun"} =>
    /\ arg[p] \in Pool /\ state[arg[p]] = "USED"
    /\ pc[p] = "forkRun" => parent[arg[p]] = p
    /\ \A q \in Pool \ {p} : pc[q] \in {"forkParent", "forkRun"} => arg[q] # arg[p]
InitLives ==
  state[InitProc] \in {"RUNNABLE", "SLEEPING"} /\ pc[InitProc] \notin {"exitWake", "exitZombie", "dead"}

(***************************************************************************)
(* What was found under wait_lock stays true while it is held: an exiting  *)
(* process has no children, a scan that found no zombie misses none, and   *)
(* the parent that exit() woke is not asleep again.                        *)
(***************************************************************************)
FoundIsCurrent ==
  \A p, q \in Pool : parent[q] = p =>
    /\ pc[p] \notin {"exitWake", "exitZombie"}
    /\ pc[p] = "waitSleep" => state[q] # "ZOMBIE"
    /\ pc[q] = "exitZombie" => ~(state[p] = "SLEEPING" /\ pc[p] = "wait")

IInv ==
  /\ TypeOK /\ InPlace /\ LocksHeld /\ ForkersApart /\ InitLives /\ FoundIsCurrent
  /\ ParentsAreLive /\ NoUnseenZombie /\ NoMissedTick

(***************************************************************************)
(* When init is in wait() and has a zombie child, its own or an orphan     *)
(* left by reparent(), wait() returns.                                     *)
(***************************************************************************)
InitReaps ==
  (pc[InitProc] \in {"wait", "waitSleep"}
     /\ \E q \in Pool : parent[q] = InitProc /\ state[q] = "ZOMBIE")
  ~> (pc[InitProc] = "ret" \/ panic)

(***************************************************************************)
(* A killed process exits, unless it was killed in wait() or in the sleep  *)
(* system call after it looked at `killed` and before it was asleep.  "The *)
(* victim won't exit until it tries to return to user space."  (For init,  *)
(* exiting is a panic.)                                                    *)
(***************************************************************************)
KilledExits ==
  \A p \in Pool \ {InitProc} :
    (killed[p] /\ state[p] = "RUNNABLE" /\ pc[p] \notin {"waitSleep", "sleepSleep"})
    ~> (state[p] = "ZOMBIE" \/ panic)
=============================================================================
