-------------------------------- MODULE Sched --------------------------------
(***************************************************************************)
(* scheduler(), Cpu::sched, yielding(), sleep(), exit(), fork_ret() and    *)
(* wakeup() of kernel/proc.rs on several CPUs: which CPU runs which        *)
(* process, and the passing of p.inner between a process and the scheduler *)
(* of the CPU that runs it.                                                *)
(*                                                                         *)
(* A step is one critical section of a p.inner or one swtch().  The lock a *)
(* process gives up in sleep() is left to module SleepLock; here sleep()   *)
(* starts when it takes p.inner.  There is one sleep channel.  fork() and   *)
(* wait() are here as far as they hand entries of the pool to the          *)
(* scheduler and take them back; any process may call them on any entry.   *)
(*                                                                         *)
(* What happens to p.inner when p has switched back to scheduler() is the  *)
(* variable releases, chosen at the start.  FALSE is the code at hand:     *)
(* scheduler() moves the guard of p.inner into c.proc_lock, only           *)
(* fork_ret() takes it out again, and nothing releases the lock that p     *)
(* took before it switched back.  TRUE is the hand-over its comments       *)
(* describe: a process that resumes releases the lock scheduler() took,    *)
(* and scheduler() the one the process took "before jumping back to us".   *)
(***************************************************************************)
EXTENDS Naturals

CONSTANTS
  Cpu,       \* the harts
  Hart0,     \* the one that takes the clock interrupts
  NPROC,     \* entries of PROCS.pool
  None       \* no process, or no CPU

Pool == 1 .. NPROC
InitProc == 1      \* the process user_init() sets up; it never exits

ASSUME ConstantsAssumption ==
  /\ NPROC \in Nat \ {0}
  /\ None \notin Cpu \cup Pool
  /\ Hart0 \in Cpu

VARIABLES
  inner,     \* inner[p]: the CPU holding Proc.inner of p, or None
  state,     \* ProcInner.state
  proc,      \* Cpu.proc: what my_proc() returns
  proc_lock, \* Cpu.proc_lock: the process whose guard is kept there
  running,   \* whose kernel thread c executes; None is the scheduler's
  next,      \* where the scan of scheduler() is
  todo,      \* entries wakeup() on c has yet to visit
  pc,        \* what the thread on c is about to do
  ctx,       \* ctx[p]: where p goes on when it is switched to
  releases   \* is p.inner released after p has left its CPU?

vars == <<inner, state, proc, proc_lock, running, next, todo, pc, ctx, releases>>

Init ==
  /\ inner = [p \in Pool |-> None]
  /\ state = [p \in Pool |-> IF p = InitProc THEN "RUNNABLE" ELSE "UNUSED"]
  /\ proc = [c \in Cpu |-> None] /\ proc_lock = [c \in Cpu |-> None]
  /\ running = [c \in Cpu |-> None]
  /\ next = [c \in Cpu |-> 1]
  /\ todo = [c \in Cpu |-> {}]
  /\ pc = [c \in Cpu |-> "scan"]
  /\ ctx = [p \in Pool |-> "fork_ret"]
  /\ releases \in BOOLEAN

Goto(c, l) == pc' = [pc EXCEPT ![c] = l]

\* The entry the scan looks at after p.
Following(p) == IF p = NPROC THEN 1 ELSE p + 1

\* Mutex::lock on p.inner by c spins until the lock is free, after an
\* assertion that c does not hold it already ("acquire proc").
Acquirable(c, p) == inner[p] \in {None, c}
Acquire(c, p, then) == Goto(c, IF inner[p] = c THEN "panic" ELSE then)

\* MutexGuard::drop on c, with its assertion, when c drops a guard of p.inner.
Release(c, p, then) ==
  IF inner[p] = c
    THEN inner' = [inner EXCEPT ![p] = None] /\ Goto(c, then)
    ELSE UNCHANGED inner /\ Goto(c, "panic")

-----------------------------------------------------------------------------
(***************************************************************************)
(* scheduler()                                                             *)
(***************************************************************************)
\* The entry is not RUNNABLE: the guard is dropped and the scan goes on.
Skip(c) ==
  /\ pc[c] = "scan"
  /\ Acquirable(c, next[c])
  /\ inner[next[c]] = c \/ state[next[c]] # "RUNNABLE"
  /\ Acquire(c, next[c], "scan")
  /\ next' = [next EXCEPT ![c] = Following(@)]
  /\ UNCHANGED <<inner, state, proc, proc_lock, running, todo, ctx, releases>>

\* c.proc_lock.replace(inner) drops the guard that was kept there, if any.
Replace(c) ==
  LET old == proc_lock[c] IN
  IF old = None \/ inner[old] = c
    THEN /\ inner' = [p \in Pool |-> IF p = next[c] THEN c
                                    ELSE IF p = old THEN None ELSE inner[p]]
         /\ Goto(c, "run")
         /\ running' = [running EXCEPT ![c] = next[c]]
    ELSE /\ inner' = [inner EXCEPT ![next[c]] = c]
         /\ Goto(c, "panic")
         /\ UNCHANGED running

\* The entry is RUNNABLE: mark it, keep the guard and swtch() to it.
Switch(c) ==
  LET p == next[c] IN
  /\ pc[c] = "scan"
  /\ inner[p] = None
  /\ state[p] = "RUNNABLE"
  /\ state' = [state EXCEPT ![p] = "RUNNING"]
  /\ proc' = [proc EXCEPT ![c] = p]
  /\ Replace(c)
  /\ proc_lock' = [proc_lock EXCEPT ![c] = p]
  /\ UNCHANGED <<next, todo, ctx, releases>>

\* swtch() returned: c.proc.take(), and on with the scan.
Back(c) ==
  /\ pc[c] = "back"
  /\ IF releases
       THEN Release(c, proc[c], "scan")
       ELSE UNCHANGED inner /\ Goto(c, "scan")
  /\ proc' = [proc EXCEPT ![c] = None]
  /\ next' = [next EXCEPT ![c] = Following(@)]
  /\ UNCHANGED <<state, proc_lock, running, todo, ctx, releases>>

\* Variant: fork_ret() does not drop the guard.
ForkRetForgets(c) ==
  /\ pc[c] = "run"
  /\ ctx[running[c]] = "fork_ret"
  /\ Goto(c, "user")
  /\ ctx' = [ctx EXCEPT ![running[c]] = "user"]
  /\ UNCHANGED <<inner, state, proc, proc_lock, running, next, todo, releases>>

\* fork_ret(): drop(proc_lock.take()).
ForkRet(c) ==
  LET p == running[c] IN
  /\ pc[c] = "run"
  /\ ctx[p] = "fork_ret"
  /\ IF proc_lock[c] = None
       THEN UNCHANGED inner /\ Goto(c, "user")
       ELSE Release(c, proc_lock[c], "user")
  /\ proc_lock' = [proc_lock EXCEPT ![c] = None]
  /\ ctx' = [ctx EXCEPT ![p] = "user"]
  /\ UNCHANGED <<state, proc, running, next, todo, releases>>

\* sched() returns and the caller drops the guard it took before swtch().
Resume(c) ==
  LET p == running[c] IN
  /\ pc[c] = "run"
  /\ ctx[p] = "saved"
  /\ Release(c, p, "user")
  /\ proc_lock' = IF releases THEN [proc_lock EXCEPT ![c] = None] ELSE proc_lock
  /\ ctx' = [ctx EXCEPT ![p] = "user"]
  /\ UNCHANGED <<state, proc, running, next, todo, releases>>

\* Variant: the state changes before p.inner is taken, in swtch()'s caller.
LeaveUnlocked(c, s) ==
  LET p == running[c] IN
  /\ pc[c] = "user"
  /\ inner[p] = None
  /\ state' = [state EXCEPT ![p] = s]
  /\ Goto(c, "swtch")
  /\ UNCHANGED <<inner, proc, proc_lock, running, next, todo, ctx, releases>>

\* yielding(), sleep() and exit() take p.inner and leave the RUNNING state.
Leave(c, s) ==
  LET p == running[c] IN
  /\ pc[c] = "user"
  /\ Acquirable(c, p)
  /\ Acquire(c, p, "swtch")
  /\ inner' = [inner EXCEPT ![p] = c]
  /\ state' = IF inner[p] = c THEN state ELSE [state EXCEPT ![p] = s]
  /\ UNCHANGED <<proc, proc_lock, running, next, todo, ctx, releases>>

Yield(c) == Leave(c, "RUNNABLE")
Sleep(c) == Leave(c, "SLEEPING")
Exit(c) == running[c] # InitProc /\ Leave(c, "ZOMBIE")

\* sched() asserts that p.inner is the only lock c holds; swtch() saves the
\* context of p and goes on in scheduler().
Swtch(c) ==
  LET p == running[c] IN
  /\ pc[c] = "swtch"
  /\ IF \E q \in Pool \ {p} : inner[q] = c
       THEN Goto(c, "panic") /\ UNCHANGED <<ctx, running>>
       ELSE /\ ctx' = [ctx EXCEPT ![p] = "saved"]
            /\ running' = [running EXCEPT ![c] = None]
            /\ Goto(c, "back")
  /\ UNCHANGED <<inner, state, proc, proc_lock, next, todo, releases>>

-----------------------------------------------------------------------------
(***************************************************************************)
(* fork() and wait()                                                       *)
(***************************************************************************)
\* alloc_proc() finds an UNUSED entry and sets up its context; fork() ends
\* by making it RUNNABLE.  In between it is USED, which nobody acts upon.
Fork(c, q) ==
  /\ pc[c] = "user"
  /\ inner[q] = None
  /\ state[q] = "UNUSED"
  /\ state' = [state EXCEPT ![q] = "RUNNABLE"]
  /\ ctx' = [ctx EXCEPT ![q] = "fork_ret"]
  /\ UNCHANGED <<inner, proc, proc_lock, running, next, todo, pc, releases>>

\* Variant: p.inner of the child is not taken.
ReapUnlocked(c, q) ==
  /\ pc[c] = "user"
  /\ state[q] = "ZOMBIE"
  /\ state' = [state EXCEPT ![q] = "UNUSED"]
  /\ UNCHANGED <<inner, proc, proc_lock, running, next, todo, pc, ctx, releases>>

\* wait(): under p.inner of the child, free_proc() makes a zombie UNUSED.
Reap(c, q) ==
  /\ pc[c] = "user"
  /\ Acquirable(c, q)
  /\ state[q] = "ZOMBIE"
  /\ Acquire(c, q, "user")
  /\ state' = IF inner[q] = None THEN [state EXCEPT ![q] = "UNUSED"] ELSE state
  /\ UNCHANGED <<inner, proc, proc_lock, running, next, todo, ctx, releases>>

-----------------------------------------------------------------------------
(***************************************************************************)
(* wakeup(), called by an interrupt handler or by the process on c.  With  *)
(* no process on c, my_proc() is None and no entry is looked at.           *)
(***************************************************************************)
Wakeup(c) ==
  /\ pc[c] \in {"scan", "user"}
  /\ todo' = [todo EXCEPT ![c] = IF proc[c] = None THEN {} ELSE Pool \ {proc[c]}]
  /\ Goto(c, "wakeup")
  /\ UNCHANGED <<inner, state, proc, proc_lock, running, next, ctx, releases>>

\* One entry of the pool.
Wake(c, q) ==
  /\ pc[c] = "wakeup"
  /\ q \in todo[c]
  /\ Acquirable(c, q)
  /\ Acquire(c, q, "wakeup")
  /\ state' = IF inner[q] = None /\ state[q] = "SLEEPING"
               THEN [state EXCEPT ![q] = "RUNNABLE"] ELSE state
  /\ todo' = [todo EXCEPT ![c] = @ \ {q}]
  /\ UNCHANGED <<inner, proc, proc_lock, running, next, ctx, releases>>

Woken(c) ==
  /\ pc[c] = "wakeup"
  /\ todo[c] = {}
  /\ Goto(c, IF running[c] = None THEN "scan" ELSE "user")
  /\ UNCHANGED <<inner, state, proc, proc_lock, running, next, todo, ctx, releases>>

-----------------------------------------------------------------------------
Scan(c) == Skip(c) \/ Switch(c)
Work(c) ==
  \/ Back(c) \/ ForkRet(c) \/ Resume(c) \/ Swtch(c)
  \/ (\E q \in Pool : Wake(c, q)) \/ Woken(c)

Next == \E c \in Cpu :
  \/ Scan(c) \/ Work(c)
  \/ Yield(c) \/ Sleep(c) \/ Exit(c) \/ Wakeup(c)
  \/ \E q \in Pool : Fork(c, q) \/ Reap(c, q)

Spec == Init /\ [][Next]_vars

(***************************************************************************)
(* A CPU executes its instructions, its timer interrupts the process that  *)
(* runs on it (usertrap() then calls yielding()), and interrupts are rare  *)
(* enough for scheduler() to get on with its scan between them.  The clock *)
(* of hart 0 goes on ticking: clockintr() calls wakeup().  The hand-over   *)
(* is the documented one, so that what the run shows is due to wakeup().   *)
(***************************************************************************)
TickingSpec ==
  /\ Init /\ releases = TRUE /\ [][Next]_vars
  /\ \A c \in Cpu : WF_vars(Work(c)) /\ SF_vars(Scan(c)) /\ SF_vars(Yield(c))
  /\ SF_vars(Wakeup(Hart0))

-----------------------------------------------------------------------------
TypeOK ==
  /\ inner \in [Pool -> Cpu \cup {None}]
  /\ state \in [Pool -> {"RUNNABLE", "RUNNING", "SLEEPING", "ZOMBIE", "UNUSED"}]
  /\ proc \in [Cpu -> Pool \cup {None}]
  /\ proc_lock \in [Cpu -> Pool \cup {None}]
  /\ running \in [Cpu -> Pool \cup {None}]
  /\ next \in [Cpu -> Pool]
  /\ todo \in [Cpu -> SUBSET Pool]
  /\ pc \in [Cpu -> {"scan", "run", "user", "swtch", "back", "wakeup", "panic"}]
  /\ ctx \in [Pool -> {"fork_ret", "user", "saved"}]
  /\ releases \in BOOLEAN

(***************************************************************************)
(* No two CPUs execute the same process: the kernel stack and the saved    *)
(* context of a process that has set its state and is on its way into      *)
(* swtch(), or was just switched to, belong to one CPU.                    *)
(***************************************************************************)
OneCpuPerProcess ==
  \A c, d \in Cpu : running[c] # None /\ running[c] = running[d] => c = d

(***************************************************************************)
(* scheduler() switches only to a context that fork() made or swtch() has  *)
(* finished saving: a process that is free to be taken has one.            *)
(***************************************************************************)
ContextIsSaved ==
  \A p \in Pool :
    inner[p] = None /\ state[p] = "RUNNABLE" => ctx[p] \in {"fork_ret", "saved"}

(***************************************************************************)
(* my_proc() names the process whose thread the CPU executes, whenever     *)
(* that thread can call it, and nobody in the scheduler's scan.            *)
(***************************************************************************)
MyProcIsCurrent ==
  \A c \in Cpu : pc[c] \in {"scan", "run", "user", "wakeup"} => proc[c] = running[c]

(***************************************************************************)
(* A process that executes is RUNNING until it leaves of its own accord:   *)
(* no wakeup() and no other scheduler changes its state under it.          *)
(***************************************************************************)
ExecutesInRunning ==
  \A c \in Cpu : pc[c] \in {"run", "user"} => state[running[c]] = "RUNNING"

(***************************************************************************)
(* wait() does not free an entry whose kernel stack is in use: "make sure  *)
(* the child isn't still in exit() or swtch()".                            *)
(***************************************************************************)
NotReapedOnCpu ==
  \A c \in Cpu : running[c] # None => state[running[c]] # "UNUSED"

(***************************************************************************)
(* The assertions on p.inner ("acquire proc", "release proc", "sched       *)
(* multiple locks") fail only on a CPU that has kept the p.inner of a      *)
(* process it no longer runs.                                              *)
(***************************************************************************)
PanicMeansKept ==
  \A c \in Cpu : pc[c] = "panic" => \E p \in Pool : inner[p] = c /\ running[c] # p

(***************************************************************************)
(* The inductive invariant behind the safety properties, for both readings *)
(* of the hand-over.                                                       *)
(***************************************************************************)
\* c is on its way from p to scheduler(), or p executes.
Leaving(c, p) ==
  inner[p] = c /\ ctx[p] = "user" /\ state[p] \in {"RUNNABLE", "SLEEPING", "ZOMBIE"}
Executing(c, p) == inner[p] # c /\ ctx[p] = "user" /\ state[p] = "RUNNING"

\* What the place a CPU is at says about the process it runs or ran.
InPlace(c) ==
  LET p == running[c] IN
  /\ pc[c] = "scan" => p = None /\ proc[c] = None
  /\ pc[c] = "run" =>
       /\ p \in Pool /\ proc[c] = p
       /\ inner[p] = c /\ state[p] = "RUNNING" /\ ctx[p] # "user"
  /\ pc[c] = "user" => p \in Pool /\ proc[c] = p /\ Executing(c, p)
  /\ pc[c] = "swtch" => p \in Pool /\ proc[c] = p /\ Leaving(c, p)
  /\ pc[c] = "back" => p = None /\ proc[c] \in Pool /\ inner[proc[c]] = c
  /\ pc[c] = "wakeup" =>
       /\ proc[c] = p /\ proc[c] \notin todo[c]
       /\ p # None => Executing(c, p)
  /\ pc[c] = "panic" /\ p # None => Executing(c, p) \/ Leaving(c, p)

\* c.proc_lock holds a guard only from the switch to the process's first step.
GuardInTransit ==
  \A c \in Cpu : proc_lock[c] = IF pc[c] = "run" THEN running[c] ELSE None

\* In the code, the lock of a process that has left its CPU is never released.
StaysHeld ==
  ~releases => \A p \in Pool :
    ctx[p] = "saved" => inner[p] # None /\ \A c \in Cpu : running[c] # p

\* A process that is RUNNING, or is between two switches, is on a CPU.
OnSomeCpu ==
  \A p \in Pool :
    state[p] = "RUNNING" \/ ctx[p] = "user" => \E c \in Cpu : running[c] = p

IInv ==
  /\ TypeOK
  /\ \A c \in Cpu : InPlace(c)
  /\ GuardInTransit
  /\ StaysHeld
  /\ OnSomeCpu
  /\ OneCpuPerProcess
  /\ PanicMeansKept

\* A process that sleeps on the clock is woken by a later tick (sys_sleep).
TickWakesSleepers ==
  \A p \in Pool : state[p] = "SLEEPING" ~> state[p] # "SLEEPING"
=============================================================================
