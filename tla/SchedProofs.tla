----------------------------- MODULE SchedProofs -----------------------------
(***************************************************************************)
(* Proofs about Sched, for any set of CPUs and any size of the pool.  They *)
(* cover the code, which keeps the p.inner of a process that has left its  *)
(* CPU, and the hand-over its comments describe: a process is on one CPU,  *)
(* only saved contexts are switched to, my_proc() is right, wait() frees   *)
(* nothing that runs, and an assertion on p.inner fails only over a lock   *)
(* that was kept.                                                          *)
(***************************************************************************)
EXTENDS Sched, TLAPS

USE ConstantsAssumption DEF Goto, Acquirable, Acquire

\* The scan of scheduler() stays inside the pool.
LEMMA FollowingInPool == ASSUME NEW p \in Pool PROVE Following(p) \in Pool
  BY DEF Following, Pool

(***************************************************************************)
(* IInv is inductive.  The steps that carry the argument are Switch, which *)
(* takes a process whose lock is free and that is RUNNABLE, hence on no    *)
(* CPU, and the releases in ForkRet, Resume and Back, whose CPU holds the  *)
(* lock because it is in the middle of a switch to or from that process.   *)
(* In the code no process comes to Resume: StaysHeld keeps its lock taken. *)
(***************************************************************************)
LEMMA InvStep == IInv /\ [Next]_vars => IInv'
<1> SUFFICES ASSUME IInv, [Next]_vars PROVE IInv'
  OBVIOUS
<1> USE FollowingInPool DEF IInv, TypeOK, InPlace, Leaving, Executing, GuardInTransit,
    StaysHeld, OnSomeCpu, OneCpuPerProcess, PanicMeansKept
<1>1. ASSUME NEW c \in Cpu, Skip(c) PROVE IInv'
  BY <1>1 DEF Skip
<1>2. ASSUME NEW c \in Cpu, Switch(c) PROVE IInv'
  <2> DEFINE p == next[c]
  <2>1. /\ p \in Pool /\ pc[c] = "scan" /\ inner[p] = None
        /\ running[c] = None /\ proc_lock[c] = None /\ state[p] = "RUNNABLE"
    BY <1>2 DEF Switch
  <2>2. /\ inner' = [inner EXCEPT ![p] = c]
        /\ pc' = [pc EXCEPT ![c] = "run"]
        /\ running' = [running EXCEPT ![c] = p]
        /\ proc' = [proc EXCEPT ![c] = p]
        /\ proc_lock' = [proc_lock EXCEPT ![c] = p]
        /\ state' = [state EXCEPT ![p] = "RUNNING"]
        /\ UNCHANGED <<next, todo, ctx, releases>>
    BY <1>2, <2>1 DEF Switch, Replace
  <2>3. /\ \A d \in Cpu : running[d] # p
        /\ \A d \in Cpu : pc[d] = "back" => proc[d] # p
        /\ ctx[p] # "user"
    BY <2>1
  <2> HIDE DEF p
  <2>4. TypeOK'
    BY <2>1, <2>2
  <2>5. ASSUME NEW d \in Cpu PROVE InPlace(d)'
    BY <2>1, <2>2, <2>3 DEF p
  <2>6. GuardInTransit' /\ StaysHeld' /\ PanicMeansKept'
    BY <2>1, <2>2, <2>3 DEF p
  <2>7. OnSomeCpu' /\ OneCpuPerProcess'
    BY <2>1, <2>2, <2>3 DEF p
  <2> QED
    BY <2>4, <2>5, <2>6, <2>7
<1>3. ASSUME NEW c \in Cpu, Back(c) PROVE IInv'
  <2> DEFINE p == proc[c]
  <2>1. /\ p \in Pool /\ pc[c] = "back" /\ inner[p] = c
        /\ running[c] = None /\ proc_lock[c] = None
    BY <1>3 DEF Back
  <2>2. /\ inner' = IF releases THEN [inner EXCEPT ![p] = None] ELSE inner
        /\ pc' = [pc EXCEPT ![c] = "scan"]
        /\ proc' = [proc EXCEPT ![c] = None]
        /\ next' = [next EXCEPT ![c] = Following(@)]
        /\ UNCHANGED <<state, proc_lock, running, todo, ctx, releases>>
    BY <1>3, <2>1 DEF Back, Release
  <2>3. /\ \A d \in Cpu : pc[d] \in {"run", "swtch"} => running[d] # p
        /\ \A d \in Cpu : pc[d] = "back" /\ proc[d] = p => d = c
    BY <2>1
  <2> HIDE DEF p
  <2>4. TypeOK'
    BY <2>1, <2>2
  <2>5. ASSUME NEW d \in Cpu PROVE InPlace(d)'
    BY <2>1, <2>2, <2>3 DEF p
  <2>6. GuardInTransit' /\ StaysHeld' /\ PanicMeansKept'
    BY <2>1, <2>2, <2>3 DEF p
  <2>7. OnSomeCpu' /\ OneCpuPerProcess'
    BY <2>1, <2>2, <2>3 DEF p
  <2> QED
    BY <2>4, <2>5, <2>6, <2>7
<1>4. ASSUME NEW c \in Cpu, ForkRet(c) PROVE IInv'
  <2> DEFINE p == running[c]
  <2>1. /\ p \in Pool /\ pc[c] = "run" /\ inner[p] = c /\ proc[c] = p
        /\ proc_lock[c] = p /\ state[p] = "RUNNING"
    BY <1>4 DEF ForkRet
  <2>2. /\ inner' = [inner EXCEPT ![p] = None]
        /\ pc' = [pc EXCEPT ![c] = "user"]
        /\ proc_lock' = [proc_lock EXCEPT ![c] = None]
        /\ ctx' = [ctx EXCEPT ![p] = "user"]
        /\ UNCHANGED <<state, proc, running, next, todo, releases>>
    BY <1>4, <2>1 DEF ForkRet, Release
  <2>3. \A d \in Cpu : running[d] = p => d = c
    BY <2>1
  <2> HIDE DEF p
  <2>4. TypeOK'
    BY <2>1, <2>2
  <2>5. ASSUME NEW d \in Cpu PROVE InPlace(d)'
    BY <2>1, <2>2, <2>3 DEF p
  <2>6. GuardInTransit' /\ StaysHeld' /\ PanicMeansKept'
    BY <2>1, <2>2, <2>3 DEF p
  <2>7. OnSomeCpu' /\ OneCpuPerProcess'
    BY <2>1, <2>2, <2>3 DEF p
  <2> QED
    BY <2>4, <2>5, <2>6, <2>7
<1>5. ASSUME NEW c \in Cpu, Resume(c) PROVE IInv'
  <2> DEFINE p == running[c]
  <2>1. /\ p \in Pool /\ pc[c] = "run" /\ inner[p] = c /\ proc[c] = p
        /\ proc_lock[c] = p /\ state[p] = "RUNNING" /\ releases
    BY <1>5 DEF Resume
  <2>2. /\ inner' = [inner EXCEPT ![p] = None]
        /\ pc' = [pc EXCEPT ![c] = "user"]
        /\ proc_lock' = [proc_lock EXCEPT ![c] = None]
        /\ ctx' = [ctx EXCEPT ![p] = "user"]
        /\ UNCHANGED <<state, proc, running, next, todo, releases>>
    BY <1>5, <2>1 DEF Resume, Release
  <2>3. \A d \in Cpu : running[d] = p => d = c
    BY <2>1
  <2> HIDE DEF p
  <2>4. TypeOK'
    BY <2>1, <2>2
  <2>5. ASSUME NEW d \in Cpu PROVE InPlace(d)'
    BY <2>1, <2>2, <2>3 DEF p
  <2>6. GuardInTransit' /\ StaysHeld' /\ PanicMeansKept'
    BY <2>1, <2>2, <2>3 DEF p
  <2>7. OnSomeCpu' /\ OneCpuPerProcess'
    BY <2>1, <2>2, <2>3 DEF p
  <2> QED
    BY <2>4, <2>5, <2>6, <2>7
<1>6. ASSUME NEW c \in Cpu, Yield(c) PROVE IInv'
  BY <1>6 DEF Yield, Leave
<1>7. ASSUME NEW c \in Cpu, Sleep(c) PROVE IInv'
  BY <1>7 DEF Sleep, Leave
<1>8. ASSUME NEW c \in Cpu, Exit(c) PROVE IInv'
  BY <1>8 DEF Exit, Leave
<1>9. ASSUME NEW c \in Cpu, Swtch(c) PROVE IInv'
  <2> DEFINE p == running[c]
  <2>1. p \in Pool /\ pc[c] = "swtch" /\ proc[c] = p /\ inner[p] = c /\ ctx[p] = "user"
    BY <1>9 DEF Swtch
  <2>2. CASE \E q \in Pool \ {p} : inner[q] = c
    BY <1>9, <2>1, <2>2 DEF Swtch
  <2>3. CASE ~\E q \in Pool \ {p} : inner[q] = c
    <3>1. /\ ctx' = [ctx EXCEPT ![p] = "saved"]
          /\ running' = [running EXCEPT ![c] = None]
          /\ pc' = [pc EXCEPT ![c] = "back"]
          /\ UNCHANGED <<inner, state, proc, proc_lock, next, todo, releases>>
      BY <1>9, <2>3 DEF Swtch
    <3>2. \A d \in Cpu : running[d] = p => d = c
      BY <2>1
    <3> HIDE DEF p
    <3>3. TypeOK'
      BY <2>1, <3>1
    <3>4. ASSUME NEW d \in Cpu PROVE InPlace(d)'
      BY <2>1, <3>1, <3>2 DEF p
    <3>5. GuardInTransit' /\ StaysHeld' /\ PanicMeansKept'
      BY <2>1, <3>1, <3>2 DEF p
    <3>6. OnSomeCpu' /\ OneCpuPerProcess'
      BY <2>1, <3>1, <3>2 DEF p
    <3> QED
      BY <3>3, <3>4, <3>5, <3>6
  <2> QED
    BY <2>2, <2>3
<1>10. ASSUME NEW c \in Cpu, Wakeup(c) PROVE IInv'
  BY <1>10 DEF Wakeup
<1>11. ASSUME NEW c \in Cpu, NEW q \in Pool, Wake(c, q) PROVE IInv'
  BY <1>11 DEF Wake
<1>12. ASSUME NEW c \in Cpu, Woken(c) PROVE IInv'
  BY <1>12 DEF Woken
<1>13. ASSUME NEW c \in Cpu, NEW q \in Pool, Fork(c, q) PROVE IInv'
  BY <1>13 DEF Fork
<1>14. ASSUME NEW c \in Cpu, NEW q \in Pool, Reap(c, q) PROVE IInv'
  BY <1>14 DEF Reap
<1>15. CASE UNCHANGED vars
  BY <1>15 DEF vars
<1> QED
  BY <1>1, <1>2, <1>3, <1>4, <1>5, <1>6, <1>7, <1>8, <1>9,
     <1>10, <1>11, <1>12, <1>13, <1>14, <1>15
  DEF Next, Scan, Work

\* The inductive invariant holds in every reachable state.
LEMMA Invariance == Spec => []IInv
<1>1. Init => IInv
  BY DEF Init, IInv, TypeOK, InPlace, GuardInTransit, StaysHeld, OnSomeCpu,
     OneCpuPerProcess, PanicMeansKept, Pool, InitProc
<1>2. IInv /\ [Next]_vars => IInv'
  BY InvStep
<1> QED
  BY <1>1, <1>2, PTL DEF Spec

\* Every reachable state of the scheduler is type correct.
THEOREM SchedTypeCorrect == Spec => []TypeOK
<1>1. IInv => TypeOK
  BY DEF IInv
<1>2. Spec => []IInv
  BY Invariance
<1> QED
  BY <1>1, <1>2, PTL

(***************************************************************************)
(* However scheduler() runs on however many CPUs, and whatever processes   *)
(* yield, sleep, exit and are woken, a process executes on one CPU.        *)
(***************************************************************************)
THEOREM ProcessOnOneCpu == Spec => []OneCpuPerProcess
<1>1. IInv => OneCpuPerProcess
  BY DEF IInv
<1>2. Spec => []IInv
  BY Invariance
<1> QED
  BY <1>1, <1>2, PTL

(***************************************************************************)
(* scheduler() never switches to a context that swtch() is still saving:   *)
(* yielding() sets RUNNABLE before the context is saved, but holds p.inner *)
(* until scheduler(), back on the same CPU, lets go of it.                 *)
(***************************************************************************)
THEOREM SwitchesToSavedContext ==
  Spec => []ContextIsSaved
<1>1. IInv => ContextIsSaved
  BY DEF IInv, TypeOK, InPlace, Executing, Leaving, OnSomeCpu, ContextIsSaved
<1>2. Spec => []IInv
  BY Invariance
<1> QED
  BY <1>1, <1>2, PTL

\* my_proc() returns the process that calls it, and None in the scan.
THEOREM MyProcCorrect == Spec => []MyProcIsCurrent
<1>1. IInv => MyProcIsCurrent
  BY DEF IInv, TypeOK, InPlace, MyProcIsCurrent
<1>2. Spec => []IInv
  BY Invariance
<1> QED
  BY <1>1, <1>2, PTL

(***************************************************************************)
(* No wakeup(), scheduler(), fork() or wait() elsewhere changes the state  *)
(* of a process that executes.                                             *)
(***************************************************************************)
THEOREM ExecutesUndisturbed ==
  Spec => []ExecutesInRunning
<1>1. IInv => ExecutesInRunning
  BY DEF IInv, InPlace, Executing, ExecutesInRunning
<1>2. Spec => []IInv
  BY Invariance
<1> QED
  BY <1>1, <1>2, PTL

(***************************************************************************)
(* wait() never frees a child that is still in exit() or swtch(): the      *)
(* child holds its p.inner until scheduler() has left its stack.           *)
(***************************************************************************)
THEOREM ReapsOnlyOffCpu == Spec => []NotReapedOnCpu
<1>1. IInv => NotReapedOnCpu
  BY DEF IInv, TypeOK, InPlace, Executing, Leaving, NotReapedOnCpu
<1>2. Spec => []IInv
  BY Invariance
<1> QED
  BY <1>1, <1>2, PTL

(***************************************************************************)
(* "acquire proc", "release proc" and "sched multiple locks" are reached   *)
(* only on a CPU that has kept the lock of a process that left it: no      *)
(* other interleaving of the scheduler, wakeup(), fork() and wait() makes  *)
(* an assertion on p.inner fail.                                           *)
(***************************************************************************)
THEOREM PanicsOverKeptLock == Spec => []PanicMeansKept
<1>1. IInv => PanicMeansKept
  BY DEF IInv
<1>2. Spec => []IInv
  BY Invariance
<1> QED
  BY <1>1, <1>2, PTL
=============================================================================
