--------------------------------- MODULE Log ---------------------------------
(***************************************************************************)
(* The write-ahead log of kernel/log.rs: begin_op, write, end_op, commit   *)
(* and recovery, with system calls running concurrently and a crash at any *)
(* point.                                                                  *)
(*                                                                         *)
(* The code between LOG.lock() and the release of its guard is one step;   *)
(* commit() runs without the lock and is one step per block written to the *)
(* disk.  A block write is atomic.  sleep() and wakeup() on the log's      *)
(* address are the "asleep" state and its end (module SleepLock has the    *)
(* detail).  A buffer of the cache is modelled by its content: a buffer    *)
(* that is not pinned may be recycled at any time and is then read from    *)
(* the disk again.                                                         *)
(*                                                                         *)
(* Two places stop the log at once as they are written, and asWritten says *)
(* which of them are: "bwrite", BufGuard::write panics when the caller     *)
(* holds the buffer's lock (bio.rs; its comment: "Write buf's content to   *)
(* disk. Must be locked"), and "init", the assertion of Mutex<Log>::init   *)
(* wants a header of a block or more (its message: "too big log header").  *)
(* The code is asWritten = {"bwrite", "init"}; where a place is not in the *)
(* set it does what its comment or message says.  Every property holds for *)
(* each of the four.                                                       *)
(***************************************************************************)
EXTENDS Integers, Sequences, FiniteSets

CONSTANTS
  Op,            \* the system calls
  Block,         \* the home blocks
  Initial,       \* content of a block never written
  NoBuf,         \* a block that has no buffer in the cache
  LOGSIZE,       \* param.rs: capacity of LogHeader.block
  MAXOPBLOCKS,   \* param.rs: blocks one system call may write
  Nlog,          \* sb.nlog: blocks of the log area, the header included
  BSIZE          \* bytes in a block

ASSUME ConstantsAssumption ==
  /\ IsFiniteSet(Op)
  /\ LOGSIZE \in Nat \ {0}
  /\ MAXOPBLOCKS \in Nat \ {0}
  /\ Nlog \in Nat \ {0}
  /\ BSIZE \in Nat
  /\ MAXOPBLOCKS <= LOGSIZE
  /\ Initial \notin Op
  /\ NoBuf \notin Op \cup {Initial}

VARIABLES
  \* Log, in memory
  outstanding, committing,
  lh,        \* LogHeader: the first n entries of block
  \* the disk
  home,      \* home[b]: content of block b
  logged,    \* logged[i]: content of log block i
  hdr,       \* the header block
  \* the buffer cache
  cache,     \* cache[b]: content of the buffer of block b, or NoBuf
  pinned,    \* the blocks pinned by write()
  \* control
  pc,        \* where each system call is
  wrote,     \* the blocks the system call has written
  phase,     \* where commit() or recover() is; "idle" outside both
  tail,      \* its loop variable
  asWritten  \* the places taken as written

log == <<outstanding, committing, lh>>
disk == <<home, logged, hdr>>
buffers == <<cache, pinned>>
calls == <<pc, wrote>>
control == <<phase, tail>>
vars == <<log, disk, buffers, calls, control, asWritten>>

Places == {"bwrite", "init"}
LogBlocks == 1 .. (Nlog - 1)
Content == Op \cup {Initial}

\* size_of::<LogHeader>(): n and LOGSIZE block numbers, of four bytes each.
HeaderSize == 4 + 4 * LOGSIZE

Phases == {"idle", "write_log", "write_head", "install", "clear", "finish",
           "read_head", "recover", "recovered", "panic"}

Init ==
  /\ outstanding = 0 /\ committing = FALSE /\ lh = <<>>
  /\ home = [b \in Block |-> Initial]
  /\ logged = [i \in LogBlocks |-> Initial]
  /\ hdr = <<>>
  /\ cache = [b \in Block |-> NoBuf] /\ pinned = {}
  /\ pc = [p \in Op |-> "out"]
  /\ wrote = [p \in Op |-> {}]
  /\ phase = "read_head" /\ tail = 1
  /\ asWritten \in SUBSET Places

\* The content BCACHE.read(b) returns.
Read(b) == IF cache[b] = NoBuf THEN home[b] ELSE cache[b]

Running == phase \notin {"read_head", "recover", "recovered", "panic"}
Panic == phase' = "panic" /\ UNCHANGED tail

-----------------------------------------------------------------------------
(***************************************************************************)
(* begin_op                                                                *)
(***************************************************************************)
\* Variant: the call that asks is not counted.
NoSpaceForOthers == Len(lh) + outstanding * MAXOPBLOCKS > LOGSIZE

NoSpace == Len(lh) + (outstanding + 1) * MAXOPBLOCKS > LOGSIZE

\* Variant: a commit in progress is not waited for.
BeginOpUnguarded(p) ==
  /\ Running
  /\ pc[p] = "out"
  /\ IF NoSpace
       THEN /\ pc' = [pc EXCEPT ![p] = "asleep"]
            /\ UNCHANGED outstanding
       ELSE /\ outstanding' = outstanding + 1
            /\ pc' = [pc EXCEPT ![p] = "in"]
  /\ UNCHANGED <<committing, lh, disk, buffers, wrote, control, asWritten>>

\* One pass of the loop: sleep while committing or short of space, else enter.
BeginOp(p) ==
  /\ Running
  /\ pc[p] = "out"
  /\ IF committing \/ NoSpace
       THEN /\ pc' = [pc EXCEPT ![p] = "asleep"]
            /\ UNCHANGED outstanding
       ELSE /\ outstanding' = outstanding + 1
            /\ pc' = [pc EXCEPT ![p] = "in"]
  /\ UNCHANGED <<committing, lh, disk, buffers, wrote, control, asWritten>>

\* Variant: nobody is woken.
WokenNone(f) == f

\* PROCS.wakeup(log): every sleeper goes round the loop of begin_op again.
Woken(f) == [p \in Op |-> IF f[p] = "asleep" THEN "out" ELSE f[p]]

-----------------------------------------------------------------------------
(***************************************************************************)
(* A system call reads block b, modifies it and calls LOG.write(b), with   *)
(* b's buffer locked throughout.  It writes at most MAXOPBLOCKS blocks.    *)
(***************************************************************************)
TooBig == Len(lh) >= LOGSIZE \/ Len(lh) >= Nlog - 1

Logs(b) == \E i \in DOMAIN lh : lh[i] = b

\* Variant: the buffer is not pinned.
WriteUnpinned(p, b) ==
  /\ Running
  /\ pc[p] = "in"
  /\ Cardinality(wrote[p] \cup {b}) <= MAXOPBLOCKS
  /\ ~TooBig /\ outstanding >= 1
  /\ cache' = [cache EXCEPT ![b] = p]
  /\ wrote' = [wrote EXCEPT ![p] = @ \cup {b}]
  /\ lh' = IF Logs(b) THEN lh ELSE Append(lh, b)
  /\ UNCHANGED <<outstanding, committing, disk, pinned, pc, control, asWritten>>

Write(p, b) ==
  /\ Running
  /\ pc[p] = "in"
  /\ Cardinality(wrote[p] \cup {b}) <= MAXOPBLOCKS
  /\ cache' = [cache EXCEPT ![b] = p]
  /\ wrote' = [wrote EXCEPT ![p] = @ \cup {b}]
  /\ \/ /\ TooBig \/ outstanding < 1
        /\ Panic
        /\ UNCHANGED <<lh, pinned>>
     \/ /\ ~TooBig /\ outstanding >= 1
        /\ Logs(b)                          \* log absorption
        /\ UNCHANGED <<lh, pinned, control>>
     \/ /\ ~TooBig /\ outstanding >= 1
        /\ ~Logs(b)
        /\ lh' = Append(lh, b)
        /\ pinned' = pinned \cup {b}
        /\ UNCHANGED control
  /\ UNCHANGED <<outstanding, committing, disk, pc, asWritten>>

-----------------------------------------------------------------------------
(***************************************************************************)
(* end_op: the last one out commits                                        *)
(***************************************************************************)
EndOp(p) ==
  /\ Running
  /\ pc[p] = "in"
  /\ outstanding' = outstanding - 1
  /\ wrote' = [wrote EXCEPT ![p] = {}]
  /\ \/ /\ committing
        /\ Panic
        /\ UNCHANGED <<committing, pc>>
     \/ /\ ~committing /\ outstanding' = 0
        /\ committing' = TRUE
        /\ pc' = [pc EXCEPT ![p] = "commit"]
        /\ phase' = IF lh = <<>> THEN "finish" ELSE "write_log"
        /\ tail' = 1
     \/ /\ ~committing /\ outstanding' # 0
        /\ pc' = Woken([pc EXCEPT ![p] = "out"])
        /\ UNCHANGED <<committing, control>>
  /\ UNCHANGED <<lh, disk, buffers, asWritten>>

\* BufGuard::write, then the loop goes on or the next phase starts.
Refused == "bwrite" \in asWritten
Bwrite(next) == phase' = IF Refused THEN "panic" ELSE next
OnDisk(new, old) == IF Refused THEN old ELSE new

\* write_log: copy cached block number `tail` to its log block.
WriteLog ==
  /\ phase = "write_log"
  /\ logged' = OnDisk([logged EXCEPT ![tail] = Read(lh[tail])], logged)
  /\ Bwrite(IF tail = Len(lh) THEN "write_head" ELSE "write_log")
  /\ tail' = IF tail = Len(lh) THEN 1 ELSE tail + 1
  /\ UNCHANGED <<log, home, hdr, buffers, calls, asWritten>>

\* write_head: the commit point.
WriteHead ==
  /\ phase = "write_head"
  /\ hdr' = OnDisk(lh, hdr)
  /\ Bwrite("install")
  /\ UNCHANGED <<log, home, logged, buffers, calls, tail, asWritten>>

\* install_trans, one block.
CopyHome ==
  /\ cache' = [cache EXCEPT ![lh[tail]] = logged[tail]]
  /\ home' = OnDisk([home EXCEPT ![lh[tail]] = logged[tail]], home)
  /\ tail' = IF tail = Len(lh) THEN 1 ELSE tail + 1

\* install_trans(false) also unpins the block.
Install ==
  /\ phase = "install"
  /\ CopyHome
  /\ pinned' = IF Refused THEN pinned ELSE pinned \ {lh[tail]}
  /\ Bwrite(IF tail = Len(lh) THEN "clear" ELSE "install")
  /\ UNCHANGED <<log, logged, hdr, calls, asWritten>>

\* Variant: the header is cleared in memory only.
ClearHeadInMemory ==
  /\ phase = "clear"
  /\ lh' = <<>>
  /\ Bwrite("finish")
  /\ UNCHANGED <<outstanding, committing, disk, buffers, calls, tail, asWritten>>

\* lh.n = 0; write_head
ClearHead ==
  /\ phase = "clear"
  /\ lh' = <<>>
  /\ hdr' = OnDisk(<<>>, hdr)
  /\ Bwrite("finish")
  /\ UNCHANGED <<outstanding, committing, home, logged, buffers, calls, tail, asWritten>>

\* The end of end_op: committing = false; wakeup.
Finish(p) ==
  /\ phase = "finish"
  /\ pc[p] = "commit"
  /\ committing' = FALSE
  /\ pc' = Woken([pc EXCEPT ![p] = "out"])
  /\ phase' = "idle"
  /\ UNCHANGED <<outstanding, lh, disk, buffers, wrote, tail, asWritten>>

-----------------------------------------------------------------------------
(***************************************************************************)
(* Log::new and recover, at the first use of LOG after a boot              *)
(***************************************************************************)
ReadHead ==
  /\ phase = "read_head"
  /\ lh' = hdr
  /\ phase' = IF hdr = <<>> THEN "recovered" ELSE "recover"
  /\ UNCHANGED <<outstanding, committing, disk, buffers, calls, tail, asWritten>>

Recover ==
  /\ phase = "recover"
  /\ CopyHome
  /\ Bwrite(IF tail = Len(lh) THEN "recovered" ELSE "recover")
  /\ UNCHANGED <<log, logged, hdr, pinned, calls, asWritten>>

\* The assertion of Mutex<Log>::init.
HeaderAccepted ==
  IF "init" \in asWritten THEN HeaderSize >= BSIZE ELSE HeaderSize <= BSIZE

\* Clear the log; then init() makes its assertion.
Recovered ==
  /\ phase = "recovered"
  /\ lh' = <<>>
  /\ hdr' = OnDisk(<<>>, hdr)
  /\ Bwrite(IF HeaderAccepted THEN "idle" ELSE "panic")
  /\ UNCHANGED <<outstanding, committing, home, logged, buffers, calls, tail, asWritten>>

-----------------------------------------------------------------------------
\* The cache recycles the buffer of b; the next read comes from the disk.
Evict(b) ==
  /\ phase # "panic"
  /\ b \notin pinned
  /\ cache[b] # NoBuf
  /\ cache' = [cache EXCEPT ![b] = NoBuf]
  /\ UNCHANGED <<log, disk, pinned, calls, control, asWritten>>

\* Power is lost: memory is gone, the disk stays.
Crash ==
  /\ outstanding' = 0 /\ committing' = FALSE /\ lh' = <<>>
  /\ cache' = [b \in Block |-> NoBuf] /\ pinned' = {}
  /\ pc' = [p \in Op |-> "out"]
  /\ wrote' = [p \in Op |-> {}]
  /\ phase' = "read_head" /\ tail' = 1
  /\ UNCHANGED <<disk, asWritten>>

Commit == WriteLog \/ WriteHead \/ Install \/ ClearHead \/ \E p \in Op : Finish(p)
Boot == ReadHead \/ Recover \/ Recovered
Call(p) == BeginOp(p) \/ EndOp(p) \/ \E b \in Block : Write(p, b)

Next ==
  \/ \E p \in Op : Call(p)
  \/ Commit
  \/ Boot
  \/ \E b \in Block : Evict(b)
  \/ Crash

Spec == Init /\ [][Next]_vars

(***************************************************************************)
(* commit() and recover() run to their end, and a system call that has     *)
(* entered reaches its end_op(); the machine crashes finitely often.       *)
(***************************************************************************)
FiniteCrashes == <>[][~Crash]_vars

FairSpec ==
  /\ Spec
  /\ WF_vars(Commit) /\ WF_vars(Boot)
  /\ \A p \in Op : WF_vars(EndOp(p))
  /\ FiniteCrashes

\* What recover() makes of a disk with header h, log l and home blocks d.
Replay(h, l, d) ==
  [b \in Block |->
     IF \E i \in DOMAIN h : h[i] = b THEN l[CHOOSE i \in DOMAIN h : h[i] = b] ELSE d[b]]

AfterRecovery == Replay(hdr, logged, home)

\* The system calls between begin_op() and end_op(); a panic ends them all.
Active == {p \in Op : pc[p] = "in" /\ phase # "panic"}

\* What the file system sees; during recovery and after a panic it does not look.
View ==
  IF phase \in {"read_head", "recover", "recovered", "panic"}
    THEN AfterRecovery
    ELSE [b \in Block |-> Read(b)]

(***************************************************************************)
(* The log implements an atomic disk: whatever crashes and recycled        *)
(* buffers intervene in begin_op, write, end_op, commit and recover, the   *)
(* disk moves in one step (write_head) from one state with no system call  *)
(* in progress to the next, and a crash loses only what came after.        *)
(***************************************************************************)
Atomic == INSTANCE AtomicDisk WITH
            durable <- AfterRecovery,
            view <- View,
            active <- Active

ImplementsAtomicDisk == Atomic!Spec

(***************************************************************************)
(* Between transactions nothing is at risk: once the last end_op() has     *)
(* returned, a crash would leave exactly what the file system reads, no    *)
(* buffer is pinned and the header on disk is empty.                       *)
(***************************************************************************)
QuietIsDurable ==
  phase = "idle" /\ outstanding = 0 =>
    /\ AfterRecovery = View
    /\ pinned = {} /\ lh = <<>> /\ hdr = <<>>

(***************************************************************************)
(* The space begin_op() reserves is there: the blocks in the header, and   *)
(* those the calls in progress may still write (MAXOPBLOCKS each, less the *)
(* ones already written), never exceed LOGSIZE, so write() stays inside of *)
(* LogHeader.block, however calls join, absorb each other's blocks and     *)
(* leave one by one.  (With sb.nlog = LOGSIZE the log area itself holds    *)
(* one block less: "too big a transaction" remains for that last block.)   *)
(***************************************************************************)
Written == {x \in Op \X Block : x[2] \in wrote[x[1]]}

SpaceIsReserved ==
  phase = "idle" => Len(lh) + outstanding * MAXOPBLOCKS <= LOGSIZE + Cardinality(Written)

(***************************************************************************)
(* A system call that has entered is in an open transaction until its      *)
(* end_op(): it is counted and no commit runs, so neither "LOG.write       *)
(* outside of trans" nor "log.commiting" can stop it, though commit() runs *)
(* without the log's lock.                                                 *)
(***************************************************************************)
CallsAreInTransaction ==
  \A p \in Op : pc[p] = "in" /\ phase # "panic" => outstanding >= 1 /\ ~committing

(***************************************************************************)
(* A process asleep in begin_op() is woken, by the end_op() of another     *)
(* system call or at the end of the commit, unless the kernel panics.      *)
(***************************************************************************)
SleepersAreWoken ==
  \A p \in Op : pc[p] = "asleep" ~> pc[p] # "asleep" \/ phase = "panic"

-----------------------------------------------------------------------------
(***************************************************************************)
(* The inductive invariant of the proofs                                   *)
(***************************************************************************)
TypeOK ==
  /\ outstanding \in Int /\ committing \in BOOLEAN
  /\ lh \in Seq(Block) /\ hdr \in Seq(Block)
  /\ home \in [Block -> Content] /\ logged \in [LogBlocks -> Content]
  /\ cache \in [Block -> Content \cup {NoBuf}] /\ pinned \subseteq Block
  /\ pc \in [Op -> {"out", "asleep", "in", "commit"}]
  /\ wrote \in [Op -> SUBSET Block]
  /\ phase \in Phases /\ tail \in Nat \ {0}
  /\ asWritten \in SUBSET Places

\* A log block for every entry, and one entry for a block.
LogFits ==
  \A h \in {lh, hdr} :
    Len(h) < Nlog /\ \A i, j \in DOMAIN h : h[i] = h[j] => i = j

\* Nobody is in a call during a commit or a boot, and the last one out commits.
CallsCounted ==
  phase # "panic" =>
    /\ outstanding = Cardinality(Active)
    /\ committing <=> phase \in {"write_log", "write_head", "install", "clear", "finish"}
    /\ phase # "idle" => Active = {}
    /\ phase = "idle" /\ Active = {} => lh = <<>>

\* The header on disk is empty, or that of a transaction being installed.
HeadersAgree ==
  /\ phase \in {"idle", "write_log", "write_head", "finish"} => hdr = <<>>
  /\ phase \in {"install", "clear", "recover", "recovered"} => hdr = lh
  /\ phase \in {"read_head", "finish"} => lh = <<>>
  /\ phase \in {"write_log", "write_head", "install", "recover"} => tail \in 1 .. Len(lh)
  /\ phase \in {"read_head", "write_head"} => tail = 1

\* What is not yet installed is pinned; other buffers are what the disk has.
BuffersCoherent ==
  phase # "panic" =>
    \A b \in Block :
      /\ b \in pinned <=>
           \E i \in DOMAIN lh : /\ lh[i] = b
                              /\ \/ phase \in {"idle", "write_log", "write_head"}
                                 \/ phase = "install" /\ i >= tail
      /\ IF b \in pinned THEN cache[b] # NoBuf ELSE cache[b] \in {NoBuf, home[b]}

\* What has been copied to the log, and from there to the home blocks.
CopiesAgree ==
  \A i \in DOMAIN lh :
    /\ \/ phase = "write_log" /\ i < tail
       \/ phase = "write_head"
       \/ phase = "install" /\ i >= tail
       => logged[i] = cache[lh[i]]
    /\ \/ phase \in {"install", "recover"} /\ i < tail
       \/ phase \in {"clear", "recovered"}
       => home[lh[i]] = logged[i]

\* What a call has written is its own, counted against its MAXOPBLOCKS, and logged.
WritesCounted ==
  phase # "panic" =>
    /\ IsFiniteSet(Written)
    /\ \A p \in Op :
         /\ IsFiniteSet(wrote[p]) /\ Cardinality(wrote[p]) <= MAXOPBLOCKS
         /\ pc[p] # "in" => wrote[p] = {}
         /\ phase = "idle" => \A b \in wrote[p] : Logs(b)

IInv ==
  /\ TypeOK /\ LogFits /\ CallsCounted /\ HeadersAgree /\ BuffersCoherent /\ CopiesAgree
=============================================================================
