# Verification of the octox kernel

octox is an xv6-like kernel for RISC-V written in Rust (`src/src/kernel`).
This directory holds TLA+ models of it, the TLC instances that check them, and
TLAPS proofs. Paths such as `proc.rs:891` are relative to `src/src/kernel`.

1. [Inventory](#1-inventory): the parts of the kernel
2. [What is modelled](#2-what-is-modelled): modules, state and actions against the code
3. [Code and comments at odds](#3-code-and-comments-at-odds): both readings, and what the code breaks
4. [Runs](#4-runs): questions, bounds, fairness, results
5. [Proofs](#5-proofs)
6. [Findings](#6-findings)
7. [Not modelled](#7-not-modelled)
8. [Plan](#8-plan)

## 1. Inventory

### Concurrency

**Spinlocks** (`spinlock.rs`, `Cpu::lock/unlock` in `proc.rs`). State: the CPU
that holds the lock; per CPU the nesting depth `noff` and the saved interrupt
flag `intena`. Operations: `lock` (interrupts off, assert not held by this CPU,
spin), guard drop (assert held, release, interrupts on at depth zero). Hard: a
guard of `p.inner` is created on one stack and dropped on another, perhaps on
another CPU, and its `IntrLock` points to the CPU it was made on. Correct when:
one holder; a CPU never waits for itself; interrupts are off exactly while a lock is
held.

**Sleep locks** (`sleeplock.rs`). State: `locked`, the owner's `pid`, a spinlock
over both. Operations: `lock`, `holding`, guard drop. They sleep and wake through
`Process::sleep` and `Procs::wakeup`. Hard: the window between the test and
going to sleep; wakeups meant for nobody; pid 0. Correct when: one guard at a
time; no lost wakeup; a free lock is taken if somebody wants it.

**Sleep, wakeup, kill** (`proc.rs`). State: `state` and `chan` of every process
under its `inner`. `sleep` takes `inner` before it releases the caller's lock;
`wakeup` visits the whole pool; `kill` makes a sleeper RUNNABLE and sets
`killed`. Used by every blocking part below.

**Scheduler** (`proc.rs`, `swtch.rs`). State per CPU: `proc`, `proc_lock`,
`context`; per process: `inner`, `state`, the saved context. Operations:
`scheduler`, `sched`, `yielding`, `fork_ret`, the switches inside `sleep` and
`exit`. Hard: a process is RUNNABLE before its context is saved; `p.inner` is
taken by one side of a switch and released by the other; interrupt handlers
call `wakeup` on idle CPUs; `wait` on another CPU may find a zombie that is
still on its stack. Correct when: one CPU per process; only saved contexts
are resumed; `my_proc()` is right; RUNNABLE processes run.

**Semaphore, condition variable, channel** (`semaphore.rs`, `condvar.rs`,
`mpmc.rs`). State: a count and a list, under two mutexes. Operations: `wait`,
`post`, `notify_all`, `send`, `recv`. Hard: the two mutexes; `notify_all` wakes
more than can go on. Correct when: the channel is a bounded FIFO queue, the
count matches it, and sleepers have a reason.

**Reader-writer lock** (`rwlock.rs`), **one-time initialisation** (`sync.rs`).
Atomics: a word of reader count and writer flag; a four-state `Once`. Hard:
failed attempts that leave traces, upgrades, poisoning. Correct when: readers
exclude writers, a failed `try_` changes nothing; the initialiser runs once and
nobody sees the value earlier.

### Processes and traps

**Process life cycle** (`proc.rs`). State: the pool, `parent` under `wait_lock`,
`killed`, `xstate`, pids. Operations: `alloc_proc`, `user_init`, `fork`, `exit`,
`reparent`, `wait`, `kill`, `free_proc`. Hard: `exit` wakes the parent before it
is a zombie; orphans and init; failures halfway through `fork` and `wait`.
Correct when: a child is reaped once, by its parent or init; nobody waits for
ever for a zombie; entries are not lost.

**Traps** (`trap.rs`, `kernelvec.rs`, `trampoline.rs`, `plic.rs`). `usertrap`
chooses between exit, yield and return; `kerneltrap` between yield and return;
`clockintr` and `devintr` call `wakeup`. Hard: the `killed` flag changes under
the trap's feet.

**exec** (`exec.rs`, `elf.rs`). Builds a new address space and commits to it at
the end; the old one survives any error.

**System calls** (`syscall.rs`). A table of handlers; argument fetching; the
descriptor table of a process.

### Memory

**Buddy allocator** (`buddy.rs`, `list.rs`, `kalloc.rs`). Free lists per size,
`alloc` and `split` bits. Hard: long series of splits and merges, the unusable
edges of the heap. Correct when: blocks handed out are disjoint, and freeing
everything restores the initial lists.

**Page tables** (`vm.rs`, `memlayout.rs`). `walk`, `mappages`, `unmap`, `alloc`,
`dealloc`, `copy`. Hard: out of memory halfway. Correct when: a mapping is
found again, pages are not leaked or freed twice.

### Storage

**Buffer cache** (`bio.rs`). An LRU list with reference counts, one sleep lock
per buffer; `get`, `relse`, `pin`, `unpin`, `read`, `write`. Correct when: a
block has one buffer, a referenced buffer is not recycled, the list stays a list.

**Write-ahead log** (`log.rs`). State: `outstanding`, `committing`, the header in
memory and on disk. Operations: `begin_op`, `write`, `end_op`, `commit`,
`recover`. Hard: crashes between any two block writes, also during recovery;
group commit; the space reserved against the space used. Correct when: every
system call's updates survive a crash entirely or not at all.

**Virtio driver** (`virtio_disk.rs`). Eight descriptors, two rings, one status
per request. `rw` allocates three descriptors, publishes a chain and sleeps;
`intr` walks the used ring. Correct when: descriptors in use are disjoint and
come back; each request is answered to the process that made it.

**File system** (`fs.rs`). Bitmap allocation, inodes and their block maps,
directories, paths, the table of in-memory inodes. Hard: last references
dropped while others look the inode up; partial writes; two-path operations
(`link`, `unlink`, `create`).

**Files and pipes** (`file.rs`, `fcntl.rs`, `pipe.rs`). The file table, offsets,
what the last close does; pipes are byte loops over a channel. Hard: decisions
taken on a reference count that others change; a transaction begun inside
another. Correct when: the last reference, and only it, gives the entry back.

### Devices, start-up, host side

**Console and UART** (`console.rs`, `uart.rs`, `printf.rs`): a ring with three
indices edited by interrupts; a transmit ring.
**Boot** (`main.rs`, `start.rs`, `entry.rs`): one flag between harts.
**mkfs**: lays out the image the file system starts from, on the host.
**Build script, user stubs**: hold no kernel state.

### How they meet

Everything that blocks goes through `sleep`/`wakeup` (SleepLock), which goes
through the scheduler (Sched). Pipes use the channel (Channel). File operations
run between `begin_op` and `end_op` (Log), on locked buffers from the cache (Bio),
which the driver fills (VirtioDisk). Inodes starts from the image of Mkfs, FileSystem
calls Inodes, Vm starts from KernelMap. A module takes the parts below it at the level
of what their callers rely on: Log and Channel have an atomic "goes to sleep" (SleepLock
shows that `sleep` loses no wakeup); Process has processes that may take their next step
(Sched has the CPUs); Bio has sleep locks that are an owner and a transfer that ends;
Inodes has blocks that are just there. Where the part below, as it is written, does not
keep what is relied on, section 3 says so.

## 2. What is modelled

| Module | Code | Role |
|---|---|---|
| `SleepLock` | `sleeplock.rs`, `sleep`, `wakeup`, `kill` | sleep lock down to each spinlock |
| `Sched` | `scheduler`, `sched`, `yielding`, `fork_ret`, `exit`, `fork`, `wait`, `wakeup` | CPUs and processes |
| `Channel` | `mpmc.rs`, `semaphore.rs`, `condvar.rs` | bounded channel |
| `BoundedFifo` | what `sync_channel` promises | abstract specification of Channel |
| `Log` | `log.rs`, with the cache and disk it uses | write-ahead log with crashes |
| `AtomicDisk` | the comment at the top of `log.rs` | abstract specification of Log |
| `Process` | `fork`, `exit`, `wait`, `kill`, the sleep call, `usertrap`, `clockintr` | life of a process |
| `VirtioDisk` | `virtio_disk.rs` | descriptors, rings, `rw`, `intr`, and a device |
| `Bio` | `bio.rs` | buffer cache |
| `Buddy` | `buddy.rs`, `list.rs`, `kalloc.rs` | memory allocator |
| `Vm` | `vm.rs`, `exec.rs`, memory side of `proc.rs` | address spaces |
| `KernelMap` | `Kvm::make`, `proc_mapstacks`, `memlayout.rs` | the kernel's own map |
| `Mkfs` | `mkfs/main.rs` | the initial image |
| `Inodes` | `fs.rs` | blocks, inodes, directories, paths, as operators on the disk and the inode table |
| `FileSystem` | file calls of `syscall.rs`, `file.rs`, `fcntl.rs` | the calls of one process on Inodes |
| `Files` | `file.rs`, `ITable`, `Pipe::alloc`, descriptor calls | who holds files and inodes, interleaved |
| `MC*` | | instances for TLC |
| `*Proofs` | | TLAPS proofs |

In each module a definition whose comment starts with "Variant:" is not part of
the model, and is not the code either. It is a plausible slip in the operation defined
after it; put in that operation's place it must break the property listed with it in
`PROJECT.json` ("mutants").

**SleepLock.** `lk`, `locked` and `pid` are the fields of the lock; `inner`,
`state`, `chan` those of the processes. A step is one acquisition or release of
a spinlock with the code under it. `lock()` is `Lock`, `Test`, `SetPid`;
`sleep()` is `SleepLockInner`, `SleepUnlock`, `Sched`, `Resume`, `Tidy`; `drop()`
is `Holding`, `Check`, `Drop`, `Clear`, one `Wakeup` per entry of the pool, and
`Release`. `Kill` acts on any sleeper at any time. At each sleep the sleeper's
`p.inner` stays held or is released (section 3); who runs into a kept one waits for
ever or, on the CPU that keeps it, panics ("caught"). Processes are their pids,
because `holding()` compares pids.

**Sched.** A step is one critical section of a `p.inner` or one `swtch`.
`running[c]` is the thread that CPU c executes; `proc[c]` is what `my_proc()`
says, and their agreement is proved, not assumed. `scheduler()` is
`Skip`, `Switch`, `Back`; the process side `ForkRet`, `Resume`, `Yield`, `Sleep`,
`Exit`, `Swtch`; `Fork` and `Reap` are the parts of `fork` and `wait` that hand
entries over; `Wakeup`, `Wake`, `Woken` are `wakeup`, from a process or from an
interrupt in the scheduler's loop. Failed assertions of `Mutex::lock` and of
guard drop lead to "panic". Abstracted: which UNUSED entry `alloc_proc` finds
and who is whose parent (module Process), and the sleep channel (there is one).
init does not exit (`exit()` asserts it).

**Channel.** `cnt` is under the semaphore's mutex, `buf` under its own. Each
critical section is a step, except that `recv` holds `buf` while it calls
`post`: `bufLock`. Sleeping on a condition variable is the state "full" or
"empty"; `Kill` may end it at any time.

**Log.** The in-memory log (`outstanding`, `committing`, `lh`), the disk (`home`,
`logged`, `hdr`) and what the log needs of the cache (`cache`, `pinned`). Code
under `LOG.lock()` is one step; `commit` and `recover` are one step per block
written. `Evict` recycles an unpinned buffer, `Crash` loses memory, at any
moment, recovery included. The content of a block is the last system call that
wrote it, which is what atomicity can tell apart. A block write is atomic, as
the code assumes. A system call writes at most `MAXOPBLOCKS` blocks, the contract
stated in `param.rs`; `wrote` is the history of what it has written.

**Process.** `state`, `pid`, `parent`, `killed` and `chan` are the fields of a pool
entry; `waitLock` and `ticksLock` are variables because their holders take several
steps. `fork()` is `Fork`, `ForkParent`, `ForkRun`; `exit()` is `Exit` (with
`reparent`), `WakeParent`, `Zombie`; `wait()` is `WaitScan` and `WaitSleep`; the sleep
call is `SleepCheck` and `SleepSleep`; `kill` visits one entry per step. `Ecall`, `Trap`
and `Return` are the branches of `usertrap`. `clockintr` counts a tick and calls `wakeup`,
which wakes nobody when CPU 0 has no process (`idleTick` remembers that it passed a sleeper
by). RUNNABLE stands for RUNNING too: which CPU runs a process is Sched's business.
Allocations fail at will.

**VirtioDisk.** `free`, `desc`, `info`, `avail`, `used` and the indices are the driver's and
the queue's; the device takes chains from the available ring and answers in any order. A
step of `rw` is what it does between two sleeps. Callers bring a buffer and a block of their
own. `data`, `platter` and `last` are contents: of the buffer, of the block, and what the
caller wrote or is to read.

**Bio.** `list` holds the links of every buffer, so that a list that is no list any more can be
seen; reference counts, guards and the three parts of a guard's drop are separate steps.

**Buddy.** `free[k]`, `alloc[k]`, `split[k]` are the arrays of `BuddyAllocator`, addresses
count from `base`. `Init` is the boot code with the marked edges of the heap; `Alloc`
and `Dealloc` are whole calls (they run under one lock). `held` is what callers own.

**Vm.** An address space is its set of tables and its map; the number of free pages
is the shared state. Calls thread a record through `walk`, `mappages`, `alloc`, `copy`,
... that counts the allocations granted to the call, so that each allocation of each
call fails in some behaviour. `exec` is the loading of segments, stack and arguments
and the final exchange of address spaces.

**Mkfs**, **Inodes**, **FileSystem.** A state of Inodes is a record: inodes on disk, contents
of blocks, bitmap, the inode table and the reason of a panic; each function of
`fs.rs` is an operator from state to state with the same name. FileSystem has
one process with a working directory and descriptors, and a system call is one
step. A directory block holds `BSIZE` entries, a data block `BSIZE` bytes, both kept as
sequences. What a freed block held is forgotten, because `balloc` zeroes blocks.

**Files.** VFiles and MInodes are numbers; the count of an `Arc` is the number of
places that hold it. One step per look at a count, per section under a table's lock and per
transaction begun or ended. `File::drop` is `drop`, `dcount`, `dtake`, `dunwrap`, `dbegin`, `dend`;
`ITable::put` is `put`, `tfree`, `ttake`, `tdec`. Inode numbers on disk and with a name are
sets, the directory is one that stays, and `cwd` is not counted (FileSystem has it).

## 3. Code and comments at odds

In a number of places the code, taken literally, stops the kernel within a few steps or loses
what it keeps, and a comment next to it, or the function's contract, says what was meant. The
models contain the literal code. Three ways of dealing with what comes after such a place:

1. **Both readings are behaviours of the same specification.** A variable that never changes is
   chosen in `Init` (in SleepLock, at each sleep). Every run and every theorem about the
   module is then about the literal code *and* about the documented behaviour, with no assumption
   that picks one. What the literal code breaks is not a property of such a module, or the property
   says what it breaks.
2. **The literal code is the only reading,** and the run shows what it breaks.
3. **The place is documented in the instance of a violation run**, because as written it stops
   the kernel before the call the run is about.

| Module | Reading | literal code | as documented |
|---|---|---|---|
| SleepLock, Sched | at each sleep; `releases` | nobody releases the `p.inner` with which a process switched back (`proc.rs:892-897`); the guard in `proc_lock` is only taken out by `fork_ret` | each side of the switch releases what the other took (`proc.rs:887-889`) |
| Process | `scans` | `alloc_proc` gives up at the first entry in use (`proc.rs:420`) | looks through the table for an UNUSED entry |
| Log | `"bwrite"` in `asWritten` | `BufGuard::write` panics if the buffer is locked (`bio.rs:90`), which it always is | "Must be locked" (`bio.rs:88`) |
| | `"init"` | `Mutex<Log>::init` demands that the header be *at least* a block (`log.rs:133-136`) | that it be not "too big" |
| VirtioDisk | `asWritten` | `rw` waits for `info[..].buf` to be `None`, which `intr` never makes it, on an address `intr` does not wake (493-496); `alloc3_desc` gives back descriptors 0, 1, .. (407) | waits for `intr` to finish the request; gives back the ones found |
| Vm | `"create"`, `"copy"` in `asWritten` | `Uvm::create` and `copy` ask for the eight bytes of a struct; `firstk` has no size for that and the allocator's index panics | an empty page table; a copy of the memory |
| | `"freewalk"` | takes a child table's page for a `PageTable` struct and follows its first entry as an address (`vm.rs:383-395`), a page fault in the kernel | "recursively free page-table pages" |

For Process, Log, VirtioDisk and Vm the literal reading is short-lived: no `fork` succeeds while
init lives, the first block written or the end of the boot panics, no `rw` returns, the first
process cannot be made. What the runs show of longer behaviours is shown by the documented reading,
and is what the code will do once these places are put right.

Literal only:

| Module | Place | the code |
|---|---|---|
| Bio | `relse` (`bio.rs:194-218`) | moves a buffer to the front without setting the list's tail |
| | `get` (166-173) | asks for the buffer's sleep lock with the list's spinlock held: `sched` panics if it must sleep |
| | `write` (88-94) | panics when the lock is held |
| Files | `File::drop` (`file.rs:223-230`) | looks at the count outside the table's lock |
| | `ITable::put` (`fs.rs:722-747`) | drops its reference after it has released the lock, and empties the entry although `get` may have handed it out again |
| | `open` (`syscall.rs:391-395`) | drops a File without a descriptor inside its transaction |
| Inodes, FileSystem | `"balloc"` | counts the bit up before it looks: skips bit 0 |
| | `"write"` | a failed copy returns without `update()` (`fs.rs:461`; "write the inode back to disk even if the size didn't change", 473-475) |
| | `"dirlink"` | the offset moves past the empty entry (534) |
| | `"name"` | names shorter than DIRSIZ panic in `dirlink` (540) |
| | `"skip_elem"` | the last element keeps its slashes (908 against 900-903) |
| | `"fnod"` | `FNod::write` takes every chunk from the same address (`file.rs:136`) |

Documented in an instance: `DISK.rw()` in Bio is a transfer that ends. In `fs`, `init` accepts the
magic number (as written it asserts that it is *not* FSMAGIC, `fs.rs:123`), the bitmap block of b is
`b / BPB` (as written `b + BPB`, past the end of the disk) and the slices of `read` and `write` end at
`off % BSIZE + m` (as written at `m`, which panics at the third entry of a directory). They are the
names `"init"`, `"bblock"` and `"piece"`; put into `AsWritten` they give the literal code. `sched_idle`
takes the documented hand-over, so that a sleeper is not stuck for another reason.

**What the code breaks.** Four of these are the violation runs (section 6): the list of buffers, the
copy of an inode, the blocks of a failed write, the tick on an idle CPU. The others have no run of
their own:

* *A wanted sleep lock is taken, every RUNNABLE process runs*: no, because a sleeper's `p.inner` stays
  held and `wakeup` or the scan spins on it, or panics on the CPU that keeps it. `PanicMeansKept` says that this
  is the only panic of Sched; `NoLostWakeup` that the sleep lock itself is not at fault.
* *A request to the disk completes, its descriptors come back*: no, see `rw` above. `alloc3_desc` takes
  descriptors away from requests in flight; `StatusIsOfRequest` and `NoMissedCompletion` hold all the same.
* *Entries of the file table come back*: no, two drops that read the count before either has gone leave the
  entry for ever. *A log full of transactions has one that can end*: no, because of `open`; Files reaches
  this deadlock (with deadlock checking on, and without `OneCopy`).
* *Paths resolve, directories stay sound, writes change what they should*: stopped by `"name"`, `"skip_elem"`
  and `"fnod"` at the first call.
* *Exec, fork and exit work*: stopped by `"create"`, `"copy"` and `"freewalk"`; `PagesConserved` says that these
  are the only panics of Vm.

Deviations that need no second reading, modelled as they are or left out as noted:

* `namei("/")` is `None`, so the first process has no working directory until it calls
  `chdir` with a longer path; modelled.
* A last path element of exactly DIRSIZ bytes counts as too long; modelled.
* A file created in a removed directory is never freed, and `..` of a
  removed directory whose parent was freed panics with "ilock: no type"; modelled.
* mkfs rounds the root's size past its last block if its entries fill that block
  exactly; the instance's root has room.
* `firstk` for at most eight bytes gives 64 and the index panics; the requests of the Buddy instance are
  larger, Vm has the panic. `init` of the buddy allocator pushes a block twice for one layout of memory.
* `proc_mapstacks` allocates stacks of four pages and maps one page of each; modelled.
* `exec`'s `continue` skips the step to the next program header; modelled (`Loaded`).
* `wait` and the sleep call: a kill between the look at `killed` and `sleep` is not noticed;
  `KilledExits` excepts that place.
* Pipes have no end-of-file, and `Pipe::read` and `write` never advance their address.
* `begin_op` reserves against `LOGSIZE`, while `write` panics one block earlier because
  the header takes one (`log.rs:145`), and does so before it looks for an absorbable entry. Modelled: the panic
  is a step of `Write`. `SpaceIsReserved` is about `LOGSIZE`.

## 4. Runs

| Run | Instance | States | Result |
|---|---|---|---|
| `sleeplock` | 4 processes, pids 0 to 3 | 21,136 | pass |
| `sched` | 3 CPUs, 3 entries | 472,400 | pass |
| `channel` | 4 processes, 2 data, capacity 2 | 50,688 | pass |
| `log` | 3 calls of at most 2 blocks, room for 2 calls, log area of 3 | 284,169 | pass |
| `process` | 3 entries, pids to 2, sleeps of 1 tick | 164,741 | pass |
| `virtio` | 3 processes, 7 descriptors, symmetry | 495,048 | pass |
| `buddy` | leaves of 2, heap to 22, 2 layouts at boot, 3 of requests | 9,008 | pass |
| `vm` | 2 processes, 30 pages, tables of 2 entries | 12,703 | pass |
| `sched_idle` | 2 CPUs, 2 entries, ticking clock on hart 0 | | `TickWakesSleepers` fails |
| `bio` | 2 processes, 2 blocks, 3 buffers | | `UnusedBufferIsFound` fails |
| `files` | 2 processes, 1 inode number, tables of 2 | | `OneCopy` fails |
| `fs` | 15 blocks of 2, 4 inodes, 1 descriptor | | `BlocksOwned` fails |

**sleeplock**: guards exclude each other, neither the "acquire" nor the "release"
assertion on the sleep lock fires (pid 0 takes part: `PidZeroTakesPart`), and no wakeup is lost
between the test of `locked` and sleep, whichever sleepers keep their `p.inner`. Four processes:
a holder, a sleeper, one that barges in and one that runs into a kept lock.

**sched**: no process is on two CPUs, `wait` frees no process still on its stack, and an
assertion on `p.inner` fails only on a CPU that has kept the lock of a process it no longer runs; for the
code and for the documented hand-over. Three CPUs compete for three entries (`CpusCompete`), so that a CPU
can keep a lock while two others go on.

**channel**: the assertion of `post`, the refinement of a bounded FIFO queue and progress on both
sides. With capacity two and four processes there can be a full channel with a sender asleep, two
senders between `wait` and `push_back`, and two receivers woken for one element
(`SendersCanFillTheChannel`).

**log**: Log refines AtomicDisk (`ImplementsAtomicDisk`): the mapping takes the durable
state to be what recovery would make of the disk, so that `write_head` is the commit
and everything else stutters or is volatile. Nothing is pinned or unwritten between
transactions; the blocks in the header and those still reserved fit in `LOGSIZE`; a call in
progress is counted and meets no commit; sleepers in `begin_op` are woken. The four combinations of
`asWritten` are initial states. Two blocks of data in the log make partial writes of
the log area, of the home blocks and of recovery all possible; three calls let one
sleep while one commits and one is in progress.

**process**: no parent has exited, nobody sleeps in `wait` with a zombie to reap, or in
the sleep call with no ticks left unless the last tick found CPU 0 idle, init reaps orphans, and the
killed exit. Three entries give init, a child and a grandchild, so that orphans with and without a living
sibling occur. The pids stop at `MaxPid`; `fork` fails from there on. What takes a
fourth process (a zombie handed to an init that already sleeps, with another process
exiting) is covered by the proofs.

**virtio**: a status of 0 is that of the request, though entries of `info` are used again and, as written,
descriptors in use are given back; and an answer that `intr` has not seen has an interrupt raised or `intr`
running. Seven descriptors are room for two requests and one descriptor too few for the third, so
`alloc3_desc` gives back what it took, or others; two requests are answered in either order, also
while `intr` runs. The indices of the rings wrap.

**buddy**: every byte of the heap is free, handed out or one of the marked edges, and just one
of these; blocks are aligned; if there is a free block of a size, `alloc` finds one. Both
layouts at boot have ends that are no multiples of the largest block. The run
covers every series of calls, because the state space is finite and fully explored.

**vm**: pages and tables are neither lost nor freed twice, the kernel stops only at the three places of
section 3, every address below `sz` is mapped and none above, and a call that fails leaves the caller's
address space as it was. `Grants` lets the n-th allocation of a call fail for each n up to ten, which is past
the longest call of the instance, and twenty is "enough". Next to a good program there are one with too many
arguments, one that is cut short, one whose second header is bad, and a text file.

**bio, files, fs, sched_idle**: section 6.

**Deadlock.** Checked in `channel`, `log`, `process` and `buddy`. In `buddy` a panic has no successor,
so the run also shows that none is reachable. Log and Process stutter in their panics, which their
properties name. In the other runs the code really stops: on a kept `p.inner`, in `rw`, at a panic.

**Fairness.** Weak fairness of the steps of a process inside kernel code (CPUs
execute). Nobody is obliged to call `send`, `begin_op` or `fork`.

* Log: a call that entered reaches `end_op`, and crashes are finitely many.
* Process: strong fairness of each process's kernel steps: they need `wait_lock` or the ticks lock,
  which others take and release, and a spinlock that is free again and again is
  taken in the end. Timers interrupt user code (`Trap`). Nothing is assumed of `clockintr`: it may always
  find CPU 0 idle.
* Sched (`sched_idle` only): strong fairness of the scan and of `Yield`: the timer interrupts whatever runs,
  and interrupts leave the scheduler's loop time to advance; and the clock of hart 0, the one `clockintr` runs
  on, ticks for ever.

Spinning on a spinlock that stays free is weakly fair.

## 5. Proofs

For every value of the constants that satisfies the named assumptions
(`ConstantsAssumption` in each module, `DiskAssumption` in VirtioDisk). The assumptions are about sets and sizes;
none of them picks a reading of section 3, so each theorem holds of the literal code and of the documented one:

| Module | Theorem | Property | also a run's |
|---|---|---|---|
| `SleepLockProofs` | `TypeCorrect` | `TypeOK` | |
| | `SleepLockExcludes` | `MutualExclusion` | yes |
| | `SleepLockNeverPanics` | `NoPanic` | yes |
| | `SleepLockKeepsWakeups` | `NoLostWakeup` | yes |
| `SchedProofs` | `SchedTypeCorrect` | `TypeOK` | |
| | `ProcessOnOneCpu` | `OneCpuPerProcess` | yes |
| | `SwitchesToSavedContext` | `ContextIsSaved` | |
| | `MyProcCorrect` | `MyProcIsCurrent` | |
| | `ExecutesUndisturbed` | `ExecutesInRunning` | |
| | `ReapsOnlyOffCpu` | `NotReapedOnCpu` | yes |
| | `PanicsOverKeptLock` | `PanicMeansKept` | yes |
| `ChannelProofs` | `ChannelTypeCorrect` | `TypeOK` | |
| | `SemaphoreCounts` | `CountIsExact` | |
| | `ChannelNeverPanics` | `NoPanic` | yes |
| | `ChannelKeepsWakeups` | `SleepersHaveReason` | |
| | `ChannelIsFifo` | `ImplementsFifo` | yes |
| `ProcessProofs` | `OrphansGoToInit` | `ParentsAreLive` | yes |
| | `ZombiesAreSeen` | `NoUnseenZombie` | yes |
| | `TicksAreSeen` | `NoMissedTick` | yes |
| `LogProofs` | `LogIsAtomicDisk` | `ImplementsAtomicDisk` | yes |
| | `QuietLogIsDurable` | `QuietIsDurable` | yes |
| | `SpaceStaysReserved` | `SpaceIsReserved` | yes |
| | `CallsStayInTransaction` | `CallsAreInTransaction` | yes |
| `VirtioDiskProofs` | `NoCompletionIsMissed` | `NoMissedCompletion` | yes |

Each rests on an inductive invariant of its module, `IInv` unless said otherwise; TLC finds it
invariant on the instances of section 4 too (add `INVARIANT IInv` to the `.cfg`).

*SleepLock.* Mutual exclusion alone is not inductive: it needs that `lk` names
the one process inside the spinlock (`SpinlockHeld`), that `locked` and `pid`
describe the owner (`OwnerRecorded`), that `inner` is held on the way to
sleep and back, and by sleepers that kept it (`InnerHeld`), and that a sleeper sleeps on this channel
(`SleepsOnLock`). The wakeup argument: a process commits to sleep only under
`lk` with `locked` true; when `drop()` clears `locked`, every committed process
is on the releaser's list; it leaves the list only when its `inner` is free, that
is, once its SLEEPING state is visible. A sleeper that keeps `inner` stays on the list.

*Sched.* `InPlace` says what the place a CPU is at implies about the process it runs;
`GuardInTransit` that `proc_lock` is occupied only from the switch to the process's first step;
`OnSomeCpu` that a process that is RUNNING or not saved is on a CPU; `StaysHeld` that in the code the lock of a process
that has left its CPU is never free. Then a process whose lock is free and
that is RUNNABLE or ZOMBIE is on no CPU, which is what `Switch` and `Reap` need.

*Channel* (assumes that processes are finitely many and the capacity is positive).
`LockedInPost` ties `bufLock` to the receiver in `post`. Each step moves at most
one process in or out of "push" and "post", so the cardinalities in
`CountIsExact` move by one with the count and the buffer (lemmas `Enter` and
`Exit`). `CountIsExact` makes the count positive in `post`, and leaves room in the
buffer at `push`, which is the refinement.

*Process* (for any size of the table). `InPlace` says what
an entry's state implies about where it is and what it sleeps on; `LocksHeld` that `wait_lock`
is held from `exit`'s wakeup to the zombie and from the end of `wait`'s scan to sleep, and the ticks
lock from the count to sleep; `ForkersApart` that two forks never fill the same entry and
that nobody else uses it as parent or child; `InitLives` that init neither exits nor is freed;
`FoundIsCurrent` that what a scan of `wait` or a wakeup of `exit` found is still so when the
process goes to sleep or becomes a zombie. The last is the core of `ZombiesAreSeen`: between
`exit`'s wakeup and its zombie state the parent may run, but cannot go to sleep again without
`wait_lock`; and `reparent` wakes init whenever it hands it a child.

*Log* (assumes finitely many calls and `MAXOPBLOCKS <= LOGSIZE`).

* `LogFits`: every entry of a header has a log block and every block at most one entry, so
  recovery gives each block one content.
* `CallsCounted`: `outstanding` is the number of calls in progress, there are none during a commit
  or a boot, and a log nobody uses is empty.
* `HeadersAgree`: the header on disk is empty until `write_head`, and the one in memory from there
  to the end of the installation; the same in recovery.
* `BuffersCoherent`: what is not yet installed is pinned, and any other buffer holds what the disk
  has, so that recycling it does not show.
* `CopiesAgree`: how far the copies to the log, and from there to the home blocks, have come.
* `WritesCounted` (for `SpaceIsReserved`): what a call has written is logged and within its `MAXOPBLOCKS`.

With these, `write_head` turns what recovery would give from the home blocks into what the file
system sees, and every other step leaves it alone (`InstallKeepsReplay`, `AllHome`). A panic, the one of
`BufGuard::write` included, leaves the disk as it is, like a crash.

*VirtioDisk.* `NoMissedCompletion` is inductive: the acknowledgement comes before the ring is read, and `intr`
leaves only with the ring read to its end.

Only model-checked: all liveness (beyond the prover's reach, as is ENABLED); `StatusIsOfRequest`,
Buddy and Vm, which have no inductive invariant yet; Bio and Files, whose runs show a failure; Inodes and
FileSystem, whose recursive operators the prover does not take.

## 6. Findings

**Wakeups from idle CPUs do nothing** (`proc.rs:444`, run `sched_idle`). `wakeup()` matches on
`my_proc()` and skips every entry when it is `None`. If hart 0 is in `scheduler()` when the clock
ticks, the tick wakes nobody; the run is a behaviour in which every tick does so while a process sleeps on
the ticks. The comment says "Wake up all processes sleeping on chan." The run assumes the
documented hand-over of `p.inner`.

**Unused buffers are not found** (`bio.rs:213`, run `bio`). `relse` moves a released buffer to the front but
leaves the list's tail at it, so a later search from the back sees no other buffer: `get` panics with "no buffers"
although others are unused. The comments speak of a "linked list of all buffers, sorted by how recently
the buffer was used" and of recycling "the least recently used (LRU) unused buffer".

**An inode has two copies in memory** (`fs.rs:741`, run `files`). `put` reads the reference count, releases the
table's lock, and later empties the entry without looking again. A `get` in between is handed the inode whose entry
is then emptied, and the next `get` makes a second copy.

**A failed write loses blocks** (`fs.rs:461`, run `fs`). When the copy from user memory fails, `write` returns
before the `update()` of which the comment says "write the inode back to disk even if the size didn't change
because the loop above might have called bmap() and added a new block". The bitmap then marks a block that no inode on
disk names.

The other places at which the code does something else than a comment, an assertion's message or
a test says are in section 3.

## 7. Not modelled

* **Console and UART** (`console.rs`, `uart.rs`): sequential under one lock but for
  the wait for input, which is the pattern of SleepLock and of the sleep call.
* **`sync.rs`**: a port of the standard library's `Once` and `OnceLock`; used for statics that one hart
  initialises before it lets the others go. **`rwlock.rs`**: unused by the kernel.
* **Interrupt nesting** (`noff`, `intena`), and with it the question on which CPU an `IntrLock` is
  counted down after a migration: it needs both values per thread, which multiplies Sched.
* **Traps**: `kerneltrap`, `devintr` and the PLIC beyond the calls they make (`wakeup`, `yielding`, `intr`);
  assembly that saves and restores registers (`trampoline.rs`, `kernelvec.rs`, `swtch.rs` beyond its effect).
* **Boot** (`main.rs`, `start.rs`, `entry.rs`) and register accessors (`riscv.rs`).
* **`copyin`, `copyinstr`, `copyout`** beyond "may fail": their loops are over bytes of user memory.
  **Pipes** beyond opening and closing: their loops call `send` and `recv` of Channel.
* Formatting (`printf.rs`), the host's build script, user stubs and programs.

Left out of the modelled parts: more than one sleep channel in Sched, torn block writes in Log, the
contents of user pages in Vm. The memory model is sequentially
consistent; the code's orderings (Acquire on lock, Release on unlock) justify that for data under
locks. FileSystem has one process and atomic calls: inode and directory locks make the calls on one
inode atomic, but not a walk over several; the interleaving of reference counts is in Files.

## 8. Plan

1. Proofs of Buddy, of Vm and of `StatusIsOfRequest`.
2. Two processes in FileSystem, with a walk as one step per directory.
3. **Intr**: `noff` and `intena` with migration; **Console**; **Once**.
