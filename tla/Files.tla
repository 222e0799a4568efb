-------------------------------- MODULE Files --------------------------------
(***************************************************************************)
(* Open files and in-memory inodes shared by several processes:            *)
(* kernel/file.rs (FTable::alloc, File::drop), kernel/pipe.rs (alloc),     *)
(* ITable::get and put of kernel/fs.rs, and the system calls that make,    *)
(* copy and drop them, interleaved at every point where one of them reads  *)
(* a count of references, takes a table's lock or starts a transaction.    *)
(*                                                                         *)
(* A VFile or an MInode is a number; its Arc's count is not a variable but *)
(* what it counts, the places that hold it (StrongF, StrongI).  A section  *)
(* under the lock of FTABLE or ITABLE is one step.  The names are those of  *)
(* one directory, which stays; its own MInode and cwd are not counted here. *)
(*                                                                         *)
(* Counts are read outside the lock that guards what they count, as in the *)
(* code: File::drop looks at the count of a file before it takes FTABLE's   *)
(* lock, ITable::put reads it under ITABLE's lock, releases that, and       *)
(* empties the entry later without looking again.                           *)
(***************************************************************************)
EXTENDS Naturals, Sequences, FiniteSets

CONSTANTS
  Proc,        \* processes
  First,       \* the one that runs at the start
  Inum,        \* inode numbers
  NOFILE,      \* descriptors of a process
  NFILE,       \* entries of the file table
  NINODE,      \* entries of the inode table
  MaxOps       \* transactions the log has room for

VARIABLES
  live,        \* processes that exist
  ofile,       \* ofile[p][fd]: a VFile or 0
  ftable,      \* VFiles in the file table
  vip,         \* vip[v]: the MInode of VFile v, 0 for a pipe's end or no file
  itable,      \* MInodes in the inode table
  inum,        \* inum[m]: the inode number of MInode m
  valid,       \* MInodes that were read from the disk
  locked,      \* MInodes whose sleep lock put() holds
  disk,        \* inode numbers allocated on disk
  linked,      \* those with a name
  pc, loc,     \* where each process is, and its local values
  panic        \* has the kernel panicked?

vars == <<live, ofile, ftable, vip, itable, inum, valid, locked, disk, linked, pc, loc, panic>>

FD == 0 .. NOFILE - 1
VId == 1 .. NFILE + 2 * Cardinality(Proc)
MId == 1 .. NINODE + NFILE + 3 * Cardinality(Proc)

(* The locals of a process: an MInode it holds (0: none), the Files it holds *)
(* and is to drop, in order, the transactions it is in, that of its system   *)
(* call and that of File::drop, whether it is in exit(), and whether it has   *)
(* the directory's lock.                                                      *)
Nothing == [m |-> 0, todo |-> <<>>, inop |-> FALSE, nested |-> FALSE,
            exits |-> FALSE, dir |-> FALSE]

-----------------------------------------------------------------------------
(* References.                                                              *)

HandlesF(v) ==
  Cardinality({<<p, fd>> \in Proc \X FD : ofile[p][fd] = v})
  + Cardinality({<<p, k>> \in Proc \X (1 .. NOFILE + 2) :
                   k <= Len(loc[p].todo) /\ loc[p].todo[k] = v})
StrongF(v) == HandlesF(v) + (IF v \in ftable THEN 1 ELSE 0)
Files == {v \in VId : StrongF(v) > 0}

HandlesI(m) ==
  Cardinality({v \in Files : vip[v] = m}) + Cardinality({p \in Proc : loc[p].m = m})
StrongI(m) == HandlesI(m) + (IF m \in itable THEN 1 ELSE 0)

FreshF == CHOOSE v \in VId \ Files : \A w \in VId \ Files : v <= w
FreshI == LET used == {m \in MId : StrongI(m) > 0}
          IN  CHOOSE m \in MId \ used : \A n \in MId \ used : m <= n

Ops == Cardinality({p \in Proc : loc[p].inop}) + Cardinality({p \in Proc : loc[p].nested})

Init ==
  /\ live = {First}
  /\ ofile = [p \in Proc |-> [fd \in FD |-> 0]]
  /\ ftable = {} /\ vip = [v \in VId |-> 0]
  /\ itable = {} /\ inum = [m \in MId |-> CHOOSE i \in Inum : TRUE] /\ valid = {} /\ locked = {}
  /\ disk = {} /\ linked = {}
  /\ pc = [p \in Proc |-> "idle"] /\ loc = [p \in Proc |-> Nothing]
  /\ panic = FALSE

At(p, l) == p \in live /\ pc[p] = l /\ ~panic
Goto(p, l) == pc' = [pc EXCEPT ![p] = l]
Set(p, l) == loc' = [loc EXCEPT ![p] = l]

(* Where a call goes on when it has dropped its Files; l is its locals then. *)
Continue(p, l) ==
  /\ Set(p, l)
  /\ Goto(p, IF l.todo # <<>> THEN "drop" ELSE IF l.inop THEN "oend"
              ELSE IF l.exits THEN "exit" ELSE "idle")

files == <<live, ofile, ftable, vip>>
inodes == <<itable, inum, valid, locked, disk, linked>>

-----------------------------------------------------------------------------
(* open(), with and without O_CREATE, and unlink().                         *)

(* LOG.begin_op, which waits for room in the log.                            *)
begin_op(p) ==
  /\ At(p, "idle") /\ Ops < MaxOps
  /\ Set(p, [Nothing EXCEPT !.inop = TRUE]) /\ Goto(p, "oget")
  /\ UNCHANGED <<files, inodes, panic>>

(* ITable::get on inode i: the MInode m of the table, or a new entry, if      *)
(* there is one.                                                              *)
Get(i, m) ==
  LET there == {n \in itable : inum[n] = i} IN
  IF there # {} THEN m \in there /\ UNCHANGED <<itable, inum, valid, panic>>
  ELSE /\ m = FreshI /\ panic' = (Cardinality(itable) = NINODE)
       /\ itable' = itable \cup {m} /\ inum' = [inum EXCEPT ![m] = i] /\ valid' = valid \ {m}

(* create() and unlink() keep the directory's lock after their look-up,       *)
(* unlink() until it has dropped the Inode.                                   *)
DirIsLocked == \E q \in Proc : loc[q].dir

(* dirlookup() under the directory's lock; `to` is what the call does next.  *)
lookup(p) ==
  /\ At(p, "oget") /\ ~DirIsLocked
  /\ \E i \in linked, m \in MId, to \in {"olock", "unlink"} :
       Get(i, m) /\ Set(p, [loc[p] EXCEPT !.m = m, !.dir = (to = "unlink")]) /\ Goto(p, to)
  /\ UNCHANGED <<files, locked, disk, linked>>

(* dirlookup() finds nothing.                                                *)
lookup_fails(p) ==
  /\ At(p, "oget") /\ ~DirIsLocked /\ Continue(p, loc[p])
  /\ UNCHANGED <<files, inodes, panic>>

(* ITable::alloc marks a free inode on disk, then get()s it; create() locks   *)
(* it and gives it its name, all under the directory's lock.                 *)
ialloc(p) ==
  /\ At(p, "oget") /\ ~DirIsLocked
  /\ \E i \in Inum \ disk, m \in MId :
       /\ Get(i, m) /\ disk' = disk \cup {i}
       /\ Set(p, [loc[p] EXCEPT !.m = m, !.dir = TRUE]) /\ Goto(p, "create")
  /\ UNCHANGED <<files, locked, linked>>

(* MInode::lock reads the inode; one without a type is a panic.             *)
Lock(m) ==
  /\ m \notin locked
  /\ valid' = valid \cup {m}
  /\ panic' = (m \notin valid /\ inum[m] \notin disk)

create(p) ==
  /\ At(p, "create") /\ Lock(loc[p].m)
  /\ linked' = linked \cup {inum[loc[p].m]} /\ Goto(p, "olock")
  /\ Set(p, [loc[p] EXCEPT !.dir = FALSE])
  /\ UNCHANGED <<files, itable, inum, locked, disk>>

olock(p) ==
  /\ At(p, "olock") /\ Lock(loc[p].m) /\ Goto(p, "oinst")
  /\ UNCHANGED <<files, itable, inum, locked, disk, linked, loc>>

unlink(p) ==
  /\ At(p, "unlink") /\ Lock(loc[p].m)
  /\ linked' = linked \ {inum[loc[p].m]} /\ Goto(p, "put")
  /\ UNCHANGED <<files, itable, inum, locked, disk, loc>>

(* FTable::alloc: the VFile takes the Inode; without an entry both go.       *)
alloc(p) ==
  /\ At(p, "oinst")
  /\ IF Cardinality(ftable) < NFILE
     THEN /\ ftable' = ftable \cup {FreshF} /\ vip' = [vip EXCEPT ![FreshF] = loc[p].m]
          /\ Set(p, [loc[p] EXCEPT !.m = 0, !.todo = <<FreshF>>]) /\ Goto(p, "ofd")
     ELSE Goto(p, "put") /\ UNCHANGED <<ftable, vip, loc>>
  /\ UNCHANGED <<live, ofile, inodes, panic>>

FreeFD(p) == {fd \in FD : ofile[p][fd] = 0}
Least(fds) == CHOOSE fd \in fds : \A g \in fds : fd <= g

(* ProcData::fdalloc owns the File: without a descriptor it drops it, inside *)
(* open()'s transaction.                                                     *)
fdalloc(p) ==
  /\ At(p, "ofd")
  /\ IF FreeFD(p) # {}
     THEN /\ ofile' = [ofile EXCEPT ![p][Least(FreeFD(p))] = loc[p].todo[1]]
          /\ Set(p, [loc[p] EXCEPT !.todo = <<>>]) /\ Goto(p, "oend")
     ELSE Goto(p, "drop") /\ UNCHANGED <<ofile, loc>>
  /\ UNCHANGED <<live, ftable, vip, inodes, panic>>

(* LOG.end_op of the call, and its return.                                   *)
end_op(p) ==
  /\ At(p, "oend") /\ Continue(p, [loc[p] EXCEPT !.inop = FALSE])
  /\ UNCHANGED <<files, inodes, panic>>

-----------------------------------------------------------------------------
(* The calls on descriptors.                                                 *)

(* dup() drops the copy if there is no descriptor for it.                    *)
dup(p, fd) ==
  /\ At(p, "idle") /\ ofile[p][fd] # 0
  /\ IF FreeFD(p) # {}
     THEN ofile' = [ofile EXCEPT ![p][Least(FreeFD(p))] = ofile[p][fd]] /\ UNCHANGED <<pc, loc>>
     ELSE Continue(p, [Nothing EXCEPT !.todo = <<ofile[p][fd]>>]) /\ UNCHANGED ofile
  /\ UNCHANGED <<live, ftable, vip, inodes, panic>>

close(p, fd) ==
  /\ At(p, "idle") /\ ofile[p][fd] # 0
  /\ ofile' = [ofile EXCEPT ![p][fd] = 0]
  /\ Continue(p, [Nothing EXCEPT !.todo = <<ofile[p][fd]>>])
  /\ UNCHANGED <<live, ftable, vip, inodes, panic>>

(* Pipe::alloc makes the two Files one after the other; the first is dropped *)
(* if there is no entry for the second.                                      *)
pipe(p) ==
  /\ At(p, "idle") /\ Cardinality(ftable) < NFILE
  /\ ftable' = ftable \cup {FreshF} /\ vip' = [vip EXCEPT ![FreshF] = 0]
  /\ Set(p, [Nothing EXCEPT !.todo = <<FreshF>>]) /\ Goto(p, "pipe2")
  /\ UNCHANGED <<live, ofile, inodes, panic>>

pipe2(p) ==
  /\ At(p, "pipe2")
  /\ IF Cardinality(ftable) < NFILE
     THEN /\ ftable' = ftable \cup {FreshF} /\ vip' = [vip EXCEPT ![FreshF] = 0]
          /\ Set(p, [loc[p] EXCEPT !.todo = Append(@, FreshF)]) /\ Goto(p, "pipefd")
     ELSE Continue(p, loc[p]) /\ UNCHANGED <<ftable, vip>>
  /\ UNCHANGED <<live, ofile, inodes, panic>>

(* Both Files get a descriptor and copyout() reports them, or both are       *)
(* dropped, the second first if only it got none.                             *)
pipefd(p) ==
  /\ At(p, "pipefd")
  /\ LET fd0 == Least(FreeFD(p))
         fd1 == Least(FreeFD(p) \ {fd0})
     IN  \/ /\ Cardinality(FreeFD(p)) >= 2
            /\ ofile' = [ofile EXCEPT ![p][fd0] = loc[p].todo[1], ![p][fd1] = loc[p].todo[2]]
            /\ Continue(p, Nothing)
         \/ /\ Continue(p, [loc[p] EXCEPT !.todo =
                  IF Cardinality(FreeFD(p)) = 1 THEN <<@[2], @[1]>> ELSE @])
            /\ UNCHANGED ofile
  /\ UNCHANGED <<live, ftable, vip, inodes, panic>>

fork(p, q) ==
  /\ At(p, "idle") /\ q \notin live
  /\ live' = live \cup {q}
  /\ ofile' = [ofile EXCEPT ![q] = ofile[p]]
  /\ UNCHANGED <<ftable, vip, inodes, pc, loc, panic>>

(* exit() drops every File.                                                  *)
Open(p) == SelectSeq([k \in 1 .. NOFILE |-> ofile[p][k - 1]], LAMBDA v : v # 0)
exit(p) ==
  /\ At(p, "idle") /\ p # First
  /\ ofile' = [ofile EXCEPT ![p] = [fd \in FD |-> 0]]
  /\ Continue(p, [Nothing EXCEPT !.todo = Open(p), !.exits = TRUE])
  /\ UNCHANGED <<live, ftable, vip, inodes, panic>>

exited(p) ==
  /\ At(p, "exit") /\ live' = live \ {p} /\ Set(p, Nothing) /\ Goto(p, "idle")
  /\ UNCHANGED <<ofile, ftable, vip, inodes, panic>>

-----------------------------------------------------------------------------
(* File::drop, for the first of the Files to drop.                          *)

(* A file that only the caller holds is a panic.                             *)
drop(p) ==
  /\ At(p, "drop") /\ Goto(p, "dcount")
  /\ panic' = (StrongF(Head(loc[p].todo)) < 2)
  /\ UNCHANGED <<files, inodes, loc>>

(* The count is read again, still without the table's lock.                  *)
dcount(p) ==
  /\ At(p, "dcount")
  /\ Goto(p, IF StrongF(Head(loc[p].todo)) = 2 THEN "dtake" ELSE "dunwrap")
  /\ UNCHANGED <<files, inodes, loc, panic>>

(* The table gives up its reference.                                         *)
dtake(p) ==
  /\ At(p, "dtake")
  /\ ftable' = ftable \ {Head(loc[p].todo)} /\ Goto(p, "dunwrap")
  /\ UNCHANGED <<live, ofile, vip, inodes, loc, panic>>

(* Arc::try_unwrap: the last reference leaves the Inode.                     *)
dunwrap(p) ==
  /\ At(p, "dunwrap")
  /\ LET v == Head(loc[p].todo)
         l == [loc[p] EXCEPT !.todo = Tail(@)]
     IN  IF StrongF(v) = 1 /\ vip[v] # 0
         THEN Set(p, [l EXCEPT !.m = vip[v]]) /\ Goto(p, "dbegin")
         ELSE Continue(p, l)
  /\ UNCHANGED <<files, inodes, panic>>

(* It is dropped in a transaction of its own.                                *)
dbegin(p) ==
  /\ At(p, "dbegin") /\ Ops < MaxOps
  /\ Set(p, [loc[p] EXCEPT !.nested = TRUE]) /\ Goto(p, "put")
  /\ UNCHANGED <<files, inodes, panic>>

dend(p) ==
  /\ At(p, "dend") /\ Continue(p, [loc[p] EXCEPT !.nested = FALSE])
  /\ UNCHANGED <<files, inodes, panic>>

-----------------------------------------------------------------------------
(* ITable::put, for the MInode the process holds.                            *)

(* Two references are the table's and this: the inode's lock is free.        *)
put(p) ==
  /\ At(p, "put")
  /\ IF StrongI(loc[p].m) = 2
     THEN /\ panic' = (loc[p].m \in locked)
          /\ locked' = locked \cup {loc[p].m} /\ Goto(p, "tfree")
     ELSE Goto(p, "tdec") /\ UNCHANGED <<locked, panic>>
  /\ UNCHANGED <<files, itable, inum, valid, disk, linked, loc>>

(* Without the table's lock: an inode without a name is freed on disk.       *)
tfree(p) ==
  /\ At(p, "tfree") /\ Goto(p, "ttake")
  /\ IF loc[p].m \in valid /\ inum[loc[p].m] \notin linked
     THEN disk' = disk \ {inum[loc[p].m]} /\ valid' = valid \ {loc[p].m}
     ELSE UNCHANGED <<disk, valid>>
  /\ UNCHANGED <<files, itable, inum, locked, linked, loc, panic>>

(* With it again: the entry is emptied, though get() may have handed it out  *)
(* in between.                                                                *)
ttake(p) ==
  /\ At(p, "ttake")
  /\ itable' = itable \ {loc[p].m}
  /\ locked' = locked \ {loc[p].m} /\ Goto(p, "tdec")
  /\ UNCHANGED <<files, inum, valid, disk, linked, loc, panic>>

(* The reference goes.                                                       *)
tdec(p) ==
  /\ At(p, "tdec")
  /\ Set(p, [loc[p] EXCEPT !.m = 0, !.dir = FALSE]) /\ Goto(p, IF loc[p].nested THEN "dend" ELSE "oend")
  /\ UNCHANGED <<files, inodes, panic>>

-----------------------------------------------------------------------------

Step(p) ==
  \/ lookup(p) \/ lookup_fails(p) \/ ialloc(p) \/ create(p) \/ olock(p) \/ unlink(p)
  \/ alloc(p) \/ fdalloc(p) \/ end_op(p) \/ pipe2(p) \/ pipefd(p) \/ exited(p)
  \/ drop(p) \/ dcount(p) \/ dtake(p) \/ dunwrap(p) \/ dbegin(p) \/ dend(p)
  \/ put(p) \/ tfree(p) \/ ttake(p) \/ tdec(p)

Next ==
  \E p \in Proc :
    \/ Step(p)
    \/ begin_op(p) \/ pipe(p) \/ exit(p)
    \/ \E fd \in FD : dup(p, fd) \/ close(p, fd)
    \/ \E q \in Proc : fork(p, q)

Spec == Init /\ [][Next]_vars

-----------------------------------------------------------------------------
(* What an Inode relies on.                                                 *)

(***************************************************************************)
(* One copy of an inode: ITable::get returns "the in-memoroy copy" of an    *)
(* inode, and put() recycles a table entry only "if that was the last       *)
(* reference".  So an MInode somebody uses is the one the inode table has   *)
(* for its number, and its sleep lock excludes all other users.             *)
(***************************************************************************)
OneCopy ==
  /\ \A m \in MId : HandlesI(m) > 0 =>
       m \in itable \/ \E p \in Proc : loc[p].m = m /\ pc[p] = "tdec"
  /\ \A m, n \in itable : inum[m] = inum[n] => m = n

=============================================================================
