------------------------------ MODULE FileSystem ------------------------------
(***************************************************************************)
(* The file system calls of kernel/syscall.rs over Inodes, with the files  *)
(* of kernel/file.rs, made by one process one after the other.  A call is  *)
(* one step: it runs in a transaction of the log, and a panic leaves the   *)
(* disk as the last transaction did.  Files shows the calls of several     *)
(* processes interleaved.                                                   *)
(***************************************************************************)
EXTENDS Inodes

CONSTANTS
  NOFILE,      \* descriptors of a process
  MAXOPBLOCKS, \* blocks a transaction may write
  Opens,       \* what the process gives to open(): pairs of a path and a mode,
               \* itself a pair of an access mode and a set of CREATE and TRUNC
  Links,       \* to link(): pairs of paths
  Unlinks,     \* to unlink(): paths
  Mkdirs,      \* to mkdir(): paths
  Mknods,      \* to mknod(): pairs of a path and a major number
  Chdirs,      \* to chdir(): paths
  Counts,      \* to read(): how much
  Data,        \* to write(): what
  Bads         \* blocks of a file at which copying may fail, -1 for none

VARIABLES
  fs,          \* the file system, a state of Inodes
  cwd,         \* inode of the current directory, 0 for none
  ofile        \* ofile[fd]: a file, or Closed

vars == <<fs, cwd, ofile>>

Closed == [i |-> 0, off |-> 0, r |-> FALSE, w |-> FALSE]

(* The modes of open(): OMode::from_usize and what it is asked for.          *)
is_read(o) == o[1] # "WRONLY"
is_write(o) == o[1] # "RDONLY"
is_create(o) == "CREATE" \in o[2]
is_trunc(o) == "TRUNC" \in o[2]
is_rdonly(o) == is_read(o) /\ ~is_write(o)

(* The end of a call: the new state, unless the kernel panicked in it.      *)
Done(s, dir, files) ==
  IF s.panic # ""
  THEN fs' = [fs EXCEPT !.panic = s.panic] /\ UNCHANGED <<cwd, ofile>>
  ELSE fs' = s /\ cwd' = dir /\ ofile' = files

(* user_init() looks up "/", which names no entry: the first process has no *)
(* current directory until it calls chdir().                                 *)
Init ==
  \E files \in Images :
    /\ fs = init(mkfs(files))
    /\ cwd = namei(fs, 0, <<"/">>).i
    /\ ofile = [fd \in 0 .. NOFILE - 1 |-> Closed]

Running == fs.panic = ""
Used(fd) == ofile[fd] # Closed

-----------------------------------------------------------------------------

(* The rest of open(), with inode i locked.  FTABLE.alloc and fdalloc: the   *)
(* file is closed again if no descriptor is free.                            *)
Refused(d, o) ==
  \/ ~is_create(o) /\ d.itype = "Dir" /\ ~is_rdonly(o)
  \/ d.itype = "Device" /\ d.major # 1
FreeFds == {fd \in DOMAIN ofile : ~Used(fd)}
WithFile(i, o) ==
  [ofile EXCEPT ![Min(FreeFds)] = [i |-> i, off |-> 0, r |-> is_read(o), w |-> is_write(o)]]
OpenLocked(s, i, o) ==
  IF s.panic # "" THEN Done(s, cwd, ofile)
  ELSE IF Refused(s.mem[i].d, o) THEN Done(put(s, i), cwd, ofile)
  ELSE \E t \in {IF is_trunc(o) /\ s.mem[i].d.itype = "File" THEN trunc(s, i) ELSE s} :
         IF FreeFds = {} THEN Done(put(t, i), cwd, ofile) ELSE Done(t, cwd, WithFile(i, o))

open(path, o) ==
  /\ Running
  /\ \E c \in {IF is_create(o) THEN create(fs, cwd, path, "File", 0) ELSE namei(fs, cwd, path)} :
       IF c.i = 0 \/ c.s.panic # "" THEN Done(c.s, cwd, ofile)
       ELSE OpenLocked(lock(c.s, c.i), c.i, o)

close(fd) ==
  /\ Running /\ Used(fd)
  /\ Done(put(fs, ofile[fd].i), cwd, [ofile EXCEPT ![fd] = Closed])

(* A device reads and writes nothing of the file system's.                   *)
IsDevice(fd) == fs.mem[ofile[fd].i].d.itype = "Device"

readcall(fd, n, bad) ==
  /\ Running /\ Used(fd) /\ ofile[fd].r /\ ~IsDevice(fd)
  /\ \E r \in {read(fs, ofile[fd].i, ofile[fd].off, n, bad)} :
       Done(r.s, cwd, IF r.ok THEN [ofile EXCEPT ![fd].off = @ + r.n] ELSE ofile)

(* FNod::write: a transaction for every `max` units, until one falls short.  *)
(* The code passes the start of src to every one of them.                    *)
max == ((MAXOPBLOCKS - 1 - 1 - 2) \div 2) * BSIZE

(* What the transaction after k units writes.                                *)
Chunk(src, k) ==
  LET n1 == IF Len(src) - k > max THEN max ELSE Len(src) - k
  IN  IF "fnod" \in AsWritten THEN SubSeq(src, 1, n1) ELSE SubSeq(src, k + 1, k + n1)

RECURSIVE WriteFrom(_, _, _, _, _), After(_, _, _, _, _, _)
WriteFrom(s, f, src, k, bad) ==
  IF k = Len(src) THEN [s |-> s, f |-> f]
  ELSE After(write(s, f.i, f.off, Chunk(src, k), bad), f, src, k, Len(Chunk(src, k)), bad)
After(r, f, src, k, n1, bad) ==
  LET g == [f EXCEPT !.off = @ + r.tot]
  IN  IF r.tot # n1 \/ r.s.panic # "" THEN [s |-> r.s, f |-> g]
      ELSE WriteFrom(r.s, g, src, k + r.tot, bad)

writecall(fd, src, bad) ==
  /\ Running /\ Used(fd) /\ ofile[fd].w /\ ~IsDevice(fd)
  /\ \E r \in {WriteFrom(lock(fs, ofile[fd].i), ofile[fd], src, 0, bad)} :
       Done(r.s, cwd, [ofile EXCEPT ![fd] = r.f])

linkcall(old, new) == Running /\ Done(link(fs, cwd, old, new).s, cwd, ofile)

unlinkcall(path) == Running /\ Done(unlink(fs, cwd, path).s, cwd, ofile)

(* mkdir() and mknod() drop the inode that create() returns.                *)
Made(c) == IF c.i = 0 \/ c.s.panic # "" THEN c.s ELSE put(c.s, c.i)
mkdir(path) == Running /\ Done(Made(create(fs, cwd, path, "Dir", 0)), cwd, ofile)
mknod(path, major) == Running /\ Done(Made(create(fs, cwd, path, "Device", major)), cwd, ofile)

ChdirTo(s, i) ==
  IF s.panic # "" THEN Done(s, cwd, ofile)
  ELSE IF s.mem[i].d.itype # "Dir" THEN Done(put(s, i), cwd, ofile)
  ELSE Done(IF cwd = 0 THEN s ELSE put(s, cwd), i, ofile)
chdir(path) ==
  /\ Running
  /\ \E w \in {namei(fs, cwd, path)} :
       IF w.i = 0 \/ w.s.panic # "" THEN Done(w.s, cwd, ofile) ELSE ChdirTo(lock(w.s, w.i), w.i)

Next ==
  \/ \E a \in Opens : open(a[1], a[2])
  \/ \E a \in Links : linkcall(a[1], a[2])
  \/ \E a \in Mknods : mknod(a[1], a[2])
  \/ \E path \in Unlinks : unlinkcall(path)
  \/ \E path \in Mkdirs : mkdir(path)
  \/ \E path \in Chdirs : chdir(path)
  \/ \E fd \in DOMAIN ofile :
       \/ close(fd)
       \/ \E n \in Counts, bad \in Bads : readcall(fd, n, bad)
       \/ \E src \in Data, bad \in Bads : writecall(fd, src, bad)

Spec == Init /\ [][Next]_vars

-----------------------------------------------------------------------------
(* What the calls keep on the disk, which is what a reboot finds.           *)

(* The places that name a block: the addresses of an inode, 0 .. NDIRECT,    *)
(* and the entries of its indirect block after them.                         *)
BlockAt(i, k) ==
  IF k <= NDIRECT THEN fs.din[i].addrs[k]
  ELSE IF fs.din[i].addrs[NDIRECT] = 0 THEN 0
  ELSE fs.blk[fs.din[i].addrs[NDIRECT]][k - NDIRECT - 1][1]
Places == {p \in (DOMAIN fs.din) \X (0 .. MAXFILE) : BlockAt(p[1], p[2]) # 0}

(***************************************************************************)
(* No block is lost and none is used twice: the bitmap marks the blocks    *)
(* below the data and those some inode names, and no two places name the   *)
(* same one.  IData::write is to "write the inode back to disk even if the  *)
(* size didn't change", because it "might have called bmap() and added a   *)
(* new block".                                                             *)
(***************************************************************************)
BlocksOwned ==
  /\ \A p, q \in Places : BlockAt(p[1], p[2]) = BlockAt(q[1], q[2]) => p = q
  /\ fs.bits = {<<bblock(b), b % BPB>> :
                   b \in (0 .. NMETA - 1) \cup {BlockAt(p[1], p[2]) : p \in Places}}
=============================================================================
