-------------------------------- MODULE Inodes --------------------------------
(***************************************************************************)
(* kernel/fs.rs: blocks, inodes, the inode table, directories and paths,   *)
(* as operators from a state of the file system to the next.                *)
(*                                                                         *)
(* A state s holds the disk (s.bits, s.blk and s.din, see Mkfs), the inode *)
(* table s.mem and s.panic, the message of the first panic or "".  Entry    *)
(* s.mem[i] is [ref, valid, d]: the number of `Inode`s that refer to it (one *)
(* less than the Arc's count; 0 for no entry), the valid flag and the copy  *)
(* of the inode.  Calls run one at a time here: the locks are not shown,    *)
(* and lock() stands for what MInode::lock does when it has the lock.       *)
(*                                                                         *)
(* AsWritten names the places that are taken to the letter where the code  *)
(* departs from its own comments: "init", "bblock", "balloc", "piece" (the  *)
(* slices of read() and write()), "write", "dirlink", "name" (dirlink()'s   *)
(* slice of the name), "skip_elem" and "fnod" (FNod::write).  With "init"   *)
(* the kernel does not boot, with "piece" it panics at the third entry of a *)
(* directory, and with "bblock" the bitmap is past the end of the disk.     *)
(***************************************************************************)
EXTENDS Mkfs

CONSTANTS
  NINODE,      \* entries of the inode table
  LongNames,   \* names longer than DIRSIZ
  AsWritten    \* places to take to the letter

NoEntry == [ref |-> 0, valid |-> FALSE, d |-> DInode]

Panic(s, why) == IF s.panic = "" THEN [s EXCEPT !.panic = why] ELSE s

(* Booting from an image.  The code asserts that the magic number is wrong. *)
init(img) ==
  [din |-> img.din, blk |-> img.blk, bits |-> img.bits,
   mem |-> [i \in 1 .. NINODES - 1 |-> NoEntry],
   panic |-> IF "init" \in AsWritten THEN "invalid file system" ELSE ""]

-----------------------------------------------------------------------------
(* Blocks.                                                                  *)

bblock(b) == (IF "bblock" \in AsWritten THEN b + BPB ELSE b \div BPB) + bmapstart

bzero(s, b) == [s EXCEPT !.blk[b] = ZeroBlock]

(* The bits balloc() looks at.  The code counts up before it looks, so it    *)
(* starts at 1 and may look at bit BPB, past the bitmap block.               *)
Late == IF "balloc" \in AsWritten THEN 1 ELSE 0
Candidates ==
  {<<g * BPB, bi>> : g \in 0 .. (FSSIZE - 1) \div BPB, bi \in Late .. BPB - 1 + Late}
First(clear) == CHOOSE c \in clear : \A d \in clear : c[1] + c[2] <= d[1] + d[2]

(* The bit c is set and its block zeroed.                                   *)
Marked(s, c) ==
  IF c[2] = BPB THEN [s |-> Panic(s, "unwrap"), b |-> 0]
  ELSE [s |-> bzero([s EXCEPT !.bits = @ \cup {<<bblock(c[1]), c[2]>>}], c[1] + c[2]),
        b |-> c[1] + c[2]]

(* Allocate a zeroed block: the new state and the block's number.           *)
AllocIn(s, clear) ==
  IF clear = {} THEN [s |-> Panic(s, "balloc: out of blocks"), b |-> 0]
  ELSE Marked(s, First(clear))
balloc(s) ==
  AllocIn(s, {c \in Candidates :
                c[1] + c[2] < FSSIZE + Late /\ <<bblock(c[1]), c[2]>> \notin s.bits})

(* The contents of a free block are forgotten: balloc() zeroes them.         *)
bfree(s, b) ==
  LET bit == <<bblock(b), b % BPB>> IN
  IF bit \notin s.bits THEN Panic(s, "freeing free block")
  ELSE [s EXCEPT !.bits = @ \ {bit}, !.blk[b] = ZeroBlock]

-----------------------------------------------------------------------------
(* Inodes.                                                                  *)

update(s, i) == [s EXCEPT !.din[i] = s.mem[i].d]

Addrs(s, i) == s.mem[i].d.addrs
Indirect(s, i) == s.blk[Addrs(s, i)[NDIRECT]]

(* The blocks trunc() frees, in its order.                                  *)
Held(s, i) ==
  LET direct == [k \in 1 .. NDIRECT |-> Addrs(s, i)[k - 1]]
      indirect == IF Addrs(s, i)[NDIRECT] = 0 THEN <<>>
                  ELSE [k \in 1 .. NINDIRECT |-> Indirect(s, i)[k - 1][1]]
  IN  SelectSeq(direct \o indirect \o <<Addrs(s, i)[NDIRECT]>>, LAMBDA b : b > 0)

trunc(s, i) ==
  LET freed == FoldLeft(bfree, s, Held(s, i))
  IN  update([freed EXCEPT !.mem[i].d.addrs = DInode.addrs, !.mem[i].d.size = 0], i)

(* Slot k of the inode's addresses, and entry e of its indirect block ind,  *)
(* filled if they are empty.                                                *)
InSlot(r, i, k) == [r EXCEPT !.s.mem[i].d.addrs[k] = r.b]
Slot(s, i, k) ==
  IF Addrs(s, i)[k] # 0 THEN [s |-> s, b |-> Addrs(s, i)[k]] ELSE InSlot(balloc(s), i, k)
InEntry(r, b, e) == [r EXCEPT !.s.blk[b][e] = <<r.b, "">>]
Entry(ind, e) ==
  IF ind.s.blk[ind.b][e][1] # 0 THEN [ind EXCEPT !.b = ind.s.blk[ind.b][e][1]]
  ELSE InEntry(balloc(ind.s), ind.b, e)

(* The bn-th block of the inode, allocated if there is none.                *)
bmap(s, i, bn) ==
  IF bn < NDIRECT THEN Slot(s, i, bn) ELSE Entry(Slot(s, i, NDIRECT), bn - NDIRECT)

(* The pieces of read() and write(): the blocks the n units at off lie in,  *)
(* and of block bn the part from .. to - 1 that is copied.  It should be the *)
(* m units at `from`; the code copies the slice from .. m.                   *)
Blocks(off, n) ==
  [k \in 1 .. IF n = 0 THEN 0 ELSE (off + n - 1) \div BSIZE - off \div BSIZE + 1
     |-> off \div BSIZE + k - 1]
Piece(off, n, bn) ==
  LET lo == Max({off, bn * BSIZE})
      m == Min({off + n, (bn + 1) * BSIZE}) - lo
      from == lo % BSIZE
  IN  [at |-> lo - off, from |-> from, m |-> m,
       to |-> IF "piece" \in AsWritten THEN m ELSE from + m]
Sliced(s, p) == IF p.to < p.from THEN Panic(s, "slice") ELSE s

(* Read n units at off; `bad` is the block whose copyout() fails, if any.    *)
(* What is copied out does not matter here, only how much.                   *)
Copied(r, b, p, ok) == [s |-> Sliced(b.s, p), ok |-> ok, n |-> r.n + p.m]
ReadBlocks(s, i, off, n, bad) ==
  FoldLeft(LAMBDA r, bn : IF ~r.ok THEN r
                          ELSE Copied(r, bmap(r.s, i, bn), Piece(off, n, bn), bn # bad),
           [s |-> s, ok |-> TRUE, n |-> 0], Blocks(off, n))
read(s, i, off, n, bad) ==
  IF off > s.mem[i].d.size THEN [s |-> s, ok |-> FALSE, n |-> 0]
  ELSE ReadBlocks(s, i, off, Min({n, s.mem[i].d.size - off}), bad)

(* The loop of write(): src at off, block by block, up to block `bad`, whose *)
(* copyin() fails; its block is allocated all the same.                      *)
Stored(r, b, p, src, ok) ==
  IF ~ok THEN [r EXCEPT !.s = b.s, !.ok = FALSE]
  ELSE [r EXCEPT !.tot = @ + p.m,
                 !.s = [Sliced(b.s, p) EXCEPT !.blk[b.b] =
                          [k \in DOMAIN @ |-> IF k \in p.from .. p.to - 1
                                              THEN src[p.at + k - p.from + 1] ELSE @[k]]]]
WriteBlocks(s, i, off, src, bad) ==
  FoldLeft(LAMBDA r, bn : IF ~r.ok THEN r
                          ELSE Stored(r, bmap(r.s, i, bn), Piece(off, Len(src), bn), src, bn # bad),
           [s |-> s, ok |-> TRUE, tot |-> 0], Blocks(off, Len(src)))

(* The end of write().  As the comments have it, the inode is written back  *)
(* whatever happened and the result is the number of units written; the     *)
(* code returns an error at once and leaves the inode on the disk as it is. *)
WrittenBack(r, i, off) ==
  IF ~r.ok /\ "write" \in AsWritten THEN [r EXCEPT !.tot = 0]
  ELSE [r EXCEPT !.s = update([@ EXCEPT !.mem[i].d.size = Max({@, off + r.tot})], i)]

write(s, i, off, src, bad) ==
  IF off > s.mem[i].d.size \/ off + Len(src) > MAXFILE * BSIZE
  THEN [s |-> s, ok |-> FALSE, tot |-> 0]
  ELSE WrittenBack(WriteBlocks(s, i, off, src, bad), i, off)

-----------------------------------------------------------------------------
(* The inode table.                                                         *)

get(s, i) ==
  IF s.mem[i].ref > 0 \/ Cardinality({j \in DOMAIN s.mem : s.mem[j].ref > 0}) < NINODE
  THEN [s EXCEPT !.mem[i].ref = @ + 1]
  ELSE Panic(s, "iget: no inodes")

lock(s, i) ==
  IF s.mem[i].valid THEN s
  ELSE IF s.din[i].itype = "None" THEN Panic(s, "ilock: no type")
  ELSE [s EXCEPT !.mem[i].valid = TRUE, !.mem[i].d = s.din[i]]

dup(s, i) == [s EXCEPT !.mem[i].ref = @ + 1]

(* Drop a reference; the last one frees an inode without links.             *)
put(s, i) ==
  IF s.mem[i].ref > 1 THEN [s EXCEPT !.mem[i].ref = @ - 1]
  ELSE [IF s.mem[i].valid /\ s.mem[i].d.nlink = 0
        THEN update([trunc(s, i) EXCEPT !.mem[i].d.itype = "None"], i) ELSE s
        EXCEPT !.mem[i] = NoEntry]

(* A free inode made allocated and referenced; 0 if there is none.          *)
ialloc_mem(s, itype) ==
  LET clear == {i \in DOMAIN s.din : s.din[i].itype = "None"}
      i == CHOOSE i \in clear : \A j \in clear : i <= j
  IN  IF clear = {} THEN [s |-> s, i |-> 0]
      ELSE [s |-> get([s EXCEPT !.din[i] = [DInode EXCEPT !.itype = itype]], i), i |-> i]

-----------------------------------------------------------------------------
(* Directories: an entry is one unit.                                       *)

(* Entry k, as read() gives it; an empty slice leaves the entry before it.    *)
(* Directories have all their blocks, so that reading them changes nothing.  *)
Dirent(s, i, k) ==
  LET p == Piece(k, 1, k \div BSIZE)
  IN  s.blk[bmap(s, i, k \div BSIZE).b][IF p.to = p.from THEN p.from - 1 ELSE p.from]

(* The entries from the from-th on, and the first of some, or the size.    *)
Offsets(s, i, from) == from .. s.mem[i].d.size - 1
Scan(s, i, hits) == Min(hits \cup {s.mem[i].d.size})
IsFree(s, i, k) == Dirent(s, i, k)[1] = 0

(* The entry's offset and inode number (0: not found).  The callers get()   *)
(* the inode when the code keeps it.                                         *)
At(s, i, k) ==
  [s |-> FoldLeft(LAMBDA t, l : Sliced(t, Piece(l - 1, 1, (l - 1) \div BSIZE)), s,
                  [l \in 1 .. Min({k + 1, s.mem[i].d.size}) |-> l]),
   off |-> k, i |-> IF k = s.mem[i].d.size THEN 0 ELSE Dirent(s, i, k)[1]]
dirlookup(s, i, name) ==
  At(s, i, Scan(s, i, {k \in Offsets(s, i, 0) :
                         ~IsFree(s, i, k) /\ Dirent(s, i, k)[2] = name}))

(* A new entry: in the first empty one, or at the end.  The code writes it  *)
(* one further, and panics on a name shorter than DIRSIZ.                    *)
EntryWritten(s, w) == [s |-> IF w.ok THEN w.s ELSE Panic(s, "dirlink"), ok |-> TRUE]
FirstFree(s, i) == Scan(s, i, {k \in Offsets(s, i, 0) : IsFree(s, i, k)})
Further(s, i, k) == IF "dirlink" \in AsWritten /\ k < s.mem[i].d.size THEN k + 1 ELSE k
dirlink(s, i, name, inum) ==
  IF dirlookup(s, i, name).i # 0 \/ dirlookup(s, i, name).s.panic # ""
  THEN [s |-> dirlookup(s, i, name).s, ok |-> FALSE]
  ELSE IF "name" \in AsWritten THEN [s |-> Panic(s, "slice"), ok |-> FALSE]
  ELSE EntryWritten(s, write(s, i, Further(s, i, FirstFree(s, i)), << <<inum, name>> >>, -1))

(* Only "." and ".." are left.                                              *)
is_dir_empty(s, i) == \A k \in Offsets(s, i, 2) : IsFree(s, i, k)

-----------------------------------------------------------------------------
(* Paths: sequences of names and "/"s.                                       *)

Trimmed(path) ==
  LET named == {k \in DOMAIN path : path[k] # "/"}
  IN  IF named = {} THEN <<>>
      ELSE SubSeq(path, CHOOSE k \in named : \A l \in named : k <= l,
                        CHOOSE k \in named : \A l \in named : k >= l)

(* The first element and the path after it (<<>>: none).  A name <<>> is    *)
(* the result (None, None).  The code trims a path only to split it: an     *)
(* unsplit one keeps its slashes.                                            *)
Split(path, t) ==
  IF \E k \in DOMAIN t : t[k] = "/" THEN [name |-> <<t[1]>>, rest |-> SubSeq(t, 3, Len(t))]
  ELSE [name |-> IF "skip_elem" \in AsWritten THEN path ELSE t, rest |-> <<>>]
IfShort(e) ==
  IF e.name # <<>> /\ e.name[1] \in LongNames THEN [name |-> <<>>, rest |-> <<>>] ELSE e
skip_elem(path) == IfShort(Split(path, Trimmed(path)))

(* The walk from inode i, referenced: the inode found, referenced, or 0, and *)
(* the last name.                                                            *)
NotFound(s) == [s |-> s, i |-> 0, name |-> ""]
RECURSIVE Walk(_, _, _, _), From(_, _, _, _)
Walk(s, i, path, parent) == From(lock(s, i), i, skip_elem(path), parent)

(* At inode i, locked, with the element e to look up.                        *)
From(s, i, e, parent) ==
  LET name == IF Len(e.name) = 1 THEN e.name[1] ELSE "/"
      Step(t, n) ==
        IF n = 0 \/ t.panic # "" THEN NotFound(put(t, i))
        ELSE IF e.rest = <<>> THEN [s |-> put(get(t, n), i), i |-> n, name |-> name]
        ELSE Walk(put(get(t, n), i), n, e.rest, parent)
  IN  IF s.panic # "" THEN NotFound(s)
      ELSE IF s.mem[i].d.itype # "Dir" \/ e.name = <<>> THEN NotFound(put(s, i))
      ELSE IF parent /\ e.rest = <<>> THEN [s |-> s, i |-> i, name |-> name]
      ELSE Step(dirlookup(s, i, name).s, dirlookup(s, i, name).i)

(* cwd is 0 while the process has no current directory.                      *)
namex(s, cwd, path, parent) ==
  IF path # <<>> /\ path[1] = "/" THEN Walk(get(s, ROOTINO), ROOTINO, path, parent)
  ELSE IF cwd = 0 THEN NotFound(Panic(s, "no cwd"))
  ELSE Walk(dup(s, cwd), cwd, path, parent)
namei(s, cwd, path) == namex(s, cwd, path, FALSE)
nameiparent(s, cwd, path) == namex(s, cwd, path, TRUE)

-----------------------------------------------------------------------------
(* Changes to the tree; each gives up with the references it took dropped.  *)

SetLinks(s, i, d) == update([s EXCEPT !.mem[i].d.nlink = @ + d], i)

(* The results of link() and unlink(); w and p are walks, e is an entry.    *)
Gave(s, ok) == [s |-> s, ok |-> ok]

LinkEntry(e, i, dp) ==
  IF e.ok THEN Gave(put(put(SetLinks(e.s, i, 1), dp), i), TRUE)
  ELSE Gave(put(put(e.s, dp), i), FALSE)
LinkIn(p, i) ==
  IF p.i = 0 THEN Gave(put(p.s, i), FALSE)
  ELSE LinkEntry(dirlink(lock(p.s, p.i), p.i, p.name, i), i, p.i)
LinkTo(s, i, cwd, new) ==
  IF s.mem[i].d.itype = "Dir" THEN Gave(put(s, i), FALSE)
  ELSE LinkIn(nameiparent(s, cwd, new), i)
LinkFrom(w, cwd, new) ==
  IF w.i = 0 THEN Gave(w.s, FALSE) ELSE LinkTo(lock(w.s, w.i), w.i, cwd, new)
link(s, cwd, old, new) == LinkFrom(namei(s, cwd, old), cwd, new)

Unnamed(s, dp, i) ==
  Gave(put(put(SetLinks(IF s.mem[i].d.itype = "Dir" THEN SetLinks(s, dp, -1) ELSE s, i, -1), i), dp),
       TRUE)
UnlinkEntry(s, dp, e) ==
  IF s.mem[e.i].d.nlink < 1 THEN Gave(Panic(s, "unlink: nlink < 1"), FALSE)
  ELSE IF s.mem[e.i].d.itype = "Dir" /\ ~is_dir_empty(s, e.i)
       THEN Gave(put(put(s, e.i), dp), FALSE)
  ELSE Unnamed(write(s, dp, e.off, <<Zero>>, -1).s, dp, e.i)
UnlinkName(s, dp, name, e) ==
  IF name \in {".", ".."} \/ e.i = 0 THEN Gave(put(s, dp), FALSE)
  ELSE IF e.s.panic # "" THEN Gave(e.s, FALSE)
  ELSE UnlinkEntry(lock(get(s, e.i), e.i), dp, e)
UnlinkIn(s, dp, name) == UnlinkName(s, dp, name, dirlookup(s, dp, name))
UnlinkAt(w) == IF w.i = 0 THEN Gave(w.s, FALSE) ELSE UnlinkIn(lock(w.s, w.i), w.i, w.name)
unlink(s, cwd, path) == UnlinkAt(nameiparent(s, cwd, path))

(* Major::from_u16: 0 is Null, 1 the console, 2 stands for Invalid.          *)
from_u16(bits) == IF bits \in {0, 1} THEN bits ELSE 2

(* create() where the name is taken, by inode i.                            *)
Opened(s, dp, i, itype) ==
  IF s.panic = "" /\ itype = "File" /\ s.mem[i].d.itype \in {"File", "Device"}
  THEN [s |-> put(s, dp), i |-> i]
  ELSE [s |-> put(put(s, i), dp), i |-> 0]

(* create() with a new inode, a.i.                                           *)
WithDots(s, i, dp) == dirlink(dirlink(s, i, ".", i).s, i, "..", dp).s
Entered(s, dp, name, i, itype) ==
  IF itype = "Dir" THEN SetLinks(dirlink(WithDots(s, i, dp), dp, name, i).s, dp, 1)
  ELSE dirlink(s, dp, name, i).s
Typed(s, i, major) == update([s EXCEPT !.mem[i].d.major = from_u16(major)], i)
CreateNew(a, dp, name, itype, major) ==
  IF a.i = 0 THEN [s |-> put(a.s, dp), i |-> 0]
  ELSE [s |-> put(SetLinks(Entered(Typed(lock(a.s, a.i), a.i, major), dp, name, a.i, itype), a.i, 1), dp),
        i |-> a.i]

(* The inode at path, made if need be and referenced; 0 if it cannot be.    *)
CreateIn(e, dp, name, itype, major) ==
  IF e.i # 0 THEN Opened(lock(get(e.s, e.i), e.i), dp, e.i, itype)
  ELSE CreateNew(ialloc_mem(e.s, itype), dp, name, itype, major)
CreateLocked(s, dp, name, itype, major) == CreateIn(dirlookup(s, dp, name), dp, name, itype, major)
CreateAt(w, itype, major) ==
  IF w.i = 0 THEN [s |-> w.s, i |-> 0] ELSE CreateLocked(lock(w.s, w.i), w.i, w.name, itype, major)
create(s, cwd, path, itype, major) == CreateAt(nameiparent(s, cwd, path), itype, major)
=============================================================================
