--------------------------------- MODULE Mkfs ---------------------------------
(***************************************************************************)
(* mkfs/main.rs: the layout of the disk and the image the kernel boots     *)
(* from.                                                                   *)
(*                                                                         *)
(* A block holds BSIZE units.  A unit is a pair of a number and a name: a   *)
(* directory entry (inum, name), or with the name "" a datum of a file or   *)
(* a block number of an indirect block.  The inode blocks are the function *)
(* din from inode numbers to inodes, the bitmap blocks the set bits of the *)
(* pairs (bitmap block, bit) that are set.                                  *)
(***************************************************************************)
EXTENDS Integers, Sequences, FiniteSets, SequencesExt

CONSTANTS
  BSIZE,       \* units in a block
  BPB,         \* bits in a bitmap block
  IPB,         \* inodes in an inode block
  NDIRECT,     \* blocks an inode names itself
  FSSIZE,      \* blocks on the disk
  LOGSIZE,     \* of which for the log
  NINODES,     \* inode numbers are below this
  Images       \* the lists of files, [name, data], to make images of

NINDIRECT == BSIZE
MAXFILE == NDIRECT + NINDIRECT
ROOTINO == 1

NBITMAP == FSSIZE \div BPB + 1
NINODEBLOCKS == NINODES \div IPB + 1
NMETA == 2 + LOGSIZE + NINODEBLOCKS + NBITMAP
bmapstart == 2 + LOGSIZE + NINODEBLOCKS

Zero == <<0, "">>
ZeroBlock == [k \in 0 .. BSIZE - 1 |-> Zero]
DInode ==
  [itype |-> "None", major |-> 0, nlink |-> 0, size |-> 0,
   addrs |-> [k \in 0 .. NDIRECT |-> 0]]

-----------------------------------------------------------------------------

FsImg ==
  [din |-> [i \in 1 .. NINODES - 1 |-> DInode],
   blk |-> [b \in 0 .. FSSIZE |-> ZeroBlock],
   bits |-> {}, freeinode |-> 1, freeblock |-> NMETA]

(* The new inode has the number img.freeinode.                              *)
ialloc(img, itype) ==
  [img EXCEPT !.din[img.freeinode] = [DInode EXCEPT !.itype = itype, !.nlink = 1],
              !.freeinode = @ + 1]

(* One unit at the end of a file, with the blocks it needs.                 *)
AppendUnit(img, inum, u) ==
  LET off == img.din[inum].size
      fbn == off \div BSIZE
      k == IF fbn < NDIRECT THEN fbn ELSE NDIRECT
      isnew == img.din[inum].addrs[k] = 0
      a == IF isnew THEN img.freeblock ELSE img.din[inum].addrs[k]
      img1 == [img EXCEPT !.din[inum].addrs[k] = a,
                          !.freeblock = IF isnew THEN @ + 1 ELSE @]
      e == fbn - NDIRECT
      x == IF e < 0 THEN a
           ELSE IF img1.blk[a][e][1] = 0 THEN img1.freeblock ELSE img1.blk[a][e][1]
      img2 == IF e < 0 \/ img1.blk[a][e][1] # 0 THEN img1
              ELSE [img1 EXCEPT !.blk[a][e] = <<x, "">>, !.freeblock = @ + 1]
  IN  [img2 EXCEPT !.blk[x][off % BSIZE] = u, !.din[inum].size = off + 1]

iappend(img, inum, data) ==
  FoldLeft(LAMBDA m, u : AppendUnit(m, inum, u), img, data)

(* The blocks below `used` are marked, in the first bitmap block.           *)
balloc_image(img, used) == [img EXCEPT !.bits = {<<bmapstart, i>> : i \in 0 .. used - 1}]

(* A file is read a block at a time and written in whole blocks.            *)
Padded(data) ==
  data \o [k \in 1 .. (-Len(data)) % BSIZE |-> Zero]

AddFile(img, f) ==
  LET inum == img.freeinode
      img1 == iappend(ialloc(img, "File"), ROOTINO, << <<inum, f.name>> >>)
  IN  iappend(img1, inum, Padded(f.data))

(* The image: the root directory, the files, and the size of the root       *)
(* directory rounded up so that the kernel finds empty entries in it.        *)
mkfs(files) ==
  LET root == iappend(ialloc(FsImg, "Dir"), ROOTINO,
                      << <<ROOTINO, ".">>, <<ROOTINO, "..">> >>)
      img == FoldLeft(AddFile, root, files)
      full == [img EXCEPT !.din[ROOTINO].size = (@ \div BSIZE + 1) * BSIZE]
  IN  balloc_image(full, full.freeblock)
=============================================================================
