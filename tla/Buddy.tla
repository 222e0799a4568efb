-------------------------------- MODULE Buddy --------------------------------
(***************************************************************************)
(* The kernel's memory allocator: kernel/buddy.rs over the lists of        *)
(* kernel/list.rs, behind the lock of kernel/kalloc.rs, which makes each   *)
(* call one step.                                                          *)
(*                                                                         *)
(* Addresses count from `base`.  The bit arrays are sets of the blocks     *)
(* whose bit is set; a free list, linked through the free blocks, is the    *)
(* sequence of the addresses on it, from the head.  The loops of alloc()   *)
(* and dealloc() climb the sizes one by one, and each turn touches its own *)
(* size only: they are written as what they do at every size.               *)
(***************************************************************************)
EXTENDS Naturals, Sequences, FiniteSets, SequencesExt

CONSTANTS
  LEAF_SIZE,   \* size of the smallest block
  MAX_ALIGN,   \* base and end are multiples of it
  Ends,        \* the ends of memory to boot with
  Metas,       \* the sizes the allocator's own arrays may take
  Layouts      \* the sizes callers ask for

ASSUME ConstantsAssumption ==
  /\ LEAF_SIZE \in Nat \ {0} /\ MAX_ALIGN \in Nat \ {0}
  /\ Ends \subseteq Nat /\ Metas \subseteq Nat \ {0} /\ Layouts \subseteq Nat

VARIABLES
  meta,        \* end of the allocator's own arrays, rounded up
  end,         \* end of the memory
  nsize,       \* number of sizes
  free,        \* free[k]: the free list of size k
  alloc,       \* alloc[k], split[k]: blocks of size k with that bit set
  split,
  held,        \* what callers own: the size asked for, by address
  panic        \* has the kernel panicked?

vars == <<meta, end, nsize, free, alloc, split, held, panic>>

-----------------------------------------------------------------------------
(* The arithmetic of sizes and blocks.                                     *)

round_up(n, sz) == (((n - 1) \div sz) + 1) * sz
round_down(n, sz) == (n \div sz) * sz

log2[n \in Nat] == IF n > 1 THEN log2[n \div 2] + 1 ELSE 0

next_power_of_two[n \in Nat] ==
  IF n <= 1 THEN 1 ELSE 2 * next_power_of_two[(n + 1) \div 2]

trailing_zeros(n) == IF n = 0 THEN 64 ELSE CHOOSE k \in 0 .. n :
                                              n % 2^k = 0 /\ n % 2^(k+1) # 0

max_size == nsize - 1
blk_size(k) == 2^k * LEAF_SIZE
blk_index(k, p) == p \div blk_size(k)
addr(k, bi) == bi * blk_size(k)
blk_index_next(k, p) ==
  blk_index(k, p) + (IF p % blk_size(k) # 0 THEN 1 ELSE 0)
buddy(bi) == IF bi % 2 = 0 THEN bi + 1 ELSE bi - 1

(* The size of block for a layout of n bytes.                              *)
firstk(n) == trailing_zeros(next_power_of_two[n] \div LEAF_SIZE)

(* The bit arrays; a bit beyond the array reads as clear.                  *)
bit_set(bits, i, on) == IF on THEN bits \cup {i} ELSE bits \ {i}
bit_isset(bits, i) == i \in bits

(* List: pop takes the head, push puts there, remove unlinks wherever.     *)
push(list, a) == <<a>> \o list
remove(list, a) == SelectSeq(list, LAMBDA b : b # a)

-----------------------------------------------------------------------------
(* init(): number of sizes, what is allocated from the start, free lists.  *)

(* The nsize that init() computes for memory that ends at e.               *)
NSize(e) ==
  LET n == log2[e \div LEAF_SIZE] + 1
  IN IF e > blk_size(n - 1) THEN n + 1 ELSE n

(* Blocks of size k that mark(start, stop) marks.                          *)
mark(k, start, stop) == blk_index(k, start) .. blk_index_next(k, stop) - 1

(* Everything marked: the arrays in front, what is missing at the end.     *)
Marked(k, m, e, top) == mark(k, 0, m) \cup mark(k, e, blk_size(top))

(* initfree_pair(): the block of the pair with bi to put on the list.      *)
initfree_pair(marked, k, bi) ==
  IF bit_isset(marked, bi) = bit_isset(marked, buddy(bi)) THEN <<>>
  ELSE IF bit_isset(marked, bi) THEN <<addr(k, buddy(bi))>> ELSE <<addr(k, bi)>>

(* initfree(): the list of size k; the largest size is skipped.            *)
initfree(k, m, e, top) ==
  LET marked == Marked(k, m, e, top)
      left   == blk_index_next(k, m)
      right  == blk_index(k, e)
  IN IF k = top THEN <<>>
     ELSE (IF left < right THEN initfree_pair(marked, k, right) ELSE <<>>)
          \o initfree_pair(marked, k, left)

(* What the free lists hold, against what init() expects them to hold.     *)
FreeIsAllTheRest(lists, m, e, top) ==
  MapThenSumSet(LAMBDA k : Len(lists[k]) * blk_size(k), 0 .. top) = e - m

Init ==
  \E e \in Ends, arrays \in Metas :
    LET m     == round_up(arrays, LEAF_SIZE)
        stop  == round_down(e, MAX_ALIGN)
        top   == NSize(stop) - 1
        lists == [k \in 0 .. top |-> initfree(k, m, stop, top)]
    IN /\ m < stop
       /\ meta = m /\ end = stop /\ nsize = top + 1
       /\ free = lists
       /\ alloc = [k \in 0 .. top |-> Marked(k, m, stop, top)]
       /\ split = [k \in 0 .. top |->
                    IF k = 0 THEN {} ELSE Marked(k, m, stop, top)]
       /\ held = <<>>
       /\ panic = ~ FreeIsAllTheRest(lists, m, stop, top)

-----------------------------------------------------------------------------
(* alloc() and dealloc().                                                  *)

(* Take block p of size k off its list; split it down to size fk, marking  *)
(* one half allocated and putting the other on the list at every size.     *)
Split(fk, k, p) ==
  /\ alloc' = [j \in DOMAIN alloc |->
                IF j \in fk .. k
                THEN bit_set(alloc[j], blk_index(j, p), TRUE) ELSE alloc[j]]
  /\ split' = [j \in DOMAIN split |->
                IF j \in fk + 1 .. k
                THEN bit_set(split[j], blk_index(j, p), TRUE) ELSE split[j]]
  /\ free' = [j \in DOMAIN free |->
                IF j = k THEN Tail(free[k])
                ELSE IF j \in fk .. k - 1 THEN push(free[j], p + blk_size(j))
                ELSE free[j]]

(* The sizes at which a block of size fk can be had.                       *)
Roomy(fk) == {k \in fk .. max_size : free[k] # <<>>}

(* alloc(): from the smallest size that has a free block, or None.  A      *)
(* size index beyond the array is a panic of the slice expression.         *)
Alloc(n) ==
  LET fk == firstk(n)
  IN /\ ~panic
     /\ IF fk > nsize
        THEN panic' = TRUE /\ UNCHANGED <<free, alloc, split, held>>
        ELSE /\ Roomy(fk) # {}
             /\ LET k == Min(Roomy(fk))
                    p == Head(free[k])
                IN /\ Split(fk, k, p)
                   /\ held' = [a \in DOMAIN held \cup {p} |->
                                 IF a = p THEN n ELSE held[a]]
             /\ UNCHANGED panic
     /\ UNCHANGED <<meta, end, nsize>>

(* size(): the size of the block at p, below the first split block.        *)
size(p) ==
  LET ks == {k \in 0 .. max_size - 1 : bit_isset(split[k + 1], blk_index(k + 1, p))}
  IN IF ks = {} THEN 0 ELSE Min(ks)

(* Variant: merges although the buddy is split, or in use.                 *)
MergeTopBlind(fk, p) == Min({fk + 1, max_size})

(* Variant: a block is never merged with its buddy.                        *)
MergeTopNever(fk, p) == fk

(* dealloc(): the size at which merging with buddies stops.                *)
MergeTop(fk, p) ==
  Min({k \in fk .. max_size :
         k = max_size \/ bit_isset(alloc[k], buddy(blk_index(k, p)))})

(* dealloc(): mark free, unlink every buddy merged with, clear the split   *)
(* bits above them, and put the merged block on its list.                  *)
Dealloc(p) ==
  LET fk  == size(p)
      top == MergeTop(fk, p)
      bi(k) == blk_index(k, p)
  IN /\ ~panic
     /\ p \in DOMAIN held
     /\ alloc' = [k \in DOMAIN alloc |->
                   IF k \in fk .. top /\ k < max_size
                   THEN bit_set(alloc[k], bi(k), FALSE) ELSE alloc[k]]
     /\ split' = [k \in DOMAIN split |->
                   IF k \in fk + 1 .. top
                   THEN bit_set(split[k], bi(k), FALSE) ELSE split[k]]
     /\ free' = [k \in DOMAIN free |->
                   IF k = top THEN push(free[k], addr(k, bi(k)))
                   ELSE IF k \in fk .. top - 1
                   THEN remove(free[k], addr(k, buddy(bi(k)))) ELSE free[k]]
     /\ held' = [a \in DOMAIN held \ {p} |-> held[a]]
     /\ UNCHANGED <<meta, end, nsize, panic>>

Next ==
  \/ \E n \in Layouts : Alloc(n)
  \/ \E p \in DOMAIN held : Dealloc(p)

Spec == Init /\ [][Next]_vars

-----------------------------------------------------------------------------
(* Bytes of the block of size k at a, and of everything of each kind.      *)
Bytes(a, n) == a .. a + n - 1
FreeBlocks == UNION {{k} \X DOMAIN free[k] : k \in 0 .. max_size}
FreeBytes(b) == Bytes(free[b[1]][b[2]], blk_size(b[1]))
Usable == meta .. end - 1
InUse(p) == Bytes(p, blk_size(firstk(held[p])))

(***************************************************************************)
(* Every byte between the allocator's arrays and the end of memory is in   *)
(* exactly one free block or in exactly one block a caller owns, after any *)
(* series of splits and merges: alloc() never hands out memory twice, and  *)
(* dealloc() neither loses any nor gives back more than was allocated.  A   *)
(* caller's block is large enough for its layout and aligned to its size,  *)
(* which "we only need to consider the size" in alloc() relies on.         *)
(***************************************************************************)
MemoryConserved ==
  /\ \A b, c \in FreeBlocks : b # c => FreeBytes(b) \cap FreeBytes(c) = {}
  /\ \A p, q \in DOMAIN held : p # q => InUse(p) \cap InUse(q) = {}
  /\ \A b \in FreeBlocks, p \in DOMAIN held : FreeBytes(b) \cap InUse(p) = {}
  /\ Usable = UNION {FreeBytes(b) : b \in FreeBlocks}
              \cup UNION {InUse(p) : p \in DOMAIN held}
  /\ \A p \in DOMAIN held :
       LET n == blk_size(firstk(held[p])) IN n >= held[p] /\ p % n = 0

(***************************************************************************)
(* alloc() returns None only when memory is really fragmented: if an       *)
(* aligned block of some size is free byte for byte, a free list of that   *)
(* size or a larger one has it, because dealloc() merged all it could.     *)
(***************************************************************************)
RoomIsFound ==
  \A k \in 0 .. max_size : \A a \in 0 .. 2^(max_size - k) - 1 :
    LET block == Bytes(addr(k, a), blk_size(k))
    IN (/\ block \subseteq Usable
        /\ \A p \in DOMAIN held : block \cap InUse(p) = {}) => Roomy(k) # {}

=============================================================================
