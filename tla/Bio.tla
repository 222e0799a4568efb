--------------------------------- MODULE Bio ---------------------------------
(***************************************************************************)
(* The buffer cache of kernel/bio.rs as it is written: the list of buffers *)
(* with its links, reference counts, sleep locks, read(), write(), pin(),  *)
(* unpin() and the drop of a guard.                                        *)
(*                                                                         *)
(* A step is what happens under the list's spinlock, or one of the three   *)
(* parts of the drop of a guard, which are under no common lock.  A sleep  *)
(* lock is an owner (module SleepLock); get() asks for it with the         *)
(* spinlock held, so where it would sleep sched() panics.  DISK.rw() is    *)
(* what its callers expect, a transfer that ends (module VirtioDisk has    *)
(* the driver, whose rw() does not return).  Contents of blocks do not     *)
(* matter here.                                                            *)
(***************************************************************************)
EXTENDS Integers, FiniteSets

CONSTANTS
  Proc,     \* processes in the kernel
  Block,    \* blocks of the disk
  NBUF,     \* buffers
  None      \* no buffer, no process, no block

Buf == 1 .. NBUF

VARIABLES
  pc,       \* where each process is
  list,     \* Lru.head and Lru.tail; Meta.next and Meta.prev of each buffer
  meta,     \* Meta.blockno
  valid,    \* Data.valid
  owner,    \* who holds the buffer's sleep lock
  ref,      \* references: Arc::strong_count - 1
  pinned,   \* buffers pinned by the log
  link,     \* BufGuard._link of each process
  stop      \* why the kernel stopped: a panic, a search without an end, or None

vars == <<pc, list, meta, valid, owner, ref, pinned, link, stop>>

(* Lru::add: b becomes the tail. *)
add(b, l) ==
  [head |-> IF l.tail = None THEN b ELSE l.head,
   tail |-> b,
   next |-> IF l.tail = None THEN l.next ELSE [l.next EXCEPT ![l.tail] = b],
   prev |-> [l.prev EXCEPT ![b] = l.tail]]

(* init(): the list of the first n buffers. *)
Added[n \in 0 .. NBUF] ==
  IF n = 0 THEN [head |-> None, tail |-> None, next |-> [b \in Buf |-> None], prev |-> [b \in Buf |-> None]]
  ELSE add(n, Added[n - 1])

(* Data::new, BCache::new, and init(), which adds the buffers one by one. *)
Init ==
  /\ pc = [p \in Proc |-> "idle"]
  /\ list = Added[NBUF]
  /\ meta = [b \in Buf |-> None] /\ valid = [b \in Buf |-> FALSE]
  /\ owner = [b \in Buf |-> None] /\ ref = [b \in Buf |-> 0] /\ pinned = {}
  /\ link = [p \in Proc |-> None]
  /\ stop = None

Running == stop = None
Goto(p, place) == pc' = [pc EXCEPT ![p] = place]

(* Iter::next: the n-th buffer from b on; b is None at the end of the list. *)
After(b, n) ==
  LET f[i \in 0 .. n] == IF i = 0 THEN b ELSE IF f[i - 1] = None THEN None ELSE list.next[f[i - 1]]
  IN f[n]
Forward(n) == After(list.head, n)

(* The buffers somebody has an Rc of: next and head are, prev and tail are  *)
(* Weak.  Others are gone.                                                 *)
Live == UNION {{After(b, n) : n \in 0 .. NBUF} : b \in {list.head} \cup {link[p] : p \in Proc}} \ {None}

(* Weak::upgrade *)
Upgrade(b) == IF b \in Live THEN b ELSE None

(* Iter::next_back: the n-th buffer from the tail. *)
Backward(n) ==
  LET f[i \in 0 .. n] == IF i = 0 THEN Upgrade(list.tail)
                         ELSE IF f[i - 1] = None THEN None ELSE Upgrade(list.prev[f[i - 1]])
  IN f[n]

-----------------------------------------------------------------------------
(* get(): the places in the list of buffers that cache block k. *)
Cached(k) == {n \in 0 .. NBUF - 1 : Forward(n) # None /\ meta[Forward(n)] = k}

(* get(): the buffers that may be recycled, least recently used first. *)
Recyclable == {n \in 0 .. NBUF - 1 : Backward(n) # None /\ ref[Backward(n)] = 0}

Least(S) == CHOOSE n \in S : \A m \in S : n <= m

(* A guard of buffer b for process p. *)
Guard(p, b) ==
  /\ owner' = [owner EXCEPT ![b] = p]
  /\ ref' = [ref EXCEPT ![b] = @ + 1]
  /\ link' = [link EXCEPT ![p] = b]
  /\ Goto(p, "got")

(* get(): the kernel does not get past it. *)
Stop(why) == stop' = why /\ UNCHANGED <<pc, meta, valid, owner, ref, link>>

(* get(): block k is cached in buffer b; its lock is free, or sleep() comes *)
(* to sched() with a spinlock held.                                        *)
GetCached(p, b) ==
  IF owner[b] = None THEN Guard(p, b) /\ UNCHANGED <<meta, valid, stop>> ELSE Stop("sched locks")

(* get(): buffer b is recycled for block k. *)
Recycle(p, b, k) ==
  /\ meta' = [meta EXCEPT ![b] = k]
  /\ valid' = [valid EXCEPT ![b] = FALSE]
  /\ Guard(p, b)
  /\ UNCHANGED stop

(* read(), first part: get() under the lock of the list.  A list that does *)
(* not end is searched for ever.                                           *)
Get(p, k) ==
  /\ Running /\ pc[p] = "idle"
  /\ IF Cached(k) # {} THEN GetCached(p, Forward(Least(Cached(k))))
     ELSE IF Forward(NBUF) # None THEN Stop("endless list")
     ELSE IF Recyclable # {} THEN Recycle(p, Backward(Least(Recyclable)), k)
     ELSE Stop("no buffers")
  /\ UNCHANGED <<list, pinned>>

(* read(), second part: a buffer that is not valid is read from the disk. *)
Read(p) ==
  /\ Running /\ pc[p] = "got"
  /\ valid' = [valid EXCEPT ![link[p]] = TRUE]
  /\ Goto(p, "held")
  /\ UNCHANGED <<list, meta, owner, ref, pinned, link, stop>>

(* BufGuard::write, of a buffer its caller has locked. *)
Write(p) ==
  /\ Running /\ pc[p] = "held"
  /\ stop' = IF owner[link[p]] = p THEN "bwrite" ELSE None
  /\ UNCHANGED <<pc, list, meta, valid, owner, ref, pinned, link>>

(* pin(), as log.write() calls it. *)
Pin(p) ==
  /\ Running /\ pc[p] = "held" /\ link[p] \notin pinned
  /\ pinned' = pinned \cup {link[p]}
  /\ ref' = [ref EXCEPT ![link[p]] = @ + 1]
  /\ UNCHANGED <<pc, list, meta, valid, owner, link, stop>>

(* unpin(), as install_trans() calls it. *)
Unpin(p) ==
  /\ Running /\ pc[p] = "held" /\ link[p] \in pinned
  /\ pinned' = pinned \ {link[p]}
  /\ ref' = [ref EXCEPT ![link[p]] = @ - 1]
  /\ UNCHANGED <<pc, list, meta, valid, owner, link, stop>>

(* BufGuard::drop, first part: the sleep lock is released. *)
DropLock(p) ==
  /\ Running /\ pc[p] = "held"
  /\ owner' = [owner EXCEPT ![link[p]] = None]
  /\ Goto(p, "dropRef")
  /\ UNCHANGED <<list, meta, valid, ref, pinned, link, stop>>

(* BufGuard::drop, second part: the reference, outside any lock. *)
DropRef(p) ==
  /\ Running /\ pc[p] = "dropRef"
  /\ ref' = [ref EXCEPT ![link[p]] = @ - 1]
  /\ Goto(p, "relse")
  /\ UNCHANGED <<list, meta, valid, owner, pinned, link, stop>>

(* relse(): buffer b is detached from its neighbours and attached before   *)
(* the head.  Head and tail are not told that b has left its place.        *)
relse(b) ==
  LET n == list.next[b]
      v == list.prev[b]
      nx == [x \in Buf |-> IF x = b THEN None ELSE IF x = v THEN n ELSE list.next[x]]
      pv == [x \in Buf |-> IF x = b THEN None ELSE IF x = n THEN v ELSE list.prev[x]]
  IN IF list.head = None
     THEN [head |-> b, tail |-> b, next |-> nx, prev |-> pv]
     ELSE [head |-> b, tail |-> list.tail,
           next |-> [nx EXCEPT ![b] = list.head], prev |-> [pv EXCEPT ![list.head] = b]]

(* BufGuard::drop, last part: relse() under the lock of the list; unwrap() *)
(* of a predecessor that is gone panics.                                   *)
Relse(p) ==
  LET b == link[p]
      gone == list.prev[b] # None /\ Upgrade(list.prev[b]) = None
  IN /\ Running /\ pc[p] = "relse"
     /\ list' = IF ref[b] = 0 THEN relse(b) ELSE list
     /\ stop' = IF ref[b] = 0 /\ gone THEN "unwrap" ELSE None
     /\ link' = [link EXCEPT ![p] = None]
     /\ Goto(p, "idle")
     /\ UNCHANGED <<meta, valid, owner, ref, pinned>>

-----------------------------------------------------------------------------
Next ==
  \E p \in Proc :
    \/ \E k \in Block : Get(p, k)
    \/ Read(p) \/ Write(p) \/ Pin(p) \/ Unpin(p)
    \/ DropLock(p) \/ DropRef(p) \/ Relse(p)

Spec == Init /\ [][Next]_vars

(***************************************************************************)
(* get() recycles an unused buffer if there is one: "Recycle the least     *)
(* recently used (LRU) unused buffer".  It panics with "no buffers" only   *)
(* when every buffer is referenced, by a guard or by a pin.                *)
(***************************************************************************)
UnusedBufferIsFound == stop = "no buffers" => \A b \in Buf : ref[b] > 0
=============================================================================
