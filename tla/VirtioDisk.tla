----------------------------- MODULE VirtioDisk -----------------------------
(***************************************************************************)
(* The disk driver of kernel/virtio_disk.rs: descriptors, the available    *)
(* and the used ring, rw() and intr(), with a device that serves requests  *)
(* in any order.  The processes that call rw() bring a buffer and a block  *)
(* of their own each, as the sleep locks of the buffer cache make sure.    *)
(*                                                                         *)
(* A step of rw() is what it does between two sleeps, under the lock of    *)
(* DISK; intr() is one step per completed request, because the device goes *)
(* on adding to the used ring meanwhile.  The 16-bit indices of the rings  *)
(* are kept modulo NUM: NUM divides 2^16, they are compared for equality   *)
(* only, and fewer than NUM requests are in flight.  An entry of a ring is *)
(* cleared once it has been read; nobody reads it again.                   *)
(*                                                                         *)
(* asWritten = TRUE is the code: rw() waits until info[idx[0]].buf is      *)
(* None, which intr() never makes it, on an address that intr() does not   *)
(* wake, so it does not return; and alloc3_desc() gives back descriptors   *)
(* 0, 1, .. instead of those it found, which may be in use.  FALSE is what *)
(* the comments say, "wait for intr() to say request has finished", and    *)
(* the descriptors found.  The properties hold for both.                   *)
(***************************************************************************)
EXTENDS Integers, Sequences, FiniteSets

CONSTANTS
  Proc,      \* processes in the kernel
  NUM,       \* descriptors
  None       \* no buffer, no descriptor

Desc == 0 .. NUM - 1
Buf == Proc     \* the buffer of each process
Block == Proc   \* and its block

ASSUME DiskAssumption ==
  /\ NUM \in Nat /\ NUM >= 3
  /\ None \notin Desc \cup Proc

Unset == [next |-> None, buf |-> None, write |-> FALSE, sector |-> None]  \* a cleared descriptor

VARIABLES
  pc,                 \* where each process is
  free,               \* the free descriptors
  desc,               \* the next descriptor, and what addr points to: a request
                      \* header (of ops) or a buffer
  info,               \* buf and status of requests in flight, by first descriptor
  avail, availIdx,    \* the available ring and its idx
  used, usedIdx,      \* the used ring and its idx, written by the device
  seenIdx,            \* used_idx: how far intr() has looked
  head,               \* idx[0] of each process in rw()
  req,                \* the buffer and direction a process called rw() with
  disk,               \* Data.disk: does the disk own the buffer?
  inIntr,             \* intr() holds the lock of DISK
  panic,              \* has an assertion failed?
  devIdx, pending,    \* device: entries of the available ring seen, requests taken
  irq,                \* device: an interrupt is raised
  platter,            \* device: the blocks
  data,               \* Data.data of each buffer; Data.blockno is the block of that name
  last,               \* history: what each process wrote last
  asWritten           \* the code, or its comments

devVars == <<devIdx, pending, irq, platter>>
driverVars == <<free, desc, info, avail, availIdx, used, usedIdx, seenIdx, head, disk, inIntr, panic>>

(* Disk::new and Disk::init: both sides agree on the queue, all free. *)
Init ==
  /\ free = Desc
  /\ desc = [i \in Desc |-> Unset]
  /\ info = [i \in Desc |-> [buf |-> None, ok |-> FALSE]]
  /\ avail = [i \in Desc |-> 0] /\ availIdx = 0
  /\ used = [i \in Desc |-> 0] /\ usedIdx = 0 /\ seenIdx = 0
  /\ head = [p \in Proc |-> None]
  /\ req = [p \in Proc |-> [buf |-> None, write |-> FALSE]]
  /\ disk = [b \in Buf |-> FALSE]
  /\ inIntr = FALSE
  /\ panic = FALSE
  /\ devIdx = 0 /\ pending = {} /\ irq = FALSE
  /\ platter = [k \in Block |-> 0]
  /\ pc = [p \in Proc |-> "idle"]
  /\ data = [b \in Buf |-> 0]
  /\ last = [p \in Proc |-> 0]
  /\ asWritten \in BOOLEAN

(* A process calls rw(): it writes its block, changed, or reads it into a  *)
(* clean buffer.                                                           *)
Call(p, write) ==
  /\ pc[p] = "idle"
  /\ pc' = [pc EXCEPT ![p] = "rwAlloc"]
  /\ req' = [req EXCEPT ![p] = [buf |-> p, write |-> write]]
  /\ last' = IF write THEN [last EXCEPT ![p] = 1 - @] ELSE last
  /\ data' = [data EXCEPT ![p] = IF write THEN 1 - last[p] ELSE 0]
  /\ UNCHANGED <<driverVars, devVars, asWritten>>

(* rw() has returned. *)
Return(p) ==
  /\ pc[p] = "rwDone"
  /\ pc' = [pc EXCEPT ![p] = "idle"]
  /\ data' = [data EXCEPT ![p] = 0]
  /\ UNCHANGED <<driverVars, devVars, req, last, asWritten>>

-----------------------------------------------------------------------------
(* The n lowest free descriptors: what n calls of alloc_desc() find. *)
alloc_desc(n) == {i \in free : Cardinality({j \in free : j <= i}) <= n}

(* wakeup() of the channel free[0], by process me. *)
WakeFree(me) == [p \in Proc |-> IF p # me /\ pc[p] = "descSleep" THEN "rwAlloc" ELSE pc[p]]

(* free_desc() of a set of descriptors: they must not be free. *)
free_desc(S) ==
  /\ panic' = (panic \/ S \cap free # {})
  /\ free' = free \cup S
  /\ desc' = [i \in Desc |-> IF i \in S THEN Unset ELSE desc[i]]

(* The descriptors free_chain() visits. *)
ChainSet(h) ==
  LET Nth[k \in 0 .. NUM] == IF k = 0 THEN h
                             ELSE IF Nth[k - 1] = None THEN None ELSE desc[Nth[k - 1]].next
  IN {Nth[k] : k \in 0 .. NUM} \ {None}

(* alloc3_desc() runs out: which descriptors are free afterwards. *)
GiveBack == IF asWritten THEN 0 .. Cardinality(free) - 1 ELSE free

(* Variant: the status of the request before is left. *)
InfoKeepsStatus(old, b) == [old EXCEPT !.buf = b]

(* info[idx[0]]: "device writes 0 on success" over 0xff. *)
Info(old, b) == [buf |-> b, ok |-> FALSE]

(* rw() with three descriptors: format and publish the chain, and sleep     *)
(* until intr().                                                           *)
Post(p) ==
  LET b == req[p].buf
      i0 == CHOOSE i \in alloc_desc(1) : TRUE
      i1 == CHOOSE i \in alloc_desc(2) : i # i0
      i2 == CHOOSE i \in alloc_desc(3) : i \notin {i0, i1}
  IN /\ free' = free \ {i0, i1, i2}
     /\ desc' = [desc EXCEPT ![i0] = [Unset EXCEPT !.next = i1, !.write = req[p].write, !.sector = b],
                             ![i1] = [Unset EXCEPT !.next = i2, !.buf = b],
                             ![i2] = Unset]
     /\ info' = [info EXCEPT ![i0] = Info(@, b)]
     /\ disk' = [disk EXCEPT ![b] = TRUE]
     /\ avail' = [avail EXCEPT ![availIdx] = i0]
     /\ availIdx' = (availIdx + 1) % NUM
     /\ head' = [head EXCEPT ![p] = i0]
     /\ pc' = [pc EXCEPT ![p] = "infoSleep"]
     /\ UNCHANGED panic

(* alloc3_desc() fails: what it took is given back, which wakes the others  *)
(* if it was anything, and rw() sleeps.                                    *)
NoDesc(p) ==
  /\ pc' = [(IF free = {} THEN pc ELSE WakeFree(p)) EXCEPT ![p] = "descSleep"]
  /\ free' = GiveBack
  /\ desc' = [i \in Desc |-> IF i \in GiveBack THEN Unset ELSE desc[i]]
  /\ UNCHANGED <<info, disk, avail, availIdx, head, panic>>

(* rw(), up to its first sleep. *)
RwAlloc(p) ==
  /\ pc[p] = "rwAlloc"
  /\ ~inIntr
  /\ IF Cardinality(free) >= 3 THEN Post(p) ELSE NoDesc(p)
  /\ UNCHANGED <<devVars, used, usedIdx, seenIdx, req, inIntr, data, last, asWritten>>

(* rw(): is the request still in flight? *)
InFlight(p) == IF asWritten THEN info[head[p]].buf # None ELSE disk[req[p].buf]

(* rw(), woken: sleep again, or free the chain and return the guard. *)
RwCheck(p) ==
  /\ pc[p] = "rwCheck"
  /\ ~inIntr
  /\ IF InFlight(p)
     THEN /\ pc' = [pc EXCEPT ![p] = "infoSleep"]
          /\ UNCHANGED <<free, desc, info, head, panic>>
     ELSE /\ free_desc(ChainSet(head[p]))
          /\ info' = [info EXCEPT ![head[p]].buf = None]
          /\ head' = [head EXCEPT ![p] = None]
          /\ pc' = [WakeFree(p) EXCEPT ![p] = "rwDone"]
  /\ UNCHANGED <<devVars, avail, availIdx, used, usedIdx, seenIdx, req, disk, inIntr, data, last, asWritten>>

(* kill() makes a sleeper run; rw() does not look at `killed`. *)
Kill(p) ==
  /\ pc[p] \in {"descSleep", "infoSleep"}
  /\ pc' = [pc EXCEPT ![p] = IF pc[p] = "descSleep" THEN "rwAlloc" ELSE "rwCheck"]
  /\ UNCHANGED <<devVars, driverVars, req, data, last, asWritten>>

-----------------------------------------------------------------------------
(* intr(): take the lock and acknowledge. *)
IntrAck ==
  /\ irq /\ ~inIntr
  /\ irq' = FALSE
  /\ inIntr' = TRUE
  /\ UNCHANGED <<pc, devIdx, pending, platter, free, desc, info, avail, availIdx, used, usedIdx,
                 seenIdx, head, disk, panic, req, data, last, asWritten>>

(* intr(): one entry of the used ring. *)
IntrEntry ==
  /\ inIntr /\ seenIdx # usedIdx
  /\ LET id == used[seenIdx]
         b == info[id].buf
     IN IF ~info[id].ok \/ b = None
        THEN panic' = TRUE /\ UNCHANGED <<pc, disk, used, seenIdx>>
        ELSE /\ disk' = [disk EXCEPT ![b] = FALSE]
             /\ pc' = [p \in Proc |-> IF pc[p] = "infoSleep" /\ head[p] = id /\ ~asWritten
                                      THEN "rwCheck" ELSE pc[p]]
             /\ used' = [used EXCEPT ![seenIdx] = 0]
             /\ seenIdx' = (seenIdx + 1) % NUM
             /\ UNCHANGED panic
  /\ UNCHANGED <<devVars, free, desc, info, avail, availIdx, usedIdx, head, inIntr, req, data, last, asWritten>>

(* Variant: intr() leaves before it has seen all of the used ring. *)
IntrEndEarly ==
  /\ inIntr
  /\ inIntr' = FALSE
  /\ UNCHANGED <<pc, devVars, free, desc, info, avail, availIdx, used, usedIdx,
                 seenIdx, head, disk, panic, req, data, last, asWritten>>

(* intr(): nothing left in the used ring. *)
IntrEnd ==
  /\ inIntr /\ seenIdx = usedIdx
  /\ inIntr' = FALSE
  /\ UNCHANGED <<pc, devVars, free, desc, info, avail, availIdx, used, usedIdx,
                 seenIdx, head, disk, panic, req, data, last, asWritten>>

(* The device takes the next entry of the available ring. *)
DevTake ==
  /\ devIdx # availIdx
  /\ pending' = pending \cup {avail[devIdx]}
  /\ devIdx' = (devIdx + 1) % NUM
  /\ avail' = [avail EXCEPT ![devIdx] = 0]
  /\ UNCHANGED <<pc, irq, platter, free, desc, info, availIdx, used, usedIdx, seenIdx, head, disk,
                 inIntr, panic, req, data, last, asWritten>>

(* The device serves a request it took: transfer, status, used ring, irq.   *)
(* A chain without its header or its buffer, cleared by free_desc(), is not *)
(* a request: the device does not complete it.                             *)
DevServe(h) ==
  /\ h \in pending
  /\ desc[h].next # None /\ desc[desc[h].next].buf # None
  /\ pending' = pending \ {h}
  /\ LET b == desc[desc[h].next].buf
         k == desc[h].sector
     IN IF desc[h].write
        THEN platter' = [platter EXCEPT ![k] = data[b]] /\ UNCHANGED data
        ELSE data' = [data EXCEPT ![b] = platter[k]] /\ UNCHANGED platter
  /\ info' = [info EXCEPT ![h].ok = TRUE]
  /\ used' = [used EXCEPT ![usedIdx] = h]
  /\ usedIdx' = (usedIdx + 1) % NUM
  /\ irq' = TRUE
  /\ UNCHANGED <<pc, devIdx, free, desc, avail, availIdx, seenIdx, head, disk, inIntr, panic, req, last, asWritten>>

Rw(p) == RwAlloc(p) \/ RwCheck(p)
Intr == IntrAck \/ IntrEntry \/ IntrEnd
Device == DevTake \/ \E h \in Desc : DevServe(h)

Next ==
  \/ \E p \in Proc : \/ \E write \in BOOLEAN : Call(p, write)
                     \/ Return(p) \/ Rw(p) \/ Kill(p)
  \/ Intr
  \/ Device

vars == <<pc, driverVars, devVars, req, data, last, asWritten>>
Spec == Init /\ [][Next]_vars

(***************************************************************************)
(* While there are entries in the used ring that intr() has not seen, it is *)
(* running or an interrupt is raised: "this may race with the device       *)
(* writing new entries", which "is harmless".                              *)
(***************************************************************************)
NoMissedCompletion == seenIdx # usedIdx => irq \/ inIntr

(***************************************************************************)
(* A status of 0 is the answer to this request: once info[idx[0]] of a     *)
(* process in rw() says so, its block and its buffer hold what it wrote    *)
(* last, though descriptors and entries of info are used again, requests   *)
(* overtake each other and kill() wakes processes early.  intr() relies on *)
(* it when it takes the buffer from the disk.                              *)
(***************************************************************************)
StatusIsOfRequest ==
  \A p \in Proc : head[p] # None /\ info[head[p]].ok => data[p] = last[p] /\ platter[p] = last[p]
=============================================================================
