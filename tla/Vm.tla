---------------------------------- MODULE Vm ----------------------------------
(***************************************************************************)
(* User memory: the page tables of kernel/vm.rs, and the calls that build, *)
(* grow, copy and free address spaces: alloc_proc(), fork(), grow_proc()   *)
(* and free_proc() of kernel/proc.rs, and exec() of kernel/exec.rs.         *)
(*                                                                         *)
(* An address space belongs to one process, so a call is one step; what    *)
(* interleaves is the competition for pages.  Each call is granted some    *)
(* number of allocations, and the next one fails.                          *)
(*                                                                         *)
(* Page tables have the three levels of Sv39, with ENTRIES entries each.   *)
(* An address space is the set `tab` of its tables, <<level, index>>, and  *)
(* the function `map` from its valid leaves.  Pages are interchangeable:   *)
(* what counts is how many are free.  A user page holds one value, who     *)
(* wrote it last.  Virtual addresses are page numbers, sizes are bytes.    *)
(*                                                                         *)
(* Three places do not do what their comments say, and there the kernel   *)
(* stops.  create() and copy() ask for the eight bytes of a struct Uvm, for *)
(* which firstk() of the buddy allocator has no size (the slice panics);    *)
(* freewalk() takes the page of a child table for a PageTable, and follows  *)
(* the child's first entry as an address, where the kernel has no page.     *)
(* asWritten, chosen at the start, holds those of them that are as written; *)
(* the others do what is documented: "create an empty user page table",     *)
(* "copies both the page table and the physical memory", "recursively free *)
(* page-table pages".  A Uvm is then its root page.                          *)
(***************************************************************************)
EXTENDS Integers, Sequences, FiniteSets, SequencesExt, TLC

CONSTANTS
  Proc,        \* process table entries
  InitProc,    \* the one user_init() fills
  NPages,      \* physical pages
  ENTRIES,     \* entries of a page table
  PGSIZE,      \* bytes of a page
  MaxSz,       \* bound: the largest process, below the trap frame
  Grants,      \* how many allocations a call may be granted
  Deltas,      \* arguments of sbrk()
  Addrs,       \* user addresses system calls store to
  Programs     \* what a path passed to exec() may lead to

MAXVA == ENTRIES * ENTRIES * ENTRIES   \* in pages
TRAMPOLINE == MAXVA - 1
TRAPFLAME == TRAMPOLINE - 1
pgroundup(n) == (n + PGSIZE - 1) \div PGSIZE    \* in pages
PagesFrom(va, stop) == [i \in 1 .. stop - va |-> va + i - 1]

ASSUME ConstantsAssumption ==
  /\ InitProc \in Proc
  /\ ENTRIES > 1 /\ PGSIZE > 0
  /\ pgroundup(MaxSz) <= TRAPFLAME

(* The places that are not what their comments say. *)
Places == {"create", "freewalk", "copy"}

VARIABLES
  nfree,       \* free pages
  uvm,         \* address space of each process, [tab, map]
  trapframe,   \* does it have a trap frame?
  sz,          \* its size
  last,        \* the last call: what, by whom, did it succeed?
  panic,       \* has the kernel panicked?
  asWritten    \* the places that are as written; it does not change

vars == <<nfree, uvm, trapframe, sz, last, panic, asWritten>>

-----------------------------------------------------------------------------
(* Operators work on a record r: an address space, and [free, left, ok,    *)
(* panic], with `left` allocations still granted.                          *)

NoUvm == [tab |-> {}, map |-> <<>>]
Root == <<3, 0>>
Space(r) == [tab |-> r.tab, map |-> r.map]
Work(grant, as) ==
  [tab |-> as.tab, map |-> as.map, free |-> nfree, left |-> grant, ok |-> TRUE,
   panic |-> panic]

Fail(r) == [r EXCEPT !.ok = FALSE]
Panic(r) == [r EXCEPT !.ok = FALSE, !.panic = TRUE]

(* Box::try_new_zeroed() of a page, and the drop of n such boxes.          *)
try_new_zeroed(r) ==
  IF r.left = 0 \/ r.free = 0 THEN Fail(r)
  ELSE [r EXCEPT !.left = @ - 1, !.free = @ - 1]
Drop(r, n) == [r EXCEPT !.free = @ + n]

WithTable(r, t) == IF r.ok THEN [r EXCEPT !.tab = @ \cup {t}] ELSE r

(* One turn of walk()'s loop: to the table for va at this level.           *)
Descend(r, va, level, alloc) ==
  LET t == <<level, va \div ENTRIES^level>>
  IN IF ~r.ok \/ t \in r.tab THEN r
     ELSE IF ~alloc THEN Fail(r)
     ELSE WithTable(try_new_zeroed(r), t)

(* walk(): is there, or can there be, a last-level table for va?           *)
walk(r, va, alloc) ==
  IF va >= MAXVA THEN Panic(r)
  ELSE Descend(Descend(r, va, 2, alloc), va, 1, alloc)

(* walkaddr(): may the user use va?                                        *)
walkaddr(r, va) ==
  /\ va < MAXVA /\ walk(r, va, FALSE).ok
  /\ va \in DOMAIN r.map /\ "U" \in r.map[va].flags

(* mappages() of one page, which is what callers here ask for.             *)
SetLeaf(r, va, pte) ==
  IF ~r.ok THEN r
  ELSE IF va \in DOMAIN r.map THEN Panic(r)
  ELSE [r EXCEPT !.map = (va :> pte) @@ @]
mappages(r, va, flags, data) ==
  SetLeaf(walk(r, va, TRUE), va, [flags |-> flags, data |-> data])

(* freewalk(): a leaf still mapped is a panic, as written a child table is *)
(* one too; the root goes with its Box.                                    *)
freewalk(r) ==
  IF r.map # <<>> \/ ("freewalk" \in asWritten /\ r.tab # {Root}) THEN Panic(r)
  ELSE [Drop(r, Cardinality(r.tab)) EXCEPT !.tab = {}]

-----------------------------------------------------------------------------
(* Uvm.  `ok` comes back as it was unless the function can fail.           *)

(* unmap() of the pages from va up to stop.                                *)
unmap(r, va, stop, do_free) ==
  LET One(q, a) ==
        IF ~walk([q EXCEPT !.ok = TRUE], a, FALSE).ok \/ a \notin DOMAIN q.map THEN Panic(q)
        ELSE [Drop(q, IF do_free THEN 1 ELSE 0) EXCEPT
                !.map = [b \in DOMAIN @ \ {a} |-> @[b]]]
  IN FoldLeft(One, r, PagesFrom(va, stop))

create(r) ==
  IF "create" \in asWritten THEN Panic(r) ELSE WithTable(try_new_zeroed(r), Root)

(* Variant: a page that could not be mapped is not given back.             *)
OrDroppedLeaks(m) == m

(* A zeroed page at a, dropped if it cannot be mapped.                     *)
OrDropped(m) == IF m.ok THEN m ELSE Drop(m, 1)
MapNew(r, a, flags, data) == IF ~r.ok THEN r ELSE OrDropped(mappages(r, a, flags, data))
AllocPage(r, a, flags, data) == MapNew(try_new_zeroed(r), a, flags, data)

(* Variant: what was mapped before the failure stays mapped.               *)
allocKeeps(r, oldsz, newsz, flags) ==
  FoldLeft(LAMBDA q, a : IF ~q.ok THEN q ELSE AllocPage(q, a, flags, 0),
           r, PagesFrom(pgroundup(oldsz), pgroundup(newsz)))

(* alloc(): grow to newsz; on failure what was mapped is unmapped again.   *)
OrUnmapped(m, from, a) == IF m.ok THEN m ELSE unmap(m, from, a, TRUE)
alloc(r, oldsz, newsz, flags) ==
  LET One(q, a) ==
        IF ~q.ok THEN q ELSE OrUnmapped(AllocPage(q, a, flags, 0), pgroundup(oldsz), a)
  IN FoldLeft(One, r, PagesFrom(pgroundup(oldsz), pgroundup(newsz)))

(* Variant: shrinking rounds the new size down.                            *)
deallocDown(r, oldsz, newsz) ==
  IF newsz >= oldsz THEN r ELSE unmap(r, newsz \div PGSIZE, pgroundup(oldsz), TRUE)

dealloc(r, oldsz, newsz) ==
  IF newsz >= oldsz THEN r ELSE unmap(r, pgroundup(newsz), pgroundup(oldsz), TRUE)

free(r, size) == freewalk(unmap(r, 0, pgroundup(size), TRUE))

(* copy(): page by page, with the parent's flags and contents.             *)
copy(r, parent, size) ==
  LET One(q, va) ==
        IF ~q.ok THEN q
        ELSE IF va \notin DOMAIN parent.map \/ "copy" \in asWritten THEN Panic(q)
        ELSE OrUnmapped(AllocPage(q, va, parent.map[va].flags, parent.map[va].data), 0, va)
  IN FoldLeft(One, r, PagesFrom(0, pgroundup(size)))

(* clear(): take va out of the user's reach.                               *)
clear(r, va) ==
  IF va \notin DOMAIN r.map THEN Panic(r) ELSE [r EXCEPT !.map[va].flags = @ \ {"U"}]

(* copyout() of v to the pages from va up to stop; it stops at the first   *)
(* page the user may not use, after having written the ones before.        *)
copyout(r, va, stop, v) ==
  LET One(q, a) == IF ~q.ok THEN q
                   ELSE IF ~walkaddr(q, a) THEN Fail(q)
                   ELSE [q EXCEPT !.map[a].data = v]
  IN FoldLeft(One, r, PagesFrom(va, stop))

proc_uvmfree(r, size) ==
  free(unmap(unmap(r, TRAMPOLINE, TRAMPOLINE + 1, FALSE), TRAPFLAME, TRAPFLAME + 1, FALSE), size)

(* proc_uvmcreate(): an empty table with the two pages at the top, or none. *)
OrFreed(m) ==
  IF m.ok THEN m ELSE free(unmap(m, TRAMPOLINE, TRAMPOLINE + 1, FALSE), 0)
MapTrapframe(r) ==
  IF r.ok THEN OrFreed(mappages(r, TRAPFLAME, {"R", "W"}, 0)) ELSE free(r, 0)
MapTops(r) == IF r.ok THEN MapTrapframe(mappages(r, TRAMPOLINE, {"R", "X"}, 0)) ELSE r
proc_uvmcreate(r) == MapTops(create(r))

-----------------------------------------------------------------------------
(* Processes.                                                              *)

(* free_proc(): drop the trap frame, then the memory that maps it.         *)
free_proc(r, size) ==
  IF r.tab = {} THEN Drop(r, 1) ELSE proc_uvmfree(Drop(r, 1), size)

OrFreedProc(r) == IF r.ok THEN r ELSE free_proc(r, 0)
WithUvm(r) == IF r.ok THEN OrFreedProc(proc_uvmcreate(r)) ELSE r

(* alloc_proc(): a trap frame and an empty address space, or neither.      *)
alloc_proc(r) ==
  WithUvm(try_new_zeroed(r))

(* user_init(): the first process, with one page of initcode.              *)
Init ==
  /\ asWritten \in SUBSET Places
  /\ \E r \in {AllocPage(alloc_proc([tab |-> {}, map |-> <<>>, free |-> NPages, left |-> NPages,
                                    ok |-> TRUE, panic |-> FALSE]), 0, {"R", "W", "X", "U"}, 0)} :
       /\ nfree = r.free
       /\ panic = ~r.ok
       /\ uvm = [p \in Proc |-> IF p = InitProc THEN Space(r) ELSE NoUvm]
       /\ trapframe = [p \in Proc |-> p = InitProc /\ r.ok]
       /\ sz = [p \in Proc |-> IF p = InitProc /\ r.ok THEN PGSIZE ELSE 0]
       /\ last = [op |-> "init", p |-> InitProc, ok |-> r.ok]

Alive(p) == ~panic /\ trapframe[p]
Leave(r) == nfree' = r.free /\ panic' = r.panic /\ UNCHANGED asWritten
Answer(op, p, ok) == last' = [op |-> op, p |-> p, ok |-> ok]

(* fork(): the child c gets a copy of p's memory, or is freed again.       *)
fork(p, c, grant) ==
  /\ Alive(p) /\ ~trapframe[c]
  /\ \E a \in {alloc_proc(Work(grant, NoUvm))} :
     \E m \in {IF a.ok THEN copy(a, uvm[p], sz[p]) ELSE a} :
       /\ Leave(IF a.ok THEN OrFreedProc(m) ELSE m)
       /\ trapframe' = [trapframe EXCEPT ![c] = m.ok]
       /\ uvm' = IF m.ok THEN [uvm EXCEPT ![c] = Space(m)] ELSE uvm
       /\ sz' = IF m.ok THEN [sz EXCEPT ![c] = sz[p]] ELSE sz
       /\ Answer("fork", p, m.ok)

(* wait() reaps c, which has exited.                                       *)
reap(c) ==
  /\ Alive(c) /\ c # InitProc
  /\ Leave(free_proc(Work(0, uvm[c]), sz[c]))
  /\ trapframe' = [trapframe EXCEPT ![c] = FALSE]
  /\ uvm' = [uvm EXCEPT ![c] = NoUvm]
  /\ sz' = [sz EXCEPT ![c] = 0]
  /\ Answer("wait", c, TRUE)

(* grow_proc(), from sbrk().  A size below zero is a huge unsigned one,    *)
(* which dealloc() takes for "not smaller".                                *)
Grown(p, new, grant) ==
  IF new > sz[p] THEN alloc(Work(grant, uvm[p]), sz[p], new, {"R", "U", "W"})
  ELSE dealloc(Work(0, uvm[p]), sz[p], IF new < 0 THEN sz[p] ELSE new)
grow_proc(p, n, grant) ==
  LET new == sz[p] + n IN
  /\ Alive(p)
  /\ new <= MaxSz
  /\ \E r \in {Grown(p, new, grant)} :
       /\ Leave(r)
       /\ uvm' = [uvm EXCEPT ![p] = Space(r)]
       /\ sz' = IF r.ok /\ new >= 0 THEN [sz EXCEPT ![p] = new] ELSE sz
       /\ Answer("sbrk", p, r.ok)
  /\ UNCHANGED trapframe

(* The kernel stores v in user memory: read(), fstat(), pipe(), wait().     *)
Store(p, va, stop, v) ==
  /\ Alive(p)
  /\ \E r \in {copyout(Work(0, uvm[p]), va, stop, v)} :
       /\ Leave(r)
       /\ uvm' = [uvm EXCEPT ![p] = Space(r)]
       /\ Answer("copyout", p, r.ok)
  /\ UNCHANGED <<trapframe, sz>>

-----------------------------------------------------------------------------
(* exec().  A program is [elf, segs, tag, fits]: is it an ELF file, its    *)
(* headers, what its pages hold, and do the arguments fit on the stack.  A *)
(* header is [valid, load, va, msize, fsize, whole]: does it pass the      *)
(* checks, is it a segment to load, where, is all of it in the file.       *)

(* The loop does not advance its offset past a header it skips, and so     *)
(* reads that header again until the end: it loads the ones before.        *)
Loaded(segs) == {i \in DOMAIN segs : \A j \in 1 .. i : segs[j].load}

(* loadseg(): read the segment into the pages it is mapped to.             *)
Whole(l, seg) == IF l.ok THEN [l EXCEPT !.ok = seg.whole] ELSE Panic(l)
loadseg(r, seg, tag) == Whole(copyout(r, seg.va, seg.va + pgroundup(seg.fsize), tag), seg)

(* The headers loaded one by one: the space [r] and the size reached, [sz]. *)
LoadInto(a, l, seg, size, tag) ==
  IF a.ok THEN [r |-> loadseg(a, seg, tag), sz |-> size] ELSE [l EXCEPT !.r = a]
LoadHeader(l, seg, tag) ==
  LET size == Max({l.sz, seg.va * PGSIZE + seg.msize})
  IN IF ~l.r.ok THEN l
     ELSE IF ~seg.valid THEN [l EXCEPT !.r = Fail(@)]
     ELSE LoadInto(alloc(l.r, l.sz, size, {"R", "U", "X"}), l, seg, size, tag)
Load(u, prog) ==
  FoldLeft(LAMBDA l, i : LoadHeader(l, prog.segs[i], prog.tag), [r |-> u, sz |-> 0],
           [i \in 1 .. Cardinality(Loaded(prog.segs)) |-> i])

(* Two pages above it, the guard and the stack, and the arguments on it.   *)
PushArgs(r, fits) == IF fits THEN r ELSE Fail(r)
OnStack(a, base, prog) ==
  IF ~a.ok THEN [r |-> a, sz |-> base * PGSIZE]
  ELSE [r |-> PushArgs(copyout(clear(a, base), base + 1, base + 2, prog.tag), prog.fits),
        sz |-> (base + 2) * PGSIZE]
Stack(l, prog) ==
  LET base == pgroundup(l.sz)
  IN IF ~l.r.ok THEN l
     ELSE OnStack(alloc(l.r, base * PGSIZE, (base + 2) * PGSIZE, {"R", "U", "W"}), base, prog)

(* A failed exec() frees the new address space, of the size reached.       *)
Discard(st) == proc_uvmfree(st.r, st.sz)

(* exec(): build u, load it to l, put the stack on it, st; then commit and *)
(* free the old memory, or free the new.                                   *)
exec(p, prog, grant) ==
  /\ Alive(p)
  /\ \E u \in {proc_uvmcreate(Work(grant, NoUvm))} :
     \E l \in {Load(u, prog)} :
     \E st \in {Stack(l, prog)} :
       LET ok  == prog.elf /\ st.r.ok
           old == [Work(0, uvm[p]) EXCEPT !.free = st.r.free]
       IN /\ Leave(IF ~prog.elf THEN Work(0, NoUvm)
                   ELSE IF ~u.ok THEN u
                   ELSE IF ok THEN proc_uvmfree(old, sz[p]) ELSE Discard(st))
          /\ uvm' = IF ok THEN [uvm EXCEPT ![p] = Space(st.r)] ELSE uvm
          /\ sz' = IF ok THEN [sz EXCEPT ![p] = st.sz] ELSE sz
          /\ Answer("exec", p, ok)
  /\ UNCHANGED trapframe

Next ==
  \E p \in Proc :
    \/ \E c \in Proc, g \in Grants : fork(p, c, g)
    \/ reap(p)
    \/ \E n \in Deltas, g \in Grants : grow_proc(p, n, g)
    \/ \E va \in Addrs : Store(p, va, va + 2, 1)
    \/ \E prog \in Programs, g \in Grants : exec(p, prog, g)

Spec == Init /\ [][Next]_vars

-----------------------------------------------------------------------------
(* Pages that belong to p: tables, user pages and the trap frame.          *)
Owned(p) ==
  Cardinality(uvm[p].tab) + Cardinality(DOMAIN uvm[p].map \ {TRAMPOLINE, TRAPFLAME})
  + (IF trapframe[p] THEN 1 ELSE 0)

(***************************************************************************)
(* Every page is free or belongs to a process, whichever allocation of     *)
(* whichever call failed: no error path of alloc(), copy(), fork() or      *)
(* exec() leaks a page or gives one back twice.  Nor does one run into a   *)
(* panic of walk(), unmap(), mappages(), copy() or freewalk(): the kernel  *)
(* stops only at the three places above.                                   *)
(***************************************************************************)
PagesConserved ==
  IF panic THEN asWritten # {} ELSE nfree + MapThenSumSet(Owned, Proc) = NPages

(***************************************************************************)
(* A process has pages exactly where its size says, and the trampoline and *)
(* its own trap frame at the top, out of its reach: what unmap(), copy()   *)
(* and free() rely on, and panic without.                                  *)
(***************************************************************************)
SizeIsMapped ==
  \A p \in Proc : trapframe[p] =>
    /\ DOMAIN uvm[p].map = (0 .. pgroundup(sz[p]) - 1) \cup {TRAPFLAME, TRAMPOLINE}
    /\ \A va \in {TRAPFLAME, TRAMPOLINE} : "U" \notin uvm[p].map[va].flags

(***************************************************************************)
(* A fork(), sbrk() or exec() that fails, at whichever allocation, leaves  *)
(* the memory of every process as it was (page tables may have grown), and *)
(* a fork() that succeeds gives the child the memory of its parent.        *)
(***************************************************************************)
AllOrNothing ==
  [][/\ last'.op # "copyout" /\ ~last'.ok =>
          sz' = sz /\ \A p \in Proc : uvm'[p].map = uvm[p].map
     /\ last'.op = "fork" /\ last'.ok => \A c \in Proc :
          ~trapframe[c] /\ trapframe'[c] => uvm'[c].map = uvm[last'.p].map]_vars

=============================================================================
