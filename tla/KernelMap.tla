------------------------------ MODULE KernelMap ------------------------------
(***************************************************************************)
(* The kernel's own page table: the regions that Kvm::make() and           *)
(* proc_mapstacks() map, with the constants of kernel/memlayout.rs and     *)
(* kernel/param.rs, in pages of 4096 bytes.                                *)
(***************************************************************************)
EXTENDS Naturals, FiniteSets

NCPU == 8
NPROC == 64

UART0 == 65536            \* 0x1000_0000
VIRTIO0 == 65537          \* 0x1000_1000
PLIC == 49152             \* 0x0C00_0000
PLIC_SIZE == 1024         \* 0x4000_00 bytes
KERNBASE == 524288        \* 0x8000_0000
PHYSTOP == KERNBASE + 128 * 256
MAXVA == 67108864         \* 2^38 bytes
TRAMPOLINE == MAXVA - 1
TRAPFLAME == TRAMPOLINE - 1

kstack(p) == TRAMPOLINE - (p + 1) * 5

(* make(): a region is its first page and the page after its last.         *)
make(etext) ==
  {<<UART0, UART0 + 1>>, <<VIRTIO0, VIRTIO0 + 1>>, <<PLIC, PLIC + PLIC_SIZE>>,
   <<KERNBASE, etext>>, <<etext, PHYSTOP>>, <<TRAMPOLINE, TRAMPOLINE + 1>>}

(* proc_mapstacks(): one page for each process.                            *)
proc_mapstacks == {<<kstack(p), kstack(p) + 1>> : p \in 0 .. NPROC - 1}

(* The highest register plic.rs touches for a hart, as a byte offset.      *)
PLIC_SCLAIM(hart) == 2101252 + hart * 8192    \* 0x201004, 0x2000

(***************************************************************************)
(* No page is mapped twice, which mappages() would panic on; each kernel   *)
(* stack has unmapped pages on both sides; every PLIC register of every    *)
(* hart is mapped.                                                         *)
(***************************************************************************)
KvmIsSound(etext) ==
  LET regions == make(etext) \cup proc_mapstacks
  IN /\ Cardinality(regions) = 6 + NPROC
     /\ \A r, q \in regions : r # q => r[2] <= q[1] \/ q[2] <= r[1]
     /\ \A r \in proc_mapstacks, q \in regions : r[2] # q[1] /\ q[2] # r[1]
     /\ \A h \in 0 .. NCPU - 1 : PLIC_SCLAIM(h) + 4 <= PLIC_SIZE * 4096

=============================================================================
