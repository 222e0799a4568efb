--------------------------------- MODULE MCVm ---------------------------------
(* Two processes, a handful of programs and every place an allocation can   *)
(* fail.                                                                    *)
EXTENDS Vm

K == INSTANCE KernelMap

Seg(va, msize, fsize) ==
  [valid |-> TRUE, load |-> TRUE, va |-> va, msize |-> msize, fsize |-> fsize, whole |-> TRUE]

(* One page with a header to skip, so that the last segment is not loaded.   *)
Good ==
  [elf |-> TRUE, tag |-> 2, fits |-> TRUE,
   segs |-> <<Seg(0, 2, 1), [Seg(0, 0, 0) EXCEPT !.load = FALSE], Seg(4, 2, 2)>>]

(* It, with too many arguments, a program that is cut short, one whose      *)
(* second header is bad, and a text file.                                   *)
MCPrograms ==
  {Good,
   [Good EXCEPT !.fits = FALSE],
   [Good EXCEPT !.segs = <<[Seg(1, 2, 2) EXCEPT !.whole = FALSE]>>],
   [Good EXCEPT !.segs = <<Seg(0, 1, 1), [Seg(1, 1, 1) EXCEPT !.valid = FALSE]>>],
   [Good EXCEPT !.elf = FALSE]}

MCDeltas == {-9, -3, 3}

(* A call that gets every page it asks for succeeds.                        *)
ASSUME EnoughPages == NPages >= 30

(* The kernel maps its own memory once, wherever its text ends.             *)
ASSUME KvmMapsOnce == \A pages \in 1 .. 100 : K!KvmIsSound(K!KERNBASE + pages)

=============================================================================
