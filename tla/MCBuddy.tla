------------------------------- MODULE MCBuddy -------------------------------
(* Memory of five pages of two leaves, with one or three leaves of arrays.  *)
EXTENDS Buddy

(* Memory is not a power of two: part of the largest block is unavailable.  *)
ASSUME Unavailable ==
  \A e \in Ends : round_down(e, MAX_ALIGN) < blk_size(NSize(round_down(e, MAX_ALIGN)) - 1)

=============================================================================
