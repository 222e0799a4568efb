---------------------------- MODULE MCVirtioDisk ----------------------------
(***************************************************************************)
(* The disk driver for TLC.  There is room for two requests and one        *)
(* descriptor more, so that requests overtake each other and alloc3_desc() *)
(* runs out halfway.                                                       *)
(***************************************************************************)
EXTENDS VirtioDisk, TLC

ASSUME OvertakesAndRunsOut == NUM = 7 /\ Cardinality(Proc) > 2

Symmetry == Permutations(Proc)
=============================================================================
