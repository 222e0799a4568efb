-------------------------------- MODULE MCBio --------------------------------
(***************************************************************************)
(* Instances of module Bio for TLC; the values of the constants are in the *)
(* .cfg file.                                                              *)
(***************************************************************************)
EXTENDS Bio
=============================================================================
