-------------------------------- MODULE MCLog --------------------------------
(***************************************************************************)
(* Instances of module Log for TLC; the values of the constants are in     *)
(* the .cfg files.                                                         *)
(***************************************************************************)
EXTENDS Log, TLC
=============================================================================
