------------------------------ MODULE MCChannel ------------------------------
(***************************************************************************)
(* An instance of module Channel for TLC: more processes than room, so     *)
(* that senders and receivers can all be asleep at some time.              *)
(***************************************************************************)
EXTENDS Channel, TLC

ASSUME SendersCanFillTheChannel == Cardinality(Proc) > Max
=============================================================================
