----------------------------- MODULE MCProcess -----------------------------
(***************************************************************************)
(* Instances of module Process for TLC: init can have a child and a         *)
(* grandchild, and pids are left when the pool is full or an entry is free  *)
(* for the second time.                                                    *)
(***************************************************************************)
EXTENDS Process

ASSUME Grandchildren == NPROC >= 3 /\ MaxPid >= 2
=============================================================================
