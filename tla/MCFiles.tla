------------------------------- MODULE MCFiles -------------------------------
(* Two processes that share files, one inode number used again and again,   *)
(* and tables so small that calls fail: a descriptor can be missing for a   *)
(* file the table has room for, and an entry for a pipe the process has     *)
(* descriptors for.                                                          *)
EXTENDS Files
=============================================================================
