----------------------------- MODULE MCSleepLock -----------------------------
(***************************************************************************)
(* An instance of module SleepLock for TLC.  The first process PId::alloc  *)
(* makes has pid 0, the value a free lock records.                         *)
(***************************************************************************)
EXTENDS SleepLock, TLC

ASSUME PidZeroTakesPart == 0 \in Proc
=============================================================================
