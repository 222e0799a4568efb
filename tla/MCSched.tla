------------------------------- MODULE MCSched -------------------------------
(***************************************************************************)
(* Instances of module Sched for TLC: more than one CPU, so that they      *)
(* compete for a process.                                                  *)
(***************************************************************************)
EXTENDS Sched, FiniteSets, TLC

ASSUME CpusCompete == Cardinality(Cpu) > 1
=============================================================================
