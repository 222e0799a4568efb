-------------------------- MODULE VirtioDiskProofs --------------------------
(***************************************************************************)
(* The interrupt handler and the device, for any number of processes and   *)
(* descriptors, with rw() and alloc3_desc() as written or as documented.   *)
(***************************************************************************)
EXTENDS VirtioDisk, TLAPS

(* The processes leave the used ring and the interrupt alone.              *)
LEMMA ProcessesDoNotAnswer ==
  ASSUME NEW p \in Proc, (\E write \in BOOLEAN : Call(p, write)) \/ Return(p) \/ Rw(p) \/ Kill(p)
  PROVE  UNCHANGED <<seenIdx, usedIdx, irq, inIntr>>
BY DEF Call, Return, Rw, RwAlloc, RwCheck, Kill, devVars, driverVars

(***************************************************************************)
(* An answer in the used ring that intr() has not seen has an interrupt    *)
(* raised or intr() running: the acknowledgement comes before the ring is  *)
(* read, and intr() leaves only with the ring read to its end, so it does  *)
(* not matter when the device adds to it.                                  *)
(***************************************************************************)
THEOREM NoCompletionIsMissed == Spec => []NoMissedCompletion
<1>1. Init => NoMissedCompletion
  BY DEF Init, NoMissedCompletion
<1>2. NoMissedCompletion /\ [Next]_vars => NoMissedCompletion'
  <2>. SUFFICES ASSUME NoMissedCompletion, [Next]_vars PROVE NoMissedCompletion'
    OBVIOUS
  <2>. USE DEF NoMissedCompletion
  <2>1. ASSUME NEW p \in Proc, (\E write \in BOOLEAN : Call(p, write)) \/ Return(p) \/ Rw(p) \/ Kill(p)
        PROVE  NoMissedCompletion'
    BY <2>1, ProcessesDoNotAnswer
  <2>2. CASE IntrAck
    BY <2>2 DEF IntrAck
  <2>3. CASE IntrEntry
    BY <2>3 DEF IntrEntry, devVars
  <2>4. CASE IntrEnd
    BY <2>4 DEF IntrEnd, devVars
  <2>5. CASE DevTake
    BY <2>5 DEF DevTake
  <2>6. ASSUME NEW h \in Desc, DevServe(h) PROVE NoMissedCompletion'
    BY <2>6 DEF DevServe
  <2>7. CASE UNCHANGED vars
    BY <2>7 DEF vars, devVars, driverVars
  <2>. QED BY <2>1, <2>2, <2>3, <2>4, <2>5, <2>6, <2>7 DEF Next, Intr, Device
<1>. QED BY <1>1, <1>2, PTL DEF Spec
=============================================================================
