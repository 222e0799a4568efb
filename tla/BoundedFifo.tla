----------------------------- MODULE BoundedFifo -----------------------------
(***************************************************************************)
(* What sync_channel(max, ..) of kernel/mpmc.rs promises: a first-in       *)
(* first-out queue of at most max elements, whoever sends and receives.    *)
(***************************************************************************)
EXTENDS Naturals, Sequences

CONSTANTS
  Data,  \* what is sent
  Max    \* the capacity

VARIABLE queue

Init == queue = <<>>

Put ==
  /\ Len(queue) < Max
  /\ \E d \in Data : queue' = Append(queue, d)

Get ==
  /\ queue # <<>>
  /\ queue' = Tail(queue)

Next == Put \/ Get

Spec == Init /\ [][Next]_queue
=============================================================================
