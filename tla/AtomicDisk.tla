------------------------------ MODULE AtomicDisk ------------------------------
(***************************************************************************)
(* What the log promises to the file system (the comment at the top of     *)
(* kernel/log.rs): the updates of the system calls between begin_op() and  *)
(* end_op() reach the disk in groups, each group at once and only when no  *)
(* system call is in progress, so a crash leaves either all or none of the *)
(* updates of any system call.                                             *)
(***************************************************************************)
CONSTANTS
  Op,       \* the file-system system calls
  Block,    \* the blocks outside the log
  Initial   \* the content of a block no system call has written

VARIABLES
  durable,  \* what a crash would leave, block by block
  view,     \* what the file system reads, block by block
  active    \* the system calls between begin_op() and end_op()

vars == <<durable, view, active>>

Init ==
  /\ durable = [b \in Block |-> Initial]
  /\ view = durable
  /\ active = {}

Begin(p) ==
  /\ p \notin active
  /\ active' = active \cup {p}
  /\ UNCHANGED <<durable, view>>

Write(p, b) ==
  /\ p \in active
  /\ view' = [view EXCEPT ![b] = p]
  /\ UNCHANGED <<durable, active>>

End(p) ==
  /\ p \in active
  /\ active' = active \ {p}
  /\ UNCHANGED <<durable, view>>

Commit ==
  /\ active = {}
  /\ durable' = view
  /\ UNCHANGED <<view, active>>

Crash ==
  /\ view' = durable
  /\ active' = {}
  /\ UNCHANGED durable

Next ==
  \/ \E p \in Op : Begin(p) \/ End(p) \/ \E b \in Block : Write(p, b)
  \/ Commit
  \/ Crash

Spec == Init /\ [][Next]_vars
=============================================================================
