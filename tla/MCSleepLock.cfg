SPECIFICATION Spec
CONSTANTS
  Proc = {0, 1, 2, 3}
  NoProc = NoProc
INVARIANTS MutualExclusion NoPanic NoLostWakeup
CHECK_DEADLOCK FALSE
