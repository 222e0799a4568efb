SPECIFICATION Spec
CONSTANTS
  Cpu = {c1, c2, c3}
  Hart0 = c1
  NPROC = 3
  None = None
INVARIANTS OneCpuPerProcess NotReapedOnCpu PanicMeansKept
CHECK_DEADLOCK FALSE
