SPECIFICATION Spec
CONSTANTS
  Proc = {p1, p2}
  Block = {k1, k2}
  NBUF = 3
  None = None
INVARIANT UnusedBufferIsFound
CHECK_DEADLOCK FALSE
