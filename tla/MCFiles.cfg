SPECIFICATION Spec
CONSTANTS
  Proc = {p1, p2}
  First = p1
  Inum = {1}
  NOFILE = 2
  NFILE = 2
  NINODE = 2
  MaxOps = 2
INVARIANT OneCopy
CHECK_DEADLOCK FALSE
