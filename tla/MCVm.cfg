SPECIFICATION Spec
CONSTANTS
  Proc = {p1, p2}
  InitProc = p1
  NPages = 30
  ENTRIES = 2
  PGSIZE = 2
  MaxSz = 8
  Grants = {0, 1, 2, 3, 4, 5, 6, 7, 8, 9, 10, 20}
  Addrs = {0, 1}
  Deltas <- MCDeltas
  Programs <- MCPrograms
INVARIANTS PagesConserved SizeIsMapped
PROPERTIES AllOrNothing
CHECK_DEADLOCK FALSE
