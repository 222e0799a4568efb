SPECIFICATION Spec
CONSTANTS
  Proc = {p1, p2, p3}
  NUM = 7
  None = None
INVARIANTS StatusIsOfRequest NoMissedCompletion
SYMMETRY Symmetry
CHECK_DEADLOCK FALSE
