SPECIFICATION FairSpec
CONSTANTS
  Proc = {p1, p2, p3, p4}
  Data = {d1, d2}
  Max = 2
  NoProc = NoProc
INVARIANT NoPanic
PROPERTIES ImplementsFifo ReceiversProgress SendersProgress
