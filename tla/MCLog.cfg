SPECIFICATION FairSpec
CONSTANTS
  Op = {p1, p2, p3}
  Block = {b1, b2}
  Initial = Initial
  NoBuf = NoBuf
  LOGSIZE = 4
  MAXOPBLOCKS = 2
  Nlog = 3
  BSIZE = 1024
INVARIANTS QuietIsDurable SpaceIsReserved CallsAreInTransaction
PROPERTIES ImplementsAtomicDisk SleepersAreWoken
