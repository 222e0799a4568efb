SPECIFICATION FairSpec
CONSTANTS
  NPROC = 3
  MaxPid = 2
  MaxSleep = 1
INVARIANTS ParentsAreLive NoUnseenZombie NoMissedTick
PROPERTIES InitReaps KilledExits
