SPECIFICATION TickingSpec
CONSTANTS
  Cpu = {c1, c2}
  Hart0 = c1
  NPROC = 2
  None = None
PROPERTIES TickWakesSleepers
