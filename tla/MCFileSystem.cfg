SPECIFICATION Spec
CONSTANTS
  BSIZE = 2
  BPB = 16
  IPB = 4
  NDIRECT = 1
  FSSIZE = 15
  LOGSIZE = 1
  NINODES = 4
  NINODE = 3
  NOFILE = 1
  MAXOPBLOCKS = 6
  Counts = {3}
  LongNames = {"long"}
  AsWritten = {"balloc", "write", "dirlink", "name", "skip_elem", "fnod"}
  Images <- MCImages
  Data <- MCData
  Opens <- MCOpens
  Links <- MCLinks
  Unlinks <- MCUnlinks
  Mkdirs <- MCMkdirs
  Mknods <- MCMknods
  Chdirs <- MCChdirs
  Bads <- MCBads
INVARIANT BlocksOwned
CHECK_DEADLOCK FALSE
