\* The configuration file is replaced while devices are busy.
SPECIFICATION Spec
CONSTANTS
  mouse = mouse
  kbd = kbd
  free = free
  virtual = virtual
  unreadable = unreadable
  incomplete = incomplete
  Devices <- MCDevices
  Shadowed <- MCShadowed
  Free <- free
  Virtual <- virtual
  ProfileLists <- MCProfileLists
  NoProfiles <- MCNoProfiles
  Unreadable <- unreadable
  Incomplete <- incomplete
  MaxNode = 4
  MaxFd = 8
  MaxQueue = 1
  EarlyPlug = FALSE
  Overflow = FALSE
  Faults = {}
  FileOps <- OnlyReplace
  MaxOps = 1
  Paced = TRUE
  WatchFaults = FALSE
  MaxMoves = 1
  Interrupts = FALSE
INVARIANT NoAssertFailure
\* The daemon ends.
CHECK_DEADLOCK FALSE
