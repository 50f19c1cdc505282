\* The configuration file changes, a device comes or goes.
SPECIFICATION Spec
CONSTANTS
  mouse = mouse
  kbd = kbd
  free = free
  virtual = virtual
  unreadable = unreadable
  incomplete = incomplete
  Devices <- MCDevices
  Shadowed <- MCShadowed
  Free <- free
  Virtual <- virtual
  ProfileLists <- MCProfileLists
  NoProfiles <- MCNoProfiles
  Unreadable <- unreadable
  Incomplete <- incomplete
  MaxNode = 4
  MaxFd = 8
  MaxQueue = 2
  EarlyPlug = FALSE
  Overflow = FALSE
  Faults = {}
  FileOps <- Renames
  MaxOps = 2
  Paced = TRUE
  WatchFaults = FALSE
  MaxMoves = 1
  Interrupts = TRUE
INVARIANTS TypeOK TableInForce RestIsConfigured NoneOverlooked
PROPERTIES ImplementsConfigWatch ImplementsDeviceTable
\* The daemon ends.
CHECK_DEADLOCK FALSE
