\* Devices come and go under an unchanged configuration, the descriptors
\* of the loop and the virtual keyboard may be refused.
SPECIFICATION Spec
CONSTANTS
  mouse = mouse
  kbd = kbd
  free = free
  virtual = virtual
  unreadable = unreadable
  incomplete = incomplete
  Devices <- MCDevices
  Shadowed <- MCShadowed
  Free <- free
  Virtual <- virtual
  ProfileLists <- MCProfileLists
  NoProfiles <- MCNoProfiles
  Unreadable <- unreadable
  Incomplete <- incomplete
  MaxNode = 4
  MaxFd = 8
  MaxQueue = 2
  EarlyPlug = FALSE
  Overflow = FALSE
  Faults = {"keyboard", "epoll", "signal", "inotify"}
  FileOps <- NoOps
  MaxOps = 0
  Paced = TRUE
  WatchFaults = TRUE
  MaxMoves = 2
  Interrupts = FALSE
INVARIANT NoAssertFailure
PROPERTIES SignalEnds PluggedIsHeld
\* The daemon ends.
CHECK_DEADLOCK FALSE
