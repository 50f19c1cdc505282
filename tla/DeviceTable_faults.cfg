\* Plugging at any moment, overruns and failing calls.
SPECIFICATION Spec
CONSTANTS
  mouse = mouse
  kbd = kbd
  free = free
  virtual = virtual
  Devices <- MCDevices
  Shadowed <- MCShadowed
  Free <- free
  Virtual <- virtual
  ProfileLists <- MCProfileLists
  MaxNode = 3
  MaxFd = 5
  MaxQueue = 1
  EarlyPlug = TRUE
  Overflow = TRUE
  Faults = {"open", "uinput", "keyboard", "poll", "epoll"}
INVARIANTS TypeOK GrabMatchesTable DescriptorsOwned UinputsOwned NoFeedback TableFollowsProfiles AllPolled
\* The daemon ends, and the bounds on nodes and descriptors may stop it.
CHECK_DEADLOCK FALSE
