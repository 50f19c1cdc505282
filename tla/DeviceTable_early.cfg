\* A device is plugged in before /dev/input is watched.
SPECIFICATION Spec
CONSTANTS
  mouse = mouse
  kbd = kbd
  free = free
  virtual = virtual
  Devices <- MCDevices
  Shadowed <- MCShadowed
  Free <- free
  Virtual <- virtual
  ProfileLists <- MCProfileLists
  MaxNode = 3
  MaxFd = 5
  MaxQueue = 1
  EarlyPlug = TRUE
  Overflow = FALSE
  Faults = {}
INVARIANT EveryDeviceIsHeld
\* The daemon ends, and the bounds on nodes and descriptors may stop it.
CHECK_DEADLOCK FALSE
