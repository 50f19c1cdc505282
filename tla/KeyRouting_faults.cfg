\* Anything at any moment.
SPECIFICATION Spec
CONSTANTS
  left = left
  right = right
  a = a
  b = b
  reserved = reserved
  badName = badName
  mouseTypo = mouseTypo
  unmatched = unmatched
  noDevice = noDevice
  Devices = {left, right}
  Types <- EventTypesOf
  Keys = {a, b}
  Reserved <- reserved
  BadName <- badName
  MouseTypo <- mouseTypo
  Unmatched <- unmatched
  NoDevice <- noDevice
  ProfileLists <- AnyLists
  MaxBuffer = 1
  Careful = FALSE
  Faults = {"unplug", "overrun", "uinput", "repeat"}
INVARIANTS RoutesAsPromised AssertionHolds
\* An assertion or the fill of a dropping profile may end the daemon.
CHECK_DEADLOCK FALSE
