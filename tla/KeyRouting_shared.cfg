\* The same key on both keyboards.
SPECIFICATION Spec
CONSTANTS
  left = left
  right = right
  a = a
  b = b
  reserved = reserved
  badName = badName
  mouseTypo = mouseTypo
  unmatched = unmatched
  noDevice = noDevice
  Devices = {left, right}
  Types <- EventTypesOf
  Keys = {a, b}
  Reserved <- reserved
  BadName <- badName
  MouseTypo <- mouseTypo
  Unmatched <- unmatched
  NoDevice <- noDevice
  ProfileLists <- SharedTarget
  MaxBuffer = 2
  Careful = TRUE
  Faults = {}
INVARIANTS HeldIsDown
