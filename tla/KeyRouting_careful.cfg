\* Hands off while devices are configured; no key has two sources.
SPECIFICATION Spec
CONSTANTS
  left = left
  right = right
  a = a
  b = b
  reserved = reserved
  badName = badName
  mouseTypo = mouseTypo
  unmatched = unmatched
  noDevice = noDevice
  Devices = {left, right}
  Types <- EventTypesOf
  Keys = {a, b}
  Reserved <- reserved
  BadName <- badName
  MouseTypo <- mouseTypo
  Unmatched <- unmatched
  NoDevice <- noDevice
  ProfileLists <- OneSource
  MaxBuffer = 2
  Careful = TRUE
  Faults = {}
INVARIANTS TypeOK NoStuckKey HeldIsDown
PROPERTIES ImplementsUnifiedKeyboard
