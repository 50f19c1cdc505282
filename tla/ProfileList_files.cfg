\* Files of up to three profiles; programs that make up to six calls.
SPECIFICATION Spec
CONSTANTS
  left = left
  right = right
  mouse = mouse
  kbd = kbd
  rodent = rodent
  port1 = port1
  port2 = port2
  any = any
  a = a
  b = b
  Devices = {left, right, mouse}
  Property <- MCProperty
  Texts <- MCTexts
  WrittenTrees <- MCWrittenTrees
  Matchers <- MCMatchers
  KeyMaps <- MCKeyMaps
  MaxList = 3
  MaxCalls = 6
INVARIANTS GrabsNoMore RoutesAsTheFileSays SavedComesBack
