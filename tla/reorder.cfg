SPECIFICATION Spec
CONSTANTS
  Flows = {s1}
  NoFlow = none
  SnSpace = 16
  WinSz = 4
  RingSize = 2
  Timeout = 1
  Frames = {1, 2, 3, 4, 5, 6, 7, 8, 9, 10, 11, 12, 13, 14, 15, 16, 17}
  Reach = 3
  Repeated = {3, 4}
INVARIANTS TypeOK TimeoutHeld
PROPERTIES DeliversInOrder
