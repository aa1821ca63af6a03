SPECIFICATION FairSpec
CONSTANTS
  Flows = {s1, s2}
  NoFlow = none
  SnSpace = 16
  WinSz = 4
  RingSize = 2
  Timeout = 1
  Frames = {1, 4, 5, 7}
  Reach = 3
  Repeated = {}
INVARIANTS TimeoutHeld SharedTimerArmed
PROPERTIES HeldFramesLeave
