SPECIFICATION Spec
CONSTANTS
  Base = 16
  W32 = 2
  W64 = 4
  Second = 10
  Slash = 2
  Dot = 1
  Infos <- MCInfos
  Room = 125
  Fill = {0, 15}
INVARIANTS
  InOrder
  NothingLost
