SPECIFICATION Spec
CONSTANTS
  Retention = 7
  StaleAfter = 6
  MillisPerSec = 2
  MaxI64 = 127
  Device <- MCDevice
  KeepsUp = {}
  Offset <- MCOffset
  Delay = 3
  SessionMax = 1
  StampAhead = 0
  LastChange = 0
  MaxTime = 10
  MaxAborts = 0
  Never = Never
INVARIANTS
  NoZombie
CHECK_DEADLOCK FALSE
