SPECIFICATION FairSpec
CONSTANTS
  Retention = 5
  StaleAfter = 2
  MillisPerSec = 2
  MaxI64 = 127
  Device <- MCDevice
  KeepsUp <- MCKeepsUp
  Offset <- MCOffset
  Delay = 1
  SessionMax = 1
  StampAhead = 1
  LastChange = 2
  MaxTime = 10
  MaxAborts = 1
  Never = Never
INVARIANTS
  NoZombie
  LeftBehindIsStale
PROPERTIES
  GcIsRecordLife
  DeletionCompletes
  TombstoneCollected
  LossRepaired
CHECK_DEADLOCK FALSE
