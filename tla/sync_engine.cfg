SPECIFICATION EngineSpec
CONSTANTS
  MinWall <- MCMinWall
  MaxWall = 20
  MaxCounter = 12
  MaxDrift = 1
  MaxNode = 2
  Node <- MCNode
  NoStamp = NoStamp
  Id = {r1, r2, r3}
  Hash <- MCHash
  SyncHash <- MCSameHash
  Skew <- MCNoSkew
  MaxNow = 0
  MaxCrashes = 1
  MaxFiles = 5
SYMMETRY MCSymmetry
INVARIANTS
  DuplicateOnlyIfOvertaken
PROPERTIES
  EngineIsTwoPhaseSet
  AtomicUnlessOvertaken
  WipeCoversUnlessOvertaken
CHECK_DEADLOCK FALSE
