SPECIFICATION FairSpec
CONSTANTS
  MinWall <- MCMinWall
  MaxWall = 20
  MaxCounter = 12
  MaxDrift = 1
  MaxNode = 2
  Node <- MCNode
  NoStamp = NoStamp
  Id = {1, 2}
  Hash <- MCHash
  SyncHash <- MCSameHash
  Skew <- MCNoSkew
  MaxNow = 0
  MaxCrashes = 0
PROPERTIES
  RecopySurvives
CHECK_DEADLOCK FALSE
