SPECIFICATION FairSpec
CONSTANTS
  MinWall <- MCMinWall
  MaxWall = 20
  MaxCounter = 7
  MaxDrift = 1
  MaxNode = 2
  Node <- MCNode
  NoStamp = NoStamp
  Id = {1, 2}
  Hash <- MCHash
  SyncHash <- MCSameHash
  Skew <- MCSkew
  MaxNow = 1
  MaxCrashes = 1
INVARIANTS
  OneLivePerContent
  SettledDevicesAgree
PROPERTIES
  NoFlicker
  RecopyOutranksWipe
  IsTwoPhaseSet
  DeletionReachesAll
  CopyReachesAll
CHECK_DEADLOCK FALSE
