SPECIFICATION Spec
CONSTANTS
  MinWall <- MCMinWall
  MaxWall = 4
  MaxCounter = 1
  MaxDrift = 1
  MaxNode = 2
  Node <- MCNode
  NoStamp = NoStamp
  PhysRange <- MCPhysRange
  MaxIssues = 2
INVARIANTS
  IssuedInOrder
  DriftBounded
  SpentByOwnClock
PROPERTIES
  IssuedAfterHeard
CHECK_DEADLOCK FALSE
