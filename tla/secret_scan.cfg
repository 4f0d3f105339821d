SPECIFICATION Spec
CONSTANTS
  MaxU32 = 8
  Class <- MCClass
  Hex = {"f", "F", "n"}
  MinValueLen = 2
  MinEntropyLen = 3
  EntropyBits = 2
  RefCap = 2
  Log2 <- MCLog2
  Text <- MCText
  MaxMatches = 3
INVARIANTS
  KeptDisjoint
  NothingUnreported
  GuessesHideNothing
  CharSpansFaithful
  MaskHides
  PlainStaysReadable
  RandomIsNoticed
CHECK_DEADLOCK FALSE
