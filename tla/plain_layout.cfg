SPECIFICATION Spec
CONSTANTS
  Base = 3
  LenWidth = 1
  BadBytes = {2}
  MaxRepresentations = 1
  Strings <- MCStrings
  MaxLen = 10
  Radix = 2
  HexDigit <- MCHexDigit
  HexValue <- MCHexValue
INVARIANTS
  Canonical
  EncodingsReadBack
  HexReadsBack
CHECK_DEADLOCK FALSE
