SPECIFICATION Spec
CONSTANTS
  Base = 3
  LenWidth = 1
  BadBytes = {2}
  MaxRepresentations = 1
  VERIFIER_PLAINTEXT <- MCVerifier
  Passphrase = {"composed", "decomposed", "other"}
  Nfc <- MCNfc
  NoKey = NoKey
  Device = {1, 2}
  Id = {1}
  Text <- MCText
  Payload <- MCPayload
  CanonicalPayload <- MCCanonicalPayload
  App <- MCApp
  Fleet <- MCFleet
  Kdf <- MCKdf
INVARIANTS
  UnknownKdfRefused
CHECK_DEADLOCK FALSE
