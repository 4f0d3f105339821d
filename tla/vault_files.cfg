SPECIFICATION FairSpec
CONSTANTS
  Base = 3
  LenWidth = 1
  BadBytes = {2}
  MaxRepresentations = 1
  VERIFIER_PLAINTEXT <- MCVerifier
  Passphrase = {"composed", "decomposed", "other"}
  Nfc <- MCNfc
  NoKey = NoKey
  Device = {1, 2}
  Id = {1}
  Text <- MCText
  Payload <- MCPayload
  CanonicalPayload <- MCCanonicalPayload
  App <- MCApp
  Fleet <- MCFleet
  Kdf <- MCKdf
INVARIANTS
  TypeOK
  PassphraseDecides
  OpenedAsPublished
  NothingFromPartialFiles
  DedupeAgrees
  OpensWithinCap
PROPERTIES
  FilesAreTwoPhaseSet
  KnowersGetIn
  FilesReachDevices
CHECK_DEADLOCK FALSE
