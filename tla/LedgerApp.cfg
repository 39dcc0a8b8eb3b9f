CONSTANTS
  NoPath = NoPath
  ValidPaths = {p}
  OddPaths = {o}
  Byte = {a}
  MAX_TRANSACTION_LEN = 3
  MaxLc = 2
  Decodes <- MCDecodes
  IsBlind <- MCIsBlind
  Formats <- MCFormats
  LastSigChunk = 2
  PK_CHUNKS = 1
  HostWaits = TRUE
  FlagLowered = TRUE
SPECIFICATION Spec
INVARIANTS
  TypeOK
  SignedIsDisplayed
  ReviewIsCurrent
  BlindSigningGate
  VerifiedBeforeRelease
  ReleasedIsApproved
  KeyMatchesAddress
  ApprovedIsSigned
  NoOrphanedCommand
  SessionInv
  StreamIsOneSignature
