CONSTANTS
  NoPath = NoPath
  ValidPaths = {p}
  OddPaths = {}
  Byte = {a}
  MAX_TRANSACTION_LEN = 1
  MaxLc = 1
  Decodes <- MCDecodes
  IsBlind <- MCIsBlind
  Formats <- MCFormats
  LastSigChunk = 1
  PK_CHUNKS = 1
  HostWaits = TRUE
  FlagLowered = FALSE
SPECIFICATION Spec
INVARIANT VerifiedBeforeRelease
