CONSTANTS
  NoPath = NoPath
  ValidPaths = {p}
  OddPaths = {o}
  Byte = {a}
  MAX_TRANSACTION_LEN = 1
  MaxLc = 1
  Decodes <- MCDecodes
  IsBlind <- MCIsBlind
  Formats <- MCFormats
  LastSigChunk = 1
  PK_CHUNKS = 1
  HostWaits = TRUE
  FlagLowered = TRUE
SPECIFICATION Spec
INVARIANT SignsWithValidPath
