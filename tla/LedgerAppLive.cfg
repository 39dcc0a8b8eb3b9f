CONSTANTS
  NoPath = NoPath
  ValidPaths = {p}
  OddPaths = {}
  Byte = {a}
  MAX_TRANSACTION_LEN = 2
  MaxLc = 2
  Decodes <- MCDecodes
  IsBlind <- MCIsBlind
  Formats <- MCFormats
  LastSigChunk = 2
  PK_CHUNKS = 1
  HostWaits = TRUE
  FlagLowered = TRUE
SPECIFICATION FairSpec
PROPERTIES
  ImplementsApprovedSigning
  SigningEnds
