CONSTANTS
  NoPath = NoPath
  ValidPaths = {p}
  OddPaths = {}
  Byte = {a}
  MAX_TRANSACTION_LEN = 2
  MaxLc = 1
  Decodes <- MCDecodes
  IsBlind <- MCIsBlind
  Formats <- MCFormats
  LastSigChunk = 1
  PK_CHUNKS = 1
  HostWaits = FALSE
  FlagLowered = FALSE
SPECIFICATION Spec
INVARIANTS
  ApprovedIsSigned
  StreamIsOneSignature
