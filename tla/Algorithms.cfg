SPECIFICATION AlgorithmSpec
CONSTANTS
    KeyValues <- MCKeyValues
    Commitments <- MCCommitments
    SecretTerms <- MCSecretTerms
    KeyTerms <- MCKeyTerms
    N = 7
    TAU = 4
    RATE = 4
    SignBytes = 1
    MaxBytes = 7
    MaxAttempts = 814
    CRYPTO_BYTES = 4627
    CRYPTO_PUBLIC_KEY_BYTES = 2592
    SIGNATURE_CHUNK_SIZE = 258
    SIGNATURE_LAST_CHUNK_SIZE = 241
    SIGNATURE_LAST_CHUNK = 17
    PK_CHUNK_SIZE = 258
    PK_LAST_CHUNK_SIZE = 12
    PK_CHUNKS = 11
    Starts <- MCStarts
INVARIANTS
    RangesHold
    HighBitsKept
    HintRecovers
    ChallengeWeight
    EveryDecodedTxIsShown
    ReviewReadsBack
    CoefficientsFit
    TransformsMultiply
    ChunksMakeTheObject
PROPERTIES
    NoncesGrow
    KeccakIsFIPS202
CHECK_DEADLOCK FALSE
