SPECIFICATION StreamsSpec
CONSTANTS
    RATE = 3
    Suffix = "0x1F"
    MaxMessage = 10
    MaxOutput = 11
    aLen = 3
    Blocks = 2
    Rate = 6
    EtaBytes = 2
    Capacity = 15
    Nibbles = {0, 4, 5, 9, 14, 15}
    MaxRefills = 2
    K = 2
    N = 5
    OMEGA = 3
    WordGroups <- MCWordGroups
    ByteGroups <- MCByteGroups
INVARIANTS
    SpongeInPieces
    SamplersReadTheStream
    HintsComeBack
    FormatsComeBack
CHECK_DEADLOCK FALSE
