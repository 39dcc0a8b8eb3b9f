SPECIFICATION SamplingSpec
CONSTANTS
    aLen = 3
    Blocks = 2
    Rate = 6
    EtaBytes = 2
    Capacity = 15
    Nibbles = {0, 4, 5, 9, 14, 15}
    MaxRefills = 2
INVARIANT MatrixFromTheStream
CHECK_DEADLOCK FALSE
