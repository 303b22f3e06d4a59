SPECIFICATION TextSpec
CONSTANTS
    Pieces <- MCPieces
    MaxPieces = 3
    PhoneSizes = {0, 6, 7, 11}
    TimeSizes = {14, 19}
    IpSizes = {7, 15}
    BufSize = 268
INVARIANTS
    DecodesUtf8
    PartsInPlace
    FailsOnlyOutOfBounds
PROPERTY MessageIsPacked
