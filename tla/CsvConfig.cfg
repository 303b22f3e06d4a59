SPECIFICATION Spec
CONSTANTS
    block_len = 5
    UintMod = 16
    Columns <- MCColumns
    DbPort = 2
    Uses <- MCUses
INVARIANTS
    TypeOK
    BufferIsOwned
    LinesOfTheFile
    ConfigMatchesFile
PROPERTY ReaderEnds
