SPECIFICATION Spec
CONSTANTS
    READ_LINE_BUF_SIZE = 4
    MaxBytes = 7
INVARIANTS
    TypeOK
    BytesConserved
    LinesAreLines
PROPERTIES
    LinesArrive
    FullForEver
