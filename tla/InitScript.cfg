SPECIFICATION Spec
CONSTANTS
    Pids = {p1, p2, p3}
    NoFile = NoFile
    Empty = Empty
INVARIANTS
    PidFileNamesService
    StaleFileIsAbandoned
