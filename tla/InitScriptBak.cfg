SPECIFICATION Spec
CONSTANTS
    Pids = {p1, p2}
    NoFile = NoFile
    Empty = Empty
INVARIANT StopIsTold
