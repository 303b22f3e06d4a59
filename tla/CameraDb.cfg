SPECIFICATION Spec
CONSTANTS
    Null = Null
    NoIp = "none"
    Comma = Comma
    UintMod = 40
    PortMod = 10
    Tables <- MCTables
INVARIANTS
    FailureLeavesNoCamera
    NamedMeansPhones
    LookupMatchesTable
