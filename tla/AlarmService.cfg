SPECIFICATION Spec
CONSTANTS
    CameraTables <- MCCameraTables
    NoIp = NoIp
    ForeignIp = ForeignIp
    ShortPhones = {"short"}
    PicCfgs <- MCPicCfgs
    MaxEvents = 3
INVARIANTS
    HandlesOnlyWhenReady
    ArmedDetects
    SettingsKept
    EachPhoneOnce
    ExitCleansUp
PROPERTIES
    AlarmsAreSent
    StopsInTheEnd
