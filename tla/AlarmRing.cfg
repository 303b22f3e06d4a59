SPECIFICATION Spec
CONSTANTS
    ALARM_MOTION_DETECT_MAX = 3
    Word = 8
    MaxAlarms = 6
    Events <- MCEvents
INVARIANTS
    TypeOK
    WriteInBounds
    ReadInBounds
    Fifo
    Backlog
    StopKeepsBatch
PROPERTIES
    SleepsOnlyWhenEmpty
    CountIsBacklog
    AlarmsAreHandled
    SigtermStops
    ImplementsQueue
