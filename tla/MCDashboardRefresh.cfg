SPECIFICATION Spec
CONSTANTS
    SaveNames = {a, b}
    Exe = exe
    WatchesExe = FALSE
    QueueLimit = 1
    Absent = Absent
    MaxWrites = 3
    MaxManual = 1
INVARIANTS
    TypeOK
    StaleIsOnItsWay
PROPERTIES
    Refreshes
    QuitEnds
CHECK_DEADLOCK FALSE
