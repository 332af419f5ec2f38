SPECIFICATION Spec
CONSTANTS
    SaveNames = {a, b}
    Exe = exe
    WatchesExe = TRUE
    QueueLimit = 2
    MaxChanges = 3
    MaxLinks = 2
INVARIANTS
    TypeOK
PROPERTIES
    RerunOnChange
    HotReload
CHECK_DEADLOCK FALSE
