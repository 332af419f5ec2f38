SPECIFICATION Spec
CONSTANTS
    CharFiles = {c1}
    StashFiles = {s1}
    NoData = NoData
    NoRow = NoRow
    Absent = Absent
    NoSave = NoSave
    Unlinked = Unlinked
    SecondsPerDay = 1
    MaxClock = 3
    MaxSaves = 2
    MaxCommands = 2
    Policy <- MCPolicy
    CliPolicy <- MCCliPolicy
    Env = {"launch", "exit", "import", "edit", "recover", "cli", "busy", "overflow"}
INVARIANTS
    Captured
PROPERTIES
    RecoveryKeepsBytes
CHECK_DEADLOCK FALSE
