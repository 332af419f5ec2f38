SPECIFICATION Spec
CONSTANTS
    CharFiles = {c1}
    StashFiles = {}
    NoData = NoData
    NoRow = NoRow
    Absent = Absent
    NoSave = NoSave
    Unlinked = Unlinked
    SecondsPerDay = 1
    MaxClock = 3
    MaxSaves = 1
    MaxCommands = 3
    Policy <- MCPolicy
    CliPolicy <- MCCliPolicy
    Env = {"launch", "exit", "delete", "repair", "recover", "busy", "overflow"}
INVARIANTS
    TypeOK
    DeletionRecorded
CHECK_DEADLOCK FALSE
