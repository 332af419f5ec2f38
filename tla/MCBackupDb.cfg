SPECIFICATION Spec
CONSTANTS
    CharFiles = {c1}
    StashFiles = {s1}
    Contents = {x}
    NoData = NoData
    NoRow = NoRow
    SecondsPerDay = 1
    MaxClock = 3
    MaxRows = 4
    Tags = {"SaveAndExit", "Autosave"}
    Policies <- MCPolicies
INVARIANTS
    TypeOK
    RetentionIsStable
    RetentionIsMonotone
PROPERTIES
    RetentionKeepsCharAnswers
    SessionsKeptWhole
