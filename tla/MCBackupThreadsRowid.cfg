SPECIFICATION ThreadsSpec
CONSTANTS
    Threads = {watcher, ui}
    Nobody = Nobody
    OldInserts = TRUE
    OtherProcess = FALSE
    MaxSerial = 4
SYMMETRY MCThreads
INVARIANTS
    DeletesOnlyCondemned
