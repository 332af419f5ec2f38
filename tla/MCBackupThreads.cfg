SPECIFICATION ThreadsSpec
CONSTANTS
    Threads = {watcher, ui}
    Nobody = Nobody
    OldInserts = FALSE
    OtherProcess = FALSE
    MaxSerial = 6
SYMMETRY MCThreads
INVARIANTS
    Inv
    DeletesOnlyCondemned
