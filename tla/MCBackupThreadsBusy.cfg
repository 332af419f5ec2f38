SPECIFICATION ThreadsSpec
CONSTANTS
    Threads = {watcher, ui}
    Nobody = Nobody
    OldInserts = TRUE
    OtherProcess = TRUE
    MaxSerial = 5
SYMMETRY MCThreads
INVARIANTS
    TransactionEnds
