SPECIFICATION Spec
CONSTANTS
    Chars = {Ama, Bar}
    Stash = Stash
    MaxTime = 4
    MaxUser = 1
PROPERTIES
    KeepsPromise
    CatchesUp
CHECK_DEADLOCK FALSE
