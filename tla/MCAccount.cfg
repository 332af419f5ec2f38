SPECIFICATION Spec
CONSTANTS
    Chars = {1, 2}
    Catalog <- MCCatalog
    Listed <- MCListed
    Spots <- MCSpots
    Starts <- MCStarts
    Finds = {2}
    MaxStack = 2
    MaxPlays = 2
    MaxSaves = 3
INVARIANTS TypeOK ReconcileConsistent RewindIsStart NoFalseLoot NoMissedLoot TotalsAgree
CHECK_DEADLOCK FALSE
