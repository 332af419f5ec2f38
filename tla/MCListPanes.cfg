SPECIFICATION Spec
CONSTANTS
    Panes = {"Backups", "Inventory", "Chronicle", "Session Info"}
    BackupFiles = {2, 3}
    StashFile = 1
    MaxDate = 3
    Grows <- MCGrows
    Snapshots <- MCSnapshots
    Qualities = {"rare"}
    Queries = {"axe", "el"}
    Owners <- MCOwners
    Catalog <- MCCatalog
    NameOf <- MCNameOf
    NoQuery = "none"
    AnyWord = "none"
    Uniques <- MCUniques
    Misc = 9
INVARIANTS TypeOK KeysActOnHighlight RunsPartition SessionTiles AllItemsListed GridComplete
PROPERTIES LeftGoesToHeader
