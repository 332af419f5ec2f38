SPECIFICATION Spec
CONSTANTS
    PaneTypes <- MCPaneTypes
    Categories <- MCCategories
    Characters <- MCCharacters
    StoredLayouts <- MCStoredLayouts
    Numbers <- MCNumbers
    Screens <- MCScreens
    FewPanes = 4
    MaxEdits = 2
INVARIANTS
    TypeOK
    OneOverlay
    PointersAlive
    SingletonPanes
    SettingsSurvive
    PanesTile
CHECK_DEADLOCK FALSE
