SPECIFICATION Spec
CONSTANTS
    Devices <- MCDevices
    Tags <- MCTags
    Def <- MCDef
    Letter <- MCLetter
    MaxLines = 8
    TagOrder <- MCTagOrder
    PxeAvailable = TRUE
    InitialFiles <- MCInitialFiles
    InitialRegions = {"file", "zeroed"}
    CbfsFile <- MCDef
    Toggles = {"com2en", "pciereverse"}
    TypedTimeouts = {0, 59, 65596}
    Garbage = {208}
INVARIANTS TypeOK DevicesKept DevicesFirst IdsMatchRows SavedListHasSettings
PROPERTIES ChosenOnTop ReadableSettingsSurvive
