SPECIFICATION Spec
CONSTANTS
    Devices <- MCDevices
    Tags <- MCTags
    Def <- MCDef
    Letter <- MCLetter
    MaxLines = 8
    TagOrder <- MCTagOrder
    PxeAvailable = TRUE
    InitialFiles <- MCInitialFiles
    InitialRegions = {"file"}
    CbfsFile <- MCDef
    Toggles = {"com2en", "pciereverse"}
    TypedTimeouts = {0, 59, 65596}
    Garbage = {0}
PROPERTIES SavedSettingsSurvive
