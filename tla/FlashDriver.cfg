SPECIFICATION Spec
CONSTANTS
    Chips <- AllChips
    Window <- SampleWindow
    InitialMem <- ErasedNear
    Writes <- SampleWrites
    Erases <- SampleErases
    MaxCalls = 2
    MaxPolls = 1
INVARIANTS
    PartIsChip
    CallIsExact
    CallStaysInRange
