SPECIFICATION Spec
CONSTANTS
    SectorWords = 4
    FlashSectors = 64
    Window = {62, 63}
    Target = 62
    ListBytes <- MCListBytes
    MaxSaves = 1
    MaxPowerLosses = 0
    MaxPolls = 1
    Drivers = {"winbond"}
    InitialSR <- LockMenuSR
INVARIANTS SavedIsStored
