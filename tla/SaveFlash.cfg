SPECIFICATION FairSpec
CONSTANTS
    SectorWords = 4
    FlashSectors = 64
    Window = {62, 63}
    Target = 62
    ListBytes <- MCListBytes
    MaxSaves = 2
    MaxPowerLosses = 1
    MaxPolls = 1
    Drivers = {"winbond", "macronix"}
    InitialSR <- MainMenuSR
INVARIANTS TypeOK SavedIsStored LockFollowsToggle WrittenInOrder RewriteUnprotected
PROPERTIES OnlyPowerLossDamages NeighboursUntouched ImplementsBootFile
    SaveReturns LockSettles
