SPECIFICATION MenusSpec
CONSTANTS
    SectorWords = 2
    FlashSectors = 64
    Window = {62, 63}
    Target = 62
    ListBytes <- MCListBytes
    MaxSaves = 1
    MaxPowerLosses = 1
    MaxPolls = 1
    Drivers = {"winbond"}
    InitialSR <- MainMenuSR
    Choices = {2, 3, 7, 14, 16, 24}
    HastyChoices = {3}
INVARIANTS LostOnlyUnderPartialLock MenuRangeKept
