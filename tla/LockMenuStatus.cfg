SPECIFICATION Spec
CONSTANTS
    SectorWords = 1
    FlashSectors = 2048
    Window = {}
    Choices = {4, 30}
    HastyChoices = {4}
    InitialSR <- MCInitialSR
INVARIANTS StatusKeepsLock
