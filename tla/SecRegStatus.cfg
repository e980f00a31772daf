SPECIFICATION Spec
CONSTANTS
    SectorWords = 1
    FlashSectors = 64
    Window = {64}
    Serials <- MCSerials
    Numbers = {0, 1, 2, 3, 4, 257}
    MaxPolls = 1
    Drivers = {"winbond"}
    InitialSR <- MCInitialSR
    QE = FALSE
INVARIANTS StatusIsTrue
