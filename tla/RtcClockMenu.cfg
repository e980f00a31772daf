SPECIFICATION Spec
CONSTANTS
    TypedYears = {1899, 1900, 2000, 2004, 2099, 2100}
    TypedMonths = {0, 2, 4, 12, 13}
    TypedDays = {0, 28, 29, 30, 31, 32}
    TypedTimes = {23, 60}
    InitialClocks <- MCInitialClocks
INVARIANTS TypeOK DatesExist
PROPERTIES OnlyImpossibleDaysFixedBut2000
