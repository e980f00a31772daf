SPECIFICATION Spec
CONSTANTS
    MaxDevices = 2
    MaxLength = 3
    Regions <- MCRegions
    CbfsFiles <- MCCbfsFiles
INVARIANTS SpillBounded RoundTrip
