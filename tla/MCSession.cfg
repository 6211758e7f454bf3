SPECIFICATION FairSpec
CONSTANTS
    Axes = {x}
    Inputs <- Files
    Places <- Temp
    TempGiven = TRUE
    ChunkSize = 2
    TotalClicks = 2
    MaxRuns = 2
    MaxFaults = 1
    PipeSize = 4
    Busy <- TempWithKid
INVARIANTS
    ExactUnlessLeftover
    PlaceRestored
    OneProgram
PROPERTIES
    PercentGrows
    PercentIsReported
    EndIsSeen
CHECK_DEADLOCK FALSE
