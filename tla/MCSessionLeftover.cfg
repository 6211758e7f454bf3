SPECIFICATION Spec
CONSTANTS
    Axes = {x}
    Inputs <- Files
    Places <- Temp
    TempGiven = TRUE
    ChunkSize = 2
    TotalClicks = 2
    MaxRuns = 2
    MaxFaults = 0
    PipeSize = 4
    Busy <- TempWithKid
INVARIANTS
    SuccessIsExact
CHECK_DEADLOCK FALSE
