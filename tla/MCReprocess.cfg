\* One or two voxels over the limit; a write may fail, a file may be unreadable.
\* The system may really stop for ever: see the README.
SPECIFICATION ReFairSpec
CONSTANTS
    p1 = p1  p2 = p2  w1 = w1  w2 = w2  x = x
    Axes <- OneAxis
    Procs <- Procs2
    Writers <- Writers1
    Keys <- Pair
    Scratch <- Root
    MaxBuffers = 3
    NumFileProcessors = 2
    BufPoints = 2
    NumFiles = 0
    MaxPoints = 0
    MaxWriteErrors = 1
    MaxReadErrors = 0
    MaxPointsPerNode = 2
    Tiled <- PairSizes
    MapMayFail = TRUE
INVARIANTS
    ReprocessKeepsPoints SourceOutlivesReading
PROPERTIES
    EndsUnlessWriteFails
CHECK_DEADLOCK FALSE
