\* A voxel with exactly MaxPointsPerNode points is tiled into itself, and then deleted.
SPECIFICATION ReFairSpec
CONSTANTS
    p1 = p1  p2 = p2  w1 = w1  w2 = w2  x = x
    Axes <- OneAxis
    Procs <- Procs1
    Writers <- Writers1
    Keys <- Pair
    Scratch <- Root
    MaxBuffers = 3
    NumFileProcessors = 2
    BufPoints = 2
    NumFiles = 0
    MaxPoints = 0
    MaxWriteErrors = 0
    MaxReadErrors = 0
    MaxPointsPerNode = 2
    Tiled <- ExactSizes
    MapMayFail = FALSE
INVARIANTS ReprocessKeepsPoints
CHECK_DEADLOCK FALSE
