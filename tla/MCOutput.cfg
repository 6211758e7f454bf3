SPECIFICATION Spec
CONSTANTS
    Axes <- MCAxes
    UpperCase <- MCUpper
    Jobs <- MCJobs
    One = 10
    ScaleLimit = 20
    IntMax = 30
    LasChunk = 2
    MaxPointsPerNode = 1
    LevelBreak = 1
    MinHierarchySize = 1
    WktSize = 5
    Stale = {77}
    Workers = 2
    Deepest = 1
INVARIANTS
    OutputHasInput PointsInNodes HeaderDescribes
PROPERTIES
    NothingOverwritten
