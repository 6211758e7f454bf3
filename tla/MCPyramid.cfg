\* Two workers, up to four levels, one axis; files of one or more levels, empty
\* ones and those of an earlier run; a task may throw.
SPECIFICATION FairSpec
CONSTANTS
    w1 = w1  w2 = w2  x = x
    pt1 = pt1  pt2 = pt2  pt3 = pt3  pt4 = pt4  pt5 = pt5  pt6 = pt6
    Axes <- OneAxis
    Workers <- Workers2
    Inputs <- OnLine
    MinimumPoints = 2
    MinimumTotalPoints = 3
    MergeFiles = 2
    MergePoints = 2
    MaxErrors = 1
INVARIANTS
    TypeOK OneCutOfTree PointsConserved ChunksAbut NoTaskAtFinish
    ErrorStopsRun IndexIsComplete
PROPERTIES
    ImplementsChunkStore Termination
