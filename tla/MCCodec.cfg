SPECIFICATION Spec
CONSTANTS
    WordBits = 24
    ByteBits = 6
    SymbolShift = 11
    BitShift = 9
    RawBits = 4
    ShortBits = 3
    IntBits = 10
    HighBits = 4
    ShortInt = 6
    HalfBits = 3
    MaxXYBits = 4
    MaxZBits = 2
    Multi = 6
    MultiMinus = 2
    TagLimit = 4
    ReturnMap <- MCReturnMap
    PointJobs <- MCPointJobs
    TableJobs <- MCTableJobs
INVARIANTS
    PointsDecode
    TableDecodes
\* A job ends when everything is read.
CHECK_DEADLOCK FALSE
