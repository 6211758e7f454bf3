------------------------------- MODULE Prep -------------------------------
(***************************************************************************)
(* prep/FilePrep, epf/Grid and the point processors of epf/FileProcessor   *)
(* as operators: what the program makes of a list of input files before it *)
(* reads them, and of each of their points when it does.                   *)
(*                                                                         *)
(* A coordinate is an integer; a file's scales are positive and one scale  *)
(* unit is the least scale the program chooses.  A point is a function     *)
(* from its dimensions to numbers; the bits of "UntwineBitsUntwine" are a  *)
(* set of bit positions.                                                   *)
(***************************************************************************)
EXTENDS Voxel, Sequences, SequencesExt

CONSTANTS
    One,                \* 1.0 in units of the least scale
    ScaleLimit,         \* the two billion of calcScale()
    IntMax,             \* the limit of int32_t
    LasChunk,           \* the points of a LAS file that one FileProcessor reads
    MaxPointsPerNode,   \* of epf/EpfTypes
    UpperCase           \* the dimension names without a lower case letter

Coords == {"X", "Y", "Z"}
ASSUME PrepAssumption ==
    /\ Axes \subseteq Coords /\ Coords \subseteq UpperCase
    /\ One \in Nat \ {0} /\ ScaleLimit \in Nat \ {0} /\ ScaleLimit + One <= IntMax
    /\ LasChunk \in Nat \ {0} /\ MaxPointsPerNode > 0

Least(S)    == CHOOSE x \in S : \A y \in S : x <= y
Greatest(S) == CHOOSE x \in S : \A y \in S : y <= x
Abs(n)      == IF n < 0 THEN -n ELSE n
\* std::round(n / d)
Round(n, d) == IF n >= 0 THEN (2 * n + d) \div (2 * d) ELSE -((d - 2 * n) \div (2 * d))

-----------------------------------------------------------------------------
(* createFileInfos().                                                      *)

\* A LAS file is read in parts, by several FileProcessors.
LasParts(f) ==
    [i \in 1..((Len(f.points) + LasChunk - 1) \div LasChunk) |->
        [f EXCEPT !.points = SubSeq(@, LasChunk * (i - 1) + 1,
                                    IF LasChunk * i < Len(@) THEN LasChunk * i ELSE Len(@))]]
\* The parts of a LAS file are put before all others, another file after them.
FileInfos(inputs) ==
    FoldLeft(LAMBDA infos, f : IF f.las THEN LasParts(f) \o infos ELSE Append(infos, f), <<>>, inputs)

-----------------------------------------------------------------------------
(* filterDims(): an iterator is moved on after an erase as after none, so  *)
(* the name after an erased one is kept unseen; after the erase of the     *)
(* last name it runs out of the list, which is undefined.                  *)

\* The names of --dims are made upper case, those of a file are not.
Allowed(dimNames) == (dimNames \cap UpperCase) \cup Coords
Erased(dims, allowed) ==
    LET e[i \in 0..Len(dims)] == i > 0 /\ dims[i] \notin allowed /\ ~e[i - 1] IN e
FilterDims(f, dimNames) ==
    IF dimNames = {} THEN f
    ELSE LET e == Erased(f.dims, Allowed(dimNames)) IN
         [f EXCEPT !.dims = [i \in 1..Cardinality({j \in 1..Len(@) : ~e[j]}) |->
            LET kept == {j \in 1..Len(f.dims) : ~e[j]} IN
            f.dims[CHOOSE j \in kept : Cardinality({h \in kept : h <= j}) = i]]]
FilterRunsOut(infos, dimNames) ==
    /\ dimNames # {}
    /\ \E i \in DOMAIN infos :
        LET d == infos[i].dims IN d # <<>> /\ Erased(d, Allowed(dimNames))[Len(d)]

-----------------------------------------------------------------------------
(* determineDims(), fillMetadata() and untwine/Common.                     *)

Bits == "UntwineBitsUntwine"
BitsDims == {"Synthetic", "KeyPoint", "Overlap", "Withheld", "ScanChannel",
             "ScanDirectionFlag", "EdgeOfFlightLine", "ClassFlags"}
BitPos(d) == CASE d = "Synthetic" -> 0 [] d = "KeyPoint" -> 1 [] d = "Withheld" -> 2
               [] d = "Overlap" -> 3 [] d = "ScanChannel" -> 4 [] d = "ScanDirectionFlag" -> 6
               [] d = "EdgeOfFlightLine" -> 7 [] d = "ClassFlags" -> 0

LasDims == Coords \cup {"Intensity", "ReturnNumber", "NumberOfReturns", "Classification",
    "UserData", "ScanAngleRank", "PointSourceId", "GpsTime", "Red", "Green", "Blue", "Infrared"}
ExtraDims(dims) == dims \ (LasDims \cup {Bits})

\* The output's dimensions are those of all files.
OutputDim(d) == IF d \in BitsDims THEN Bits ELSE d
OutputDims(infos) == {OutputDim(d) : d \in UNION {Range(infos[i].dims) : i \in DOMAIN infos}}

PointFormat(dims) ==
    IF "Infrared" \in dims THEN 8 ELSE IF dims \cap {"Red", "Green", "Blue"} # {} THEN 7 ELSE 6

-----------------------------------------------------------------------------
(* Scale, bounds and offset, one axis at a time.                           *)

Low(infos, a)  == Least(UNION {{p[a] : p \in Range(infos[i].points)} : i \in DOMAIN infos})
High(infos, a) == Greatest(UNION {{p[a] : p \in Range(infos[i].points)} : i \in DOMAIN infos})

\* The coarsest scale there is here, and a point that is not out of its reach.
Coarsest   == 1000
InReach(p) == \A a \in Axes : Abs(p[a]) <= Coarsest * ScaleLimit
\* calcScale(): a power of ten with which half the range fits an integer.
ScaleFromBounds(low, high) ==
    Least({s \in {1, 10, 100, Coarsest} : high - low <= 2 * s * ScaleLimit})
\* determineScale(): the coarsest scale, unless no file has one on some axis.
Scale(infos) ==
    LET coarsest == [a \in Axes |-> Greatest({0} \cup {infos[i].scale[a] : i \in DOMAIN infos})]
    IN  IF \A a \in Axes : coarsest[a] # 0 THEN coarsest
        ELSE [a \in Axes |-> ScaleFromBounds(Low(infos, a), High(infos, a))]

\* Fault: the bounds do not make up for the quantization.
BoundsTight(infos, doCube, scale) ==
    LET side == Greatest({High(infos, a) - Low(infos, a) : a \in Axes}) IN
    [a \in Axes |-> [min |-> Low(infos, a),
                     max |-> IF doCube THEN Low(infos, a) + side ELSE High(infos, a)]]

\* determineBounds()
Bounds(infos, doCube, scale) ==
    LET side == Greatest({High(infos, a) - Low(infos, a) : a \in Axes}) IN
    [a \in Axes |->
        [min |-> Low(infos, a) - scale[a],
         max |-> scale[a] + IF doCube THEN Low(infos, a) + side ELSE High(infos, a)]]

\* determineOffset(): the median of the files' offsets, or for want of one of
\* them the middle of the points.
Median(s) ==
    CHOOSE x \in Range(s) : /\ Cardinality({i \in DOMAIN s : s[i] < x}) <= Len(s) \div 2
                           /\ Cardinality({i \in DOMAIN s : s[i] <= x}) > Len(s) \div 2
OffsetFromBounds(low, high, scale) ==
    LET half == (high - low) \div (2 * scale) IN One * Round(low + half * scale, One)
Offset(infos, scale) ==
    [a \in Axes |-> IF \A i \in DOMAIN infos : infos[i].las
                    THEN Median([i \in DOMAIN infos |-> infos[i].offset[a]])
                    ELSE OffsetFromBounds(Low(infos, a), High(infos, a), scale[a])]

-----------------------------------------------------------------------------
\* run(): what the phases after it know of the files.
BaseInfo(job) ==
    LET all    == FileInfos(job.inputs)
        infos  == [i \in DOMAIN all |-> FilterDims(all[i], job.dimNames)]
        dims   == OutputDims(infos)
        scale  == Scale(infos)
        limit  == IF Len(infos) < job.fileLimit THEN Len(infos) ELSE job.fileLimit
    IN  [infos     |-> SubSeq(infos, 1, limit),
         dims      |-> dims,
         format    |-> PointFormat(dims),
         scale     |-> scale,
         bounds    |-> Bounds(infos, job.doCube, scale),
         offset    |-> Offset(infos, scale),
         numPoints |-> FoldSeq(LAMBDA f, n : Len(f.points) + n, 0, infos)]

-----------------------------------------------------------------------------
(* epf/Grid.                                                               *)

Side(b, a) == b[a].max - b[a].min
CalcLevel(b, numPoints, cubic) ==
    LET longest == Greatest({Side(b, a) : a \in Axes})
        Halved(l) == IF cubic THEN {a \in Axes : Side(b, a) * 2 ^ l >= longest} ELSE Axes
        level[n \in 0..numPoints, l \in 0..numPoints] ==
            IF n <= MaxPointsPerNode THEN l
            ELSE level[n \div 2 ^ Cardinality(Halved(l)), l + 1]
    IN  level[numPoints, 0]
\* The constructor and resetLevel(); a level of -1 is to be guessed.
MaxLevel(info, job) ==
    LET l == IF job.level = -1 THEN CalcLevel(info.bounds, info.numPoints, job.doCube) ELSE job.level
    IN  IF l < 1 THEN 1 ELSE l

\* The cells along an axis.
Cells[l \in Nat] == IF l = 0 THEN 1 ELSE 2 * Cells[l - 1]
\* key(), and where it would be if it were not kept inside the grid.
Position(b, p, l) == [a \in Axes |-> ((p[a] - b[a].min) * Cells[l]) \div Side(b, a)]
Key(b, p, l) ==
    [level |-> l, pos |-> [a \in Axes |->
        LET i == Position(b, p, l)[a] IN
        IF i < 0 THEN 0 ELSE IF i >= Cells[l] THEN Cells[l] - 1 ELSE i]]

-----------------------------------------------------------------------------
(* FileProcessor's point processors, and Point::quantize().                *)

\* A number's bits, moved to their place in a byte.
BitsOf(v, shift) == {shift + i : i \in {j \in 0..7 : (v \div 2 ^ j) % 2 = 1}} \cap 0..7

Packed(f, p) == UNION {BitsOf(p[d], BitPos(d)) : d \in Range(f.dims) \cap BitsDims}
\* The classification of LAS before 1.4 has three flags in it, and a code for
\* overlap points.
Legacy(f, d)   == d = "Classification" /\ f.las /\ f.version < 14
LegacyBits(f, p) ==
    IF \E d \in Range(f.dims) : Legacy(f, d)
    THEN BitsOf(p["Classification"] \div 32, 0) \cup {3 : c \in {12} \cap {p["Classification"]}}
    ELSE {}

Quantize(x, scale, offset) == Round(x - offset, scale) * scale + offset

\* fill() and quantize(): what a file does not have keeps what the buffer had.
Fill(info, f, p, stale) ==
    LET own == {OutputDim(d) : d \in Range(f.dims)} IN
    [d \in info.dims |->
        CASE d \notin own -> IF d = Bits THEN BitsOf(stale, 0) ELSE stale
          [] d \in Axes -> Quantize(p[d], info.scale[d], info.offset[d])
          [] d = Bits /\ d \in own -> Packed(f, p) \cup LegacyBits(f, p)
          [] d \in own \ (Axes \cup {Bits}) -> IF Legacy(f, d) THEN p[d] % 32 ELSE p[d]]
=============================================================================
