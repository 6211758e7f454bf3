------------------------------ MODULE Output ------------------------------
(***************************************************************************)
(* The data's way through the program: what FilePrep makes of the input    *)
(* files, the bytes FileProcessor makes of a point, the voxel the pyramid  *)
(* leaves it in, its chunk, and the file that a reader finds it in.  Tiling*)
(* and Pyramid show that no point gets lost between the threads; this is   *)
(* about where points and records lie and what their bytes mean.           *)
(***************************************************************************)
EXTENDS CopcFile

CONSTANTS
    Jobs,       \* [inputs, dimNames, doCube, level, fileLimit]
    Stale,      \* what a buffer may hold where nothing was written
    Workers,    \* the bound on chunks that have a place and are not written yet
    Deepest     \* levels that reprocessing may go below the grid's
ASSUME OutputAssumption ==
    /\ Workers > 0 /\ Deepest \in Nat
    /\ \A j \in Jobs :
        /\ j.inputs \in Seq(Range(j.inputs)) /\ j.fileLimit \in Nat
        /\ \A f \in Range(j.inputs) :
            /\ f \in [las : BOOLEAN, version : Nat, dims : Seq(STRING), scale : [Axes -> Nat],
                     offset : [Axes -> Int], points : Seq([Range(f.dims) -> Int])]
            /\ Axes \subseteq Range(f.dims)
            /\ \A p \in Range(f.points) : InReach(p)

VARIABLES
    job, info,
    stage,      \* "start", "tile", "build", "hierarchy", "header", then "done",
                \* "failed", or "undefined"
    voxels,     \* the points of each voxel of the tree: [of |-> file and index, data]
    copc,       \* CopcSupport
    pending,    \* voxels whose chunk has a place
    stats,
    file

vars == <<job, info, stage, voxels, copc, pending, stats, file>>

NoInfo == [infos |-> <<>>]
Init ==
    /\ job \in Jobs /\ info = NoInfo /\ stage = "start"
    /\ voxels = <<>> /\ copc = <<>> /\ pending = {} /\ stats = NoStats /\ file = {}

Prepare ==
    /\ stage = "start"
    /\ IF FilterRunsOut(FileInfos(job.inputs), job.dimNames)
       THEN stage' = "undefined" /\ UNCHANGED <<info, copc>>
       ELSE /\ stage' = "tile" /\ info' = BaseInfo(job)
            /\ copc' = NewCopc(BaseInfo(job))
    /\ UNCHANGED <<job, voxels, pending, stats, file>>

\* The points that are read, by file and index.
Sources == UNION {{<<i, j>> : j \in DOMAIN info.infos[i].points} : i \in DOMAIN info.infos}
Source(t) == info.infos[t[1]].points[t[2]]

\* Every point is filled in and quantized, gets its voxel in the grid, and is
\* left there, or further up or down, by the phases between.
Tile ==
    /\ stage = "tile" /\ stage' = "build"
    /\ \E s \in Stale, level \in [Sources -> 0..(MaxLevel(info, job) + Deepest)] :
        LET point(t) == [of |-> t, data |-> Fill(info, info.infos[t[1]], Source(t), s)]
            at(t)    == Key(info.bounds, point(t).data, level[t])
            used     == {at(t) : t \in Sources}
        IN  voxels' = [k \in {Root} \cup used \cup UNION {Ancestors(k) : k \in used} |->
                        {point(t) : t \in {u \in Sources : at(u) = k}}]
    /\ UNCHANGED <<job, info, copc, pending, stats, file>>

Tree    == DOMAIN voxels

Logged  == DOMAIN copc.hierarchy \ pending

\* Processor::createChunk() up to its place.  The task of a voxel writes the chunks
\* of its children one by one, when the tasks of the children are done; that of the
\* root, which is its own parent here, begins with the root's chunk.
StartChunk(k) ==
    /\ stage = "build" /\ k \in Tree \ DOMAIN copc.hierarchy
    /\ \A j \in Tree : j.level >= 2 /\ Parent(Parent(j)) = Parent(k) => j \in Logged
    /\ k.level = 1 => Root \in Logged
    /\ \A j \in pending : Parent(j) # Parent(k)
    /\ Cardinality(pending) < Workers
    /\ IF \A p \in voxels[k] : Fits(info, p.data)
       THEN LET n == Cardinality(voxels[k]) IN
            /\ copc' = NewChunk(copc, k, n + 1, n)
            /\ pending' = IF n = 0 THEN pending ELSE pending \cup {k}
            /\ UNCHANGED stage
       ELSE stage' = "failed" /\ UNCHANGED <<copc, pending>>
    /\ UNCHANGED <<job, info, voxels, stats, file>>

\* The rest of it: the compressed points are written, and logOctant() merges
\* their statistics.
WriteChunk(k) ==
    /\ stage = "build" /\ k \in pending
    /\ pending' = pending \ {k}
    /\ LET h == copc.hierarchy[k]
           points == SetToSeq(voxels[k])
       IN  file' = Put(file, Region(h.offset, h.size, "chunk",
                                    [i \in DOMAIN points |-> LasPoint(info, points[i])]))
    /\ stats' = Merge(stats, StatsOf(voxels[k]))
    /\ UNCHANGED <<job, info, stage, voxels, copc>>

\* The end of PyramidManager::run().
WriteChunkTable ==
    /\ stage = "build" /\ DOMAIN copc.hierarchy = Tree /\ pending = {}
    /\ stage' = "hierarchy"
    /\ LET size == 3 + Len(copc.chunkTable) IN
        /\ file' = PutAll(file, TableRegions(copc, PointOffset(info), size))
        /\ copc' = [copc EXCEPT !.evlrOffset = copc.pointPos + 8 + size]
    /\ UNCHANGED <<job, info, voxels, pending, stats>>

WriteHierarchy ==
    /\ stage = "hierarchy" /\ stage' = "header"
    /\ \E order \in Orders(Tree) :
        LET at == Place(Tree, order, copc.evlrOffset + EvlrHeaderSize) IN
        /\ file' = PutAll(file, HierarchyRegions(copc, Tree, order))
        /\ copc' = [copc EXCEPT !.rootOffset = at[Root], !.rootSize = PageSize(Tree, Root)]
    /\ UNCHANGED <<job, info, voxels, pending, stats>>

WriteHeader ==
    /\ stage = "header" /\ stage' = "done"
    /\ file' = PutAll(file, HeaderRegions(info, copc, stats))
    /\ UNCHANGED <<job, info, voxels, copc, pending, stats>>

Ended == stage \in {"done", "failed", "undefined"} /\ UNCHANGED vars

Next ==
    \/ Prepare \/ Tile \/ WriteChunkTable \/ WriteHierarchy \/ WriteHeader \/ Ended
    \/ \E k \in Tree : StartChunk(k) \/ WriteChunk(k)

Spec == Init /\ [][Next]_vars

-----------------------------------------------------------------------------
(* Properties.                                                             *)

\* The value of a point of the output is that of the point it comes from, in
\* every dimension its file has: coordinates to half a step, bits in their place.
Agrees(q, h) ==
    LET f == info.infos[q.of[1]]
        p == Source(q.of)
        bits == q.data[Bits]
    IN  /\ \A a \in Axes : 2 * Abs(q.data[a] * h.scale[a] + h.offset[a] - p[a]) <= h.scale[a]
        /\ \A d \in Range(f.dims) \cap BitsDims : BitsOf(p[d], BitPos(d)) \subseteq bits
        /\ \A d \in Range(f.dims) \ (BitsDims \cup Axes) :
            \/ q.data[d] = p[d]
            \/ Legacy(f, d) /\ q.data[d] = p[d] % 32 /\ BitsOf(p[d] \div 32, 0) \subseteq bits

\* A reader of the finished file that follows the header, the records and the
\* chunk table gets every input point once and nothing else, and one that follows
\* the hierarchy gets the same: places are worked out before the records are
\* written, and chunks and pages are written in any order.
OutputHasInput ==
    stage = "done" =>
        \E h \in HeaderOf(file) :
            LET points == LinearPoints(file, h) IN
            /\ {q.of : q \in Range(points)} = Sources /\ Len(points) = Cardinality(Sources)
            /\ \A q \in Range(points) : Agrees(q, h)
            /\ \E c \in Get(file, h.headerSize + VlrHeaderSize, CopcInfoSize, "copc") :
                /\ UNION {NodePoints(file, e) : e \in EntriesOf(file, c)} = Range(points)
                /\ Cardinality(EntriesOf(file, c)) = Len(copc.chunkTable)

\* Nothing in the output file is ever written over, by a later step or by another
\* region of the same one: places come from newChunk(), from sizes that are worked
\* out in the constructor, and from sums of the sizes of records and pages.
NothingOverwritten ==
    [][ /\ file \subseteq file'
        /\ stage = "header" => Range(HeaderRegions(info, copc, stats)) \subseteq file'
        /\ stage = "hierarchy" =>
            \E order \in Orders(Tree) : Range(HierarchyRegions(copc, Tree, order)) \subseteq file'
      ]_vars

\* For the COPC reader a voxel is a cube between the center and half size of the
\* header, and every point of its chunk lies in that cube.  (If the cube was asked
\* for and the scales agree: see the README.)
PointsInNodes ==
    stage = "done" /\ job.doCube /\ (\A a, b \in Axes : info.scale[a] = info.scale[b]) =>
        \A h \in HeaderOf(file), c \in Get(file, HeaderSize(4) + VlrHeaderSize, CopcInfoSize, "copc") :
            \A e \in EntriesOf(file, c), a \in Axes : \A q \in NodePoints(file, e) :
                LET x == (2 * (q.data[a] * h.scale[a] + h.offset[a]) - c.center2[a] + c.size)
                         * Cells[e.key.level]
                IN  x \in (2 * c.size * e.key.pos[a])..(2 * c.size * (e.key.pos[a] + 1))

\* The header's counts and extent are those of the points of the chunks, whatever
\* the order in which the workers logged them.
HeaderDescribes ==
    stage = "done" =>
        \A h \in HeaderOf(file) :
            LET points == Range(LinearPoints(file, h))
                Value(q, a) == q.data[a] * h.scale[a] + h.offset[a]
            IN  /\ h.pointCount = Cardinality(points)
                /\ \A a \in Axes : /\ \A q \in points : Value(q, a) \in h.min[a]..h.max[a]
                                   /\ {h.min[a], h.max[a]} \subseteq {Value(q, a) : q \in points}
                /\ "ReturnNumber" \in info.dims =>
                    \A i \in 1..15 : h.returns[i] = Cardinality({q \in points : q.data["ReturnNumber"] = i})
=============================================================================
