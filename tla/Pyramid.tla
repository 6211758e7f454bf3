------------------------------ MODULE Pyramid ------------------------------
(***************************************************************************)
(* bu: from the temporary files, one per voxel, to the chunks of the COPC  *)
(* file.  The main thread (BuPyramid, PyramidManager) collects octants and *)
(* hands a voxel to the thread pool once all its children are complete.  A *)
(* Processor keeps a sample of the children's points for the voxel, writes *)
(* what is left of each child as a chunk, and queues the voxel's octant.   *)
(*                                                                         *)
(* A point is a model value, a temporary file the set of its points, and a *)
(* chunk takes as many bytes as it has points.  Which points a sample      *)
(* takes is left open, as is the order in which a Processor writes its     *)
(* chunks.                                                                 *)
(*                                                                         *)
(* An operator marked "Fault" is no part of the specification: it is the   *)
(* definition below it with a plausible bug, which a property must catch.  *)
(***************************************************************************)
EXTENDS Voxel, SequencesExt

CONSTANTS
    Workers,            \* the threads of PyramidManager::m_pool
    Inputs,             \* the sets of temporary files a run may find
    MinimumPoints,      \* a child with fewer points is hoisted
    MinimumTotalPoints, \* a voxel with fewer points is hoisted whole
    MergeFiles,         \* an octant with this many files has its small ones merged
    MergePoints,        \* a file with fewer points is small
    MaxErrors           \* bound: tasks of a run that may throw

ASSUME PyramidAssumption ==
    /\ Workers # {} /\ IsFiniteSet(Workers)
    /\ \A in \in Inputs : DOMAIN in \subseteq VoxelKey /\ IsFiniteSet(DOMAIN in)
    \* A file has the points of a cell of the grid.
    /\ \A in \in Inputs : \A k \in DOMAIN in : InTree(k) /\ IsFiniteSet(in[k])
    /\ MinimumPoints \in Nat /\ MinimumTotalPoints \in Nat /\ MaxErrors \in Nat
    /\ MergeFiles \in Nat \ {0} /\ MergePoints \in Nat
    \* A voxel's points are in its file, or in files below it.
    /\ \A in \in Inputs : \A j, k \in DOMAIN in : j # k => in[j] \cap in[k] = {}

VARIABLES
    disk,       \* the points of each temporary file
    queue,      \* m_queue: octants that are complete
    completes,  \* m_completes: octants whose voxel is not complete
    error,      \* m_error is set
    popped,     \* the octant the main thread took off the queue
    main,       \* where BuPyramid::run is
    tasks,      \* m_pool: voxels waiting for a worker
    wpc,        \* where each worker is
    octant,     \* Processor::m_vi: the octant the worker fills
    kids,       \* Processor::m_vi: the octants of its children
    todo,       \* the chunks the worker has not written yet
    chunk,      \* the chunk it is writing, and where
    failures,   \* tasks that threw
    pointPos,   \* CopcSupport::m_pointPos
    chunkTable, \* CopcSupport::m_chunkTable
    hierarchy,  \* CopcSupport::m_hierarchy
    data,       \* the output file: the points written at each offset
    written,    \* m_written
    childCounts,\* m_childCounts
    found       \* m_allFiles: the temporary files of this run

mainVars  == <<completes, popped, main, childCounts>>
poolVars  == <<wpc, octant, kids, todo, chunk, failures>>
copcVars  == <<pointPos, chunkTable, hierarchy>>
vars == <<disk, queue, completes, error, popped, main, tasks, wpc, octant, kids,
          todo, chunk, failures, pointPos, chunkTable, hierarchy, data, written,
          childCounts, found>>

-----------------------------------------------------------------------------
\* Fault: the merge file has the name of the voxel's own file.
MergedOver(k) == [key |-> k, merged |-> FALSE]

\* The temporary files of a voxel: the one tiling or sampling writes, and the
\* one the small files of its octant are merged in.
Bin(k)    == [key |-> k, merged |-> FALSE]
Merged(k) == [key |-> k, merged |-> TRUE]

\* OctantInfo.
Octant(k, fs, must) == [key |-> k, files |-> fs, mustWrite |-> must]
NoOctant == Octant(Root, {}, FALSE)

\* The partial function f with x mapped to v.
Put(f, x, v) == [y \in DOMAIN f \cup {x} |-> IF y = x THEN v ELSE f[y]]

PointsIn(fs, d) == UNION {d[f] : f \in fs}
NumPoints(o, d) == Cardinality(PointsIn(o.files, d))

\* Fault: no file is dropped.
KeptAll(in) == DOMAIN in

\* getInputFiles(): files of voxels with a file below them are dropped.
Kept(in) == DOMAIN in \ UNION {Ancestors(k) : k \in DOMAIN in}

\* Faults: ancestors of files are queued too; only siblings of files are queued.
NeededTwice(ks)    == (UNION {UNION {Children(p) : p \in Ancestors(k)} : k \in ks}) \ ks
NeededSiblings(ks) == (UNION {Children(Parent(k)) : k \in ks}) \ ks

\* queueWork(): the voxels to process are the files' ancestors; their children
\* are needed too, but where a file or an ancestor of one is.
Parents(ks) == UNION {Ancestors(k) : k \in ks}
Needed(ks)  == (UNION {Children(p) : p \in Parents(ks)}) \ UNION {Lineage(k) : k \in ks}

FirstPos == 1   \* CopcSupport's first m_pointPos; offset 0 marks an empty chunk
NoChunk  == [key |-> Root, points |-> {}, at |-> 0]

Init ==
    /\ \E in \in Inputs :
        /\ found = Kept(in)
        /\ disk = [f \in {Bin(k) : k \in DOMAIN in} |-> in[f.key]]
    /\ queue = <<>> /\ completes = <<>> /\ error = FALSE
    /\ popped = NoOctant /\ main = "start"
    /\ tasks = <<>>
    /\ wpc = [w \in Workers |-> "idle"]
    /\ octant = [w \in Workers |-> NoOctant]
    /\ kids = [w \in Workers |-> [d \in Dirs |-> NoOctant]]
    /\ todo = [w \in Workers |-> {}]
    /\ chunk = [w \in Workers |-> NoChunk]
    /\ failures = 0
    /\ pointPos = FirstPos /\ chunkTable = <<>> /\ hierarchy = <<>>
    /\ data = <<>> /\ written = <<>> /\ childCounts = <<>>

-----------------------------------------------------------------------------
(* The main thread.                                                        *)

\* BuPyramid::queueWork; run() throws when there is no voxel to process.
QueueWork ==
    /\ main = "start"
    /\ \E have \in SetToSeqs(found), need \in SetToSeqs(Needed(found)) :
        queue' = [i \in DOMAIN have |-> Octant(have[i], {Bin(have[i])}, FALSE)]
                   \o [i \in DOMAIN need |-> Octant(need[i], {}, FALSE)]
    /\ main' = IF Parents(found) = {} THEN "failed" ELSE "run"
    /\ UNCHANGED <<disk, completes, error, popped, tasks, poolVars, copcVars, data,
                   written, childCounts, found>>

\* Fault: the error is not looked at.
PopIgnoringError ==
    /\ main = "run" /\ queue # <<>>
    /\ popped' = Head(queue)
    /\ queue' = Tail(queue)
    /\ main' = IF Head(queue).key = Root THEN "finish" ELSE "process"
    /\ UNCHANGED <<disk, completes, error, tasks, poolVars, copcVars, data, written,
                   childCounts, found>>

\* PyramidManager::run takes an octant; the error is looked at first.
PopOctant ==
    /\ main = "run" /\ queue # <<>>
    /\ popped' = Head(queue)
    /\ queue' = Tail(queue)
    /\ main' = CASE error -> "join"
                 [] ~error /\ Head(queue).key = Root -> "finish"
                 [] OTHER -> "process"
    /\ UNCHANGED <<disk, completes, error, tasks, poolVars, copcVars, data, written,
                   childCounts, found>>

\* Fault: the children stay on m_completes.
ProcessKeeping ==
    LET p   == Parent(popped.key)
        all == IF popped.key \in DOMAIN completes THEN completes
                                                  ELSE Put(completes, popped.key, popped)
        vi  == [d \in Dirs |-> all[Child(p, d)]]
    IN  /\ main = "process"
        /\ main' = "run"
        /\ completes' = all
        /\ tasks' = IF Children(p) \subseteq DOMAIN all
                      THEN Append(tasks, [key |-> p, kids |-> vi]) ELSE tasks
        /\ UNCHANGED <<queue, disk, error, popped, poolVars, copcVars, data, written,
                       childCounts, found>>

\* process(): the last of a voxel's children to complete sets it going.
Process ==
    LET p   == Parent(popped.key)
        all == IF popped.key \in DOMAIN completes THEN completes
                                                  ELSE Put(completes, popped.key, popped)
        vi  == [d \in Dirs |-> all[Child(p, d)]]
    IN  /\ main = "process"
        /\ main' = "run"
        /\ IF Children(p) \subseteq DOMAIN all
             THEN /\ completes' = [k \in DOMAIN all \ Children(p) |-> all[k]]
                  /\ IF \A d \in Dirs : NumPoints(vi[d], disk) = 0
                       THEN queue' = Append(queue, Octant(p, {}, FALSE)) /\ UNCHANGED tasks
                       ELSE tasks' = Append(tasks, [key |-> p, kids |-> vi]) /\ UNCHANGED queue
             ELSE completes' = all /\ UNCHANGED <<queue, tasks>>
        /\ UNCHANGED <<disk, error, popped, poolVars, copcVars, data, written,
                       childCounts, found>>

\* After an error: m_pool.join() runs what is queued, then run() throws.
JoinPool ==
    /\ main = "join" /\ tasks = <<>> /\ \A w \in Workers : wpc[w] = "idle"
    /\ main' = "failed"
    /\ UNCHANGED <<disk, queue, completes, error, popped, tasks, poolVars, copcVars,
                   data, written, childCounts, found>>

\* createHierarchy() and the writing of the hierarchy and the header, which
\* wants the statistics of some chunk.  Only voxels whose ancestors were
\* written, the root apart, are reached.
Finish ==
    LET reached == {Root} \cup {k \in DOMAIN written : Lineage(k) \subseteq DOMAIN written}
    IN  /\ main = "finish"
        /\ childCounts' = [k \in reached |-> Cardinality({j \in reached : k \in Ancestors(j)})]
        /\ main' = IF DOMAIN written = {} THEN "failed" ELSE "done"
        /\ UNCHANGED <<disk, queue, completes, error, popped, tasks, poolVars, copcVars,
                       data, written, found>>

-----------------------------------------------------------------------------
(* Processors.                                                             *)

TakeTask(w) ==
    /\ wpc[w] = "idle" /\ tasks # <<>>
    /\ octant' = [octant EXCEPT ![w] = Octant(Head(tasks).key, {}, FALSE)]
    /\ kids' = [kids EXCEPT ![w] = Head(tasks).kids]
    /\ tasks' = Tail(tasks)
    /\ wpc' = [wpc EXCEPT ![w] = "prepare"]
    /\ UNCHANGED <<disk, queue, error, mainVars, todo, chunk, failures, copcVars, data,
                   written, found>>

\* mergeSmallFiles().
Small(o) == IF Cardinality(o.files) >= MergeFiles
              THEN {f \in o.files : Cardinality(disk[f]) < MergePoints} ELSE {}
MergeOctant(o) ==
    LET small == Small(o)
    IN  [o EXCEPT !.files = (@ \ small) \cup
                            (IF PointsIn(small, disk) = {} THEN {} ELSE {Merged(o.key)})]
MergeDisk(os) ==
    LET new == {Merged(o.key) : o \in {q \in os : Cardinality(q.files) >= MergeFiles}}
    IN  [f \in DOMAIN disk \cup new |->
            IF f \in new
              THEN PointsIn(UNION {Small(o) : o \in {q \in os : q.key = f.key}}, disk)
              ELSE disk[f]]

\* runLocal(): the children after the merging, those hoisted because they are
\* small, and what is left of all of them.
MergedDisk(w) == MergeDisk({kids[w][d] : d \in Dirs})
MergedKid(w, d) == MergeOctant(kids[w][d])
KidPoints(w, d) == NumPoints(MergedKid(w, d), MergedDisk(w))
Hoisted(w) == IF MapThenSumSet(LAMBDA d : KidPoints(w, d), Dirs) < MinimumTotalPoints
                THEN Dirs ELSE {d \in Dirs : KidPoints(w, d) < MinimumPoints}
HoistNoFiles(w) == {}   \* Fault: the files of hoisted children are dropped.
HoistedFiles(w) == UNION {MergedKid(w, d).files : d \in Hoisted(w)}
RestFiles(w) == UNION {MergedKid(w, d).files : d \in Dirs \ Hoisted(w)}
Rest(w) == [d \in Dirs |-> IF d \in Hoisted(w) THEN [MergedKid(w, d) EXCEPT !.files = {}]
                                               ELSE MergedKid(w, d)]

\* The files that are mapped: those sampled, and the root's.  An empty one
\* cannot be.
Mapped(w)   == RestFiles(w) \cup (IF octant[w].key = Root THEN HoistedFiles(w) ELSE {})
Readable(w) == \A f \in Mapped(w) : MergedDisk(w)[f] # {}

\* Faults: only children with points get a chunk; accepted points stay below too.
KidChunksNoMark(w, accepted) ==
    {[key |-> o.key, points |-> PointsIn(o.files, MergedDisk(w)) \ accepted] :
        o \in {Rest(w)[d] : d \in {e \in Dirs : PointsIn(Rest(w)[e].files, MergedDisk(w)) # {}}}}
KidChunksTwice(w, accepted) ==
    {[key |-> o.key, points |-> PointsIn(o.files, MergedDisk(w))] :
        o \in {Rest(w)[d] : d \in {e \in Dirs : Rest(w)[e].mustWrite
                                    \/ PointsIn(Rest(w)[e].files, MergedDisk(w)) # {}}}}

\* The children that get a chunk, with the points that were not accepted.
KidChunks(w, accepted) ==
    {[key |-> o.key, points |-> PointsIn(o.files, MergedDisk(w)) \ accepted] :
        o \in {Rest(w)[d] : d \in {e \in Dirs : Rest(w)[e].mustWrite
                                    \/ PointsIn(Rest(w)[e].files, MergedDisk(w)) # {}}}}

\* runLocal() up to the first chunk.  The first point of a sample is always
\* accepted.  The root writes what it has as a chunk of its own.
Prepare(w) ==
    LET k == octant[w].key
    IN  /\ wpc[w] = "prepare" /\ Readable(w)
        /\ \E accepted \in SUBSET PointsIn(RestFiles(w), MergedDisk(w)) :
            /\ RestFiles(w) # {} => accepted # {}
            /\ LET below == KidChunks(w, accepted)
                   here  == accepted \cup PointsIn(HoistedFiles(w), MergedDisk(w))
                   keep  == k # Root /\ accepted # {}
               IN  /\ todo' = [todo EXCEPT ![w] = below \cup
                            (IF k = Root THEN {[key |-> k, points |-> here]} ELSE {})]
                   /\ disk' = IF keep THEN Put(MergedDisk(w), Bin(k), accepted)
                                      ELSE MergedDisk(w)
                   /\ octant' = [octant EXCEPT ![w] =
                            Octant(k, HoistedFiles(w) \cup (IF keep THEN {Bin(k)} ELSE {}),
                                   below # {})]
        /\ kids' = [kids EXCEPT ![w] = [d \in Dirs |-> NoOctant]]
        /\ wpc' = [wpc EXCEPT ![w] = "chunk"]
        /\ UNCHANGED <<queue, error, mainVars, tasks, chunk, failures, copcVars, data,
                       written, found>>

\* Faults: an empty chunk is not in the hierarchy; it is in the chunk table.
NewChunkNotEmpty(w) ==
    /\ wpc[w] = "chunk"
    /\ \E c \in todo[w] :
        LET n == Cardinality(c.points)
        IN  /\ hierarchy' = IF n = 0 THEN hierarchy
                            ELSE Put(hierarchy, c.key, [offset |-> pointPos, count |-> n])
            /\ pointPos' = pointPos + n
            /\ chunkTable' = IF n = 0 THEN chunkTable ELSE Append(chunkTable, n)
            /\ chunk' = [chunk EXCEPT ![w] = [key |-> c.key, points |-> c.points, at |-> pointPos]]
            /\ todo' = [todo EXCEPT ![w] = @ \ {c}]
    /\ wpc' = [wpc EXCEPT ![w] = "write"]
    /\ UNCHANGED <<disk, queue, error, mainVars, tasks, octant, kids, failures, data,
                   written, found>>
NewChunkAlways(w) ==
    /\ wpc[w] = "chunk"
    /\ \E c \in todo[w] :
        LET n == Cardinality(c.points)
        IN  /\ hierarchy' = Put(hierarchy, c.key, [offset |-> pointPos, count |-> n])
            /\ pointPos' = pointPos + n
            /\ chunkTable' = Append(chunkTable, n)
            /\ chunk' = [chunk EXCEPT ![w] = [key |-> c.key, points |-> c.points, at |-> pointPos]]
            /\ todo' = [todo EXCEPT ![w] = @ \ {c}]
    /\ wpc' = [wpc EXCEPT ![w] = "write"]
    /\ UNCHANGED <<disk, queue, error, mainVars, tasks, octant, kids, failures, data,
                   written, found>>

\* createChunk() reserves its place in the file: CopcSupport::newChunk.
NewChunk(w) ==
    /\ wpc[w] = "chunk"
    /\ \E c \in todo[w] :
        LET n  == Cardinality(c.points)
            at == IF n = 0 THEN 0 ELSE pointPos
        IN  /\ hierarchy' = Put(hierarchy, c.key, [offset |-> at, count |-> n])
            /\ pointPos' = pointPos + n
            /\ chunkTable' = IF n = 0 THEN chunkTable ELSE Append(chunkTable, n)
            /\ chunk' = [chunk EXCEPT ![w] = [key |-> c.key, points |-> c.points, at |-> at]]
            /\ todo' = [todo EXCEPT ![w] = @ \ {c}]
    /\ wpc' = [wpc EXCEPT ![w] = "write"]
    /\ UNCHANGED <<disk, queue, error, mainVars, tasks, octant, kids, failures, data,
                   written, found>>

\* The compressed points are written there, and logOctant() notes the chunk.
WriteChunk(w) ==
    LET c == chunk[w]
    IN  /\ wpc[w] = "write"
        /\ data' = IF c.points = {} THEN data ELSE Put(data, c.at, c.points)
        /\ written' = IF c.key \in DOMAIN written THEN written
                                                  ELSE Put(written, c.key, Cardinality(c.points))
        /\ chunk' = [chunk EXCEPT ![w] = NoChunk]
        /\ wpc' = [wpc EXCEPT ![w] = "chunk"]
        /\ UNCHANGED <<disk, queue, error, mainVars, tasks, octant, kids, todo, failures,
                       copcVars, found>>

\* A file cannot be opened, mapped or written, or a point not be converted.
Throw(w) ==
    /\ wpc[w] \in {"prepare", "chunk", "write"}
    /\ \/ failures < MaxErrors
       \/ wpc[w] = "prepare" /\ ~Readable(w)
    /\ failures' = failures + 1
    /\ todo' = [todo EXCEPT ![w] = {}]
    /\ chunk' = [chunk EXCEPT ![w] = NoChunk]
    /\ wpc' = [wpc EXCEPT ![w] = "threw"]
    /\ UNCHANGED <<disk, queue, error, mainVars, tasks, octant, kids, copcVars, data,
                   written, found>>

\* Fault: the octant is queued before its children's chunks are written.
QueueEarly(w) ==
    /\ wpc[w] = "threw" \/ (wpc[w] = "chunk" /\ (octant[w] = NoOctant => todo[w] = {}))
    /\ queue' = IF octant[w] = NoOctant THEN queue ELSE Append(queue, octant[w])
    /\ error' = (error \/ wpc[w] = "threw")
    /\ wpc' = IF octant[w] = NoOctant THEN [wpc EXCEPT ![w] = "idle"] ELSE wpc
    /\ octant' = [octant EXCEPT ![w] = NoOctant]
    /\ kids' = [kids EXCEPT ![w] = [d \in Dirs |-> NoOctant]]
    /\ UNCHANGED <<disk, mainVars, tasks, todo, chunk, failures, copcVars, data, written,
                   found>>

\* Processor::run: the octant is queued, with the error if there was one.
EndTask(w) ==
    /\ wpc[w] = "threw" \/ (wpc[w] = "chunk" /\ todo[w] = {})
    /\ queue' = Append(queue, octant[w])
    /\ error' = (error \/ wpc[w] = "threw")
    /\ octant' = [octant EXCEPT ![w] = NoOctant]
    /\ kids' = [kids EXCEPT ![w] = [d \in Dirs |-> NoOctant]]
    /\ wpc' = [wpc EXCEPT ![w] = "idle"]
    /\ UNCHANGED <<disk, mainVars, tasks, todo, chunk, failures, copcVars, data, written,
                   found>>

-----------------------------------------------------------------------------
MainStep == QueueWork \/ PopOctant \/ Process \/ JoinPool \/ Finish

WorkerStep(w) ==
    \/ TakeTask(w) \/ Prepare(w) \/ NewChunk(w) \/ WriteChunk(w)
    \/ Throw(w) \/ EndTask(w)

Finished == main \in {"done", "failed"} /\ UNCHANGED vars

Next == MainStep \/ (\E w \in Workers : WorkerStep(w)) \/ Finished

Spec == Init /\ [][Next]_vars

\* Every thread that can run is eventually scheduled.
FairSpec == Spec /\ WF_vars(MainStep) /\ \A w \in Workers : WF_vars(WorkerStep(w))

-----------------------------------------------------------------------------
(* Properties.                                                             *)

Input  == UNION {disk[Bin(k)] : k \in found}
Queued == {queue[i] : i \in DOMAIN queue}
Waiting == {tasks[i] : i \in DOMAIN tasks}
Busy   == {w \in Workers : wpc[w] # "idle"}

IsOctant(o) ==
    /\ DOMAIN o = {"key", "files", "mustWrite"}
    /\ o.key \in VoxelKey /\ o.files \subseteq DOMAIN disk /\ o.mustWrite \in BOOLEAN

\* Every variable keeps its type, and octants name files that exist.
TypeOK ==
    /\ \A o \in Queued \cup {popped} \cup {octant[w] : w \in Workers} : IsOctant(o)
    /\ \A k \in DOMAIN completes : IsOctant(completes[k]) /\ completes[k].key = k
    /\ \A t \in Waiting, d \in Dirs : IsOctant(t.kids[d]) /\ t.kids[d].key = Child(t.key, d)
    /\ error \in BOOLEAN
    /\ main \in {"start", "run", "process", "join", "finish", "done", "failed"}
    /\ wpc \in [Workers -> {"idle", "prepare", "chunk", "write", "threw"}]
    /\ failures \in Nat /\ pointPos \in Nat /\ chunkTable \in Seq(Nat \ {0})
    /\ DOMAIN written \subseteq DOMAIN hierarchy

\* The octants the main thread holds or will be given, one for each voxel.
LiveKeys ==
    {o.key : o \in Queued} \cup DOMAIN completes
      \cup (IF main \in {"process", "finish", "done"} THEN {popped.key} ELSE {})
      \cup {t.key : t \in Waiting} \cup {octant[w].key : w \in Busy}
LiveCount ==
    Len(queue) + Cardinality(DOMAIN completes) + Len(tasks) + Cardinality(Busy)
      + (IF main \in {"process", "finish", "done"} THEN 1 ELSE 0)

\* Until there is an error each temporary file's voxel is on its way to the
\* root exactly once: the voxels that are alive cut the tree, so no octant
\* is waited for in vain and none is handed in twice.
OneCutOfTree ==
    main # "start" /\ ~error /\ main # "failed" =>
        /\ LiveCount = Cardinality(LiveKeys)
        /\ \A k \in found : Cardinality((Lineage(k) \cup {Root}) \cap LiveKeys) = 1

\* Where the points are: in files of octants, in chunks to be written, in
\* chunks.  (The root's files have become a chunk.)
OctantPoints(o) == IF o.key = Root THEN {} ELSE PointsIn(o.files, disk)
Places ==
    {<<o.key, OctantPoints(o)>> : o \in Queued}
      \cup {<<k, OctantPoints(completes[k])>> : k \in DOMAIN completes}
      \cup (IF main = "process" THEN {<<popped.key, OctantPoints(popped)>>} ELSE {})
      \cup {<<t.kids[d].key, OctantPoints(t.kids[d])>> : t \in Waiting, d \in Dirs}
      \cup {<<kids[w][d].key, OctantPoints(kids[w][d])>> :
                w \in {v \in Workers : wpc[v] = "prepare"}, d \in Dirs}
      \cup {<<octant[w].key, OctantPoints(octant[w])>> : w \in Busy}
      \cup {<<"chunk", c.key, c.points>> : c \in UNION {todo[w] : w \in Workers}}
      \cup {<<"chunk", chunk[w].key, chunk[w].points>> : w \in {v \in Workers : wpc[v] = "write"}}
      \cup {<<"chunk", k, data[hierarchy[k].offset]>> :
                k \in {j \in DOMAIN written : written[j] > 0}}

\* No point is lost, none is in two places, no file is written over while an
\* octant still names it.
PointsConserved ==
    main # "start" /\ failures = 0 /\ main # "failed" =>
        /\ UNION {p[Len(p)] : p \in Places} = Input
        /\ \A p, q \in Places : p # q => p[Len(p)] \cap q[Len(q)] = {}

\* The chunks that are read through the hierarchy lie one after the other, in
\* the order of the chunk table, however the workers' calls interleave.
SumsOf(sizes) ==
    LET sum[i \in 0..Len(sizes)] == IF i = 0 THEN 0 ELSE sum[i - 1] + sizes[i]
    IN  sum
SumTo(n) == SumsOf(chunkTable)[n]
ChunksAbut ==
    /\ pointPos = FirstPos + SumTo(Len(chunkTable))
    /\ \A i \in DOMAIN chunkTable :
        \E k \in DOMAIN hierarchy :
            hierarchy[k] = [offset |-> FirstPos + SumTo(i - 1), count |-> chunkTable[i]]
    /\ Cardinality({k \in DOMAIN hierarchy : hierarchy[k].count > 0}) = Len(chunkTable)

\* The main thread reads m_written, m_stats and m_chunkTable without a lock
\* when no Processor can change them any more.
NoTaskAtFinish ==
    main \in {"finish", "done"} => tasks = <<>> /\ Busy = {} /\ completes = <<>>

\* A run in which a task threw never succeeds, whatever else was queued.
ErrorStopsRun == main \in {"finish", "done"} => failures = 0

\* When the run succeeds the hierarchy in the file leads to every chunk, with
\* the number of its points.
IndexIsComplete ==
    main = "done" =>
        /\ DOMAIN childCounts = DOMAIN hierarchy
        /\ \A k \in DOMAIN hierarchy : written[k] = hierarchy[k].count

\* The run ends, with an error too.
Termination == <>(main \in {"done", "failed"})

\* Whatever the order of the work, bu puts each point in one chunk.
Chunks == [k \in DOMAIN written |-> IF written[k] = 0 THEN {} ELSE data[hierarchy[k].offset]]
Output == INSTANCE ChunkStore WITH
    Points <- UNION {UNION {in[k] : k \in DOMAIN in} : in \in Inputs},
    Voxels <- UNION {UNION {{k} \cup Ancestors(k) \cup Needed({k}) : k \in DOMAIN in} : in \in Inputs},
    pending <- Input \ UNION {Chunks[k] : k \in DOMAIN Chunks},
    chunks <- Chunks,
    outcome <- IF main \in {"done", "failed"} THEN main ELSE "running"
ImplementsChunkStore == Output!Spec
=============================================================================
