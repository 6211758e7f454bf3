------------------------------ MODULE Reprocess ------------------------------
(***************************************************************************)
(* The second pass of Epf::run.  A voxel that tiling left with too many    *)
(* points is read back from its file by a Reprocessor, a task of           *)
(* Epf::m_pool, and tiled some levels further down; then its file is       *)
(* deleted.  Cells, buffers and a new Writer work as in the first pass, so *)
(* their actions and variables are Tiling's; files and unread are not used.*)
(*                                                                         *)
(* An operator marked "Fault" is no part of the specification: it is the   *)
(* definition below it with a plausible bug, which a property must catch.  *)
(***************************************************************************)
EXTENDS Tiling, Voxel

CONSTANTS
    MaxPointsPerNode,   \* most points a voxel is to have
    Tiled,              \* what the first pass may leave: the points of its voxels
    MapMayFail          \* a source file may turn out unreadable

ASSUME ReprocessAssumption ==
    /\ Keys \subseteq VoxelKey /\ MaxPointsPerNode \in Nat \ {0}
    /\ MapMayFail \in BOOLEAN
    /\ \A n \in Tiled :
        /\ n \in [DOMAIN n -> Nat \ {0}] /\ DOMAIN n \subseteq Keys
        /\ \A j, k \in DOMAIN n : j.level = k.level     \* of the first pass's Grid

VARIABLES
    sizes,      \* totals of the first writer: points of each voxel
    waiting,    \* tasks of m_pool: voxels to reprocess
    source,     \* m_filename: the voxel a Reprocessor reads
    left        \* points it has not read yet

passVars == <<sizes, waiting, source, left>>
allVars  == <<vars, passVars>>

-----------------------------------------------------------------------------
Points(n, k) == IF k \in DOMAIN n THEN n[k] ELSE 0

\* The voxels that Writer::totals selects.
Selected(n) == {k \in DOMAIN n : n[k] >= MaxPointsPerNode}

\* MaxPointsPerNode * 4^l
Capacity[l \in Nat] == IF l = 0 THEN MaxPointsPerNode ELSE 4 * Capacity[l - 1]

\* ceil(log2(n / MaxPointsPerNode) / 2), for the n that are selected.
Levels(n) == CHOOSE l \in 0..n : n <= Capacity[l] /\ \A m \in 0..(l - 1) : n > Capacity[m]

\* The voxels of Keys that the points of voxel k, which has n, are tiled into.
Targets(k, n) == {j \in Keys : j.level = k.level + Levels(n) /\ Up(j)[Levels(n)] = k}

ReInit ==
    /\ sizes \in Tiled
    /\ waiting = Selected(sizes)
    /\ source = [p \in Procs |-> Scratch]
    /\ left = [p \in Procs |-> 0]
    /\ pc = [p \in Procs |-> "idle"]
    /\ cells = [p \in Procs |-> [k \in CellKeys |-> NoBuffer]]
    /\ cell = [p \in Procs |-> Scratch]
    /\ want = [p \in Procs |-> Scratch]
    /\ threw = [p \in Procs |-> FALSE]
    /\ files = 0 /\ unread = 0
    /\ cached = 0 /\ made = 0
    /\ queue = <<>> /\ active = {}
    /\ totals = [k \in Keys |-> 0]
    /\ stop = FALSE
    /\ wpc = [w \in Writers |-> "scan"]
    /\ writing = [w \in Writers |-> NoData]
    /\ werrors = 0 /\ perrors = 0
    /\ main = "join"
    /\ file = [k \in Keys |-> Points(sizes, k)]
    /\ read = [k \in Keys |-> 0]

-----------------------------------------------------------------------------
(* Reprocessors.                                                           *)

\* A pool thread starts Reprocessor::run, which maps the voxel's file.
StartReprocessor(p) ==
    /\ pc[p] = "idle"
    /\ \E k \in waiting :
        /\ waiting' = waiting \ {k}
        /\ source' = [source EXCEPT ![p] = k]
        /\ left' = [left EXCEPT ![p] = sizes[k]]
    /\ pc' = [pc EXCEPT ![p] = "read"]
    /\ UNCHANGED <<sizes, cells, cell, want, threw, files, unread, read, cached, made,
                   queue, totals, stop, perrors, main, writerVars>>

\* The file cannot be mapped: exit(), in the pool's thread.
ExitProcess(p) ==
    /\ MapMayFail /\ pc[p] = "idle" /\ waiting # {}
    /\ main' = "exited"
    /\ UNCHANGED <<passVars, procVars, writerVars, cached, made, queue, totals, stop, perrors>>

\* Fault: one point too many is read.
ReadPastEnd(p, k) ==
    /\ pc[p] = "read" /\ left[p] >= 0
    /\ k \in Targets(source[p], sizes[source[p]])
    /\ left' = [left EXCEPT ![p] = @ - 1]
    /\ read' = [read EXCEPT ![k] = @ + 1]
    /\ want' = [want EXCEPT ![p] = k]
    /\ cell' = [cell EXCEPT ![p] = Scratch]
    /\ pc' = [pc EXCEPT ![p] = IF k \in HeldBy(p) THEN "copy" ELSE "fetch"]
    /\ UNCHANGED <<sizes, waiting, source, cells, threw, files, unread, cached, made,
                   queue, totals, stop, perrors, main, writerVars>>

\* The cell of the next point is found or has to be created; the point is in
\* the mapped file, so no cell is excluded from a flush.
ReadMapped(p, k) ==
    /\ pc[p] = "read" /\ left[p] > 0
    /\ k \in Targets(source[p], sizes[source[p]])
    /\ left' = [left EXCEPT ![p] = @ - 1]
    /\ read' = [read EXCEPT ![k] = @ + 1]
    /\ want' = [want EXCEPT ![p] = k]
    /\ cell' = [cell EXCEPT ![p] = Scratch]
    /\ pc' = [pc EXCEPT ![p] = IF k \in HeldBy(p) THEN "copy" ELSE "fetch"]
    /\ UNCHANGED <<sizes, waiting, source, cells, threw, files, unread, cached, made,
                   queue, totals, stop, perrors, main, writerVars>>

\* Fault: the file is deleted as soon as it is mapped, failure or not.
DeleteOnEnd(p) ==
    /\ pc[p] = "unwind" \/ (pc[p] = "read" /\ left[p] = 0)
    /\ file[source[p]] > 0
    /\ file' = [file EXCEPT ![source[p]] = 0]
    /\ pc' = [pc EXCEPT ![p] = "unwind"]
    /\ UNCHANGED <<passVars, cells, cell, want, threw, files, unread, read, cached, made,
                   queue, totals, stop, perrors, main, active, wpc, writing, werrors>>

\* All points are read: the file is deleted, then the CellMgr is destroyed.
DeleteSource(p) ==
    /\ pc[p] = "read" /\ left[p] = 0
    /\ file' = [file EXCEPT ![source[p]] = 0]
    /\ pc' = [pc EXCEPT ![p] = "unwind"]
    /\ UNCHANGED <<passVars, cells, cell, want, threw, files, unread, read, cached, made,
                   queue, totals, stop, perrors, main, active, wpc, writing, werrors>>

\* The cells' own work is that of the first pass.
CellStep(p) == CellWork(p) /\ UNCHANGED passVars

-----------------------------------------------------------------------------
(* Epf::run.                                                               *)

\* m_pool.stop() returns; an error of a Reprocessor is thrown at once.
JoinReprocessors ==
    /\ main = "join" /\ waiting = {} /\ \A p \in Procs : pc[p] = "idle"
    /\ main' = IF perrors > 0 THEN "unwind" ELSE "stop"
    /\ UNCHANGED <<passVars, procVars, writerVars, cached, made, queue, totals, stop, perrors>>

\* Then ~Epf destroys the Writer, whose threads were not told to stop.  The
\* destructors of the condition variable and of the pool wait for them; one
\* that still works uses members that are gone.
DestroyWriter ==
    /\ main = "unwind"
    /\ \/ (\A w \in Writers : wpc[w] = "exited") /\ main' = "failed"
       \/ (\E w \in Writers : wpc[w] \in {"scan", "write"}) /\ main' = "crashed"
    /\ UNCHANGED <<passVars, procVars, writerVars, cached, made, queue, totals, stop, perrors>>

-----------------------------------------------------------------------------
Over == main \in {"tiled", "failed", "exited", "crashed"}

ReprocessorStep(p) ==
    ~Over /\ (StartReprocessor(p) \/ (\E k \in Keys : ReadMapped(p, k)) \/ DeleteSource(p)
              \/ CellStep(p) \/ ExitProcess(p))

ReWriterStep(w) == ~Over /\ WriterStep(w) /\ UNCHANGED passVars

ReMainStep ==
    \/ JoinReprocessors \/ DestroyWriter
    \/ (StopWriter \/ JoinWriters) /\ UNCHANGED passVars

ReNext ==
    \/ \E p \in Procs : ReprocessorStep(p)
    \/ \E w \in Writers : ReWriterStep(w)
    \/ ReMainStep
    \/ Over /\ UNCHANGED allVars

ReSpec == ReInit /\ [][ReNext]_allVars

\* Every thread that can run is eventually scheduled.
ReFairSpec ==
    /\ ReSpec
    /\ \A p \in Procs : WF_allVars(ReprocessorStep(p))
    /\ \A w \in Writers : WF_allVars(ReWriterStep(w))
    /\ WF_allVars(ReMainStep)

-----------------------------------------------------------------------------
(* Properties.                                                             *)

\* When the pass succeeds no point was lost or doubled: each file has what was
\* tiled into it, and a voxel that was not selected the points it had.
ReprocessKeepsPoints ==
    main = "tiled" =>
        \A k \in Keys : file[k] = read[k] +
            (IF k \in Selected(sizes) THEN 0 ELSE Points(sizes, k))

\* How many points were read that belong to the voxels of S.
ReadInto(S) == Cardinality(UNION {{j} \X (1..read[j]) : j \in S})

\* A voxel's file goes only when each of its points was handed to a cell: a
\* Reprocessor that fails half way leaves its input whole.
SourceOutlivesReading ==
    \A k \in Selected(sizes) : file[k] = 0 => ReadInto(Targets(k, sizes[k])) = sizes[k]

\* The pass ends, and an error of a Reprocessor or of the writer ends it too
\* ("If the Reprocessors had an error, throw", Epf.cpp:105).
ReprocessEnds == <>Over

\* Without failed writes it ends whatever the order of the threads.
EndsUnlessWriteFails == [](werrors = 0) => ReprocessEnds
=============================================================================
