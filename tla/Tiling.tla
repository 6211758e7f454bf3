------------------------------- MODULE Tiling -------------------------------
(***************************************************************************)
(* The tiling phase of epf: Epf::run up to the end of the first            *)
(* m_writer->stop().  File processors (the threads of Epf::m_pool) read    *)
(* points and collect them in cells, one cell per voxel and processor;     *)
(* each cell owns one buffer of the BufferCache.  Full or flushed buffers  *)
(* go on the Writer's queue, and the Writer's own threads append them to   *)
(* the voxels' files and return the buffers to the cache.                  *)
(*                                                                         *)
(* Every action is one critical section of Writer::m_mutex, or a piece of  *)
(* thread-local work.  Both condition variables are explicit: a thread     *)
(* that waits is "asleep" until a notify moves it on.  A spurious wakeup   *)
(* only repeats a test that the sleeper already made under the lock, so    *)
(* none is modelled.                                                       *)
(*                                                                         *)
(* An operator marked "Fault" is no part of the specification: it is the   *)
(* definition below it with a plausible bug, which a property must catch.  *)
(***************************************************************************)
EXTENDS Integers, FiniteSets, SequencesExt

CONSTANTS
    Procs,              \* the threads of Epf::m_pool (opts.numThreads of them)
    Writers,            \* the threads of Writer::m_pool (NumWriters of them)
    Keys,               \* the voxels of the grid that points fall in
    Scratch,            \* VoxelKey(): the key of a processor's first, unused cell
    MaxBuffers,         \* most buffers the cache creates
    NumFileProcessors,  \* queue length from which fetchBuffer() prefers to block
    BufPoints,          \* points that fit in a buffer
    NumFiles,           \* input files: tasks added to Epf::m_pool
    MaxPoints,          \* bound: points in all input files
    MaxWriteErrors,     \* bound: writes that may fail
    MaxReadErrors       \* bound: files whose reader may throw

ASSUME ThreadAssumption ==
    /\ IsFiniteSet(Procs) /\ IsFiniteSet(Writers)
    /\ IsFiniteSet(Keys) /\ Scratch \notin Keys
    /\ Writers # {}                             \* NumWriters is 4
ASSUME BufferAssumption ==
    /\ NumFileProcessors \in Nat /\ MaxBuffers \in Nat
    /\ MaxBuffers > NumFileProcessors           \* Epf.cpp's static_assert
    /\ BufPoints \in Nat \ {0}                  \* assert(pointSize < BufSize)
ASSUME BoundAssumption ==
    /\ NumFiles \in Nat /\ MaxPoints \in Nat
    /\ MaxWriteErrors \in Nat /\ MaxReadErrors \in Nat

VARIABLES
    pc,         \* where each processor thread is
    cells,      \* CellMgr::m_cells: points in each cell's buffer, or NoBuffer
    cell,       \* the cell the last point went to; no flush may release it
    want,       \* the key of the cell being created, refilled or written to
    threw,      \* an exception is unwinding the processor's task
    files,      \* tasks of Epf::m_pool not started yet
    unread,     \* points not read yet
    cached,     \* BufferCache: size of m_buffers
    made,       \* BufferCache: m_count
    queue,      \* Writer::m_queue
    active,     \* Writer::m_active
    totals,     \* Writer::m_totals
    stop,       \* Writer::m_stop
    wpc,        \* where each writer thread is
    writing,    \* the WriteData each writer thread holds
    werrors,    \* errors of Writer::m_pool
    perrors,    \* errors of Epf::m_pool
    main,       \* where Epf::run is
    file,       \* points appended to each voxel's file
    read        \* history: points read for each voxel

procVars   == <<pc, cells, cell, want, threw, files, unread, read>>
writerVars == <<active, wpc, writing, werrors, file>>
vars == <<pc, cells, cell, want, threw, files, unread, cached, made, queue,
          active, totals, stop, wpc, writing, werrors, perrors, main, file, read>>

-----------------------------------------------------------------------------
CellKeys == Keys \cup {Scratch}
NoBuffer == -1
NoData   == [key |-> Scratch, size |-> 0]
Data     == [key : Keys, size : 1..BufPoints]

Busy       == {w \in Writers : wpc[w] = "write"}
HeldBy(p)  == {k \in CellKeys : cells[p][k] # NoBuffer}
Held       == {c \in Procs \X CellKeys : cells[c[1]][c[2]] # NoBuffer}
Asleep     == {p \in Procs : pc[p] = "asleep"}
Woken      == {p \in Procs : pc[p] = "woken"}
Fetching   == {"fetch", "flush", "asleep", "woken"}

\* The predicate of BufferCache::m_cv: a buffer is free or can be created.
Available == cached > 0 \/ made < MaxBuffers

\* Fault: m_active is not looked at.
WritableAny == 1..Len(queue)

\* The queue entries whose voxel no writer thread is working on.
Writable == {i \in 1..Len(queue) : queue[i].key \notin active}

\* condition_variable::notify_one: one sleeper, if there is one, goes to `to`.
NotifyOne(f, to) ==
    LET sleepers == {x \in DOMAIN f : f[x] = "asleep"}
    IN  IF sleepers = {} THEN {f} ELSE {[f EXCEPT ![x] = to] : x \in sleepers}

Init ==
    /\ pc = [p \in Procs |-> "idle"]
    /\ cells = [p \in Procs |-> [k \in CellKeys |-> NoBuffer]]
    /\ cell = [p \in Procs |-> Scratch]
    /\ want = [p \in Procs |-> Scratch]
    /\ threw = [p \in Procs |-> FALSE]
    /\ files = NumFiles /\ unread = MaxPoints
    /\ cached = 0 /\ made = 0
    /\ queue = <<>> /\ active = {}
    /\ totals = [k \in Keys |-> 0]
    /\ stop = FALSE
    /\ wpc = [w \in Writers |-> "scan"]
    /\ writing = [w \in Writers |-> NoData]
    /\ werrors = 0 /\ perrors = 0
    /\ main = "join"
    /\ file = [k \in Keys |-> 0]
    /\ read = [k \in Keys |-> 0]

-----------------------------------------------------------------------------
(* Writer and BufferCache operations, called with m_mutex held.            *)

\* Fault: Writer::enqueue without its notify.
EnqueueSilently(k, n) ==
    /\ totals' = [totals EXCEPT ![k] = @ + n]
    /\ queue' = Append(queue, [key |-> k, size |-> n])
    /\ UNCHANGED wpc

Enqueue(k, n) ==
    /\ totals' = [totals EXCEPT ![k] = @ + n]
    /\ queue' = Append(queue, [key |-> k, size |-> n])
    /\ wpc' \in NotifyOne(wpc, "scan")

\* Faults: replace() never notifies, or only when the cache was empty.
ReplaceSilently == cached' = cached + 1 /\ UNCHANGED pc
ReplaceQuietly ==
    /\ cached' = cached + 1
    /\ pc' \in IF cached = 0 THEN NotifyOne(pc, "woken") ELSE {pc}

\* BufferCache::replace: sleepers exist only once every buffer was created.
Replace ==
    /\ cached' = cached + 1
    /\ pc' \in IF made = MaxBuffers THEN NotifyOne(pc, "woken") ELSE {pc}

\* The end of BufferCache::fetch and of Cell::initialize: p has a buffer for
\* the cell want[p].  A new cell was asked for by a point that is still to be
\* copied; a cell refilled by advance() waits for the next point.
Acquire(p) ==
    /\ Available
    /\ IF cached > 0 THEN cached' = cached - 1 /\ UNCHANGED made
                     ELSE made' = made + 1 /\ UNCHANGED cached
    /\ cells' = [cells EXCEPT ![p][want[p]] = 0]
    /\ pc' = [pc EXCEPT ![p] = IF want[p] = cell[p] THEN "read" ELSE "copy"]
    /\ UNCHANGED threw

Sleep(p) ==
    /\ ~Available
    /\ pc' = [pc EXCEPT ![p] = "asleep"]
    /\ UNCHANGED <<cells, cached, made, threw>>

-----------------------------------------------------------------------------
(* File processors.                                                        *)

\* A pool thread starts FileProcessor::run, which first gets the scratch cell.
ClaimFile(p) ==
    /\ pc[p] = "idle" /\ files > 0
    /\ files' = files - 1
    /\ pc' = [pc EXCEPT ![p] = "fetch"]
    /\ cell' = [cell EXCEPT ![p] = Scratch]
    /\ want' = [want EXCEPT ![p] = Scratch]
    /\ UNCHANGED <<cells, threw, unread, read, cached, made, queue, totals,
                   stop, perrors, main, writerVars>>

\* The callback finds the cell of the next point, or has to create it.
ReadPoint(p, k) ==
    /\ pc[p] = "read" /\ unread > 0
    /\ unread' = unread - 1
    /\ read' = [read EXCEPT ![k] = @ + 1]
    /\ want' = [want EXCEPT ![p] = k]
    /\ pc' = [pc EXCEPT ![p] = IF k \in HeldBy(p) THEN "copy" ELSE "fetch"]
    /\ UNCHANGED <<cells, cell, threw, files, cached, made, queue, totals,
                   stop, perrors, main, writerVars>>

\* copyPoint() and Cell::advance(): a full buffer is queued, and the cell
\* needs another one before anything else happens.
Advance(p) ==
    LET k == want[p]
        n == cells[p][k] + 1
    IN  /\ pc[p] = "copy"
        /\ cell' = [cell EXCEPT ![p] = k]
        /\ IF n < BufPoints
             THEN /\ cells' = [cells EXCEPT ![p][k] = n]
                  /\ pc' = [pc EXCEPT ![p] = "read"]
                  /\ UNCHANGED <<queue, totals, wpc>>
             ELSE /\ Enqueue(k, n)
                  /\ cells' = [cells EXCEPT ![p][k] = NoBuffer]
                  /\ pc' = [pc EXCEPT ![p] = "fetch"]
        /\ UNCHANGED <<want, threw, files, unread, read, cached, made, stop,
                       perrors, main, active, writing, werrors, file>>

\* CellMgr::getBuffer, first try: Writer::fetchBuffer.
FetchBuffer(p) ==
    /\ pc[p] = "fetch"
    /\ \/ /\ stop \/ (~Available /\ Len(queue) < NumFileProcessors)
          /\ pc' = [pc EXCEPT ![p] = "flush"]
          /\ UNCHANGED <<cells, cached, made, threw>>
       \/ ~stop /\ Acquire(p)
       \/ ~stop /\ Len(queue) >= NumFileProcessors /\ Sleep(p)
    /\ UNCHANGED <<cell, want, files, unread, read, queue, totals, stop,
                   perrors, main, writerVars>>

\* Faults: empty buffers are queued too, or are not given back.
ReleaseEmptyToo(p, k) ==
    /\ cells' = [cells EXCEPT ![p][k] = NoBuffer]
    /\ Enqueue(k, cells[p][k]) /\ UNCHANGED <<pc, cached>>
    /\ UNCHANGED <<cell, want, threw, files, unread, read, made, stop,
                   perrors, main, active, writing, werrors, file>>
ReleaseFullOnly(p, k) ==
    /\ cells' = [cells EXCEPT ![p][k] = NoBuffer]
    /\ IF cells[p][k] > 0 THEN Enqueue(k, cells[p][k]) ELSE UNCHANGED <<queue, totals, wpc>>
    /\ UNCHANGED <<pc, cached, cell, want, threw, files, unread, read, made, stop,
                   perrors, main, active, writing, werrors, file>>

\* Cell::~Cell and Cell::write: points are queued, an empty buffer is reused.
Release(p, k) ==
    /\ cells' = [cells EXCEPT ![p][k] = NoBuffer]
    /\ IF cells[p][k] > 0
         THEN Enqueue(k, cells[p][k]) /\ UNCHANGED <<pc, cached>>
         ELSE Replace /\ UNCHANGED <<queue, totals, wpc>>
    /\ UNCHANGED <<cell, want, threw, files, unread, read, made, stop,
                   perrors, main, active, writing, werrors, file>>

\* Fault: the excluded cell is flushed as well.
FlushAnyCell(p, k) == pc[p] = "flush" /\ k \in HeldBy(p) /\ Release(p, k)

\* CellMgr::flush destroys every cell but the excluded one.
FlushCell(p, k) ==
    pc[p] = "flush" /\ k \in HeldBy(p) \ {cell[p]} /\ Release(p, k)

\* CellMgr::getBuffer, second try: Writer::fetchBufferBlocking.  A null buffer
\* makes Cell::initialize throw.
FetchBlocking(p) ==
    /\ pc[p] = "flush" /\ HeldBy(p) \subseteq {cell[p]}
    /\ \/ /\ stop
          /\ pc' = [pc EXCEPT ![p] = "unwind"]
          /\ threw' = [threw EXCEPT ![p] = TRUE]
          /\ UNCHANGED <<cells, cached, made>>
       \/ ~stop /\ (Acquire(p) \/ Sleep(p))
    /\ UNCHANGED <<cell, want, files, unread, read, queue, totals, stop,
                   perrors, main, writerVars>>

\* A processor notified in BufferCache::fetch tests its predicate again; it
\* does not look at m_stop again.
Wake(p) ==
    /\ pc[p] = "woken"
    /\ Acquire(p) \/ Sleep(p)
    /\ UNCHANGED <<cell, want, files, unread, read, queue, totals, stop,
                   perrors, main, writerVars>>

\* The file is exhausted, or its reader throws.
EndOfFile(p) ==
    /\ pc[p] = "read"
    /\ pc' = [pc EXCEPT ![p] = "unwind"]
    /\ \/ UNCHANGED threw
       \/ /\ perrors + Cardinality({q \in Procs : threw[q]}) < MaxReadErrors
          /\ threw' = [threw EXCEPT ![p] = TRUE]
    /\ UNCHANGED <<cells, cell, want, files, unread, read, cached, made, queue,
                   totals, stop, perrors, main, writerVars>>

\* The processor's CellMgr is destroyed, and all its cells with it.
DestroyCell(p, k) ==
    pc[p] = "unwind" /\ k \in HeldBy(p) /\ Release(p, k)

\* The task returns to ThreadPool::work, which records an exception.
EndTask(p) ==
    /\ pc[p] = "unwind" /\ HeldBy(p) = {}
    /\ pc' = [pc EXCEPT ![p] = "idle"]
    /\ perrors' = perrors + (IF threw[p] THEN 1 ELSE 0)
    /\ threw' = [threw EXCEPT ![p] = FALSE]
    /\ UNCHANGED <<cells, cell, want, files, unread, read, cached, made, queue,
                   totals, stop, main, writerVars>>

-----------------------------------------------------------------------------
(* Writer threads.                                                         *)

\* Fault: the voxel is not marked as being written.
TakeUnmarked(w) ==
    /\ wpc[w] = "scan"
    /\ \E i \in Writable :
        /\ \A j \in Writable : i <= j
        /\ writing' = [writing EXCEPT ![w] = queue[i]]
        /\ queue' = RemoveAt(queue, i)
    /\ wpc' = [wpc EXCEPT ![w] = "write"]
    /\ UNCHANGED <<procVars, active, cached, made, totals, stop, werrors, perrors,
                   main, file>>

\* Take the first entry whose voxel is not being written.
TakeEntry(w) ==
    /\ wpc[w] = "scan"
    /\ \E i \in Writable :
        /\ \A j \in Writable : i <= j
        /\ writing' = [writing EXCEPT ![w] = queue[i]]
        /\ active' = active \cup {queue[i].key}
        /\ queue' = RemoveAt(queue, i)
    /\ wpc' = [wpc EXCEPT ![w] = "write"]
    /\ UNCHANGED <<procVars, cached, made, totals, stop, werrors, perrors,
                   main, file>>

\* Fault: a stopping writer leaves entries on the queue.
LeaveAtStop(w) ==
    /\ wpc[w] = "scan" /\ (Writable = {} \/ stop)
    /\ wpc' = [wpc EXCEPT ![w] = IF stop THEN "exited" ELSE "asleep"]
    /\ UNCHANGED <<procVars, cached, made, queue, active, totals, stop,
                   writing, werrors, perrors, main, file>>

\* No such entry: leave if the writer is stopping, else wait for a notify.
NoEntry(w) ==
    /\ wpc[w] = "scan" /\ Writable = {}
    /\ wpc' = [wpc EXCEPT ![w] = IF stop THEN "exited" ELSE "asleep"]
    /\ UNCHANGED <<procVars, cached, made, queue, active, totals, stop,
                   writing, werrors, perrors, main, file>>

\* Fault: the buffer is not given back to the cache.
WriteDoneKeeping(w) ==
    /\ wpc[w] = "write"
    /\ file' = [file EXCEPT ![writing[w].key] = @ + writing[w].size]
    /\ active' = active \ {writing[w].key}
    /\ writing' = [writing EXCEPT ![w] = NoData]
    /\ wpc' = [wpc EXCEPT ![w] = "scan"]
    /\ UNCHANGED <<procVars, cached, made, queue, totals, stop, werrors, perrors, main>>

WriteDone(w) ==
    /\ wpc[w] = "write"
    /\ file' = [file EXCEPT ![writing[w].key] = @ + writing[w].size]
    /\ active' = active \ {writing[w].key}
    /\ writing' = [writing EXCEPT ![w] = NoData]
    /\ wpc' = [wpc EXCEPT ![w] = "scan"]
    /\ Replace
    /\ UNCHANGED <<cells, cell, want, threw, files, unread, read, made, queue,
                   totals, stop, werrors, perrors, main>>

\* The stream is bad after the write: part of the data may be in the file, the
\* voxel stays active, the buffer is freed but not given back, nobody is woken.
WriteFails(w) ==
    /\ wpc[w] = "write" /\ werrors < MaxWriteErrors
    /\ \E n \in 0..writing[w].size :
        file' = [file EXCEPT ![writing[w].key] = @ + n]
    /\ werrors' = werrors + 1
    /\ stop' = TRUE
    /\ writing' = [writing EXCEPT ![w] = NoData]
    /\ wpc' = [wpc EXCEPT ![w] = "scan"]
    /\ UNCHANGED <<procVars, cached, made, queue, active, totals, perrors, main>>

-----------------------------------------------------------------------------
(* Epf::run.                                                               *)

\* Fault: the pool is joined with tasks still running.
JoinPoolEarly ==
    /\ main = "join" /\ files = 0
    /\ main' = "stop"
    /\ UNCHANGED <<procVars, writerVars, cached, made, queue, totals, stop, perrors>>

\* m_pool.join() returns once every task has run.
JoinPool ==
    /\ main = "join" /\ files = 0 /\ \A p \in Procs : pc[p] = "idle"
    /\ main' = "stop"
    /\ UNCHANGED <<procVars, writerVars, cached, made, queue, totals, stop, perrors>>

\* Fault: stop() does not wake its threads.
StopSilently ==
    /\ main = "stop"
    /\ main' = "drain"
    /\ stop' = TRUE
    /\ UNCHANGED <<procVars, writerVars, cached, made, queue, totals, perrors>>

\* Writer::stop() up to its join.
StopWriter ==
    /\ main = "stop"
    /\ main' = "drain"
    /\ stop' = TRUE
    /\ wpc' = [w \in Writers |-> IF wpc[w] = "asleep" THEN "scan" ELSE wpc[w]]
    /\ UNCHANGED <<procVars, cached, made, queue, active, totals, writing,
                   werrors, perrors, file>>

\* Fault: stop() does not look at the errors of its pool.
JoinBlindly ==
    /\ main = "drain" /\ \A w \in Writers : wpc[w] = "exited"
    /\ main' = IF perrors > 0 THEN "failed" ELSE "tiled"
    /\ UNCHANGED <<procVars, writerVars, cached, made, queue, totals, stop, perrors>>

\* The writer's threads have exited: throw the first error, or go on.
JoinWriters ==
    /\ main = "drain" /\ \A w \in Writers : wpc[w] = "exited"
    /\ main' = IF werrors > 0 \/ perrors > 0 THEN "failed" ELSE "tiled"
    /\ UNCHANGED <<procVars, writerVars, cached, made, queue, totals, stop, perrors>>

-----------------------------------------------------------------------------
\* What a processor does with its cells, in this pass and in the next one.
CellWork(p) ==
    \/ Advance(p) \/ FetchBuffer(p) \/ FetchBlocking(p) \/ Wake(p)
    \/ \E k \in CellKeys : FlushCell(p, k) \/ DestroyCell(p, k)
    \/ EndTask(p)

ProcStep(p) ==
    ClaimFile(p) \/ (\E k \in Keys : ReadPoint(p, k)) \/ CellWork(p) \/ EndOfFile(p)

WriterStep(w) == TakeEntry(w) \/ NoEntry(w) \/ WriteDone(w) \/ WriteFails(w)

MainStep == JoinPool \/ StopWriter \/ JoinWriters

Finished == main \in {"tiled", "failed"} /\ UNCHANGED vars

Next ==
    \/ \E p \in Procs : ProcStep(p)
    \/ \E w \in Writers : WriterStep(w)
    \/ MainStep
    \/ Finished

Spec == Init /\ [][Next]_vars

\* Every thread that can run is eventually scheduled.
Fairness ==
    /\ \A p \in Procs : WF_vars(ProcStep(p))
    /\ \A w \in Writers : WF_vars(WriterStep(w))
    /\ WF_vars(MainStep)

FairSpec == Spec /\ Fairness

-----------------------------------------------------------------------------
(* Properties.                                                             *)

\* The types of what the threads share, in this pass and in the next one.
StateOK ==
    /\ pc \in [Procs -> {"idle", "read", "copy", "unwind"} \cup Fetching]
    /\ cells \in [Procs -> [CellKeys -> NoBuffer..(BufPoints - 1)]]
    /\ cell \in [Procs -> CellKeys] /\ want \in [Procs -> CellKeys]
    /\ threw \in [Procs -> BOOLEAN]
    /\ files \in Nat /\ unread \in Nat
    /\ cached \in Nat /\ made \in 0..MaxBuffers
    /\ queue \in Seq(Data) /\ active \subseteq Keys
    /\ totals \in [Keys -> Nat]
    /\ stop \in BOOLEAN
    /\ wpc \in [Writers -> {"scan", "asleep", "write", "exited"}]
    /\ writing \in [Writers -> Data \cup {NoData}]
    /\ werrors \in Nat /\ perrors \in Nat
    /\ file \in [Keys -> Nat] /\ read \in [Keys -> Nat]

\* Every variable keeps its type; only non-empty buffers of real voxels are
\* queued ("Buffers containing no points are never queued", Writer.hpp).
TypeOK == StateOK /\ main \in {"join", "stop", "drain", "tiled", "failed"}

\* No buffer leaks: each one that was created is in the cache, in a cell, on
\* the queue or with a writer thread, but for those that failed writes lost.
BufferConservation ==
    made = cached + Cardinality(Held) + Len(queue) + Cardinality(Busy) + werrors

\* Two writer threads never append to the same file at the same time, and a
\* voxel being written is on m_active (Writer.hpp's "only one writer thread is
\* working on a file at a time").
OneWriterPerFile ==
    /\ \A w \in Busy : writing[w].key \in active
    /\ \A v, w \in Busy : writing[v].key = writing[w].key => v = w

\* While a point waits to be copied to another cell, the cell that holds it
\* keeps its buffer: no flush may give it to another thread (the comment at
\* FileProcessor.cpp:184).
SourceCellKept ==
    \A p \in Procs :
        pc[p] \in Fetching \cup {"copy"} /\ want[p] # cell[p] => cell[p] \in HeldBy(p)

\* No notify of BufferCache::m_cv is lost: while a processor sleeps every
\* buffer exists, and each one in the cache has a woken processor coming.
NoLostBufferWakeup ==
    Asleep # {} => made = MaxBuffers /\ cached <= Cardinality(Woken)

\* No notify of Writer::m_available is lost: while an entry can be written,
\* some writer thread is looking for work or will look when its write ends.
NoLostWriterWakeup ==
    ~stop /\ Writable # {} => \E w \in Writers : wpc[w] \in {"scan", "write"}

\* Writer::stop() loses nothing: when its threads are joined and no write
\* failed, all that was queued is written and all buffers are back.
StopDrains ==
    main \in {"tiled", "failed"} /\ werrors = 0 =>
        queue = <<>> /\ Busy = {} /\ cached = made

\* When the phase succeeds, each voxel's file has exactly the points read for
\* it, and m_totals, which selects the voxels to reprocess, counts the same.
SuccessIsComplete ==
    main = "tiled" => \A k \in Keys : file[k] = read[k] /\ totals[k] = read[k]

\* The phase implements its abstract specification: with any number of threads
\* and buffers, points only move from "read" to their voxel's file.
Store == INSTANCE TileStore WITH
    arrived <- read, stored <- file,
    outcome <- IF main \in {"tiled", "failed"} THEN main ELSE "running"
ImplementsTileStore == Store!Spec

\* A processor that needs a buffer gets one, or is told to give up ("so a
\* processor can always claim a buffer", Untwine.cpp:35).
EveryClaimIsServed == \A p \in Procs : pc[p] \in Fetching ~> pc[p] \notin Fetching

\* The phase ends, and an error of the writer or of a reader ends it too.
Termination == <>(main \in {"tiled", "failed"})

\* Both hold while no write fails: with no more processors than NumFileProcessors
\* every claim of a buffer is served, and the phase ends, also when a reader throws.
ServedUnlessWriteFails ==
    /\ \A p \in Procs : pc[p] \in Fetching ~> pc[p] \notin Fetching \/ werrors > 0
    /\ <>(main \in {"tiled", "failed"} \/ werrors > 0)
=============================================================================
