# Untwine in TLA+

Untwine turns a set of point files into one COPC file. It looks at the files'
headers (`prep`), reads the points and tiles them into one temporary file per
voxel (`epf`), splits voxels that are too full, then builds the pyramid of sampled
levels from the bottom up and writes its chunks and its hierarchy (`bu`), through
the compressors of `lazperf`. `epf` and `bu` run on thread pools that share queues, a
cache of buffers and the temporary directory; QGIS starts the program and reads
its progress from a pipe.

These modules model the concurrent core, the life of the program and of its
temporary directory, the pipe, the layout of the output file with everything a
reader needs to find each point, and the compression. TLC checks them; TLAPS
proves all that is claimed of the safety of both passes of the tiling, the thread
pool, the pyramid and the session, that no part of the output file is written over,
that each of its points is in a voxel that it lies in, and that tiling and pyramid implement their abstract specifications.

    tlc -config MCTiling.cfg MCTiling      # likewise for every MC*.cfg
    tlapm Session_proof.tla                    # likewise for every *_proof.tla

## The system

| component | state | operations | talks to |
|---|---|---|---|
| `epf` tiling: `Epf`, `FileProcessor`, `Cell`, `CellMgr` | a task per file; per processor its cells, each with one buffer | read a point, create or advance a cell, flush, end of file | `Writer` (fetch, enqueue, replace) |
| `epf` writer: `Writer`, `BufferCache` | queue, active voxels, stop flag, totals; free buffers and their number | fetch (blocking or not), enqueue, replace, stop, a writer thread's loop | files of the temporary directory |
| `epf` reprocessing: `Reprocessor`, second half of `Epf::run` | voxels over the limit | read a voxel's file back, tile it a few levels down, delete it | the same writer class |
| `ThreadPool` | task queue, running flag, outstanding count, errors, threads | go, add, join, stop, await, clearErrors | everyone above and below |
| `bu`: `BuPyramid`, `PyramidManager`, `Processor`, `OctantInfo` | queue of complete octants, octants that wait for their siblings, error; per task its children | queue the files, pop, process, sample, hoist, merge, write chunks | `ThreadPool`, `CopcSupport`, temporary files |
| `CopcSupport` | position in the file, chunk table, hierarchy, header | newChunk, write chunk table, hierarchy, VLRs and header | the output file |
| `Stats`, `Grid` | counts and extremes by dimension; cube and level | insert, merge; level guess and keys | `PyramidManager`, `epf` |
| `FilePrep` | what the files' headers say; dimensions, scale, offset, bounds of the output | split large files, filter dimensions, lay them out, choose the format | PDAL |
| `Untwine.cpp` | options, temporary directory, status | create and clean it, run the phases, report | all phases |
| `ProgressWriter`, `os/progress` | percentage, next mark | set, count points, write a message | the pipe |
| `QgisUntwine` | child process, last percentage and message | start, stop, running; read a message without blocking | the pipe |
| `lazperf` | per chunk: models, a context for each scanner channel, streams | compress and decompress points, chunk table, headers and VLRs | the output file |
| `os` wrappers, tests, build | - | - | not modelled: system calls |

What is hard here: threads that wait for buffers while they hold some; two
condition variables that are signalled with `notify_one`; a write or a reader
that fails while others wait; work that bubbles up a tree in any order and must
meet at every voxel exactly once; files that are merged, renamed, hoisted and
read again by later tasks; an error that races the last octant; places in the
output reserved before they are written; sizes and offsets that several parts
compute for themselves; files of an interrupted run in the temporary directory;
a pipe that fills up and is read in pieces; a child process asked about twice;
compressor contexts that must change in step on both sides. `PROJECT.json` lists
these hazards line by line with the properties that guard them.

What makes each part correct:

- tiling: every point read reaches its voxel's file exactly once; one writer per
  file; buffers are neither lost nor shared; every wait ends; errors end the phase;
- pool: an accepted task is run once; join and await return, and return late
  enough; errors are kept until they are asked for;
- pyramid: each voxel is processed once, after all its children; each point ends
  in one chunk; chunks do not overlap; the hierarchy reaches every chunk; an
  error always stops the run;
- output: a reader of the file gets every input point once, by the chunk table and
  by the hierarchy, with the values it had;
- program and client: the output has the points of this run only; the directory is
  left as it was; one program at a time; the percentage is one that was sent, and
  does not go back in a run; the end is seen, unless the program hangs;
- compression: what is decompressed is what was compressed.

## Modules

| module | what it is |
|---|---|
| `Tiling` | `Epf::run` up to the end of the first `Writer::stop()`: processors, cells, cache, writer threads |
| `TileStore` | what tiling promises: points arrive and are stored, success means all are stored |
| `Tiling_proof` | theorems about `Tiling`: buffers, threads and wakeups; points, and the refinement of `TileStore` |
| `Reprocess`, `Reprocess_proof` | the second pass of `Epf::run`, on the cells and the writer of `Tiling`; theorems |
| `ThreadPool`, `ThreadPool_proof` | the pool, its workers, an owner and other clients; theorems |
| `Voxel` | voxel keys: child, parent, lineage, for any set of axes |
| `Pyramid` | `BuPyramid::run` with `PyramidManager`, `Processor`, `OctantInfo` and `CopcSupport::newChunk` |
| `ChunkStore` | what `bu` promises: each point in one chunk, a complete tree |
| `Voxel_proof`, `Pyramid_proof` | theorems about `Pyramid`: the tree of voxels; the order of the work; points, chunks, hierarchy, and the refinement of `ChunkStore` |
| `Lemmas` | induction and recursion on natural numbers and finite sets, and sums over finite sets, for the proofs |
| `Program` | `main()`: options, temporary directory, phases, errors, progress messages, over several runs |
| `Session`, `Session_proof` | `QgisUntwine` on unix, which starts programs and reads their pipe; theorems |
| `Prep` | `FilePrep`, `Grid` and the points as `FileProcessor` stores them, as operators |
| `LasRecords` | the sizes of headers, VLRs and pages, in fields of bytes |
| `CopcFile` | `CopcSupport`, `Stats` and the output points of `Processor`, as operators; a reader of the file |
| `Output`, `Output_proof` | `Prep` and `CopcFile` put together: from input files to a file that is read back; theorems |
| `ArithCoder` | the arithmetic coder, with adaptive models, carries and raw bits, down to the bytes |
| `IntCoder`, `IntDecoder` | integers as corrections of a prediction |
| `PointCodec` | `field_point14` and `field_gpstime`: fields, channels, times, medians |
| `LayerCodec` | `field_rgb14`, `field_nir14`, `field_byte14` |
| `Codec` | the point compressors and decompressors of formats 6 to 8, and the chunk table |
| `MC...` | instances for TLC; their `.cfg` files |

An operator commented "Fault" is not part of a specification. It stands before
the definition it spoils and holds a plausible bug; substituting it must break
a named property (`mutants` in `PROJECT.json`), which shows that the property can
fail.

### Tiling

An action is one critical section of `Writer::m_mutex`, or thread-local work
between two of them. `pc[p]` follows a file processor: `read` a point, `fetch` a
buffer for a new cell or for the cell just queued, `flush` the other cells when
there is none, `asleep` and `woken` in `BufferCache::fetch`, `copy` the point,
`unwind` the task. `cells[p][k]` is the number of points in the buffer of a
cell, or `NoBuffer`. The scratch cell of a processor (key `VoxelKey()`), in which
each file starts, is a cell too. `wpc[w]` follows a writer thread. A condition
variable is explicit: `notify_one` moves one sleeper, if there is one. Spurious
wakeups only repeat the sleeper's test, so they are left out.

| code | action |
|---|---|
| `FileProcessor::run`, its callback, its end | `ClaimFile`, `ReadPoint`, `EndOfFile`, `EndTask` |
| `Cell::advance`, `~Cell`, `Cell::write` | `Advance`, `DestroyCell`, `Release` |
| `CellMgr::getBuffer`, `flush` | `FetchBuffer`, `FlushCell`, `FetchBlocking` |
| `BufferCache::fetch`, `replace` | `Acquire`, `Sleep`, `Wake`, `Replace` |
| `Writer::run` | `TakeEntry`, `NoEntry`, `WriteDone`, `WriteFails` |
| `Epf::run`, `Writer::stop` | `JoinPool`, `StopWriter`, `JoinWriters` |

Abstractions: a point has no coordinates, its voxel is chosen freely; a buffer is
its number of points; the pool's own queue is the number of files left
(`ThreadPool` has the details). A failed write appends any part of its data.

### Reprocess

The module extends `Tiling`: a Reprocessor has cells, asks for buffers, flushes and
advances with `Tiling`'s actions, and the second `Writer` is a new one of the same
kind. New are the voxels still to do (`waiting`), the voxel a Reprocessor reads and
how much of it is left (`source`, `left`), and the end: `DeleteSource` before the
cells are destroyed, `JoinReprocessors` that throws an error past the writer's
`stop()`, and `DestroyWriter`, the destructor that then runs with the writer's threads
alive. It waits for sleeping threads (the destructors of the condition variable
and of the pool do); a thread that still works uses destroyed members, so the
program may crash. `Levels` is the constructor's ceil(log2(n / MaxPointsPerNode) / 2)
in integers, the first level whose `Capacity` is enough, and `Targets` the voxels that
far down. `Tiled` is what the first pass can leave; its voxels are all on one level, that
of its `Grid`, and the assumption on the constant says so. Unlike in the first pass no
cell is excluded from a flush, since the point is in the mapped file: `ReadMapped`
sets `cell` to `Scratch`, a voxel without points here. An unreadable file ends the
process.

### ThreadPool

Each action is a critical section of `m_mutex` with the `notify_all` after it.
The owner is the only client that joins, stops, restarts, awaits and collects
errors; any client adds. `trap()` is on. The error list is the set of tasks whose
exceptions it holds: an exception with an empty message counts as success in the
code (`ThreadPool.cpp:97`) and here.

### Pyramid

The main thread is `BuPyramid::run`; a worker's task is `Processor::run`. A point is
a model value, a temporary file the set of its points, `disk` the directory.
`Prepare` is `runLocal` up to the first chunk: merging, hoisting, sampling and the
new temporary file. It is one step because a task reads and writes only files of
its own voxel and of the voxels below, which no other task names
(`OneCutOfTree`, `PointsConserved`). Which points are sampled is left open (any
subset, not empty when something was sampled: the first point always finds its
grid cell empty). A chunk has as many bytes as points. A chunk's place is
reserved by `NewChunk` and filled by `WriteChunk`, and other workers' steps come
between. The order in which a task writes its children is left open. `Finish` is
`createHierarchy` and the reachability of chunks from it, not the pages the
hierarchy is cut into.

### Program and Session

`Program` follows `main()` run after run on one output and one temporary directory. A
phase is what it does to the directory's files: `Tile` appends to a voxel's file,
`Split` is a Reprocessor, `StartPyramid` is `getInputFiles` and `Sample` a voxel of the
pyramid (the phases in detail are `Tiling`, `Reprocess` and `Pyramid`). A point is a
run and a place, so points of another run show. `files` survives a run; `place` is
what is at `temp_dir`. `Throw` is an exception of any phase that reaches `main()`. Not all of
tiling's failures do: `Hang` is the pass that does not end, which `tiling_hang` and
`tiling_starve` show and `DestroyWriter` in `Reprocess` has. It may happen with a failed
write or without a failure, so it is possible at any step of the two passes with voxels
left, and is no fault that is counted; the program stays (`"hung"`) until it is killed or
stopped. `Kill` is the end of the
process at any step (`exit()` of a Reprocessor among them). `cleanup()` is modelled by
what it does: it deletes no file, since it matches names against paths.

`Session` adds the client. Each action is one system call. The pipe is a sequence
of half words, so that a reader can meet the writer inside of a number, and a
full pipe makes the writer wait. `Stop` sets `m_pid` to zero and leaves `m_running`;
`Running` then waits for any child (`other` is a child of the client that is no
untwine). A percentage is in tenths, which bounds the number of clicks;
`ProgramAssumption` is what keeps them below the next phase's first percentage.

### Prep, CopcFile, Output

A job is a list of files (with PDAL's view of each: dimensions, scale, offset,
points). `Prepare` is all of `FilePrep::run` and the grid; `Tile` the points as
`FileProcessor` packs and quantizes them; then any tree of voxels over the tiles
(`Pyramid` has how it comes about) and any order of chunks (`StartChunk`,
`WriteChunk`), chunk table, pages (`WriteHierarchy`) and header (`WriteHeader`). The
output file is a set of regions at offsets; `Put` replaces what it overlaps, so a
wrong offset destroys data: `NothingOverwritten` says that no step takes a region away, and that
of the several it writes none replaces another. The properties read the file only by what is in it, the
way lazperf's reader does (`HeaderOf`, `VlrsOf`, `LinearPoints`) and the way a COPC
reader does (`NodePoints`). A coordinate is an integer in units of a tenth of the
default scale; a chunk has as many bytes as points, and one. Outcomes of a job are
`done`, `failed` (a value no field holds) and `undefined` (below, findings).
`PointsInNodes` is stated for jobs whose grid is a cube and whose scale is the same on all axes: the
code takes the COPC cube's halfsize from x alone.

### Compression

`ArithCoder` is the coder word by word, with narrower words: `EncodeOne` splits the
interval, `Carried` runs the carry back, `Done` writes the last bytes; the model of a
symbol adapts on both sides. The chunk table is coded with it down to the bytes.
For points, a stream is the queue of its items, and an item is a symbol and the
model it was put under: `Take` gives it back only to who asks under the same model,
and notes anything else as `lost`. That the coder returns a symbol to who has the
same model is what the table's bytes show. `PointCodec` keeps the context of each
scanner channel twice, in the compressor and in the decompressor, and nothing of
one is visible to the other: `EncodePoint` and `ReadPoint` are translated from the two
halves of each field class. `NewPointReader` gets the sizes of the streams, and an empty
stream is not read.

## Runs

| run | question | instance | states |
|---|---|---|---|
| `tiling` | buffers, writers, wakeups, stop; implements `TileStore` | 3 processors, 2 writers, 2 voxels, 4 buffers of 2 points, 3 files, 4 points, up to symmetry | 341 thousand |
| `tiling_errors` | success means complete when writes and readers fail; without a failed write every claim is served and the phase ends | 2 processors, 3 buffers, 3 points, one of each failure | 454 thousand |
| `tiling_starve` | violated: see findings | 2 processors, NumFileProcessors = 1 | |
| `tiling_hang` | violated: see findings | a failed write | |
| `pool` | once each, join, errors, wakeups; every call returns | 2 workers, 4 tasks, one restart; 2 clients of an unbounded queue, or a queue of 1 and its owner alone | 53 thousand |
| `pyramid` | tree, points, chunks, hierarchy, errors; the run ends; implements `ChunkStore` | 2 workers, one axis, nine sets of files, up to 6 points, an error | 185 thousand |
| `reprocess` | no point lost, inputs outlive failures, the pass ends unless a write fails | 2 Reprocessors, 1 writer thread, 3 buffers, 3 points in each voxel, limit 2; a write fails, a file is unreadable | 174 thousand |
| `reprocess_exact` | violated: see findings | a voxel with 2 points | |
| `session` | output, directory, one program, percentages, the end is seen | 2 runs, 1 fault, one axis, three inputs, `temp_dir` absent, a directory or a file, a pipe of 4 half words, another child | 1.07 million |
| `session_leftover` | violated: see findings | 2 runs, no fault | |
| `output` | a reader finds each point, in its node; the header describes them; nothing is written over | nine jobs, two axes, files of both LAS kinds and others, 2 workers | 9 thousand |
| `codec` | points and tables decode | chunks of up to 5 points over four channels, 4 over all fields, 7 over three times, 4 over six times; tables of 5 entries | 50 thousand |

Bounds. Two processors and two writers are the least that can race; three
processors let two sleep while the third takes a buffer that was meant for one of
them. There is one buffer more than processors, the least the code allows
(`Writer.hpp:53`), so they run out at once; a buffer of two points has the states
empty, part full and full. Four points fill buffers of two voxels or
leave some part full. There are as many files as processors, and a thread may run
several. In the pyramid, one axis keeps the branching at two without losing a case
of the tree walk, and four levels with files on different levels make octants
wait for siblings of other depth. `MinimumPoints` 2, `MinimumTotalPoints` 3, `MergeFiles` 2
and `MergePoints` 2 let six points be hoisted, merged, sampled and left over. The
names of bounds are constants: `MaxPoints`, `NumFiles`, `MaxWriteErrors`,
`MaxReadErrors`, `MaxRestarts`, `MaxErrors`, `MapMayFail`, `MaxRuns`, `MaxFaults`, `Deepest`, and
the finite sets `Tasks`, `Inputs`, `Jobs`, `PointJobs` and `TableJobs`.

For reprocessing, a limit of 2 makes three points one level deeper, three points
in one cell fill a buffer and leave one; one writer thread is enough there, as
races of writers do not differ from `Tiling`'s. One of the two voxels' points all
fall below one child. Sizes of exactly the limit are left to `reprocess_exact`.

For the session, two runs are needed for one to find what another left; a pipe of
four half words has room for a message's number with its percentage, or for a text with a number
behind it, of which a read of one word takes the text and the first half; so each number can be cut, a whole
percentage can outlive its program, and the writer has to wait. For the output, two axes tell a value of one from that of another, a
page limit of one voxel and a break at level 1 put pages below pages, and `One` = 10
units leave room for scales that do not divide each other. For the codec, words of
24 bits with bytes of 6, integers of 10 bits, and limits for the times' multiples of 6, 4
and 2 instead of 500 and 10 reach every case in chunks of a few points: raw bits in
two parts, carries over full bytes, extreme steps, four of them in a row, a
change of sequence and a new one, overflow of coordinates.

Deadlock is checked except where the system may really stop for ever (the runs with
a failed write or a starving processor), where it ends (`session`: all runs done, or the
client gone; `codec`: everything read), and in the runs that expect a violation.

Fairness is weak and per thread: an operating system runs a thread that can run,
and a mutex is not held across a wait. Nothing is assumed of who gets a notify,
of which files fail, or of who calls. In `ThreadPool` nobody has to add, join or
await; only calls already made go on. In `Session` the program and a call in progress go
on (weak); the client alternates between reading the pipe and `running()`, as
QGIS does on a timer: each is possible only between calls, hence again and again and not
always, so `Poll` and `Running` have strong fairness. Nothing makes a program that hangs go on, and
no fairness keeps one from hanging: `EndIsSeen` names these states (`Stuck`) on its right
side, so it says nothing of the end of a program that hangs until the client has called `stop()`.

## Findings

- `tiling_starve`. `Writer::fetchBuffer` sleeps without flushing once the queue has
  `NumFileProcessors` (8) entries. A processor that holds most buffers can go to
  sleep that way; with more than 8 others each in turn takes a returned buffer,
  flushes its own few cells and sleeps, until the queue is empty and all sleep.
  `Untwine.cpp:35` allows 512 threads "so a processor can always claim a buffer".
- `tiling_hang`. A failed write stops the writer but wakes no processor that sleeps in
  `BufferCache::fetch`, and its predicate does not look at the stop flag. The pool
  is then never joined, and the throw promised at `Epf.cpp:64` does not happen.
- `reprocess_exact`. `Writer::totals` selects voxels with at least `MaxPointsPerNode`
  points where `Epf.cpp:75` says greater. With exactly that many, zero levels are
  added, so the Reprocessor's cells are appended to the file it reads, which is then
  deleted: all points written so far are lost and the run succeeds.
- `session_leftover`. `cleanup()` deletes no file: `os::directoryList()` returns paths, and the
  regular expression is one for names. What a killed or failed run leaves in a given
  `--temp_dir` stays. The next run appends to files of the same voxels, and takes
  the others as its own; the output has points of both, and the program reports
  success. `BuPyramid.cpp:72` removes "hangers-on from a previous run" only where they are
  parents of other files, and erases this run's file where a left-over one lies
  below it. Even runs that succeed leave files when the directory was there before.

Met while modelling, and in the models, without a run of their own:

- `Epf.cpp:108`. After a failed write a Reprocessor throws; `Epf::run` rethrows
  before it stops the writer, and the writer's destructor waits for threads that
  nobody wakes. The error is never reported (`DestroyWriter`; `ReprocessEnds` is
  violated with a failed write, `EndsUnlessWriteFails` holds). To the client this, like
  `tiling_hang` and `tiling_starve`, is a program that runs and sends nothing (`Hang`).
- `ThreadPool.hpp:147`. `add()` on a bounded queue can push after `join()` let the workers
  go. The program only makes unbounded pools (`SharedBounded` excludes it).
- `Untwine.cpp:222`. When `handleOptions()` fails after it has read `--temp_dir`, or
  `createDirs()` throws, `tempDirExists` is still false and the last `cleanup()` deletes what is there:
  an empty directory of the user, or a file of that name. `PlaceRestored` is stated
  for runs that `createDirs()` has let through.
- `ProgressWriter.cpp:109`. Without points in any input the increment is zero and `update()`
  does not end (`Stuck`, which `EndIsSeen` excepts).
- `FilePrep.cpp:218`. The loop over the dimensions moves on after an erase as after none:
  it skips a dimension, or runs past the end when the last is erased (`undefined` in
  `Output`). The names asked for are put in capitals and
  the files' are not, so a dimension whose name has small letters is never kept.
- `CopcSupport.cpp:219`. The COPC cube's halfsize is taken from x alone, and the bounds were
  widened by each axis's own scale: with unequal scales points can lie outside of
  their node's cube.
- `CopcSupport.cpp:182`. Counts by return are zero when no file has `ReturnNumber`, while the
  points are written with return 1. `HeaderDescribes` asks for these counts when there is a `ReturnNumber`.
- `Processor.cpp:494`. A dimension that one file has and another has not is written, for
  the second, with whatever the buffer held (`Stale`); `Agrees` asks only about dimensions a file has.
- `QgisUntwine_unix.cpp:69`. After `stop()` the process number is zero: `running()` then
  waits for any child of the client, and a second `stop()` signals the client's own
  process group (`gone`).
- `field_point14.cpp`. Times are compared as numbers, so -0.0 after 0.0 comes back as 0.0.

## Proofs

`Tiling_proof` proves, for every number of threads, buffers, voxels, files, points
and failures that the named assumptions allow (finite sets, at least one writer,
`MaxBuffers > NumFileProcessors`, at least one point to a buffer):

| theorem | property |
|---|---|
| `TypeCorrect` | `TypeOK` |
| `BuffersConserved` | `BufferConservation` |
| `SourceKept` | `SourceCellKept` |
| `OneWriter` | `OneWriterPerFile` |
| `BufferWakeups` | `NoLostBufferWakeup` |
| `WriterWakeups` | `NoLostWriterWakeup` |
| `StopIsComplete` | `StopDrains` |
| `TilingIsComplete` | `SuccessIsComplete` |
| `TilingImplementsTileStore` | `ImplementsTileStore` |

All but the last two follow from one inductive invariant,
`IInv == Local /\ SourcesHeld /\ Counting /\ Writing /\ PhaseOK`, in layers, each proved
step by step with the layers below as hypotheses. What is said of `CellWork` and
`WriterStep` is said without `main`, `files` and `unread`, so that the second pass can use it.

- `Local` is `StateOK` (the types) and, for each processor, which cells can have a buffer at each
  `pc` and that the scratch cell is empty.
- `SourcesHeld` says that the source of a point to be copied has a buffer. `SourceCellKept` needs
  it: a flush spares only `cell[p]`, and only the local state says that this is the source. It
  does not hold in the second pass, where there is no source cell.
- `Counting` is `BufferConservation` and `NoLostBufferWakeup`. The second is not
  inductive alone: `Replace` wakes a processor only when every buffer exists, so
  the proof needs that sleepers exist only then, and it counts woken processors
  against cached buffers.
- `Writing` relates the writer threads to the queue: an active voxel has its
  thread unless a write failed, and a thread leaves only when nothing it could write
  is left. `StopDrains` follows from the last thread to leave.
- `PhaseOK` is what depends on the pass: after the pool is joined nobody enqueues.

The last two need `Flow`, which says for each voxel how many of its points are where. With the
processors (`InProcs`) are those in a cell's buffer and the one that was read and not
copied yet; `totals` counts those queued since the start, as `Writer::m_totals` does; of
these some are on the queue, some with writer threads and the rest in the file.
`ProcFlow` and `WriterFlow` say that these add up to what was read. Until a write fails
they are equations; after one they are bounds, which is what keeps a file from
having a point twice and is all that `TileStore` wants of a run that fails.
`Carried` had to follow the point between `ReadPoint` and `Advance` through every `pc` at which a
processor waits for a buffer: the equations are not inductive when the point is
counted in the cell from the start. The sums are over processors, over the
queue by its places, and over writers. `Lemmas` defines such a sum as the cardinality of
a set of tokens, which needs no recursion and so no induction in the steps: a
step that changes one summand changes the sum by that much (`TotalChanged`), and `Append`
and the removal of an entry from the middle of the queue by the entry
(`TotalExtended`, `TotalRemoved`). The refinement mapping is the identity on `read` and `file`, and `main`
with all its values before the end made one.

`Reprocess_proof` proves for the second pass, for every tree of voxels, all sizes that the first
pass may leave, and any number of Reprocessors, writer threads, buffers and failures:

| theorem | property |
|---|---|
| `ReprocessThreads` | `StateOK`, `BufferConservation`, `OneWriterPerFile`, `NoLostBufferWakeup`, `NoLostWriterWakeup` |
| `SourcesOutliveReading` | `SourceOutlivesReading` |
| `OnlyExactLose` | `SafeKeepPoints`: success loses no point, but of voxels with exactly `MaxPointsPerNode` |
| `PassKeepsPoints` | `ReprocessKeepsPoints`, if no voxel has exactly that many (`NoneExact`) |

The inductive invariant `ReInv` is `Local`, `Counting` and `Writing` of the first pass, whose lemmas
are used again, with three parts of its own.

- `RePhase` says what each value of `main` means for the threads: past `join` no voxel waits and no
  Reprocessor works, past the test of the errors none has failed, and a success has no thread left.
- `SourcesOK` is about who reads what. A voxel that a Reprocessor has is selected and no longer waits,
  no two Reprocessors have one voxel, and what was read of its points
  and what is `left` make up its size. Since the first pass leaves voxels on one level, the targets of
  two voxels have no voxel in common (`TargetsApart`), and a target that is selected itself is
  the voxel it comes from, with zero levels (`TargetSelected`). Without this a Reprocessor's points could go
  into a file that another one is about to delete.
- `Kept` is, for each voxel, `Flow` of the first pass with the points that the file had at the start
  (`WriterFlow(k, n)`): only of a voxel that is not selected, since the file of one that is
  goes. Of that one it says that nothing is tiled into it, and that its file is there only as long
  as somebody needs it (`FileNeeded`). For a voxel of exactly `MaxPointsPerNode` points it says neither, and that is
  the whole of what finding `reprocess_exact` loses: `NoneExact` is not an assumption on the
  program, which does not see to it, but the condition that the finding leaves.

`ThreadPool_proof` proves, for every number of workers, clients, tasks and restarts
and every length of the queue:

| theorem | property | used how |
|---|---|---|
| `PoolTypeCorrect` | `TypeOK` | any use |
| `CountIsExact` | `OutstandingCounts` | any use |
| `ErrorsKept` | `ErrorsReachOwner` | any use |
| `WorkersWoken` | `NoLostWakeup` | any use |
| `TasksRunOnce` | `EachTaskOnce` | `SafeUse` |
| `JoinIsComplete` | `JoinRunsAll` | `SafeUse` |

`SafeUse` says that the queue is unbounded, as all of the program's are, or that only
the owner adds. Otherwise another client's `add()`, blocked on a full queue, can push after
`join()` has let the workers go (findings, `ThreadPool.hpp:147`), and that task would not have been
run: `JoinIsComplete` needs the condition for this, and `TasksRunOnce` because `stop()` would then clear a task that came late. The invariant adds
to the properties that no worker leaves a running pool, that all have left when
`join()` is over (`PhaseOK`), that a task in the middle of `add()` belongs to one
client and is nowhere else (`AddersOK`), and, under `SafeUse`, that the queue is empty
when a worker leaves (`NoLateAdd`). What `push` and `pop` do to the elements of the
queue are the lemmas `PushElems` and `PopElems`. `NoLostWakeup` is inductive with
`PhaseOK`: only while some worker has not left does waking all of them help.

`Pyramid_proof` proves, for every number of axes and workers,
every set of inputs that `PyramidAssumption` allows, all limits of sampling, hoisting and
merging, and any number of tasks that throw:

| theorem | property |
|---|---|
| `PyramidTypeCorrect` | `TypeOK` |
| `CutsTheTree` | `OneCutOfTree` |
| `QuietAtFinish` | `NoTaskAtFinish` |
| `ErrorsEndRun` | `ErrorStopsRun` |
| `PointsAreConserved` | `PointsConserved` |
| `ChunksHaveNoGaps` | `ChunksAbut` |
| `IndexLeadsToChunks` | `IndexIsComplete` |
| `PyramidImplementsChunkStore` | `ImplementsChunkStore` |

The assumption on the inputs is that a temporary file has finitely many points, none of
them in another file, and the key of a cell of the grid (`InTree`), which the clamp in
`Grid::key` sees to: from another key the loops `while (k != root)` of `BuPyramid.cpp`
would pass keys that are no voxels of the tree.

There are two inductive invariants. `CutInv` is about voxels only. Its heart is
`Cut`: the voxels that are alive (queued, complete and waiting, in the main thread's
hands, with a task, with a worker) are each in one place, none is above another,
and until there is an error every file's voxel is at or below one of them.
`OneCutOfTree` says the same with cardinalities, of which nothing follows for the next step; the
antichain is what makes a voxel's children, when all are complete, vanish without
leaving anything below their parent. The root can only be alive alone: so when it is taken
nothing runs (`RootIsLast`), from which `NoTaskAtFinish` and `ErrorStopsRun` follow. The last
needs also that an error is noted by a worker or already set (`MainInv`).

`StoreInv` stands on `CutInv` and is about files, points and chunks. Its parts, each of which the next
ones need:

- `DiskInv`: what octants name exists and is finite.
- `OwnInv`: an octant that still matters owns the file of its own voxel and files of
  voxels below. With the antichain, files of two octants are never the same: this is
  why a Processor may merge, read and write without a lock, and why `Prepare` may be one step.
- `Settled`: a voxel that has a chunk, or is about to, is below the cut, and its parent's Processor
  has gone past its children; so no voxel gets a second chunk (`TodoInv`).
- `HierarchyInv`: each chunk that is not empty has an offset of its own below
  `pointPos`, its points go to that offset, and it is noted with their number.
- `IndexInv`: the parent of a voxel with a chunk has one, or an octant that must write
  (`OctantInfo::mustWrite`) is on its way there. Without the mark this breaks where sampling
  leaves nothing; and it needs of the marked octants that they have points, or the main thread
  would skip their parent.
- `PointsInv`: what octants own and what is in chunks is pairwise disjoint, from the input, and
  until a task throws all of it.

`PointsConserved` and the pairwise disjointness it asks for come from the last; `IndexIsComplete`
from `IndexInv` with `DoneInv`, by going up from a chunk to the root; `ChunksAbut` is inductive on top of
them, as a key that a worker has to write is not yet in the hierarchy. For the refinement, a point
is `pending` until its chunk's bytes are written, `chunks` are those noted in `written`, read at
the offsets of the hierarchy, and only `WriteChunk` (a `ChunkStore` step that stores, since the chunk's place is
its own and its points are pending) and `Finish` or a failure (the outcome) are not
stuttering.

What is defined by recursion is handled in `Lemmas` without an induction theorem of the
library: the predicate is a set, a set of numbers that is not empty has a least
element, and `InductionOnNat`, `InductionOnSets` and `RecursionOnNat` follow. They are used on the levels
of the tree (`Up`, hence `Lineage` and `Ancestors`, in `Voxel_proof`), on finite sets of points, and on the sum of
the chunk sizes.

`Session_proof` proves, for every input, number of runs, faults, size of pipe and thing at
`temp_dir`:

| theorem | property | from |
|---|---|---|
| `NoSecondProgram` | `OneProgram` | `NothingRuns`: also after `stop()`, which leaves `m_running` set, nothing runs |
| `TempDirRestored` | `PlaceRestored` | `PlaceKept`: what is there before `createDirs()` was there, and after it `own` says whether it was |
| `PercentIsSent` | `PercentIsReported` | `MessageInv`, below |
| `PercentNeverFalls` | `PercentGrows` | `PercentInv` for the program's percentage, `Rising` for the client's, below |
| `OutputIsExact` | `ExactUnlessLeftover` | `Exact`, below |

Their lemmas split the steps into those that keep what the invariant is about
(`ProgramIsAlive`, `LaterSteps`) and the few that do not. `OneProgram` alone is not
inductive: after `stop()`, a `running()` that sees another child's end clears `m_running`.

- `MessageInv`: a percentage in the pipe is one that was sent, both halves of a message's number are
  followed by both halves of a percentage (unless the program has ended or still has the percentage to
  say), and a reader that comes to expect a percentage finds one at the front. The property
  speaks of one step of the reader; that this step finds no half of a size there needs the order of
  all words in the pipe, whatever `readPipe()` has given up before.
- `PercentInv`: in the first pass `progress` has counted the points of the files that are done, its
  percentage is a whole number of clicks, and there are no more of these than `TotalClicks`; in the second, the
  percentage is bounded by the voxels that are done. Rounding the increments down is what
  makes both bounds hold for every number of points and of voxels.
- `Rising`: the percentage last read from this program (`shown`), those in the pipe, the one of the
  message in hand (`Due`) and the program's own are in this order and none is less than the one before.
  `MessageInv` gives that what is read as a percentage is the first in the pipe. The client's `m_percent`
  itself is not reset by `start()`, so it may fall when a second program sends its first one.
- `Exact`: what a run that found no temporary file has in its directory, phase by phase: the voxels
  tiled so far with their points (`TiledFiles`), those not yet split and the halves of those that are
  (`SplittingFiles`), and the leaves with the voxels sampled above them (`PyramidFiles`). It needs `FilesOK`: that no
  temporary file is empty, and that one that is to be split has its points.

`Output_proof` proves, for every set of jobs, dimensions, scales and limits that the named
assumptions allow, every tree of voxels over the tiles, any number of workers, and every order of
chunks and of pages:

| theorem | property |
|---|---|
| `FilePlaces` | `FileInv`, the inductive invariant |
| `RegionsStay` | `NothingOverwritten` |
| `FileContents` | `ContentInv`, the inductive invariant of what the regions hold |
| `PointsLieInNodes` | `PointsInNodes` |

The assumptions are those of the modules: a job is a list of files, each with lists of dimensions and points,
every file with a dimension for each axis, and no coordinate out of reach of the coarsest of the four scales that
`ScaleFromBounds` has, where the code has any power of ten (`OutputAssumption`, `InReach`); `One`,
`ScaleLimit`, `LasChunk` and `LevelBreak` are at least one, and the coordinate system's text has a
length (`PrepAssumption`, `CopcAssumption`). `RecordsAreFull`, which compares sizes of records with the fields
of the records, is a sum over constants and no claim about an input; every run of `output` evaluates it.
`NothingOverwritten` is not inductive: that `WriteHeader` finds room says something of `file` that
holds only if every step before has kept behind `PointOffset`.

- `InfoOK` is what `Prepare` leaves: dimensions and extra bytes are finite lists, so that the sizes of
  records are numbers. It needs the folds of `FilePrep` over parts and dimensions (`JobFiles`,
  `BaseInfoIsOK`).
- `Building` is the state while chunks are written: each chunk with points has a place of its own
  between `PointOffset` and `pointPos`, and what the file has are chunks that are not
  `pending`. Two workers' chunks are in the file in another order than in the table, and
  `WriteChunk` of one must find its place still empty.
- In the stages `hierarchy` and `header`, everything is behind `PointOffset`; in `hierarchy` also
  before `evlrOffset`.

The steps then need that regions written together are apart (`Laid`): that pages put one behind the
other by the sums of their sizes are (`PagesLaid`, from `SumsApart`, for any order of the pages),
and that the records of a header end at `PointOffset` (`HeaderLaid`, `RecordsFit`), a sum the
constructor and `writeHeader()` do each in its own way, with or without extra bytes. What sums over
sequences return is proved without an induction theorem, from the axioms of `CHOOSE` and the finite
sets of `Lemmas`: `FoldIsTotal` says that the fold of `+` is the sum of `Lemmas`, and `FoldExists` and
`FoldStays` give an invariant to a fold over a set in any order.

`PointsInNodes` is about a chain of five: a coordinate is quantized, the quantized one gets a key, the
key an entry in a page, the entry leads to a chunk, and a reader compares what it computes from
the chunk and the header with the cube it computes from the key and the COPC record.
`ContentInv` has a part for each link:

- `InBounds`: a quantized coordinate is within the bounds, and a reader's `steps * scale + offset` gives just
  that number again. A step may put a coordinate half a scale outside of the points' extent
  (`QuantizeIsNear`), and a whole scale is what `determineBounds()` adds at both ends (`BoundsHaveRoom`).
  For this, scales must be positive (`ScaleType`) and offsets numbers (`OffsetType`, `MedianType`), whatever
  the files, in parts and filtered, have (`FilteredAreFiles`).
- `InVoxel`: the cell of the key holds the coordinate, at every level and also on the upper end of the
  bounds, where `Key` takes the last cell (`InCell`).
- `RegionHolds` and `PlacesDiffer`: an entry has the place of its voxel's chunk; no other voxel has its
  chunk there; and the chunk has points of that voxel. Header and COPC record repeat the scales, offsets and bounds of `info`.
- `CubeIsCube`: the size of the record, that of the first axis, is that of all. This is where a cube
  and equal scales are needed: `determineBounds()` adds to each axis its own scale.

Before the proofs TLC checked each property on the runs above, and `FileInv` and `ContentInv` on that
of `output`.

Only model-checked:

- liveness (`ServedUnlessWriteFails`, `Termination`, `CallsReturn`, `EndsUnlessWriteFails`, `EndIsSeen`),
  which is out of the prover's reach;
- that a reader finds all points in the output, and their extent in the header (`OutputHasInput`, `HeaderDescribes`), and what a
  decoder returns (`Codec`): these are folds over sequences of any length, of records and symbols,
  within one step; a proof would be an induction over that data, for each fold.

## Not modelled, and the plan

Left out for good:

- the wrappers of system calls and their Windows variants, the command line and
  PDAL, which have no state of their own or are not this program's;
- `lazperf`'s formats 0 to 3 and its own file writer and reader of points, which the program
  does not use (it writes 6 to 8, through chunk compressors);
- floating point: coordinates and steps of time are integers, rounding is exact, and the
  moments of `Stats` are absent;
- values that need the real widths: more than 2^31 points in a voxel (`Epf.cpp:91`), a VLR
  of more than 65535 bytes, whose length is cut to 16 bits (`vlr.cpp`), and a run of
  carries longer than the encoder's buffer;
- temporary files that are shorter than their tasks believe (`Processor.cpp:252`).

What could be added: a proof of `OutputHasInput` from `ContentInv`, which says of a chunk that it has points
of its voxel, not yet that it has all of them.
