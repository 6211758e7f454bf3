------------------------------ MODULE Program ------------------------------
(***************************************************************************)
(* untwine/Untwine.cpp: main() with its options, temporary directory,      *)
(* phases and error reports, run after run on the same output and the same *)
(* temporary directory; a run may be killed between any two steps.  Tiling *)
(* and Pyramid have the phases in detail; here a phase is what it does to  *)
(* the directory and what it reports through untwine/ProgressWriter.       *)
(* Session starts the programs and reads their reports.                    *)
(*                                                                         *)
(* A point is a run and the voxel of level 2 it lies in; a temporary file  *)
(* is the sequence of its points.  Percentages are tenths: 10 is 100%.     *)
(*                                                                         *)
(* An operator marked "Fault" is no part of the specification: it is the   *)
(* definition below it with a plausible bug, which a property must catch.  *)
(***************************************************************************)
EXTENDS Voxel, Sequences, SequencesExt

CONSTANTS
    Inputs,         \* [direct, big]: the voxels with one point, and with two and too many
    Places,         \* what may be at temp_dir at first: "none", "dir" or "file"
    TempGiven,      \* is --temp_dir given?
    ChunkSize,      \* ProgressWriter::ChunkSize
    TotalClicks,    \* progress messages for a large input
    MaxRuns, MaxFaults      \* bounds: programs, and their exceptions and kills

VARIABLES
    pc,             \* where main() is; "none", "done" or "killed" when nothing runs,
                    \* "hung" when it waits for threads that do not end
    input,          \* what the run reads
    left,           \* voxels the phase has still to work on
    place,          \* what is at temp_dir
    dirs,           \* "unnamed" until tempDir is set, "made" when createDirs() has returned
    own,            \* ~tempDirExists, the argument of the last cleanup()
    files,          \* the voxels' files in temp_dir
    output,         \* the points of the output file, or NoFile
    status,
    progress,       \* ProgressWriter; m_increment is at first .4 by the number of clicks
    say,            \* what a call of writeMessage() has still to write
    runs, faults,
    before,         \* history: what was at temp_dir when the run began
    swept           \* history: no voxel's file was in temp_dir then

temp     == <<place, dirs, own, files>>
history  == <<before, swept>>
counts   == <<runs, faults>>
progVars == <<pc, input, left, temp, output, status, progress, say, counts, history>>

NoFile  == {[run |-> 0]}
NoInput == [direct |-> {}, big |-> {}]
Ended   == {"none", "done", "killed"}

\* The end of an axis in a voxel, and the points of a run in a voxel of level 1.
Low   == [a \in Axes |-> 0]
High  == [a \in Axes |-> 1]
Points(r, in, v) ==
    IF v \in in.direct THEN <<[run |-> r, at |-> Child(v, Low)]>>
    ELSE IF v \in in.big THEN <<[run |-> r, at |-> Child(v, Low)], [run |-> r, at |-> Child(v, High)]>>
    ELSE <<>>
AllPoints(r, in) == UNION {Range(Points(r, in, v)) : v \in in.direct \cup in.big}
NumPoints(in)    == Cardinality(AllPoints(1, in))

\* The clicks for a number of points, which 100000 and 40 bound for every number.
ASSUME ProgramAssumption ==
    /\ TotalClicks \in 1..4 /\ ChunkSize \in Nat /\ ChunkSize >= TotalClicks
    /\ \A in \in Inputs : LET n == NumPoints(in) IN
        n >= ChunkSize => n \div (n \div TotalClicks) <= TotalClicks

\* A voxel is of level 1, and has one point or more.
ASSUME InputAssumption ==
    \A in \in Inputs :
        /\ in.direct \cap in.big = {} /\ IsFiniteSet(in.direct) /\ IsFiniteSet(in.big)
        /\ \A v \in in.direct \cup in.big : v \in VoxelKey /\ v.level = 1

ASSUME PlacesAssumption == Places \subseteq {"none", "dir", "file"}

\* What is in a file that may be missing.
Content(fs, v)     == IF v \in DOMAIN fs THEN fs[v] ELSE <<>>
\* A file is written anew, and is opened for appending.
Written(fs, v, s)  == [w \in DOMAIN fs \cup {v} |-> IF w = v THEN s ELSE fs[w]]
Extended(fs, v, s) == Written(fs, v, Content(fs, v) \o s)
Without(fs, vs)    == [w \in DOMAIN fs \ vs |-> fs[w]]

Init ==
    /\ pc = "none" /\ input = NoInput /\ left = {}
    /\ place \in Places /\ before = place
    /\ dirs = "unnamed" /\ own = TRUE /\ files = <<>> /\ output = NoFile /\ status = 0
    /\ progress = [percent |-> 0, increment |-> 4 \div TotalClicks, current |-> 0, next |-> 0]
    /\ say = <<>> /\ runs = 0 /\ faults = 0 /\ swept = TRUE

-----------------------------------------------------------------------------
(* ProgressWriter, and os::writeMessage(), which makes one write() of each *)
(* number and of the text.                                                 *)

Message(p)   == <<<<"id", p>>, <<"percent", p>>, <<"size", p>>, <<"text", p>>>>
ErrorMessage == <<<<"error", 0>>, <<"size", 0>>, <<"text", 0>>>>

\* writeIncrementRaw()
WriteIncrement(pw) ==
    LET p == IF pw.percent + pw.increment < 10 THEN pw.percent + pw.increment ELSE 10
    IN  progress' = [pw EXCEPT !.percent = p] /\ say' = Message(p)
SetPercent(p, i) == progress' = [progress EXCEPT !.percent = p, !.increment = i]

\* setPointIncrementer()
PointIncrement == IF NumPoints(input) < ChunkSize THEN NumPoints(input)
                  ELSE NumPoints(input) \div TotalClicks

-----------------------------------------------------------------------------
(* main().                                                                 *)

\* A new process.
Begin(in) ==
    /\ pc \in Ended /\ runs < MaxRuns
    /\ runs' = runs + 1 /\ input' = in /\ left' = {} /\ say' = <<>>
    /\ pc' = "options" /\ dirs' = "unnamed" /\ own' = TRUE /\ status' = 0
    /\ progress' = [percent |-> 0, increment |-> 4 \div TotalClicks, current |-> 0, next |-> 0]
    /\ before' = place /\ swept' = (files = <<>>)
    /\ UNCHANGED <<place, files, output, faults>>

\* handleOptions() opens the output to see that it can, and deletes it.  Its
\* error comes before progress.init(), so it goes to cerr; when it is about the
\* output a given --temp_dir has been read.
HandleOptions ==
    /\ pc = "options"
    /\ \/ pc' = "dirs" /\ output' = NoFile /\ dirs' = "named" /\ UNCHANGED <<status, faults>>
       \/ /\ faults < MaxFaults /\ faults' = faults + 1
          /\ status' = -1 /\ pc' = "clean" /\ UNCHANGED output
          /\ \/ UNCHANGED dirs
             \/ TempGiven /\ dirs' = "named"
    /\ UNCHANGED <<input, left, place, own, files, progress, say, runs, history>>

\* The files cleanup() deletes: directoryList() gives paths, and no path
\* matches the regular expression for a file's name.
Matching(vs) == {}

\* Fault: a directory that was there is taken for the program's own.
CreateDirsOwning ==
    /\ pc = "dirs" /\ place # "file"
    /\ pc' = "prep" /\ dirs' = "made" /\ own' = TRUE /\ place' = "dir"
    /\ UNCHANGED <<files, input, left, output, status, progress, say, counts, history>>

\* createDirs().  When it throws, tempDirExists is still false.
CreateDirs ==
    /\ pc = "dirs"
    /\ files' = Without(files, Matching(DOMAIN files))
    /\ \/ /\ place = "file"
          /\ pc' = "clean" /\ status' = -1 /\ say' = ErrorMessage
          /\ UNCHANGED <<own, place, dirs>>
       \/ /\ place # "file"
          /\ pc' = "prep" /\ own' = (place = "none") /\ place' = "dir" /\ dirs' = "made"
          /\ UNCHANGED <<status, say>>
    /\ UNCHANGED <<input, left, output, progress, counts, history>>

\* FilePrep; then Epf::run() starts one task for each file.  A file without
\* points is one too.
Prepare ==
    /\ pc = "prep"
    /\ pc' = "tile"
    /\ left' = IF NumPoints(input) = 0 THEN {Root} ELSE input.direct \cup input.big
    /\ progress' = [progress EXCEPT !.next = PointIncrement]
    /\ UNCHANGED <<input, temp, output, status, say, counts, history>>

\* Fault: update() counts its default argument.
TileDefaultCount(v) ==
    /\ pc = "tile" /\ v \in left
    /\ left' = left \ {v} /\ pc' = "update"
    /\ files' = IF v = Root THEN files ELSE Extended(files, v, Points(runs, input, v))
    /\ progress' = [progress EXCEPT !.current = @ + ChunkSize]
    /\ UNCHANGED <<input, place, dirs, own, output, status, say, counts, history>>

\* The points of a file are read and written; then update(count).
Tile(v) ==
    /\ pc = "tile" /\ v \in left
    /\ left' = left \ {v} /\ pc' = "update"
    /\ LET s == Points(runs, input, v) IN
        /\ files' = IF s = <<>> THEN files ELSE Extended(files, v, s)
        /\ progress' = [progress EXCEPT !.current = @ + Len(s)]
    /\ UNCHANGED <<input, place, dirs, own, output, status, say, counts, history>>

\* The loop of update().  With a point increment of zero it does not end.
Click ==
    /\ pc = "update" /\ say = <<>> /\ progress.current >= progress.next
    /\ WriteIncrement([progress EXCEPT !.next = @ + PointIncrement])
    /\ UNCHANGED <<pc, input, left, temp, output, status, counts, history>>
Updated ==
    /\ pc = "update" /\ say = <<>> /\ progress.current < progress.next
    /\ pc' = "tile"
    /\ UNCHANGED <<input, left, temp, output, status, progress, say, counts, history>>

\* Epf::run() between its two passes: the voxels with too many points of this run.
Tiled ==
    /\ pc = "tile" /\ left = {}
    /\ pc' = "split" /\ left' = input.big
    /\ SetPercent(4, IF input.big = {} THEN 2 ELSE 2 \div Cardinality(input.big))
    /\ UNCHANGED <<input, temp, output, status, say, counts, history>>

\* The points of s that lie in voxel w, in their order.
PointsAt(s, w) ==
    LET upTo[n \in Nat] == IF n = 0 THEN <<>>
                           ELSE IF s[n].at = w THEN Append(upTo[n - 1], s[n]) ELSE upTo[n - 1]
    IN  upTo[Len(s)]

\* A Reprocessor reads as many points as its voxel got, from the beginning of
\* the file, tiles them one level down, and deletes the file.
Split(v) ==
    /\ pc = "split" /\ say = <<>> /\ v \in left
    /\ left' = left \ {v}
    /\ LET read == SubSeq(files[v], 1, Len(Points(runs, input, v)))
           rest == Without(files, {v})
       IN  files' = [w \in DOMAIN rest \cup {p.at : p \in Range(read)} |->
                        Content(rest, w) \o PointsAt(read, w)]
    /\ WriteIncrement(progress)
    /\ UNCHANGED <<pc, input, place, dirs, own, output, status, counts, history>>

\* getInputFiles(): the voxels with a file and without a file below.
Above(vs)      == UNION {Ancestors(v) : v \in vs}
InputFiles(vs) == vs \ Above(vs)

\* BuPyramid::run().  A directory that cannot be listed is an empty list, without
\* a parent to process there is "no temporary file".
StartPyramid ==
    /\ pc = "split" /\ left = {} /\ say = <<>>
    /\ \/ /\ faults < MaxFaults /\ faults' = faults + 1
          /\ pc' = "clean" /\ status' = -1 /\ say' = ErrorMessage
          /\ UNCHANGED <<progress, left, output>>
       \/ LET parents == Above(InputFiles(DOMAIN files)) IN
          /\ parents # {}
          /\ pc' = "pyramid" /\ left' = parents /\ output' = {}
          /\ SetPercent(6, 4 \div Cardinality(parents)) /\ UNCHANGED <<status, say, faults>>
    /\ UNCHANGED <<input, temp, runs, history>>

\* The points below a voxel are sampled; a new file of the voxel has some of
\* them.  At the root the output has the points of all input files.
Sample(v) ==
    /\ pc = "pyramid" /\ say = <<>> /\ v \in left /\ Children(v) \cap left = {}
    /\ left' = left \ {v}
    /\ LET ins == InputFiles(DOMAIN files) IN
        \/ /\ v = Root
           /\ output' = UNION {Range(files[w]) : w \in ins}
           /\ pc' = "clean" /\ UNCHANGED files
        \/ /\ v # Root
           /\ \E w \in ins : v \in Ancestors(w) /\ files' = Written(files, v, <<Head(files[w])>>)
           /\ UNCHANGED <<output, pc>>
    /\ WriteIncrement(progress)
    /\ UNCHANGED <<input, place, dirs, own, status, counts, history>>

\* Fault: an exception leaves the status alone.
ThrowUnreported ==
    /\ pc \in {"prep", "tile", "split", "pyramid"} /\ say = <<>> /\ faults < MaxFaults
    /\ faults' = faults + 1 /\ say' = ErrorMessage /\ pc' = "clean"
    /\ UNCHANGED <<input, left, temp, output, status, progress, runs, history>>

\* An exception of a phase that reaches main(), is caught there and reported.
Throw ==
    /\ pc \in {"prep", "tile", "split", "pyramid"} /\ say = <<>> /\ faults < MaxFaults
    /\ faults' = faults + 1
    /\ status' = -1 /\ say' = ErrorMessage /\ pc' = "clean"
    /\ UNCHANGED <<input, left, temp, output, progress, runs, history>>

\* A pass of tiling that does not end, with a failed write or without a failure: a
\* processor sleeps for a buffer that nobody gives back, so that the pool is never
\* joined; or a Reprocessor's error destroys a writer whose threads wait.  Tiling
\* and Reprocess show when.
Hang ==
    /\ pc \in {"tile", "split"} /\ say = <<>> /\ left \ {Root} # {}
    /\ pc' = "hung"
    /\ UNCHANGED <<input, left, temp, output, status, progress, say, counts, history>>

\* cleanup(); deleteDirectory() deletes whatever there is.
Cleanup ==
    /\ pc = "clean" /\ say = <<>>
    /\ pc' = "done"
    /\ IF own /\ dirs # "unnamed"
       THEN place' = "none" /\ files' = <<>>
       ELSE UNCHANGED place /\ files' = Without(files, Matching(DOMAIN files))
    /\ UNCHANGED <<input, left, dirs, own, output, status, progress, say, counts, history>>

\* The process is killed, or a Reprocessor calls exit(): nothing is cleaned up.
Die ==
    /\ pc \notin Ended /\ pc' = "killed" /\ say' = <<>>
    /\ UNCHANGED <<input, left, temp, output, status, progress, runs, history>>
Kill == faults < MaxFaults /\ faults' = faults + 1 /\ Die

ProgramStep ==
    \/ HandleOptions \/ CreateDirs \/ Prepare \/ Click \/ Updated \/ Tiled
    \/ StartPyramid \/ Cleanup
    \/ \E v \in left : Tile(v) \/ Split(v) \/ Sample(v)
=============================================================================
