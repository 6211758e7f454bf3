--------------------------- MODULE Session_proof ---------------------------
(***************************************************************************)
(* Theorems about Session, for every input, every temporary directory that *)
(* may be there at first, every number of runs and of faults, and every    *)
(* size of the pipe: no two programs run at once; what is at temp_dir when *)
(* a program starts is there when it has ended; the percentage the client  *)
(* reads was sent, and it never goes back; and the output of a run that    *)
(* found no temporary file is exact.                                       *)
(***************************************************************************)
EXTENDS Session, Voxel_proof, SequenceTheorems, TLAPS

\* stop() sets m_pid to zero, and then nothing runs either.
NothingRuns == ~m_running \/ m_pid = "zero" => pc \in Ended /\ reaped

\* Steps that leave the part of the state alone that NothingRuns is about; a
\* program takes them only while it runs.
Alive == pc \notin Ended /\ UNCHANGED client

\* Every step of the program itself is one.
LEMMA ProgramIsAlive ==
    (ProgramStep /\ Quiet) \/ ((Throw \/ Hang \/ Kill) /\ Quiet) \/ WriteWord => Alive
<1>1. ASSUME ProgramStep, Quiet PROVE Alive
  <2>1. pc \notin Ended
    BY <1>1 DEF ProgramStep, Ended, HandleOptions, CreateDirs, Prepare, Click, Updated, Tiled,
        StartPyramid, Cleanup, Tile, Split, Sample
  <2> QED BY <1>1, <2>1 DEF Alive, Quiet
<1>2. ASSUME Throw \/ Hang \/ Kill, Quiet PROVE Alive
  BY <1>2 DEF Throw, Hang, Kill, Die, Ended, Alive, Quiet
<1>3. ASSUME WriteWord PROVE Alive
  BY <1>3 DEF WriteWord, Alive
<1> QED BY <1>1, <1>2, <1>3

LEMMA NothingRunsInit == SInit => NothingRuns
BY DEF SInit, Init, NothingRuns, Ended

LEMMA NothingRunsStep == NothingRuns /\ [Next]_vars => NothingRuns'
<1> SUFFICES ASSUME NothingRuns, [Next]_vars PROVE NothingRuns'
  OBVIOUS
<1>1. ASSUME Alive PROVE NothingRuns'
  BY <1>1 DEF Alive, client, NothingRuns
<1>2. CASE Stop
  <2>1. pc' \in Ended \/ UNCHANGED pc
    BY <1>2 DEF Stop, Die, Ended
  <2> QED BY <1>2, <2>1 DEF Stop, Die, NothingRuns, Ended
<1>3. CASE Running
  BY <1>3 DEF Running, Waited, NothingRuns, progVars, Ended
<1>4. CASE OtherEnds
  BY <1>4 DEF OtherEnds, NothingRuns, progVars
<1>5. CASE Poll \/ Read
  BY <1>5 DEF Poll, Read, ReadId, ReadPercent, ReadSize, ReadText, NothingRuns, progVars, client
<1>6. ASSUME NEW in \in Inputs, Start(in) PROVE NothingRuns'
  BY <1>6 DEF Start, NothingRuns
<1>7. CASE UNCHANGED vars
  BY <1>7 DEF vars, progVars, client, NothingRuns
<1> QED BY <1>1, <1>2, <1>3, <1>4, <1>5, <1>6, <1>7, ProgramIsAlive DEF Next

\* While the client believes that nothing runs, nothing does.  (start(), stop()
\* and running() of QgisUntwine.)
THEOREM NoSecondProgram == Spec => []OneProgram
<1>1. NothingRuns => OneProgram
  BY DEF NothingRuns, OneProgram
<1> QED BY <1>1, NothingRunsInit, NothingRunsStep, PTL DEF Spec

-----------------------------------------------------------------------------
(* The temporary directory.                                                *)

Early == {"options", "dirs"}

\* Until createDirs() has returned, what is there has been there; after it, a
\* directory is there, which is the program's own if nothing was before.
PlaceKept ==
    /\ pc \in Early => dirs # "made"
    /\ pc \in Early => place = before
    /\ place \in {"none", "dir", "file"}
    /\ dirs = "made" /\ pc \notin Ended => place = "dir" /\ own = (before = "none")
    /\ dirs = "made" /\ pc \notin Ended => before \in {"none", "dir"}

\* What the directory of a run is about, but for the files in it.
Site == <<place, dirs, own, before>>

\* Steps of main() after createDirs(), and those of its callers that end a run.
LEMMA LaterSteps ==
    ASSUME Prepare \/ Click \/ Updated \/ Tiled \/ StartPyramid \/ Throw \/ Hang
           \/ (\E v \in left : Tile(v) \/ Split(v) \/ Sample(v))
    PROVE  UNCHANGED Site /\ pc \notin Ended /\ pc' \notin Ended \cup Early
<1>1. CASE Prepare
  BY <1>1 DEF Prepare, Site, temp, history, Ended, Early
<1>2. CASE Click
  BY <1>2 DEF Click, Site, temp, history, Ended, Early
<1>3. CASE Updated
  BY <1>3 DEF Updated, Site, temp, history, Ended, Early
<1>4. CASE Tiled
  BY <1>4 DEF Tiled, Site, temp, history, Ended, Early
<1>5. CASE StartPyramid
  BY <1>5 DEF StartPyramid, Site, temp, history, Ended, Early
<1>6. CASE Throw \/ Hang
  BY <1>6 DEF Throw, Hang, Site, temp, history, Ended, Early
<1>7. ASSUME NEW v \in left, Tile(v) \/ Split(v) \/ Sample(v)
      PROVE  UNCHANGED Site /\ pc \notin Ended /\ pc' \notin Ended \cup Early
  BY <1>7 DEF Tile, Split, Sample, Site, history, Ended, Early
<1> QED BY <1>1, <1>2, <1>3, <1>4, <1>5, <1>6, <1>7

PlaceInv == PlaceKept /\ PlaceRestored

LEMMA PlaceInit == SInit => PlaceInv
BY PlacesAssumption DEF SInit, Init, PlaceInv, PlaceKept, PlaceRestored, Early, Ended

LEMMA PlaceStep == PlaceInv /\ [Next]_vars => PlaceInv'
<1> SUFFICES ASSUME PlaceInv, [Next]_vars PROVE PlaceInv'
  OBVIOUS
<1> USE DEF PlaceInv, PlaceKept, PlaceRestored
<1>1. ASSUME UNCHANGED Site, pc \notin Ended, pc' \notin Ended \cup Early PROVE PlaceInv'
  BY <1>1 DEF Site, Ended, Early
<1>2. ASSUME UNCHANGED Site, UNCHANGED pc PROVE PlaceInv'
  BY <1>2 DEF Site
<1>3. ASSUME UNCHANGED Site, pc' = "killed" PROVE PlaceInv'
  BY <1>3 DEF Site, Ended, Early
<1>4. CASE HandleOptions
  BY <1>4 DEF HandleOptions, history, Ended, Early
<1>5. CASE CreateDirs
  <2>1. pc = "dirs" /\ place = before /\ dirs # "made" /\ UNCHANGED before
    BY <1>5 DEF CreateDirs, history, Early
  <2>2. CASE place = "file"
    BY <1>5, <2>1, <2>2 DEF CreateDirs, Ended, Early
  <2>3. CASE place # "file"
    BY <1>5, <2>1, <2>3 DEF CreateDirs, Ended, Early
  <2> QED BY <2>2, <2>3
<1>6. CASE Cleanup
  BY <1>6 DEF Cleanup, history, Ended, Early
<1>7. CASE ProgramStep
  BY <1>1, <1>4, <1>5, <1>6, <1>7, LaterSteps DEF ProgramStep
<1>8. CASE Throw \/ Hang
  BY <1>1, <1>8, LaterSteps
<1>9. CASE Kill
  BY <1>3, <1>9 DEF Kill, Die, Site, temp, history
<1>10. CASE WriteWord
  BY <1>2, <1>10 DEF WriteWord, Site, temp, history
<1>11. CASE Stop
  <2>1. UNCHANGED Site
    BY <1>11 DEF Stop, Die, Site, temp, history
  <2>2. pc' = "killed" \/ UNCHANGED pc
    BY <1>11 DEF Stop, Die
  <2> QED BY <1>2, <1>3, <2>1, <2>2
<1>12. CASE Running \/ OtherEnds \/ Poll \/ Read
  BY <1>2, <1>12 DEF Running, OtherEnds, Poll, Read, ReadId, ReadPercent, ReadSize, ReadText, progVars,
      Site, temp, history
<1>13. ASSUME NEW in \in Inputs, Start(in) PROVE PlaceInv'
  <2>1. CASE Begin(in)
    BY <2>1 DEF Begin, Ended, Early
  <2>2. CASE ~Begin(in)
    BY <1>3, <1>13, <2>2 DEF Start, Site, temp, history
  <2> QED BY <2>1, <2>2
<1>14. CASE UNCHANGED vars
  BY <1>2, <1>14 DEF vars, progVars, Site, temp, history
<1> QED BY <1>7, <1>8, <1>9, <1>10, <1>11, <1>12, <1>13, <1>14 DEF Next

\* A run that createDirs() has let through leaves temp_dir as it found it, however
\* the run ends, unless it is killed.
THEOREM TempDirRestored == Spec => []PlaceRestored
<1>1. PlaceInv => PlaceRestored
  BY DEF PlaceInv
<1> QED BY <1>1, PlaceInit, PlaceStep, PTL DEF Spec
-----------------------------------------------------------------------------
(* What a run reads, and the temporary files.                              *)

Parts  == input.direct \cup input.big
Point  == [run : Nat, at : VoxelKey]
Begun  == {"options", "dirs", "prep"}
Tiling == {"tile", "update"}

\* A process that runs has an input, and what ProgressWriter has are numbers.
ProgressOK == progress \in [percent : Nat, increment : Nat, current : Nat, next : Nat]
InputOK ==
    /\ input \in Inputs \cup {NoInput} /\ (pc \notin Ended => input \in Inputs)
    /\ runs \in Nat /\ ProgressOK

\* No temporary file is empty, those of earlier runs included.
FilesType(fs) ==
    /\ IsFiniteSet(DOMAIN fs) /\ fs \in [DOMAIN fs -> Seq(Point)]
    /\ \A v \in DOMAIN fs : v \in VoxelKey /\ fs[v] # <<>>

\* One that is to be read a second time has its points.
FilesOK ==
    /\ FilesType(files)
    /\ pc = "split" => left \subseteq input.big
    /\ \A v \in input.big :
        (pc \in Tiling /\ v \notin left) \/ (pc = "split" /\ v \in left) =>
            v \in DOMAIN files /\ Len(files[v]) >= 2

LEMMA InputFacts ==
    \A in \in Inputs \cup {NoInput} :
        /\ in.direct \cap in.big = {} /\ IsFiniteSet(in.direct) /\ IsFiniteSet(in.big)
        /\ \A v \in in.direct \cup in.big : v \in VoxelKey /\ v.level = 1
<1>1. NoInput.direct = {} /\ NoInput.big = {} /\ IsFiniteSet({})
  BY FS_EmptySet DEF NoInput
<1>2. QED
  BY <1>1, InputAssumption

LEMMA Ends == Low \in Dirs /\ High \in Dirs /\ Low # High
<1>1. PICK a \in Axes : TRUE
  BY AxesAssumption
<1>2. Low[a] = 0 /\ High[a] = 1
  BY DEF Low, High
<1>3. QED
  BY <1>2 DEF Low, High, Dirs

\* The points of a voxel.
LEMMA PointsType ==
    ASSUME NEW r \in Nat, NEW in \in Inputs \cup {NoInput}, NEW v
    PROVE  /\ v \in in.direct => Points(r, in, v) = <<[run |-> r, at |-> Child(v, Low)]>>
           /\ v \in in.big =>
                Points(r, in, v) = <<[run |-> r, at |-> Child(v, Low)], [run |-> r, at |-> Child(v, High)]>>
           /\ v \notin in.direct \cup in.big => Points(r, in, v) = <<>>
           /\ Points(r, in, v) \in Seq(Point) /\ Len(Points(r, in, v)) \in Nat
           /\ v \in in.big => Len(Points(r, in, v)) = 2
           /\ Points(r, in, v) = <<>> <=> v \notin in.direct \cup in.big
<1>1. v \in in.direct => v \notin in.big
  BY InputFacts
<1>2. CASE v \in in.direct
  <2>1. Child(v, Low) \in VoxelKey
    BY <1>2, InputFacts, Ends, ChildType
  <2>2. [run |-> r, at |-> Child(v, Low)] \in Point
    BY <2>1 DEF Point
  <2>3. Points(r, in, v) = <<[run |-> r, at |-> Child(v, Low)]>>
    BY <1>2 DEF Points
  <2> HIDE DEF Points, Point
  <2>4. QED
    BY <1>1, <1>2, <2>2, <2>3
<1>3. CASE v \in in.big
  <2>1. Child(v, Low) \in VoxelKey /\ Child(v, High) \in VoxelKey
    BY <1>3, InputFacts, Ends, ChildType
  <2>2. [run |-> r, at |-> Child(v, Low)] \in Point /\ [run |-> r, at |-> Child(v, High)] \in Point
    BY <2>1 DEF Point
  <2>3. Points(r, in, v) = <<[run |-> r, at |-> Child(v, Low)], [run |-> r, at |-> Child(v, High)]>>
    BY <1>1, <1>3 DEF Points
  <2>4. QED
    BY <1>1, <1>3, <2>2, <2>3
<1>4. CASE v \notin in.direct \cup in.big
  BY <1>4 DEF Points
<1>5. QED
  BY <1>2, <1>3, <1>4

LEMMA RangeFinite ==
    ASSUME NEW S, NEW s \in Seq(S)
    PROVE  IsFiniteSet(Range(s))
<1>1. Range(s) = {s[i] : i \in 1..Len(s)} /\ Len(s) \in Nat
  BY DEF Range
<1>2. IsFiniteSet(1..Len(s))
  BY <1>1, FS_Interval
<1>3. QED
  BY <1>1, <1>2, FiniteImage

LEMMA AllPointsFinite ==
    ASSUME NEW r \in Nat, NEW in \in Inputs \cup {NoInput}
    PROVE  /\ IsFiniteSet(AllPoints(r, in))
           /\ AllPoints(r, in) = {} <=> in.direct \cup in.big = {}
<1> DEFINE S == in.direct \cup in.big
           f == [v \in S |-> Range(Points(r, in, v))]
<1>1. IsFiniteSet(S)
  BY InputFacts, FS_Union
<1>2. \A v \in S : IsFiniteSet(f[v])
  BY PointsType, RangeFinite
<1>3. IsFiniteSet(UNION {f[v] : v \in S})
  <2> HIDE DEF f, S
  <2>1. QED
    BY <1>1, <1>2, FiniteUnion
<1>4. AllPoints(r, in) = UNION {f[v] : v \in S}
  BY DEF AllPoints
<1>5. ASSUME NEW v \in S PROVE AllPoints(r, in) # {}
  <2>1. Points(r, in, v) # <<>> /\ Points(r, in, v) \in Seq(Point)
    BY PointsType
  <2>2. Points(r, in, v)[1] \in Range(Points(r, in, v))
    BY <2>1 DEF Range
  <2>3. QED
    BY <2>2 DEF AllPoints
<1>6. S = {} => AllPoints(r, in) = {}
  BY DEF AllPoints
<1>7. QED
  BY <1>3, <1>4, <1>5, <1>6

LEMMA NumPointsType ==
    ASSUME InputOK
    PROVE  /\ NumPoints(input) \in Nat /\ PointIncrement \in Nat
           /\ NumPoints(input) = 0 <=> Parts = {}
<1>1. IsFiniteSet(AllPoints(1, input)) /\ (AllPoints(1, input) = {} <=> Parts = {})
  BY AllPointsFinite DEF InputOK, Parts
<1>2. NumPoints(input) \in Nat /\ (NumPoints(input) = 0 <=> Parts = {})
  BY <1>1, FS_CardinalityType, FS_EmptySet DEF NumPoints
<1>3. PointIncrement \in Nat
  BY <1>2, ProgramAssumption DEF PointIncrement
<1>4. QED
  BY <1>2, <1>3

LEMMA ParentsFinite ==
    ASSUME NEW vs \in SUBSET VoxelKey, IsFiniteSet(vs)
    PROVE  IsFiniteSet(Above(vs)) /\ Above(vs) \subseteq VoxelKey
<1> DEFINE f == [v \in vs |-> Ancestors(v)]
<1>1. \A v \in vs : IsFiniteSet(f[v])
  BY AncestorsFinite
<1>2. Above(vs) = UNION {f[v] : v \in vs}
  BY DEF Above
<1>3. Above(vs) \subseteq VoxelKey
  BY AncestorType DEF Above
<1> HIDE DEF f
<1>4. QED
  BY <1>1, <1>2, <1>3, FiniteUnion

LEMMA WriteIncrementType ==
    ASSUME NEW pw \in [percent : Nat, increment : Nat, current : Nat, next : Nat], WriteIncrement(pw)
    PROVE  ProgressOK'
<1>1. pw.percent \in Nat /\ pw.increment \in Nat
  OBVIOUS
<1>2. (IF pw.percent + pw.increment < 10 THEN pw.percent + pw.increment ELSE 10) \in Nat
  BY <1>1
<1>3. QED
  BY <1>2 DEF WriteIncrement, ProgressOK

LEMMA SetPercentType ==
    ASSUME ProgressOK, NEW p \in Nat, NEW i \in Nat, SetPercent(p, i)
    PROVE  ProgressOK'
BY DEF SetPercent, ProgressOK

\* The increments of the second pass and of the pyramid are numbers.
LEMMA IncrementType ==
    ASSUME NEW n \in Nat, NEW vs, vs # {}, IsFiniteSet(vs)
    PROVE  n \div Cardinality(vs) \in Nat
<1>1. Cardinality(vs) \in Nat /\ Cardinality(vs) # 0
  BY FS_CardinalityType, FS_EmptySet
<1>2. QED
  BY <1>1

LEMMA InputInit == SInit => InputOK /\ FilesOK
<1> SUFFICES ASSUME SInit PROVE InputOK /\ FilesOK
  OBVIOUS
<1>1. input = NoInput /\ runs = 0 /\ pc = "none" /\ files = <<>>
  BY DEF SInit, Init
<1>2. progress = [percent |-> 0, increment |-> 4 \div TotalClicks, current |-> 0, next |-> 0]
  BY DEF SInit, Init
<1>3. ProgressOK
  BY <1>2, ProgramAssumption DEF ProgressOK
<1>4. DOMAIN files = {} /\ IsFiniteSet({})
  BY <1>1, FS_EmptySet
<1>5. InputOK
  BY <1>1, <1>3 DEF InputOK, Ended
<1>6. FilesOK
  BY <1>1, <1>4 DEF FilesOK, FilesType, Tiling
<1>7. QED
  BY <1>5, <1>6

\* Steps that leave the input, the number of the run and the progress alone.
LEMMA InputKept ==
    ASSUME InputOK, UNCHANGED <<input, runs, progress>>, pc' \notin Ended => pc \notin Ended
    PROVE  InputOK'
BY DEF InputOK, ProgressOK

LEMMA InputStepProgram ==
    ASSUME InputOK, FilesOK, ProgramStep \/ Throw \/ Hang \/ Kill
    PROVE  InputOK'
<1>1. CASE HandleOptions \/ CreateDirs \/ Updated \/ Cleanup \/ Throw \/ Hang \/ Kill
  <2>1. UNCHANGED <<input, runs, progress>> /\ (pc' \notin Ended => pc \notin Ended)
    BY <1>1 DEF HandleOptions, CreateDirs, Updated, Cleanup, Throw, Hang, Kill, Die, Ended, counts
  <2>2. QED
    BY <2>1, InputKept
<1>2. ASSUME ProgressOK', UNCHANGED <<input, runs>>, pc \notin Ended PROVE InputOK'
  BY <1>2 DEF InputOK
<1>3. CASE Prepare
  <2>1. progress' = [progress EXCEPT !.next = PointIncrement]
    BY <1>3 DEF Prepare
  <2>2. ProgressOK'
    BY <2>1, NumPointsType DEF InputOK, ProgressOK
  <2>3. QED
    BY <1>2, <1>3, <2>2 DEF Prepare, Ended, counts
<1>4. ASSUME NEW v \in left, Tile(v) PROVE InputOK'
  <2>1. progress' = [progress EXCEPT !.current = @ + Len(Points(runs, input, v))]
    BY <1>4 DEF Tile
  <2>2. Len(Points(runs, input, v)) \in Nat
    BY PointsType DEF InputOK
  <2>3. ProgressOK'
    BY <2>1, <2>2 DEF InputOK, ProgressOK
  <2>4. QED
    BY <1>2, <1>4, <2>3 DEF Tile, Ended, counts
<1>5. CASE Click
  <2>1. WriteIncrement([progress EXCEPT !.next = @ + PointIncrement])
    BY <1>5 DEF Click
  <2>2. [progress EXCEPT !.next = @ + PointIncrement] \in
            [percent : Nat, increment : Nat, current : Nat, next : Nat]
    BY NumPointsType DEF InputOK, ProgressOK
  <2>3. ProgressOK'
    BY <2>1, <2>2, WriteIncrementType
  <2>4. QED
    BY <1>2, <1>5, <2>3 DEF Click, Ended, counts
<1>6. CASE Tiled
  <2>1. IsFiniteSet(input.big)
    BY InputFacts DEF InputOK
  <2>2. (IF input.big = {} THEN 2 ELSE 2 \div Cardinality(input.big)) \in Nat
    BY <2>1, IncrementType
  <2>3. ProgressOK'
    BY <1>6, <2>2, SetPercentType DEF Tiled, InputOK
  <2>4. QED
    BY <1>2, <1>6, <2>3 DEF Tiled, Ended, counts
<1>7. CASE StartPyramid
  <2>1. IsFiniteSet(InputFiles(DOMAIN files)) /\ InputFiles(DOMAIN files) \subseteq VoxelKey
    BY FS_Subset DEF FilesOK, FilesType, InputFiles
  <2>2. IsFiniteSet(Above(InputFiles(DOMAIN files)))
    BY <2>1, ParentsFinite
  <2>3. CASE UNCHANGED progress
    BY <1>2, <1>7, <2>3 DEF StartPyramid, Ended, InputOK, ProgressOK
  <2>4. CASE Above(InputFiles(DOMAIN files)) # {}
             /\ SetPercent(6, 4 \div Cardinality(Above(InputFiles(DOMAIN files))))
    <3>1. 4 \div Cardinality(Above(InputFiles(DOMAIN files))) \in Nat
      BY <2>2, <2>4, IncrementType
    <3>2. ProgressOK'
      BY <2>4, <3>1, SetPercentType DEF InputOK
    <3>3. QED
      BY <1>2, <1>7, <3>2 DEF StartPyramid, Ended
  <2>5. QED
    BY <1>7, <2>3, <2>4 DEF StartPyramid
<1>8. ASSUME NEW v \in left, Split(v) \/ Sample(v) PROVE InputOK'
  <2>1. WriteIncrement(progress)
    BY <1>8 DEF Split, Sample
  <2>2. ProgressOK'
    BY <2>1, WriteIncrementType DEF InputOK, ProgressOK
  <2>3. QED
    BY <1>2, <1>8, <2>2 DEF Split, Sample, Ended, counts
<1>9. QED
  BY <1>1, <1>3, <1>4, <1>5, <1>6, <1>7, <1>8 DEF ProgramStep

\* Steps of the client, and the program's writing.
Outside == WriteWord \/ Stop \/ Running \/ OtherEnds \/ Poll \/ Read

LEMMA OutsideSteps ==
    ASSUME Outside
    PROVE  /\ UNCHANGED <<input, left, temp, output, status, progress, runs, history>>
           /\ pc' = pc \/ (Stop /\ pc' = "killed")
BY DEF Outside, WriteWord, Stop, Die, Running, OtherEnds, Poll, Read, ReadId, ReadPercent, ReadSize, ReadText,
       progVars, counts

LEMMA InputStep == InputOK /\ FilesOK /\ [Next]_vars => InputOK'
<1> SUFFICES ASSUME InputOK, FilesOK, [Next]_vars PROVE InputOK'
  OBVIOUS
<1>1. CASE Outside
  BY <1>1, OutsideSteps, InputKept DEF Ended
<1>2. ASSUME NEW in \in Inputs, Start(in) PROVE InputOK'
  <2>1. CASE Begin(in)
    <3>1. /\ progress' = [percent |-> 0, increment |-> 4 \div TotalClicks, current |-> 0, next |-> 0]
          /\ input' = in /\ runs' = runs + 1
      BY <2>1 DEF Begin
    <3>2. ProgressOK'
      BY <3>1, ProgramAssumption DEF ProgressOK
    <3>3. QED
      BY <3>1, <3>2 DEF InputOK
  <2>2. CASE ~Begin(in)
    <3>1. UNCHANGED <<input, progress>> /\ runs' = runs + 1 /\ pc' = "killed"
      BY <1>2, <2>2 DEF Start
    <3>2. QED
      BY <3>1 DEF InputOK, ProgressOK, Ended
  <2>3. QED
    BY <2>1, <2>2
<1>3. CASE UNCHANGED vars
  <2>1. UNCHANGED <<input, runs, progress, pc>>
    BY <1>3 DEF vars, progVars, counts
  <2>2. QED
    BY <2>1, InputKept
<1>4. CASE ProgramStep \/ Throw \/ Hang \/ Kill
  BY <1>4, InputStepProgram
<1>5. QED
  BY <1>1, <1>2, <1>3, <1>4 DEF Next, Outside

\* A sequence of two is the pair of its elements.
LEMMA PairOf == ASSUME NEW S, NEW s \in Seq(S), Len(s) = 2 PROVE s = <<s[1], s[2]>>
OBVIOUS

LEMMA AppendToOne == ASSUME NEW a, NEW b PROVE Append(<<a>>, b) = <<a, b>>
<1> DEFINE one == <<a>>
           two == Append(one, b)
           S   == {a, b}
<1>1. a \in S /\ b \in S
  OBVIOUS
<1> HIDE DEF S
<1>2. one \in Seq(S) /\ Len(one) = 1 /\ one[1] = a
  BY <1>1
<1> HIDE DEF one
<1>3. two \in Seq(S) /\ Len(two) = Len(one) + 1 /\ two[Len(one) + 1] = b
  BY <1>1, <1>2, AppendProperties, SMTT(20)
<1>4. two[1] = a
  <2>1. 1 \in 1..Len(one)
    BY <1>2
  <2>2. two[1] = one[1]
    BY <1>1, <1>2, <2>1, AppendProperties
  <2>3. QED
    BY <1>2, <2>2
<1> HIDE DEF two
<1>5. Len(two) = 2 /\ two[1] = a /\ two[2] = b
  BY <1>2, <1>3, <1>4
<1>6. two = <<two[1], two[2]>>
  BY <1>3, <1>5, PairOf, Zenon
<1>7. QED
  BY <1>5, <1>6, Zenon DEF one, two

\* The points of two that lie in a voxel.
LEMMA PointsAtPair ==
    ASSUME NEW a \in Point, NEW b \in Point, NEW w
    PROVE  /\ a.at = w /\ b.at = w => PointsAt(<<a, b>>, w) = <<a, b>>
           /\ a.at = w /\ b.at # w => PointsAt(<<a, b>>, w) = <<a>>
           /\ a.at # w /\ b.at = w => PointsAt(<<a, b>>, w) = <<b>>
           /\ a.at # w /\ b.at # w => PointsAt(<<a, b>>, w) = <<>>
<1> DEFINE s         == <<a, b>>
           S         == {s[m] : m \in Nat}
           Q         == Seq(S)
           add(n, q) == IF s[n].at = w THEN Append(q, s[n]) ELSE q
           step      == [n \in Nat |-> [q \in Q |-> add(n, q)]]
           Upto(f)   == f = [n \in Nat |-> IF n = 0 THEN <<>> ELSE add(n, f[n - 1])]
           upTo      == CHOOSE f : Upto(f)
<1>1. PointsAt(s, w) = upTo[Len(s)]
  BY DEF PointsAt
<1>2. Len(s) = 2 /\ s[1] = a /\ s[2] = b
  OBVIOUS
<1>3. \A n \in Nat : s[n] \in S
  OBVIOUS
<1> HIDE DEF s, S
<1>4. <<>> \in Q
  OBVIOUS
<1>5. \A n \in Nat : \A q \in Q : add(n, q) \in Q
  BY <1>3
<1> HIDE DEF Q
<1>6. \A q : add(1, q) = (IF a.at = w THEN Append(q, a) ELSE q) /\ add(2, q) = (IF b.at = w THEN Append(q, b) ELSE q)
  BY <1>2
<1> HIDE DEF add
<1>7. step \in [Nat -> [Q -> Q]]
  BY <1>5
<1>8. \E f : Upto(f)
  <2> HIDE DEF step
  <2>1. PICK f \in [Nat -> Q] : f = [n \in Nat |-> IF n = 0 THEN <<>> ELSE step[n][f[n - 1]]]
    BY <1>4, <1>7, RecursionOnNat, SMTT(30)
  <2>2. \A n \in Nat : n # 0 => f[n - 1] \in Q
    <3>1. \A n \in Nat : n # 0 => n - 1 \in Nat
      OBVIOUS
    <3>2. QED
      BY <2>1, <3>1
  <2>3. \A n \in Nat : n # 0 => step[n][f[n - 1]] = add(n, f[n - 1])
    BY <2>2 DEF step
  <2>4. QED
    BY <2>1, <2>3
<1>9. Upto(upTo)
  <2> HIDE DEF Upto
  <2>1. QED
    BY <1>8, Zenon
<1> HIDE DEF upTo
<1>10. upTo[0] = <<>> /\ upTo[1] = add(1, upTo[0]) /\ upTo[2] = add(2, upTo[1])
  BY <1>9
<1>11. /\ upTo[1] = IF a.at = w THEN Append(<<>>, a) ELSE <<>>
       /\ PointsAt(s, w) = IF b.at = w THEN Append(upTo[1], b) ELSE upTo[1]
  BY <1>1, <1>2, <1>6, <1>10
<1>12. Append(<<>>, a) = <<a>> /\ Append(<<>>, b) = <<b>>
  OBVIOUS
<1>13. Append(<<a>>, b) = <<a, b>>
  BY AppendToOne
<1>14. QED
  BY <1>11, <1>12, <1>13, Zenon DEF s

LEMMA ContentType ==
    ASSUME NEW fs, FilesType(fs), NEW v
    PROVE  Content(fs, v) \in Seq(Point)
BY DEF FilesType, Content

LEMMA WrittenType ==
    ASSUME NEW fs, FilesType(fs), NEW v \in VoxelKey, NEW s \in Seq(Point), s # <<>>
    PROVE  FilesType(Written(fs, v, s))
<1>1. DOMAIN Written(fs, v, s) = DOMAIN fs \cup {v}
  BY DEF Written
<1>2. IsFiniteSet(DOMAIN fs \cup {v})
  BY FS_AddElement DEF FilesType
<1>3. \A w \in DOMAIN fs \cup {v} : Written(fs, v, s)[w] = IF w = v THEN s ELSE fs[w]
  BY DEF Written
<1>4. Written(fs, v, s) = [w \in DOMAIN fs \cup {v} |-> IF w = v THEN s ELSE fs[w]]
  BY DEF Written
<1>5. \A w \in DOMAIN fs \cup {v} : (IF w = v THEN s ELSE fs[w]) \in Seq(Point)
  BY DEF FilesType
<1>6. Written(fs, v, s) \in [DOMAIN fs \cup {v} -> Seq(Point)]
  BY <1>4, <1>5
<1>7. QED
  BY <1>1, <1>2, <1>3, <1>6 DEF FilesType

LEMMA ExtendedType ==
    ASSUME NEW fs, FilesType(fs), NEW v \in VoxelKey, NEW s \in Seq(Point), s # <<>>
    PROVE  /\ FilesType(Extended(fs, v, s))
           /\ Len(Extended(fs, v, s)[v]) >= Len(s)
           /\ DOMAIN Extended(fs, v, s) = DOMAIN fs \cup {v}
           /\ \A w \in DOMAIN fs \ {v} : Extended(fs, v, s)[w] = fs[w]
<1> DEFINE c == Content(fs, v)
<1>1. c \in Seq(Point)
  BY ContentType
<1> HIDE DEF c
<1>2. c \o s \in Seq(Point) /\ c \o s # <<>> /\ Len(c \o s) >= Len(s)
  BY <1>1
<1>3. Extended(fs, v, s) = Written(fs, v, c \o s)
  BY DEF Extended, c
<1>4. FilesType(Written(fs, v, c \o s))
  BY <1>2, WrittenType
<1>5. QED
  BY <1>2, <1>3, <1>4 DEF Written

\* What a Reprocessor makes of a voxel's file: it reads the first two points,
\* which are there, and adds each to the file of the voxel it lies in.
LEMMA SplitFiles ==
    ASSUME InputOK, FilesOK, NEW v \in left, Split(v)
    PROVE  LET a == files[v][1]
               b == files[v][2]
               rest == Without(files, {v})
           IN  /\ v \in input.big /\ v \in DOMAIN files /\ a \in Point /\ b \in Point
               /\ DOMAIN rest = DOMAIN files \ {v} /\ FilesType(rest)
               /\ \A w \in DOMAIN rest : rest[w] = files[w]
               /\ DOMAIN files' = DOMAIN rest \cup {a.at, b.at}
               /\ \A w \in DOMAIN files' : files'[w] = Content(rest, w) \o PointsAt(<<a, b>>, w)
<1> DEFINE n    == Len(Points(runs, input, v))
           read == SubSeq(files[v], 1, n)
           rest == Without(files, {v})
           a    == files[v][1]
           b    == files[v][2]
<1>1. pc = "split" /\ v \in input.big /\ v \in DOMAIN files /\ files[v] \in Seq(Point) /\ Len(files[v]) >= 2
  BY DEF Split, FilesOK, FilesType
<1>2. n = 2
  BY <1>1, PointsType DEF InputOK
<1>3. a \in Point /\ b \in Point
  BY <1>1
<1>4. read = <<a, b>>
  <2>1. \A i \in 1..2 : files[v][i] \in Point
    BY <1>1
  <2>2. read \in Seq(Point) /\ Len(read) = 2 /\ read[1] = a /\ read[2] = b
    BY <1>2, <2>1, SubSeqProperties
  <2> HIDE DEF read, a, b
  <2>3. read = <<read[1], read[2]>>
    BY <2>2, PairOf
  <2>4. QED
    BY <2>2, <2>3
<1>5. Range(<<a, b>>) = {a, b}
  <2> HIDE DEF a, b
  <2>1. DOMAIN <<a, b>> = {1, 2} /\ <<a, b>>[1] = a /\ <<a, b>>[2] = b
    OBVIOUS
  <2>2. QED
    BY <2>1 DEF Range
<1>6. /\ DOMAIN rest = DOMAIN files \ {v} /\ \A w \in DOMAIN rest : rest[w] = files[w]
      /\ rest = [w \in DOMAIN files \ {v} |-> files[w]]
  BY DEF Without
<1>7. FilesType(rest)
  <2>1. IsFiniteSet(DOMAIN files \ {v})
    BY FS_Subset DEF FilesOK, FilesType
  <2>2. rest \in [DOMAIN files \ {v} -> Seq(Point)]
    BY <1>6 DEF FilesOK, FilesType
  <2>3. QED
    BY <1>6, <2>1, <2>2 DEF FilesOK, FilesType
<1>8. files' = [w \in DOMAIN rest \cup {p.at : p \in Range(read)} |-> Content(rest, w) \o PointsAt(read, w)]
  BY DEF Split
<1> HIDE DEF read, rest, a, b
<1>9. files' = [w \in DOMAIN rest \cup {a.at, b.at} |-> Content(rest, w) \o PointsAt(<<a, b>>, w)]
  <2>1. {p.at : p \in Range(read)} = {a.at, b.at}
    BY <1>4, <1>5
  <2>2. QED
    BY <1>4, <1>8, <2>1
<1>10. /\ DOMAIN files' = DOMAIN rest \cup {a.at, b.at}
       /\ \A w \in DOMAIN files' : files'[w] = Content(rest, w) \o PointsAt(<<a, b>>, w)
  BY <1>9
<1>11. QED
  BY <1>1, <1>3, <1>6, <1>7, <1>10 DEF rest, a, b

LEMMA SplitFilesType ==
    ASSUME InputOK, FilesOK, NEW v \in left, Split(v)
    PROVE  FilesType(files') /\ \A w \in DOMAIN files \ {v} :
                w \in DOMAIN files' /\ Len(files'[w]) >= Len(files[w])
<1> DEFINE rest == Without(files, {v})
           a    == files[v][1]
           b    == files[v][2]
<1>1. /\ a \in Point /\ b \in Point /\ DOMAIN rest = DOMAIN files \ {v} /\ FilesType(rest)
      /\ \A w \in DOMAIN rest : rest[w] = files[w]
      /\ DOMAIN files' = DOMAIN rest \cup {a.at, b.at}
      /\ \A w \in DOMAIN files' : files'[w] = Content(rest, w) \o PointsAt(<<a, b>>, w)
  BY SplitFiles
<1> HIDE DEF rest, a, b
<1>2. a.at \in VoxelKey /\ b.at \in VoxelKey
  BY <1>1 DEF Point
<1>3. IsFiniteSet(DOMAIN files')
  <2>1. DOMAIN files' = (DOMAIN rest \cup {a.at}) \cup {b.at}
    BY <1>1
  <2>2. IsFiniteSet(DOMAIN rest \cup {a.at})
    BY <1>1, FS_AddElement DEF FilesType
  <2>3. QED
    BY <2>1, <2>2, FS_AddElement
<1>4. ASSUME NEW w \in DOMAIN files'
      PROVE  /\ w \in VoxelKey /\ files'[w] \in Seq(Point) /\ files'[w] # <<>>
             /\ w \in DOMAIN rest => Len(files'[w]) >= Len(rest[w])
  <2> DEFINE c == Content(rest, w)
             q == PointsAt(<<a, b>>, w)
  <2>1. w \in VoxelKey
    BY <1>1, <1>2 DEF FilesType
  <2>2. c \in Seq(Point) /\ (w \in DOMAIN rest => c = rest[w] /\ c # <<>>)
    BY <1>1, ContentType DEF Content, FilesType
  <2>3. q \in Seq(Point) /\ (w \in {a.at, b.at} => q # <<>>)
    <3>1. /\ <<a, b>> \in Seq(Point) /\ <<a>> \in Seq(Point) /\ <<b>> \in Seq(Point)
          /\ <<>> \in Seq(Point) /\ <<a, b>> # <<>> /\ <<a>> # <<>> /\ <<b>> # <<>>
      BY <1>1
    <3>2. q \in {<<a, b>>, <<a>>, <<b>>, <<>>} /\ (w \in {a.at, b.at} => q \in {<<a, b>>, <<a>>, <<b>>})
      BY <1>1, PointsAtPair
    <3> HIDE DEF q
    <3>3. QED
      BY <3>1, <3>2, Zenon
  <2>4. files'[w] = c \o q
    BY <1>1
  <2> HIDE DEF c, q
  <2>5. c \o q \in Seq(Point) /\ Len(c \o q) = Len(c) + Len(q) /\ Len(c) \in Nat /\ Len(q) \in Nat
    BY <2>2, <2>3
  <2>6. c \o q # <<>>
    BY <1>1, <2>2, <2>3, <2>5
  <2>7. QED
    BY <2>1, <2>2, <2>4, <2>5, <2>6
<1>5. files' = [w \in DOMAIN files' |-> files'[w]]
  BY DEF Split
<1>6. QED
  BY <1>1, <1>3, <1>4, <1>5 DEF FilesType

\* Steps that have nothing to do with the files.
LEMMA FilesKept ==
    ASSUME FilesOK, UNCHANGED files,
           pc' \notin Tiling \cup {"split"} \/ UNCHANGED <<pc, left, input>>
    PROVE  FilesOK'
BY DEF FilesOK, FilesType, Tiling

LEMMA NothingDeleted == FilesOK => Without(files, Matching(DOMAIN files)) = files
BY DEF FilesOK, FilesType, Without, Matching

LEMMA FilesStepProgram ==
    ASSUME InputOK, FilesOK, ProgramStep \/ Throw \/ Hang \/ Kill
    PROVE  FilesOK'
<1>1. CASE HandleOptions \/ CreateDirs \/ StartPyramid \/ Throw \/ Hang \/ Kill
  <2>1. pc' \notin Tiling \cup {"split"}
    BY <1>1 DEF HandleOptions, CreateDirs, StartPyramid, Throw, Hang, Kill, Die, Tiling
  <2>2. UNCHANGED files
    BY <1>1, NothingDeleted DEF HandleOptions, CreateDirs, StartPyramid, Throw, Hang, Kill, Die, temp
  <2>3. QED
    BY <2>1, <2>2, FilesKept
<1>2. CASE Prepare
  <2>1. Parts \subseteq left'
    BY <1>2, NumPointsType DEF Prepare, Parts
  <2>2. UNCHANGED <<files, input>> /\ pc' = "tile"
    BY <1>2 DEF Prepare, temp
  <2>3. QED
    BY <2>1, <2>2 DEF FilesOK, FilesType, Parts
<1>3. CASE Click \/ Updated
  <2>1. UNCHANGED <<files, input, left>> /\ pc \in Tiling /\ pc' \in Tiling
    BY <1>3 DEF Click, Updated, temp, Tiling
  <2>2. QED
    BY <2>1 DEF FilesOK, FilesType, Tiling
<1>4. ASSUME NEW v \in left, Tile(v) PROVE FilesOK'
  <2> DEFINE s == Points(runs, input, v)
  <2>1. /\ pc = "tile" /\ pc' = "update" /\ left' = left \ {v} /\ UNCHANGED input
        /\ files' = IF s = <<>> THEN files ELSE Extended(files, v, s)
    BY <1>4 DEF Tile
  <2>2. s \in Seq(Point) /\ (v \in input.big => Len(s) = 2) /\ (s # <<>> => v \in Parts)
    BY PointsType DEF InputOK, Parts
  <2>3. s # <<>> => v \in VoxelKey
    BY <2>2, InputFacts DEF InputOK, Parts
  <2> HIDE DEF s
  <2>4. CASE s = <<>>
    <3>1. v \notin input.big
      BY <2>2, <2>4
    <3>2. QED
      BY <2>1, <2>4, <3>1 DEF FilesOK, FilesType, Tiling
  <2>5. CASE s # <<>>
    <3>1. /\ FilesType(files') /\ Len(files'[v]) >= Len(s) /\ DOMAIN files' = DOMAIN files \cup {v}
          /\ \A w \in DOMAIN files \ {v} : files'[w] = files[w]
      BY <2>1, <2>2, <2>3, <2>5, ExtendedType DEF FilesOK
    <3>2. QED
      BY <2>1, <2>2, <3>1 DEF FilesOK, Tiling
  <2>6. QED
    BY <2>4, <2>5
<1>5. CASE Tiled
  <2>1. /\ pc = "tile" /\ left = {} /\ pc' = "split" /\ left' = input.big
        /\ UNCHANGED <<files, input>>
    BY <1>5 DEF Tiled, temp
  <2>2. QED
    BY <2>1 DEF FilesOK, FilesType, Tiling
<1>6. ASSUME NEW v \in left, Split(v) PROVE FilesOK'
  <2>1. pc = "split" /\ left' = left \ {v} /\ UNCHANGED <<pc, input>>
    BY <1>6 DEF Split
  <2>2. FilesType(files') /\ \A w \in DOMAIN files \ {v} :
            w \in DOMAIN files' /\ Len(files'[w]) >= Len(files[w])
    BY <1>6, SplitFilesType
  <2>3. \A w \in input.big : w \in left' =>
            w \in DOMAIN files /\ w # v /\ Len(files[w]) >= 2 /\ Len(files[w]) \in Nat
    BY <2>1 DEF FilesOK, FilesType
  <2>4. \A w \in DOMAIN files' : Len(files'[w]) \in Nat
    BY <2>2 DEF FilesType
  <2>5. QED
    BY <2>1, <2>2, <2>3, <2>4 DEF FilesOK, Tiling
<1>7. ASSUME NEW v \in left, Sample(v) PROVE FilesOK'
  <2>1. pc' \notin Tiling \cup {"split"}
    BY <1>7 DEF Sample, Tiling
  <2>2. CASE UNCHANGED files
    BY <2>1, <2>2, FilesKept
  <2>3. ASSUME NEW w \in InputFiles(DOMAIN files), v \in Ancestors(w),
               files' = Written(files, v, <<Head(files[w])>>)
        PROVE  FilesOK'
    <3>1. w \in DOMAIN files /\ w \in VoxelKey /\ files[w] \in Seq(Point) /\ files[w] # <<>>
      BY <2>3 DEF InputFiles, FilesOK, FilesType
    <3>2. v \in VoxelKey
      BY <2>3, <3>1, AncestorType
    <3>3. Head(files[w]) \in Point
      BY <3>1
    <3>4. <<Head(files[w])>> \in Seq(Point) /\ <<Head(files[w])>> # <<>>
      BY <3>3
    <3>5. FilesType(files')
      BY <2>3, <3>2, <3>4, WrittenType DEF FilesOK
    <3>6. QED
      BY <2>1, <3>5 DEF FilesOK
  <2>4. QED
    BY <1>7, <2>2, <2>3 DEF Sample
<1>8. CASE Cleanup
  <2>1. pc' \notin Tiling \cup {"split"}
    BY <1>8 DEF Cleanup, Tiling
  <2>2. UNCHANGED files \/ files' = <<>>
    BY <1>8, NothingDeleted DEF Cleanup
  <2>3. FilesType(<<>>)
    BY FS_EmptySet DEF FilesType
  <2>4. QED
    BY <2>1, <2>2, <2>3 DEF FilesOK
<1>9. QED
  BY <1>1, <1>2, <1>3, <1>4, <1>5, <1>6, <1>7, <1>8 DEF ProgramStep

LEMMA FilesStep == InputOK /\ FilesOK /\ [Next]_vars => FilesOK'
<1> SUFFICES ASSUME InputOK, FilesOK, [Next]_vars PROVE FilesOK'
  OBVIOUS
<1>1. CASE Outside
  <2>1. UNCHANGED <<files, input, left>> /\ (UNCHANGED pc \/ pc' = "killed")
    BY <1>1, OutsideSteps DEF temp
  <2>2. QED
    BY <2>1, FilesKept DEF Tiling
<1>2. ASSUME NEW in \in Inputs, Start(in) PROVE FilesOK'
  <2>1. UNCHANGED files /\ pc' \in {"options", "killed"}
    BY <1>2 DEF Start, Begin, temp
  <2>2. QED
    BY <2>1, FilesKept DEF Tiling
<1>3. CASE UNCHANGED vars
  <2>1. UNCHANGED <<files, input, left, pc>>
    BY <1>3 DEF vars, progVars, temp
  <2>2. QED
    BY <2>1, FilesKept
<1>4. CASE ProgramStep \/ Throw \/ Hang \/ Kill
  BY <1>4, FilesStepProgram
<1>5. QED
  BY <1>1, <1>2, <1>3, <1>4 DEF Next, Outside

-----------------------------------------------------------------------------
(* The messages in the pipe.                                               *)

Word == {"id", "percent", "size", "text", "error"} \X Nat

\* What is still to be said when some words of a message have been said.
Rests(p) ==
    {<<>>, <<<<"text", p>>>>, <<<<"size", p>>, <<"text", p>>>>,
     <<<<"percent", p>>, <<"size", p>>, <<"text", p>>>>, Message(p), ErrorMessage}

SayOK == (\E p \in Nat : say \in Rests(p)) /\ (pc \in Begun => say = <<>>)

\* What follows a message's number is still to come, or never comes.
Cut == pc \in Ended \/ (say # <<>> /\ Head(say)[1] = "percent")

\* A message's number is followed by a percentage that was sent, of which no
\* half is missing.
PipeOK ==
    /\ pipe \in Seq(Word)
    /\ \A i \in 1..Len(pipe) : pipe[i][1] = "percent" => pipe[i][2] \in reported
    /\ \A i \in 1..(Len(pipe) - 2) : pipe[i] = pipe[i + 1] /\ pipe[i][1] = "id" =>
        i + 3 <= Len(pipe) /\ pipe[i + 2] = pipe[i + 3] /\ pipe[i + 2][1] = "percent"
    /\ pipe # <<>> /\ pipe[Len(pipe)][1] = "id" => Cut

\* A reader that expects a percentage finds one, or nothing.
AtOK ==
    at = "percent" => IF pipe = <<>> THEN Cut
                      ELSE Len(pipe) >= 2 /\ pipe[1] = pipe[2] /\ pipe[1][1] = "percent"

MessageInv == SayOK /\ PipeOK /\ AtOK

\* What a step of the program has to say.
LEMMA Says ==
    ASSUME SayOK, ProgressOK, ProgressOK', ProgramStep \/ Throw \/ Hang \/ Kill
    PROVE  /\ pc \notin Ended /\ SayOK'
           /\ \/ say' = say
              \/ say = <<>> /\ say' = ErrorMessage
              \/ say = <<>> /\ say' = Message(progress'.percent)
              \/ pc' \in Ended /\ say' = <<>>
<1>1. pc \notin Ended
  BY DEF ProgramStep, HandleOptions, CreateDirs, Prepare, Click, Updated, Tiled, StartPyramid, Cleanup,
         Tile, Split, Sample, Throw, Hang, Kill, Die, Ended
<1>2. CASE CreateDirs
  <2>1. /\ pc \in Begun
        /\ \/ say' = ErrorMessage /\ pc' = "clean"
           \/ say' = say /\ pc' = "prep"
    BY <1>2 DEF CreateDirs, Begun
  <2>2. say = <<>>
    BY <2>1 DEF SayOK
  <2>3. (\E p \in Nat : say' \in Rests(p)) /\ (pc' \in Begun => say' = <<>>)
    BY <2>1, <2>2, 0 \in Nat DEF Rests, Begun
  <2>4. QED
    BY <1>1, <2>1, <2>2, <2>3 DEF SayOK
<1>3. CASE HandleOptions \/ Prepare \/ Updated \/ Tiled \/ Hang \/ Cleanup \/ (\E v \in left : Tile(v))
  <2>1. say' = say /\ (pc' \in Begun => pc \in Begun)
    BY <1>3 DEF HandleOptions, Prepare, Updated, Tiled, Hang, Cleanup, Tile, Begun
  <2>2. QED
    BY <1>1, <2>1 DEF SayOK
<1>4. CASE Click \/ (\E v \in left : Split(v) \/ Sample(v))
  <2>1. say = <<>> /\ pc' \notin Begun
    BY <1>4 DEF Click, Split, Sample, Begun
  <2>2. say' = Message(progress'.percent)
    <3>1. CASE Click
      <4>1. WriteIncrement([progress EXCEPT !.next = @ + PointIncrement])
        BY <3>1 DEF Click
      <4>2. QED
        BY <4>1 DEF WriteIncrement, ProgressOK
    <3>2. CASE \E v \in left : Split(v) \/ Sample(v)
      <4>1. WriteIncrement(progress)
        BY <3>2 DEF Split, Sample
      <4>2. QED
        BY <4>1 DEF WriteIncrement, ProgressOK
    <3>3. QED
      BY <1>4, <3>1, <3>2
  <2>3. progress'.percent \in Nat
    BY DEF ProgressOK
  <2>4. QED
    BY <1>1, <2>1, <2>2, <2>3 DEF SayOK, Rests
<1>5. CASE StartPyramid \/ Throw
  <2>1. say = <<>> /\ (say' = say \/ say' = ErrorMessage) /\ pc' \notin Begun
    BY <1>5 DEF StartPyramid, Throw, Begun
  <2>2. QED
    BY <1>1, <2>1, 0 \in Nat DEF SayOK, Rests
<1>6. CASE Kill
  <2>1. say' = <<>> /\ pc' = "killed"
    BY <1>6 DEF Kill, Die
  <2>2. QED
    BY <1>1, <2>1 DEF SayOK, Rests, Ended
<1>7. QED
  BY <1>1, <1>2, <1>3, <1>4, <1>5, <1>6 DEF ProgramStep

LEMMA ProgramKeepsMessages ==
    ASSUME MessageInv, ProgressOK, ProgressOK', ProgramStep \/ Throw \/ Hang \/ Kill, Quiet
    PROVE  MessageInv'
<1>1. /\ pc \notin Ended /\ SayOK'
      /\ \/ say' = say
         \/ say = <<>> /\ say' \in {ErrorMessage, Message(progress'.percent)}
         \/ pc' \in Ended /\ say' = <<>>
  BY Says DEF MessageInv
<1>2. Cut => Cut'
  BY <1>1 DEF Cut
<1>3. UNCHANGED <<pipe, at, reported>>
  BY DEF Quiet, reader
<1>4. PipeOK'
  BY <1>2, <1>3 DEF MessageInv, PipeOK
<1>5. AtOK'
  BY <1>2, <1>3 DEF MessageInv, AtOK
<1>6. QED
  BY <1>1, <1>4, <1>5 DEF MessageInv

\* What write() adds to the pipe.
LEMMA HalfWordsOf ==
    ASSUME NEW w \in Word
    PROVE  /\ HalfWords(w) \in Seq(Word) /\ Len(HalfWords(w)) \in {1, 2}
           /\ \A i \in 1..Len(HalfWords(w)) : HalfWords(w)[i] = w
           /\ w[1] = "text" <=> Len(HalfWords(w)) = 1
<1>1. CASE w[1] = "text"
  <2>1. HalfWords(w) = <<w>>
    BY <1>1 DEF HalfWords
  <2>2. QED
    BY <1>1, <2>1
<1>2. CASE w[1] # "text"
  <2>1. HalfWords(w) = <<w, w>>
    BY <1>2 DEF HalfWords
  <2>2. QED
    BY <1>2, <2>1
<1>3. QED
  BY <1>1, <1>2

\* The words of a message come in their order.
LEMMA NextWord ==
    ASSUME SayOK, say # <<>>
    PROVE  /\ \E p \in Nat : Tail(say) \in Rests(p)
           /\ pc \notin Begun /\ Head(say) \in Word
           /\ Head(say)[1] = "id" => /\ Tail(say) # <<>> /\ Head(Tail(say))[1] = "percent"
                                     /\ Head(Tail(say))[2] = Head(say)[2]
           /\ Tail(say) # <<>> =>
                /\ Head(Tail(say))[1] # "id"
                /\ Head(Tail(say))[1] = "percent" => Head(say)[1] = "id"
<1>1. PICK p \in Nat : say \in Rests(p)
  BY DEF SayOK
<1>2. pc \notin Begun
  BY DEF SayOK
<1> DEFINE text    == <<"text", p>>
           size    == <<"size", p>>
           percent == <<"percent", p>>
           id      == <<"id", p>>
           error   == <<"error", 0>>
           size0   == <<"size", 0>>
           text0   == <<"text", 0>>
<1>3. /\ text \in Word /\ size \in Word /\ percent \in Word /\ id \in Word /\ error \in Word
      /\ text[1] = "text" /\ size[1] = "size" /\ percent[1] = "percent" /\ id[1] = "id"
      /\ error[1] = "error" /\ size0[1] = "size" /\ percent[2] = id[2]
  <2>1. text \in Word /\ size \in Word /\ percent \in Word /\ id \in Word
    BY DEF Word
  <2>2. error \in Word
    BY 0 \in Nat DEF Word
  <2>3. text[1] = "text" /\ size[1] = "size" /\ percent[1] = "percent" /\ id[1] = "id"
    OBVIOUS
  <2>4. error[1] = "error" /\ size0[1] = "size" /\ percent[2] = id[2]
    OBVIOUS
  <2>5. QED
    BY <2>1, <2>2, <2>3, <2>4
<1>4. /\ Message(p) = <<id, percent, size, text>> /\ ErrorMessage = <<error, size0, text0>>
      /\ <<text>> \in Rests(p) /\ <<size, text>> \in Rests(p) /\ <<percent, size, text>> \in Rests(p)
      /\ <<>> \in Rests(p)
  BY DEF Message, ErrorMessage, Rests
<1>5. <<size0, text0>> \in Rests(0)
  BY DEF Rests
<1>6. \/ say = <<text>> \/ say = <<size, text>> \/ say = <<percent, size, text>>
      \/ say = <<id, percent, size, text>> \/ say = <<error, size0, text0>>
  BY <1>1, <1>4 DEF Rests
<1> HIDE DEF text, size, percent, id, error, size0, text0
<1>7. CASE say = <<text>>
  <2>1. Head(say) = text /\ Tail(say) = <<>>
    BY <1>7
  <2>2. QED
    BY <1>2, <1>3, <1>4, <2>1
<1>8. CASE say = <<size, text>>
  <2>1. Head(say) = size /\ Tail(say) = <<text>> /\ Head(<<text>>) = text
    BY <1>8
  <2>2. QED
    BY <1>2, <1>3, <1>4, <2>1
<1>9. CASE say = <<percent, size, text>>
  <2>1. Head(say) = percent /\ Tail(say) = <<size, text>> /\ Head(<<size, text>>) = size
    BY <1>9
  <2>2. QED
    BY <1>2, <1>3, <1>4, <2>1
<1>10. CASE say = <<id, percent, size, text>>
  <2>1. /\ Head(say) = id /\ Tail(say) = <<percent, size, text>>
        /\ Tail(say) # <<>> /\ Head(<<percent, size, text>>) = percent
    BY <1>10
  <2>2. QED
    BY <1>2, <1>3, <1>4, <2>1
<1>11. CASE say = <<error, size0, text0>>
  <2>1. Head(say) = error /\ Tail(say) = <<size0, text0>> /\ Head(<<size0, text0>>) = size0
    BY <1>11
  <2>2. QED
    BY <1>2, <1>3, <1>5, <2>1, 0 \in Nat
<1>12. QED
  BY <1>6, <1>7, <1>8, <1>9, <1>10, <1>11

LEMMA WriteKeepsMessages ==
    ASSUME MessageInv, WriteWord
    PROVE  MessageInv'
<1> DEFINE w == Head(say)
           h == HalfWords(w)
           n == Len(pipe)
<1>1. /\ pc \notin Ended /\ say # <<>> /\ say' = Tail(say) /\ pipe' = pipe \o h
      /\ reported' = IF w[1] = "percent" THEN reported \cup {w[2]} ELSE reported
      /\ UNCHANGED <<pc, at>>
  BY DEF WriteWord, reader
<1>2. /\ \E p \in Nat : Tail(say) \in Rests(p)
      /\ pc \notin Begun /\ w \in Word
      /\ w[1] = "id" => Tail(say) # <<>> /\ Head(Tail(say))[1] = "percent"
      /\ Tail(say) # <<>> => Head(Tail(say))[1] # "id"
  BY <1>1, NextWord DEF MessageInv
<1>3. /\ h \in Seq(Word) /\ Len(h) \in {1, 2} /\ \A i \in 1..Len(h) : h[i] = w
      /\ w[1] = "text" <=> Len(h) = 1
  BY <1>2, HalfWordsOf
<1>4. pipe \in Seq(Word) /\ n \in Nat
  BY DEF MessageInv, PipeOK
<1> HIDE DEF w, h
<1>5. /\ pipe' \in Seq(Word) /\ Len(pipe') = n + Len(h)
      /\ \A i \in 1..n : pipe'[i] = pipe[i]
      /\ \A i \in (n + 1)..(n + Len(h)) : pipe'[i] = w
  BY <1>1, <1>3, <1>4
<1>6. SayOK'
  BY <1>1, <1>2 DEF SayOK
<1>7. n > 0 /\ pipe[n][1] = "id" => w[1] = "percent"
  BY <1>1, <1>4 DEF MessageInv, PipeOK, Cut, w
<1>8. w[1] = "id" => Cut'
  BY <1>1, <1>2 DEF Cut
<1>9. PipeOK'
  <2>1. \A i \in 1..Len(pipe') : pipe'[i][1] = "percent" => pipe'[i][2] \in reported'
    BY <1>1, <1>3, <1>4, <1>5 DEF MessageInv, PipeOK
  <2>2. ASSUME NEW i \in 1..(Len(pipe') - 2), pipe'[i] = pipe'[i + 1], pipe'[i][1] = "id"
        PROVE  i + 3 <= Len(pipe') /\ pipe'[i + 2] = pipe'[i + 3] /\ pipe'[i + 2][1] = "percent"
    <3>1. CASE i <= n - 2
      <4>1. i \in 1..(n - 2) /\ pipe[i] = pipe[i + 1] /\ pipe[i][1] = "id"
        BY <1>4, <1>5, <2>2, <3>1
      <4>2. i + 3 <= n /\ pipe[i + 2] = pipe[i + 3] /\ pipe[i + 2][1] = "percent"
        BY <4>1 DEF MessageInv, PipeOK
      <4>3. i + 2 \in 1..n /\ i + 3 \in 1..n
        BY <1>4, <4>1, <4>2
      <4>4. pipe'[i + 2] = pipe[i + 2] /\ pipe'[i + 3] = pipe[i + 3]
        BY <1>5, <4>3
      <4>5. i + 3 <= Len(pipe')
        BY <1>3, <1>4, <1>5, <4>1, <4>2
      <4>6. QED
        BY <4>2, <4>4, <4>5
    <3>2. CASE i = n - 1
      <4>1. n \in 1..n /\ pipe[n][1] = "id"
        BY <1>4, <1>5, <2>2, <3>2
      <4>2. w[1] = "percent" /\ Len(h) = 2
        BY <1>3, <1>4, <1>7, <4>1
      <4>3. n + 1 \in (n + 1)..(n + Len(h)) /\ n + 2 \in (n + 1)..(n + Len(h))
        BY <1>4, <4>2
      <4>4. pipe'[n + 1] = w /\ pipe'[n + 2] = w /\ Len(pipe') = n + 2
        BY <1>5, <4>2, <4>3
      <4>5. i + 2 = n + 1 /\ i + 3 = n + 2
        BY <1>4, <3>2
      <4>6. QED
        BY <4>2, <4>4, <4>5
    <3>3. CASE i = n
      <4>0. n \in 1..n /\ n + 1 \in (n + 1)..(n + Len(h))
        BY <1>3, <1>4, <1>5, <2>2, <3>3
      <4>1. pipe[n][1] = "id" /\ pipe'[n + 1] = w /\ pipe'[n] = pipe[n]
        BY <1>5, <2>2, <3>3, <4>0
      <4>2. QED
        BY <1>4, <1>7, <2>2, <3>3, <4>1
    <3>4. i <= n - 2 \/ i = n - 1 \/ i = n
      <4>1. Len(h) = 1 \/ Len(h) = 2
        BY <1>3
      <4>2. Len(pipe') = n + 1 \/ Len(pipe') = n + 2
        BY <1>5, <4>1
      <4>3. QED
        BY <1>4, <4>2
    <3>5. QED
      BY <3>1, <3>2, <3>3, <3>4
  <2>3. pipe' # <<>> /\ pipe'[Len(pipe')][1] = "id" => Cut'
    <3>1. Len(pipe') \in (n + 1)..(n + Len(h))
      <4>1. Len(pipe') = n + Len(h) /\ (Len(h) = 1 \/ Len(h) = 2)
        BY <1>3, <1>5
      <4>2. QED
        BY <1>4, <4>1
    <3>2. pipe'[Len(pipe')] = w
      BY <1>5, <3>1
    <3>3. QED
      BY <1>8, <3>2
  <2>4. QED
    BY <1>5, <2>1, <2>2, <2>3 DEF PipeOK
<1>10. AtOK'
  <2>1. CASE at = "percent" /\ pipe = <<>>
    <3>1. w[1] = "percent" /\ Len(h) = 2 /\ n = 0
      BY <1>1, <1>3, <2>1 DEF MessageInv, AtOK, Cut, w
    <3>2. QED
      BY <1>5, <3>1 DEF AtOK
  <2>2. CASE at = "percent" /\ pipe # <<>>
    <3>1. n >= 2 /\ pipe[1] = pipe[2] /\ pipe[1][1] = "percent"
      BY <2>2 DEF MessageInv, AtOK
    <3>2. QED
      BY <1>3, <1>4, <1>5, <3>1 DEF AtOK
  <2>3. CASE at # "percent"
    BY <1>1, <2>3 DEF AtOK
  <2>4. QED
    BY <2>1, <2>2, <2>3
<1>11. QED
  BY <1>6, <1>9, <1>10 DEF MessageInv

\* What is left of the pipe when its first k half words were read.
LEMMA ReadKeepsPipe ==
    ASSUME PipeOK, NEW k \in Nat, UNCHANGED <<pc, say, reported>>,
           pipe' = SubSeq(pipe, k + 1, Len(pipe))
    PROVE  /\ PipeOK'
           /\ Len(pipe') = IF k <= Len(pipe) THEN Len(pipe) - k ELSE 0
           /\ \A i \in 1..Len(pipe') : pipe'[i] = pipe[i + k]
<1> DEFINE n == Len(pipe)
<1>1. pipe \in Seq(Word) /\ n \in Nat /\ \A i \in 1..n : pipe[i] \in Word
  BY DEF PipeOK
<1>2. /\ pipe' \in Seq(Word) /\ Len(pipe') = (IF k <= n THEN n - k ELSE 0)
      /\ \A i \in 1..Len(pipe') : pipe'[i] = pipe[i + k]
  BY <1>1, SubSeqProperties
<1>3. \A i \in 1..Len(pipe') : i + k \in 1..n
  BY <1>1, <1>2
<1>4. \A i \in 1..Len(pipe') : pipe'[i][1] = "percent" => pipe'[i][2] \in reported'
  BY <1>2, <1>3 DEF PipeOK
<1>5. ASSUME NEW i \in 1..(Len(pipe') - 2), pipe'[i] = pipe'[i + 1], pipe'[i][1] = "id"
      PROVE  i + 3 <= Len(pipe') /\ pipe'[i + 2] = pipe'[i + 3] /\ pipe'[i + 2][1] = "percent"
  <2>1. k <= n /\ Len(pipe') = n - k
    BY <1>1, <1>2
  <2>2. i + k \in 1..(n - 2) /\ pipe[i + k] = pipe[(i + k) + 1] /\ pipe[i + k][1] = "id"
    <3>1. i \in 1..Len(pipe') /\ i + 1 \in 1..Len(pipe') /\ (i + 1) + k = (i + k) + 1
      BY <1>1, <2>1
    <3>2. pipe'[i] = pipe[i + k] /\ pipe'[i + 1] = pipe[(i + k) + 1]
      BY <1>2, <3>1
    <3>3. i + k \in 1..(n - 2)
      BY <1>1, <2>1
    <3>4. QED
      BY <1>5, <3>2, <3>3
  <2>3. (i + k) + 3 <= n /\ pipe[(i + k) + 2] = pipe[(i + k) + 3] /\ pipe[(i + k) + 2][1] = "percent"
    BY <2>2 DEF PipeOK
  <2>4. i + 3 <= Len(pipe')
    BY <1>1, <2>1, <2>3
  <2>5. /\ i + 2 \in 1..Len(pipe') /\ (i + 2) + k = (i + k) + 2
        /\ i + 3 \in 1..Len(pipe') /\ (i + 3) + k = (i + k) + 3
    BY <1>1, <2>1, <2>4
  <2>6. pipe'[i + 2] = pipe[(i + k) + 2] /\ pipe'[i + 3] = pipe[(i + k) + 3]
    BY <1>2, <2>5
  <2>7. QED
    BY <2>3, <2>4, <2>6
<1>6. pipe' # <<>> /\ pipe'[Len(pipe')][1] = "id" => Cut'
  <2>1. SUFFICES ASSUME pipe' # <<>>, pipe'[Len(pipe')][1] = "id" PROVE Cut
    BY DEF Cut
  <2>2. Len(pipe') \in 1..Len(pipe') /\ Len(pipe') = n - k
    BY <1>1, <1>2, <2>1
  <2>3. Len(pipe') + k = n /\ pipe # <<>>
    BY <1>1, <2>2
  <2>4. pipe[n][1] = "id"
    BY <1>2, <2>1, <2>2, <2>3
  <2>5. QED
    BY <2>3, <2>4 DEF PipeOK
<1>7. QED
  BY <1>2, <1>4, <1>5, <1>6 DEF PipeOK

\* A reader that finds the number of a message finds its percentage next, or
\* nothing.
LEMMA ReaderKeepsMessages ==
    ASSUME MessageInv, Read
    PROVE  MessageInv'
<1>1. UNCHANGED <<pc, say, reported>>
  BY DEF Read, ReadId, ReadPercent, ReadSize, ReadText, progVars
<1>2. SayOK'
  BY <1>1 DEF MessageInv, SayOK
<1>3. pipe \in Seq(Word) /\ Len(pipe) \in Nat
  BY DEF MessageInv, PipeOK
<1>4. CASE ReadId
  <2>1. /\ PipeOK' /\ Len(pipe') = (IF 2 <= Len(pipe) THEN Len(pipe) - 2 ELSE 0)
        /\ \A i \in 1..Len(pipe') : pipe'[i] = pipe[i + 2]
    <3>1. pipe' = SubSeq(pipe, 2 + 1, Len(pipe))
      BY <1>4 DEF ReadId, ReadWord
    <3>2. QED
      BY <1>1, <3>1, ReadKeepsPipe DEF MessageInv
  <2>2. ASSUME at' = "percent"
        PROVE  IF pipe' = <<>> THEN Cut'
               ELSE Len(pipe') >= 2 /\ pipe'[1] = pipe'[2] /\ pipe'[1][1] = "percent"
    <3>1. Len(pipe) >= 2 /\ pipe[1] = pipe[2] /\ pipe[1][1] = "id"
      BY <1>4, <2>2 DEF ReadId, IsId, Whole
    <3>2. CASE Len(pipe) = 2
      <4>1. Cut
        BY <1>3, <3>1, <3>2 DEF MessageInv, PipeOK
      <4>2. Len(pipe') = 0 /\ pipe' \in Seq(Word)
        BY <2>1, <3>2 DEF PipeOK
      <4>3. pipe' = <<>>
        BY <4>2
      <4>4. QED
        BY <1>1, <4>1, <4>3 DEF Cut
    <3>3. CASE Len(pipe) > 2
      <4>1. 1 \in 1..(Len(pipe) - 2) /\ pipe[1] = pipe[1 + 1]
        BY <1>3, <3>1, <3>3
      <4>2. 1 + 3 <= Len(pipe) /\ pipe[1 + 2] = pipe[1 + 3] /\ pipe[1 + 2][1] = "percent"
        BY <3>1, <4>1 DEF MessageInv, PipeOK
      <4>3. Len(pipe') >= 2 /\ 1 \in 1..Len(pipe') /\ 2 \in 1..Len(pipe')
        BY <1>3, <2>1, <4>2
      <4>4. pipe'[1] = pipe[3] /\ pipe'[2] = pipe[4]
        BY <2>1, <4>3
      <4>5. pipe' # <<>>
        BY <4>3
      <4>6. QED
        BY <4>2, <4>3, <4>4, <4>5
    <3>4. Len(pipe) = 2 \/ Len(pipe) > 2
      <4>1. Len(pipe) \in Nat /\ Len(pipe) >= 2
        BY <1>3, <3>1
      <4> QED
        BY <4>1
    <3>5. QED
      BY <3>2, <3>3, <3>4
  <2>3. AtOK'
    BY <2>2 DEF AtOK
  <2>4. QED
    BY <1>2, <2>1, <2>3 DEF MessageInv
<1>5. CASE ReadPercent \/ ReadSize
  <2>1. PipeOK'
    <3>1. pipe' = SubSeq(pipe, 2 + 1, Len(pipe))
      BY <1>5 DEF ReadPercent, ReadSize, ReadWord
    <3>2. QED
      BY <1>1, <3>1, ReadKeepsPipe DEF MessageInv
  <2>2. at' # "percent"
    BY <1>5 DEF ReadPercent, ReadSize
  <2>3. QED
    BY <1>2, <2>1, <2>2 DEF MessageInv, AtOK
<1>6. CASE ReadText
  <2>1. at' # "percent"
    BY <1>6 DEF ReadText
  <2>2. CASE pipe # <<>> /\ pipe' = Tail(pipe)
    <3>1. pipe' = SubSeq(pipe, 1 + 1, Len(pipe))
      BY <1>3, <2>2, TailIsSubSeq
    <3>2. PipeOK'
      BY <1>1, <3>1, ReadKeepsPipe DEF MessageInv
    <3>3. QED
      BY <1>2, <2>1, <3>2 DEF MessageInv, AtOK
  <2>3. CASE UNCHANGED pipe
    <3>1. PipeOK'
      BY <1>1, <2>3 DEF MessageInv, PipeOK, Cut
    <3>2. QED
      BY <1>2, <2>1, <3>1 DEF MessageInv, AtOK
  <2>4. QED
    BY <1>6, <2>2, <2>3 DEF ReadText
<1>7. QED
  BY <1>4, <1>5, <1>6 DEF Read

\* Steps that read and write nothing.
LEMMA MessagesKept ==
    ASSUME MessageInv, UNCHANGED <<pipe, reported>>, at' = at \/ at' # "percent",
           UNCHANGED <<pc, say>> \/ (pc' = "killed" /\ say' = <<>>)
    PROVE  MessageInv'
<1>1. Cut => Cut'
  BY DEF Cut, Ended
<1>2. SayOK'
  BY 0 \in Nat DEF MessageInv, SayOK, Rests, Begun
<1>3. PipeOK' /\ AtOK'
  BY <1>1 DEF MessageInv, PipeOK, AtOK
<1>4. QED
  BY <1>2, <1>3 DEF MessageInv

LEMMA MessageInit == SInit => MessageInv
<1> SUFFICES ASSUME SInit PROVE MessageInv
  OBVIOUS
<1>1. say = <<>> /\ pipe = <<>> /\ at = "idle" /\ pc = "none"
  BY DEF SInit, Init
<1>2. SayOK
  BY <1>1, 0 \in Nat DEF SayOK, Rests
<1>3. pipe \in Seq(Word) /\ Len(pipe) = 0
  BY <1>1
<1>4. PipeOK /\ AtOK
  BY <1>1, <1>3 DEF PipeOK, AtOK
<1>5. QED
  BY <1>2, <1>4 DEF MessageInv

LEMMA MessageStep == MessageInv /\ InputOK /\ InputOK' /\ [Next]_vars => MessageInv'
<1> SUFFICES ASSUME MessageInv, InputOK, InputOK', [Next]_vars PROVE MessageInv'
  OBVIOUS
<1>1. CASE (ProgramStep \/ Throw \/ Hang \/ Kill) /\ Quiet
  BY <1>1, ProgramKeepsMessages DEF InputOK
<1>2. CASE WriteWord
  BY <1>2, WriteKeepsMessages
<1>3. CASE Stop
  <2>1. UNCHANGED <<pipe, at, reported>>
    BY <1>3 DEF Stop, reader
  <2>2. UNCHANGED <<pc, say>> \/ (pc' = "killed" /\ say' = <<>>)
    BY <1>3 DEF Stop, Die
  <2>3. QED
    BY <2>1, <2>2, MessagesKept
<1>4. CASE Running \/ OtherEnds \/ Poll \/ UNCHANGED vars
  <2>1. UNCHANGED <<pc, say, pipe, reported>> /\ (at' = at \/ at' = "id")
    BY <1>4 DEF Running, OtherEnds, Poll, vars, progVars, reader
  <2>2. QED
    BY <2>1, MessagesKept
<1>5. CASE Read
  BY <1>5, ReaderKeepsMessages
<1>6. ASSUME NEW in \in Inputs, Start(in) PROVE MessageInv'
  <2>1. say' = <<>> /\ pipe' = <<>> /\ at' = "idle"
    BY <1>6 DEF Start, NewPipe, Begin
  <2>2. SayOK'
    BY <2>1, 0 \in Nat DEF SayOK, Rests
  <2>3. pipe' \in Seq(Word) /\ Len(pipe') = 0
    BY <2>1
  <2>4. PipeOK' /\ AtOK'
    BY <2>1, <2>3 DEF PipeOK, AtOK
  <2>5. QED
    BY <2>2, <2>4 DEF MessageInv
<1>7. QED
  BY <1>1, <1>2, <1>3, <1>4, <1>5, <1>6 DEF Next

\* Only readPipe() changes the client's percentage, to the one it has found.
LEMMA PercentStep ==
    MessageInv /\ [Next]_vars => [m_percent' # m_percent => m_percent' \in reported]_vars
<1> SUFFICES ASSUME MessageInv, [Next]_vars, m_percent' # m_percent PROVE m_percent' \in reported
  OBVIOUS
<1>1. ReadPercent
  BY DEF Next, Quiet, WriteWord, Stop, Running, OtherEnds, Poll, Read, ReadId, ReadSize, ReadText, Start, vars, reader
<1>2. at = "percent" /\ Whole /\ m_percent' = pipe[1][2]
  BY <1>1 DEF ReadPercent
<1>3. pipe \in Seq(Word) /\ Len(pipe) >= 2 /\ Len(pipe) \in Nat
  BY <1>2 DEF Whole, MessageInv, PipeOK
<1>4. pipe # <<>> /\ 1 \in 1..Len(pipe)
  BY <1>3
<1>5. pipe[1][1] = "percent"
  BY <1>2, <1>4 DEF MessageInv, AtOK
<1>6. QED
  BY <1>2, <1>4, <1>5 DEF MessageInv, PipeOK

\* Whatever a read finds in the pipe, a half message or none, the client's
\* percentage is one that the running program has sent (readPipe() and
\* readString() of QgisUntwine, writeMessage() of untwine).
THEOREM PercentIsSent == Spec => PercentIsReported
<1> DEFINE Inv == MessageInv /\ InputOK /\ FilesOK
<1>1. SInit => Inv
  BY MessageInit, InputInit
<1>2. Inv /\ [Next]_vars => Inv'
  BY MessageStep, InputStep, FilesStep
<1>3. Inv /\ [Next]_vars => [m_percent' # m_percent => m_percent' \in reported]_vars
  BY PercentStep
<1> HIDE DEF Inv
<1>4. QED
  BY <1>1, <1>2, <1>3, PTL DEF Spec, PercentIsReported

-----------------------------------------------------------------------------
(* The percentage.                                                         *)

\* The points of some voxels of the input.
PointsIn(in, S) == UNION {Range(Points(1, in, v)) : v \in S}

\* No percentage is above all, and there are no more clicks than the points allow;
\* without points the loop of update() does not end.
TileOK ==
    /\ progress.percent <= 10
    /\ pc \in Begun => /\ progress.percent = 0 /\ progress.increment = 4 \div TotalClicks
                       /\ progress.current = 0
    /\ pc \in Tiling /\ Parts = {} => /\ progress.current = 0 /\ progress.next = 0
                                      /\ pc = "tile" => left = {Root}
    /\ pc \in Tiling /\ Parts # {} =>
        /\ left \subseteq Parts /\ progress.increment = 4 \div TotalClicks
        /\ progress.current = Cardinality(PointsIn(input, Parts \ left))
        /\ \E c \in 0..TotalClicks : /\ progress.next = (c + 1) * PointIncrement
                                     /\ progress.percent = c * progress.increment

\* What is left to reprocess bounds the percentage from above.
SplitOK ==
    pc = "split" =>
        /\ left \subseteq input.big
        /\ progress.increment = IF input.big = {} THEN 2 ELSE 2 \div Cardinality(input.big)
        /\ progress.percent <= 4 + (Cardinality(input.big) - Cardinality(left)) * progress.increment

LEMMA RangeOf ==
    ASSUME NEW a, NEW b
    PROVE  Range(<<a>>) = {a} /\ Range(<<a, b>>) = {a, b} /\ Range(<<>>) = {}
<1>1. DOMAIN <<a>> = {1} /\ <<a>>[1] = a
  OBVIOUS
<1>2. DOMAIN <<a, b>> = {1, 2} /\ <<a, b>>[1] = a /\ <<a, b>>[2] = b
  OBVIOUS
<1>3. DOMAIN <<>> = {}
  OBVIOUS
<1>4. QED
  BY <1>1, <1>2, <1>3 DEF Range

\* The points of a voxel are its own, and as many as their sequence is long.
LEMMA PointsOfOne ==
    ASSUME NEW in \in Inputs \cup {NoInput}, NEW v \in in.direct \cup in.big
    PROVE  /\ IsFiniteSet(Range(Points(1, in, v)))
           /\ \A r \in Nat : Cardinality(Range(Points(1, in, v))) = Len(Points(r, in, v))
           /\ \A p \in Range(Points(1, in, v)) : Parent(p.at) = v
<1>1. v \in VoxelKey /\ Low \in Dirs /\ High \in Dirs
  BY InputFacts, Ends
<1>2. Parent(Child(v, Low)) = v /\ Parent(Child(v, High)) = v /\ Child(v, Low) # Child(v, High)
  BY <1>1, ChildType, ChildInjective, Ends
<1> DEFINE a(r) == [run |-> r, at |-> Child(v, Low)]
           b(r) == [run |-> r, at |-> Child(v, High)]
<1>3. \A r : a(r).at = Child(v, Low) /\ b(r).at = Child(v, High)
  OBVIOUS
<1>4. a(1) # b(1)
  BY <1>2, <1>3
<1> HIDE DEF a, b
<1>5. CASE v \in in.direct
  <2>1. \A r \in Nat : Points(r, in, v) = <<a(r)>>
    BY <1>5, PointsType DEF a
  <2>2. Range(Points(1, in, v)) = {a(1)}
    BY <2>1, RangeOf
  <2>3. IsFiniteSet({a(1)}) /\ Cardinality({a(1)}) = 1
    BY FS_Singleton
  <2>4. \A r \in Nat : Len(Points(r, in, v)) = 1
    BY <2>1
  <2>5. QED
    BY <1>2, <1>3, <2>2, <2>3, <2>4
<1>6. CASE v \in in.big
  <2>1. \A r \in Nat : Points(r, in, v) = <<a(r), b(r)>>
    BY <1>6, PointsType DEF a, b
  <2>2. Range(Points(1, in, v)) = {a(1), b(1)}
    BY <2>1, RangeOf
  <2>3. IsFiniteSet({a(1)}) /\ Cardinality({a(1)}) = 1
    BY FS_Singleton
  <2>4. IsFiniteSet({a(1)} \cup {b(1)}) /\ Cardinality({a(1)} \cup {b(1)}) = 2
    <3>1. b(1) \notin {a(1)}
      BY <1>4
    <3>2. /\ IsFiniteSet({a(1)} \cup {b(1)})
          /\ Cardinality({a(1)} \cup {b(1)}) = Cardinality({a(1)}) + 1
      BY <2>3, <3>1, FS_AddElement
    <3>3. QED
      BY <2>3, <3>2
  <2>5. {a(1)} \cup {b(1)} = {a(1), b(1)}
    OBVIOUS
  <2>6. \A r \in Nat : Len(Points(r, in, v)) = 2
    BY <2>1
  <2>7. QED
    BY <1>2, <1>3, <2>2, <2>4, <2>5, <2>6
<1>7. QED
  BY <1>5, <1>6

\* The points of the input are counted voxel by voxel.
LEMMA PointsOfSome ==
    ASSUME NEW in \in Inputs \cup {NoInput}, NEW S \in SUBSET (in.direct \cup in.big)
    PROVE  /\ IsFiniteSet(PointsIn(in, S)) /\ Cardinality(PointsIn(in, S)) \in Nat
           /\ Cardinality(PointsIn(in, S)) <= NumPoints(in) /\ NumPoints(in) \in Nat
           /\ S = {} => Cardinality(PointsIn(in, S)) = 0
           /\ \A v \in (in.direct \cup in.big) \ S : \A r \in Nat :
                Cardinality(PointsIn(in, S \cup {v})) = Cardinality(PointsIn(in, S)) + Len(Points(r, in, v))
<1>1. PointsIn(in, S) \subseteq AllPoints(1, in) /\ IsFiniteSet(AllPoints(1, in))
  BY AllPointsFinite DEF PointsIn, AllPoints
<1>2. /\ IsFiniteSet(PointsIn(in, S)) /\ Cardinality(PointsIn(in, S)) \in Nat
      /\ Cardinality(PointsIn(in, S)) <= NumPoints(in) /\ NumPoints(in) \in Nat
  BY <1>1, FS_Subset, FS_CardinalityType DEF NumPoints
<1>3. S = {} => Cardinality(PointsIn(in, S)) = 0
  BY FS_EmptySet DEF PointsIn
<1>4. ASSUME NEW v \in (in.direct \cup in.big) \ S, NEW r \in Nat
      PROVE  Cardinality(PointsIn(in, S \cup {v})) = Cardinality(PointsIn(in, S)) + Len(Points(r, in, v))
  <2> DEFINE P == PointsIn(in, S)
             Q == Range(Points(1, in, v))
  <2>1. PointsIn(in, S \cup {v}) = P \cup Q
    BY DEF PointsIn
  <2>2. IsFiniteSet(Q) /\ Cardinality(Q) = Len(Points(r, in, v)) /\ \A p \in Q : Parent(p.at) = v
    BY PointsOfOne
  <2>3. \A p \in P : Parent(p.at) \in S
    BY PointsOfOne DEF PointsIn
  <2>4. P \cap Q = {}
    BY <2>2, <2>3
  <2>5. Cardinality(P \cup Q) = Cardinality(P) + Cardinality(Q) - Cardinality(P \cap Q)
    BY <1>2, <2>2, FS_Union
  <2>6. Cardinality(Q) \in Nat /\ Cardinality(P \cap Q) = 0
    BY <2>2, <2>4, FS_CardinalityType, FS_EmptySet
  <2>7. Cardinality(P) \in Nat
    BY <1>2
  <2> HIDE DEF P, Q
  <2>8. Cardinality(P \cup Q) = Cardinality(P) + Cardinality(Q)
    BY <2>5, <2>6, <2>7
  <2>9. QED
    BY <2>1, <2>2, <2>8 DEF P
<1>5. QED
  BY <1>2, <1>3, <1>4

\* What is bounded by a quotient.
LEMMA Quotient ==
    ASSUME NEW n \in Nat, NEW p \in Nat, p > 0, NEW k \in Nat, k * p <= n
    PROVE  k <= n \div p
<1> DEFINE q == n \div p
<1>1. q \in Nat /\ n < (q + 1) * p
  OBVIOUS
<1> HIDE DEF q
<1>2. SUFFICES ASSUME k > q PROVE FALSE
  BY <1>1 DEF q
<1>3. k >= q + 1
  BY <1>1, <1>2
<1>4. k * p >= (q + 1) * p
  BY <1>1, <1>3
<1>5. QED
  BY <1>1, <1>4

\* There are never more clicks than 40, in main()'s numbers.
LEMMA ClickCount ==
    ASSUME InputOK, pc \notin Ended, Parts # {}, NEW c \in Nat,
           (c + 1) * PointIncrement <= NumPoints(input)
    PROVE  c + 1 <= TotalClicks
<1> DEFINE n == NumPoints(input)
           p == PointIncrement
<1>1. n \in Nat /\ n > 0 /\ p \in Nat /\ input \in Inputs
  BY NumPointsType DEF InputOK
<1>2. TotalClicks \in 1..4 /\ ChunkSize \in Nat /\ ChunkSize >= TotalClicks
  BY ProgramAssumption
<1>3. n >= ChunkSize => n \div (n \div TotalClicks) <= TotalClicks
  BY <1>1, ProgramAssumption
<1>4. p = IF n < ChunkSize THEN n ELSE n \div TotalClicks
  BY DEF PointIncrement
<1>5. (c + 1) * p <= n
  OBVIOUS
<1> HIDE DEF n, p
<1>6. CASE n < ChunkSize
  <2>1. p = n
    BY <1>4, <1>6
  <2>2. c = 0
    <3>1. SUFFICES ASSUME c >= 1 PROVE FALSE
      OBVIOUS
    <3>2. (c + 1) * n = c * n + n
      BY <1>1
    <3>3. c * n >= n
      BY <1>1, <3>1
    <3>4. QED
      BY <1>1, <1>5, <2>1, <3>2, <3>3
  <2>3. QED
    BY <1>2, <2>2
<1>7. CASE n >= ChunkSize
  <2>1. p = n \div TotalClicks /\ n \div p <= TotalClicks
    BY <1>1, <1>2, <1>3, <1>4, <1>7
  <2>2. p >= 1
    BY <1>1, <1>2, <1>7, <2>1
  <2>3. c + 1 <= n \div p
    BY <1>1, <1>5, <2>2, Quotient
  <2>4. n \div p \in Nat
    BY <1>1, <2>2
  <2>5. QED
    BY <1>2, <2>1, <2>3, <2>4
<1>8. QED
  BY <1>1, <1>2, <1>6, <1>7

\* Together they are worth 40%.
LEMMA ClickWorth ==
    ASSUME NEW c \in 0..TotalClicks
    PROVE  /\ 4 \div TotalClicks \in Nat /\ c * (4 \div TotalClicks) \in Nat
           /\ c * (4 \div TotalClicks) <= 4
           /\ (c + 1) * (4 \div TotalClicks) = c * (4 \div TotalClicks) + (4 \div TotalClicks)
<1>1. \/ TotalClicks = 1 \/ TotalClicks = 2 \/ TotalClicks = 3 \/ TotalClicks = 4
  BY ProgramAssumption
<1>2. CASE TotalClicks = 1
  BY <1>2
<1>3. CASE TotalClicks = 2
  BY <1>3
<1>4. CASE TotalClicks = 3
  BY <1>4
<1>5. CASE TotalClicks = 4
  BY <1>5
<1>6. QED
  BY <1>1, <1>2, <1>3, <1>4, <1>5

\* The second pass is worth 20%.
LEMMA SplitWorth ==
    ASSUME NEW n \in Nat, NEW l \in Nat, NEW p \in Nat,
           p <= 4 + (n - l) * (IF n = 0 THEN 2 ELSE 2 \div n), l = 0
    PROVE  p <= 6
<1>1. CASE n = 0
  BY <1>1
<1>2. CASE n = 1
  BY <1>2
<1>3. CASE n = 2
  BY <1>3
<1>4. CASE n > 2
  <2>1. 2 \div n = 0
    BY <1>4
  <2>2. QED
    BY <1>4, <2>1
<1>5. QED
  BY <1>1, <1>2, <1>3, <1>4

PercentInv == TileOK /\ SplitOK

\* What writeIncrementRaw() does to the percentage.
LEMMA IncrementGrows ==
    ASSUME NEW pw \in [percent : Nat, increment : Nat, current : Nat, next : Nat], pw.percent <= 10,
           WriteIncrement(pw)
    PROVE  /\ progress'.percent >= pw.percent /\ progress'.percent <= 10
           /\ progress'.percent <= pw.percent + pw.increment
           /\ pw.percent + pw.increment <= 10 => progress'.percent = pw.percent + pw.increment
           /\ progress'.increment = pw.increment /\ progress'.current = pw.current
           /\ progress'.next = pw.next
<1> DEFINE p == IF pw.percent + pw.increment < 10 THEN pw.percent + pw.increment ELSE 10
<1>1. pw.percent \in Nat /\ pw.increment \in Nat
  OBVIOUS
<1>2. progress' = [pw EXCEPT !.percent = p]
  BY DEF WriteIncrement
<1>3. /\ p >= pw.percent /\ p <= 10 /\ p <= pw.percent + pw.increment
      /\ pw.percent + pw.increment <= 10 => p = pw.percent + pw.increment
  BY <1>1
<1> HIDE DEF p
<1>4. /\ progress'.percent = p /\ progress'.increment = pw.increment
      /\ progress'.current = pw.current /\ progress'.next = pw.next
  BY <1>2
<1>5. QED
  BY <1>3, <1>4

LEMMA PercentInit == SInit => PercentInv
<1> SUFFICES ASSUME SInit PROVE PercentInv
  OBVIOUS
<1>1. pc = "none" /\ progress.percent = 0
  BY DEF SInit, Init
<1>2. QED
  BY <1>1 DEF PercentInv, TileOK, SplitOK, Begun, Tiling

\* Steps that leave the percentage alone.
LEMMA PercentKept ==
    ASSUME PercentInv, UNCHANGED <<progress, input>>,
           \/ pc' \notin Begun \cup Tiling \cup {"split"}
           \/ pc \in Begun /\ pc' \in Begun
           \/ UNCHANGED <<pc, left>>
    PROVE  PercentInv'
<1>1. Parts' = Parts /\ PointIncrement' = PointIncrement
  BY DEF Parts, PointIncrement
<1>2. CASE pc' \notin Begun \cup Tiling \cup {"split"}
  BY <1>2 DEF PercentInv, TileOK, SplitOK
<1>3. CASE pc \in Begun /\ pc' \in Begun
  BY <1>3 DEF PercentInv, TileOK, SplitOK, Begun, Tiling
<1>4. CASE UNCHANGED <<pc, left>>
  BY <1>1, <1>4 DEF PercentInv, TileOK, SplitOK
<1>5. QED
  BY <1>2, <1>3, <1>4

\* The end of a file's points: update() counts them.
LEMMA TileKeepsPercent ==
    ASSUME InputOK, PercentInv, NEW v \in left, Tile(v)
    PROVE  PercentInv' /\ progress'.percent >= progress.percent
<1> DEFINE n == Len(Points(runs, input, v))
<1>1. /\ pc = "tile" /\ pc' = "update" /\ left' = left \ {v} /\ UNCHANGED input
      /\ progress' = [progress EXCEPT !.current = @ + n]
  BY DEF Tile
<1>2. Parts' = Parts /\ PointIncrement' = PointIncrement
  BY <1>1 DEF Parts, PointIncrement
<1>3. n \in Nat /\ (v \notin Parts => n = 0)
  BY PointsType DEF InputOK, Parts
<1>4. progress.current \in Nat /\ progress.percent \in Nat
  BY DEF InputOK, ProgressOK
<1> HIDE DEF n
<1>5. /\ progress'.percent = progress.percent /\ progress'.increment = progress.increment
      /\ progress'.next = progress.next /\ progress'.current = progress.current + n
  BY <1>1 DEF InputOK, ProgressOK
<1>6. CASE Parts = {}
  <2>1. progress'.current = 0 /\ progress'.next = 0
    BY <1>1, <1>3, <1>5, <1>6 DEF PercentInv, TileOK, Tiling
  <2>2. QED
    BY <1>1, <1>2, <1>4, <1>5, <1>6, <2>1 DEF PercentInv, TileOK, SplitOK, Begun, Tiling
<1>7. CASE Parts # {}
  <2>1. /\ left \subseteq Parts /\ v \in Parts
        /\ progress.current = Cardinality(PointsIn(input, Parts \ left))
    BY <1>1, <1>7 DEF PercentInv, TileOK, Tiling
  <2>2. Parts \ left' = (Parts \ left) \cup {v} /\ v \notin Parts \ left
    BY <1>1, <2>1
  <2>3. Cardinality(PointsIn(input, (Parts \ left) \cup {v})) = progress.current + n
    <3>1. /\ Parts = input.direct \cup input.big /\ Parts \ left \in SUBSET Parts
          /\ v \in Parts \ (Parts \ left)
      BY <2>1, <2>2 DEF Parts
    <3>2. runs \in Nat /\ input \in Inputs \cup {NoInput}
      BY DEF InputOK
    <3> DEFINE S == Parts \ left
    <3>3. S \in SUBSET (input.direct \cup input.big) /\ v \in (input.direct \cup input.big) \ S
      BY <3>1
    <3>4. Cardinality(PointsIn(input, S)) = progress.current
      BY <2>1
    <3> HIDE DEF S
    <3>5. \A u \in (input.direct \cup input.big) \ S : \A r \in Nat :
            Cardinality(PointsIn(input, S \cup {u})) =
                Cardinality(PointsIn(input, S)) + Len(Points(r, input, u))
      BY <3>2, <3>3, PointsOfSome
    <3>6. Cardinality(PointsIn(input, S \cup {v})) = progress.current + n
      BY <3>2, <3>3, <3>4, <3>5 DEF n
    <3>7. QED
      BY <3>6 DEF S
  <2>4. progress'.current = Cardinality(PointsIn(input', Parts' \ left'))
    BY <1>1, <1>2, <1>5, <2>2, <2>3
  <2>5. TileOK'
    BY <1>1, <1>2, <1>5, <1>7, <2>1, <2>4 DEF PercentInv, TileOK, Begun, Tiling
  <2>6. SplitOK'
    BY <1>1 DEF SplitOK
  <2>7. QED
    BY <1>4, <1>5, <2>5, <2>6 DEF PercentInv
<1>8. QED
  BY <1>6, <1>7

LEMMA ClickKeepsPercent ==
    ASSUME InputOK, PercentInv, Click
    PROVE  PercentInv' /\ progress'.percent >= progress.percent
<1> DEFINE pw == [progress EXCEPT !.next = @ + PointIncrement]
           i  == 4 \div TotalClicks
<1>1. /\ pc = "update" /\ UNCHANGED <<pc, input, left>> /\ progress.current >= progress.next
      /\ WriteIncrement(pw)
  BY DEF Click
<1>2. Parts' = Parts /\ PointIncrement' = PointIncrement
  BY <1>1 DEF Parts, PointIncrement
<1>3. PointIncrement \in Nat /\ NumPoints(input) \in Nat /\ (Parts = {} => PointIncrement = 0)
  <2>1. PointIncrement \in Nat /\ NumPoints(input) \in Nat /\ (NumPoints(input) = 0 <=> Parts = {})
    BY NumPointsType
  <2>2. NumPoints(input) = 0 => PointIncrement = 0
    BY ProgramAssumption DEF PointIncrement
  <2>3. QED
    BY <2>1, <2>2
<1>4. /\ pw \in [percent : Nat, increment : Nat, current : Nat, next : Nat]
      /\ pw.percent = progress.percent /\ pw.increment = progress.increment
      /\ pw.current = progress.current /\ pw.next = progress.next + PointIncrement
  BY <1>3 DEF InputOK, ProgressOK
<1>5. progress.percent <= 10
  BY DEF PercentInv, TileOK
<1> HIDE DEF pw
<1>6. /\ progress'.percent >= progress.percent /\ progress'.percent <= 10
      /\ progress.percent + progress.increment <= 10 =>
            progress'.percent = progress.percent + progress.increment
      /\ progress'.increment = progress.increment /\ progress'.current = progress.current
      /\ progress'.next = progress.next + PointIncrement
  BY <1>1, <1>4, <1>5, IncrementGrows
<1>7. SplitOK'
  BY <1>1 DEF SplitOK
<1>8. CASE Parts = {}
  <2>1. progress'.current = 0 /\ progress'.next = 0
    BY <1>1, <1>3, <1>6, <1>8 DEF PercentInv, TileOK, Tiling
  <2>2. TileOK'
    BY <1>1, <1>2, <1>6, <1>8, <2>1 DEF TileOK, Begun, Tiling
  <2>3. QED
    BY <1>6, <1>7, <2>2 DEF PercentInv
<1>9. CASE Parts # {}
  <2>1. /\ left \subseteq Parts /\ progress.increment = i
        /\ progress.current = Cardinality(PointsIn(input, Parts \ left))
    BY <1>1, <1>9 DEF PercentInv, TileOK, Tiling
  <2>2. PICK c \in 0..TotalClicks : /\ progress.next = (c + 1) * PointIncrement
                                    /\ progress.percent = c * progress.increment
    BY <1>1, <1>9 DEF PercentInv, TileOK, Tiling
  <2>3. progress.current <= NumPoints(input) /\ progress.current \in Nat
    BY <2>1, PointsOfSome DEF InputOK, Parts
  <2>4. c \in Nat /\ (c + 1) * PointIncrement <= NumPoints(input)
    <3>1. progress.next \in Nat
      BY DEF InputOK, ProgressOK
    <3>2. QED
      BY <1>1, <1>3, <2>2, <2>3, <3>1
  <2>5. c + 1 \in 0..TotalClicks
    <3>1. c + 1 <= TotalClicks
      BY <1>1, <1>9, <2>4, ClickCount DEF Ended
    <3>2. TotalClicks \in Nat
      BY ProgramAssumption
    <3>3. QED
      BY <2>4, <3>1, <3>2
  <2>6. /\ i \in Nat /\ c * i \in Nat /\ (c + 1) * i = c * i + i /\ (c + 1) * i <= 4
    BY <2>5, ClickWorth
  <2> HIDE DEF i
  <2>7. progress'.percent = (c + 1) * progress'.increment
    BY <1>6, <2>1, <2>2, <2>6
  <2>8. progress'.next = ((c + 1) + 1) * PointIncrement'
    <3>1. ((c + 1) + 1) * PointIncrement = (c + 1) * PointIncrement + PointIncrement
      BY <1>3, <2>4
    <3>2. QED
      BY <1>2, <1>6, <2>2, <3>1
  <2>9. TileOK'
    <3>1. progress'.current = Cardinality(PointsIn(input', Parts' \ left'))
      BY <1>1, <1>2, <1>6, <2>1
    <3>2. QED
      BY <1>1, <1>2, <1>6, <1>9, <2>1, <2>5, <2>7, <2>8, <3>1 DEF TileOK, Begun, Tiling, i
  <2>10. QED
    BY <1>6, <1>7, <2>9 DEF PercentInv
<1>10. QED
  BY <1>8, <1>9

LEMMA SplitKeepsPercent ==
    ASSUME InputOK, PercentInv, NEW v \in left, Split(v)
    PROVE  PercentInv' /\ progress'.percent >= progress.percent
<1> DEFINE n == Cardinality(input.big)
           l == Cardinality(left)
           i == progress.increment
<1>1. /\ pc = "split" /\ left' = left \ {v} /\ UNCHANGED <<pc, input>> /\ WriteIncrement(progress)
  BY DEF Split
<1>2. progress.percent <= 10 /\ progress.percent \in Nat /\ i \in Nat
  BY DEF InputOK, ProgressOK, PercentInv, TileOK
<1>3. /\ progress'.percent >= progress.percent /\ progress'.percent <= 10
      /\ progress'.percent <= progress.percent + i
      /\ progress'.increment = i
  BY <1>1, <1>2, IncrementGrows DEF InputOK, ProgressOK
<1>4. /\ left \subseteq input.big
      /\ i = IF input.big = {} THEN 2 ELSE 2 \div n
      /\ progress.percent <= 4 + (n - l) * i
  BY <1>1 DEF PercentInv, SplitOK
<1>5. IsFiniteSet(input.big) /\ n \in Nat
  BY InputFacts, FS_CardinalityType DEF InputOK
<1>6. IsFiniteSet(left) /\ l \in Nat
  BY <1>4, <1>5, FS_Subset, FS_CardinalityType
<1>7. Cardinality(left') = l - 1
  BY <1>1, <1>6, FS_RemoveElement
<1> HIDE DEF n, l, i
<1>8. (n - (l - 1)) * i = (n - l) * i + i
  BY <1>2, <1>5, <1>6
<1>9. progress'.percent <= 4 + (n - Cardinality(left')) * i
  <2>1. progress'.percent \in Nat
    BY <1>1, WriteIncrementType DEF InputOK, ProgressOK
  <2>2. (n - l) * i \in Int
    BY <1>2, <1>5, <1>6
  <2>3. QED
    BY <1>2, <1>3, <1>4, <1>7, <1>8, <2>1, <2>2
<1>10. SplitOK'
  BY <1>1, <1>3, <1>4, <1>9 DEF SplitOK, n
<1>11. TileOK'
  BY <1>1, <1>3 DEF TileOK, Begun, Tiling
<1>12. QED
  BY <1>3, <1>10, <1>11 DEF PercentInv

LEMMA PercentStepProgram ==
    ASSUME InputOK, PercentInv, ProgramStep \/ Throw \/ Hang \/ Kill
    PROVE  PercentInv' /\ progress'.percent >= progress.percent
<1>1. progress.percent <= 10 /\ progress.percent \in Nat
  BY DEF InputOK, ProgressOK, PercentInv, TileOK
<1>2. CASE HandleOptions \/ CreateDirs \/ Cleanup \/ Throw \/ Hang \/ Kill
  <2>1. /\ UNCHANGED <<progress, input>>
        /\ \/ pc' \notin Begun \cup Tiling \cup {"split"}
           \/ pc \in Begun /\ pc' \in Begun
    BY <1>2 DEF HandleOptions, CreateDirs, Cleanup, Throw, Hang, Kill, Die, Begun, Tiling
  <2>2. QED
    BY <1>1, <2>1, PercentKept
<1>3. CASE Prepare
  <2>1. /\ pc = "prep" /\ pc' = "tile" /\ UNCHANGED input
        /\ left' = IF NumPoints(input) = 0 THEN {Root} ELSE Parts
        /\ progress' = [progress EXCEPT !.next = PointIncrement]
    BY <1>3 DEF Prepare, Parts
  <2>2. Parts' = Parts /\ PointIncrement' = PointIncrement
    BY <2>1 DEF Parts, PointIncrement
  <2>3. NumPoints(input) \in Nat /\ PointIncrement \in Nat /\ (NumPoints(input) = 0 <=> Parts = {})
    BY NumPointsType
  <2>4. /\ progress'.percent = progress.percent /\ progress'.increment = progress.increment
        /\ progress'.current = progress.current /\ progress'.next = PointIncrement
    BY <2>1 DEF InputOK, ProgressOK
  <2>5. progress.percent = 0 /\ progress.increment = 4 \div TotalClicks /\ progress.current = 0
    BY <2>1 DEF PercentInv, TileOK, Begun
  <2>6. SplitOK'
    BY <2>1 DEF SplitOK
  <2>7. CASE Parts = {}
    <3>1. PointIncrement = 0
      BY <2>3, <2>7, ProgramAssumption DEF PointIncrement
    <3>2. TileOK'
      BY <2>1, <2>2, <2>3, <2>4, <2>5, <2>7, <3>1 DEF TileOK, Begun, Tiling
    <3>3. QED
      BY <1>1, <2>4, <2>6, <3>2 DEF PercentInv
  <2>8. CASE Parts # {}
    <3>1. left' = Parts'
      BY <2>1, <2>2, <2>3, <2>8
    <3>2. Cardinality(PointsIn(input', Parts' \ left')) = 0
      <4>1. Parts' \ left' = {}
        BY <3>1
      <4>2. Cardinality(PointsIn(input', {})) = 0
        BY <2>1, PointsOfSome DEF InputOK
      <4>3. QED
        BY <4>1, <4>2
    <3>3. /\ 0 \in 0..TotalClicks /\ progress'.next = (0 + 1) * PointIncrement'
          /\ progress'.percent = 0 * progress'.increment
      <4>1. TotalClicks \in Nat /\ 4 \div TotalClicks \in Nat
        BY ProgramAssumption
      <4>2. QED
        BY <2>2, <2>3, <2>4, <2>5, <4>1
    <3>4. TileOK'
      BY <2>1, <2>2, <2>4, <2>5, <2>8, <3>1, <3>2, <3>3 DEF TileOK, Begun, Tiling
    <3>5. QED
      BY <1>1, <2>4, <2>6, <3>4 DEF PercentInv
  <2>9. QED
    BY <2>7, <2>8
<1>4. CASE Updated
  <2>1. /\ pc = "update" /\ pc' = "tile" /\ UNCHANGED <<input, left, progress>>
        /\ progress.current < progress.next
    BY <1>4 DEF Updated
  <2>2. Parts' = Parts /\ PointIncrement' = PointIncrement
    BY <2>1 DEF Parts, PointIncrement
  <2>3. Parts # {}
    BY <2>1 DEF PercentInv, TileOK, Tiling
  <2>4. PercentInv'
    BY <2>1, <2>2, <2>3 DEF PercentInv, TileOK, SplitOK, Begun, Tiling
  <2>5. QED
    BY <1>1, <2>1, <2>4
<1>5. CASE Tiled
  <2> DEFINE i == IF input.big = {} THEN 2 ELSE 2 \div Cardinality(input.big)
  <2>1. /\ pc = "tile" /\ pc' = "split" /\ left = {} /\ left' = input.big /\ UNCHANGED input
        /\ progress' = [progress EXCEPT !.percent = 4, !.increment = i]
    BY <1>5 DEF Tiled, SetPercent
  <2> HIDE DEF i
  <2>2. progress'.percent = 4 /\ progress'.increment = i
    BY <2>1 DEF InputOK, ProgressOK
  <2>3. Parts # {}
    BY <2>1 DEF PercentInv, TileOK, Tiling
  <2>4. PICK c \in 0..TotalClicks : progress.percent = c * (4 \div TotalClicks)
    BY <2>1, <2>3 DEF PercentInv, TileOK, Tiling
  <2>5. progress.percent <= 4
    BY <2>4, ClickWorth
  <2>6. Cardinality(input.big) \in Nat /\ i \in Nat
    BY InputFacts, FS_CardinalityType, IncrementType DEF InputOK, i
  <2>7. (Cardinality(input.big) - Cardinality(input.big)) * i = 0
    BY <2>6
  <2>8. SplitOK'
    BY <2>1, <2>2, <2>7 DEF SplitOK, i
  <2>9. TileOK'
    BY <2>1, <2>2 DEF TileOK, Begun, Tiling
  <2>10. QED
    BY <1>1, <2>2, <2>5, <2>8, <2>9 DEF PercentInv
<1>6. CASE StartPyramid
  <2>1. pc = "split" /\ left = {} /\ pc' \notin Begun \cup Tiling \cup {"split"} /\ UNCHANGED input
    BY <1>6 DEF StartPyramid, Begun, Tiling
  <2>2. CASE UNCHANGED progress
    BY <1>1, <2>1, <2>2, PercentKept
  <2>3. ASSUME NEW i, SetPercent(6, i) PROVE PercentInv' /\ progress'.percent >= progress.percent
    <3>1. progress'.percent = 6
      BY <2>3 DEF SetPercent, InputOK, ProgressOK
    <3>2. /\ Cardinality(input.big) \in Nat
          /\ input.big = {} <=> Cardinality(input.big) = 0
      BY InputFacts, FS_CardinalityType, FS_EmptySet DEF InputOK
    <3>3. Cardinality(left) = 0
      BY <2>1, FS_EmptySet
    <3>4. progress.percent <= 4 + (Cardinality(input.big) - 0)
                                    * (IF Cardinality(input.big) = 0 THEN 2 ELSE 2 \div Cardinality(input.big))
      BY <2>1, <3>2, <3>3 DEF PercentInv, SplitOK
    <3>5. progress.percent <= 6
      BY <1>1, <3>2, <3>4, SplitWorth
    <3>6. PercentInv'
      BY <2>1, <3>1 DEF PercentInv, TileOK, SplitOK
    <3>7. QED
      BY <1>1, <3>1, <3>5, <3>6
  <2>4. QED
    BY <1>6, <2>2, <2>3 DEF StartPyramid
<1>7. ASSUME NEW v \in left, Sample(v) PROVE PercentInv' /\ progress'.percent >= progress.percent
  <2>1. WriteIncrement(progress) /\ pc' \notin Begun \cup Tiling \cup {"split"}
    BY <1>7 DEF Sample, Begun, Tiling
  <2>2. progress'.percent >= progress.percent /\ progress'.percent <= 10
    BY <1>1, <2>1, IncrementGrows DEF InputOK, ProgressOK
  <2>3. QED
    BY <2>1, <2>2 DEF PercentInv, TileOK, SplitOK
<1>8. QED
  BY <1>2, <1>3, <1>4, <1>5, <1>6, <1>7, TileKeepsPercent, ClickKeepsPercent, SplitKeepsPercent
     DEF ProgramStep

LEMMA PercentInvStep ==
    InputOK /\ PercentInv /\ [Next]_vars =>
        PercentInv' /\ (runs' = runs => progress'.percent >= progress.percent)
<1> SUFFICES ASSUME InputOK, PercentInv, [Next]_vars
             PROVE  PercentInv' /\ (runs' = runs => progress'.percent >= progress.percent)
  OBVIOUS
<1>1. progress.percent \in Nat /\ runs \in Nat
  BY DEF InputOK, ProgressOK
<1>2. CASE Outside
  <2>1. UNCHANGED <<progress, input, left>> /\ (UNCHANGED pc \/ pc' = "killed")
    BY <1>2, OutsideSteps
  <2>2. QED
    BY <1>1, <2>1, PercentKept DEF Begun, Tiling
<1>3. ASSUME NEW in \in Inputs, Start(in)
      PROVE  PercentInv' /\ (runs' = runs => progress'.percent >= progress.percent)
  <2>1. runs' = runs + 1
    BY <1>3 DEF Start, Begin
  <2>2. CASE Begin(in)
    <3>1. /\ pc' = "options"
          /\ progress' = [percent |-> 0, increment |-> 4 \div TotalClicks, current |-> 0, next |-> 0]
      BY <2>2 DEF Begin
    <3>2. PercentInv'
      BY <3>1 DEF PercentInv, TileOK, SplitOK, Begun, Tiling
    <3>3. QED
      BY <1>1, <2>1, <3>2
  <2>3. CASE ~Begin(in)
    <3>1. UNCHANGED <<progress, input>> /\ pc' = "killed"
      BY <1>3, <2>3 DEF Start
    <3>2. QED
      BY <1>1, <2>1, <3>1, PercentKept DEF Begun, Tiling
  <2>4. QED
    BY <2>2, <2>3
<1>4. CASE UNCHANGED vars
  <2>1. UNCHANGED <<progress, input, pc, left>>
    BY <1>4 DEF vars, progVars
  <2>2. QED
    BY <1>1, <2>1, PercentKept
<1>5. CASE ProgramStep \/ Throw \/ Hang \/ Kill
  BY <1>5, PercentStepProgram
<1>6. QED
  BY <1>2, <1>3, <1>4, <1>5 DEF Next, Outside

\* The percentage of a message that write() has still to put into the pipe.
Due == say # <<>> /\ Head(say)[1] \in {"id", "percent"}

\* The percentages that the client has read, those in the pipe, the one in hand
\* and the program's own follow each other in this order, and none falls.
Rising ==
    /\ shown \in Nat /\ shown <= progress.percent
    /\ \A i \in 1..Len(pipe) : pipe[i][1] = "percent" =>
        shown <= pipe[i][2] /\ pipe[i][2] <= progress.percent
    /\ \A i, j \in 1..Len(pipe) :
        i <= j /\ pipe[i][1] = "percent" /\ pipe[j][1] = "percent" => pipe[i][2] <= pipe[j][2]
    /\ Due => /\ shown <= Head(say)[2] /\ Head(say)[2] <= progress.percent
              /\ \A i \in 1..Len(pipe) : pipe[i][1] = "percent" => pipe[i][2] <= Head(say)[2]

LEMMA RisingInit == SInit => Rising
<1> SUFFICES ASSUME SInit PROVE Rising
  OBVIOUS
<1>1. say = <<>> /\ pipe = <<>> /\ shown = 0 /\ progress.percent = 0
  BY DEF SInit, Init
<1>2. Len(pipe) = 0
  BY <1>1
<1>3. QED
  BY <1>1, <1>2 DEF Rising, Due

\* Numbers in the order.
LEMMA PipePercents ==
    ASSUME MessageInv
    PROVE  /\ Len(pipe) \in Nat
           /\ \A i \in 1..Len(pipe) : pipe[i] \in Word /\ pipe[i][2] \in Nat
<1>1. pipe \in Seq(Word)
  BY DEF MessageInv, PipeOK
<1>2. \A w \in Word : w[2] \in Nat
  BY DEF Word
<1>3. QED
  BY <1>1, <1>2

\* Steps of the program: what it has to say is its own percentage.
LEMMA ProgramKeepsRising ==
    ASSUME Rising, MessageInv, InputOK, InputOK', progress'.percent >= progress.percent,
           ProgramStep \/ Throw \/ Hang \/ Kill, Quiet
    PROVE  Rising'
<1>1. /\ \/ say' = say
         \/ say = <<>> /\ say' \in {ErrorMessage, Message(progress'.percent)}
         \/ say' = <<>>
  BY Says DEF MessageInv, InputOK
<1>2. UNCHANGED <<pipe, shown>>
  BY DEF Quiet, reader
<1>3. progress.percent \in Nat /\ progress'.percent \in Nat /\ shown \in Nat
  BY DEF InputOK, ProgressOK, Rising
<1>4. \A n \in Nat : n <= progress.percent => n <= progress'.percent
  BY <1>3
<1>5. \A i \in 1..Len(pipe) : pipe[i][1] = "percent" => pipe[i][2] <= progress'.percent
  BY <1>4, PipePercents DEF Rising
<1>6. shown <= progress'.percent
  BY <1>3, <1>4 DEF Rising
<1>7. ASSUME Due'
      PROVE  /\ shown <= Head(say')[2] /\ Head(say')[2] <= progress'.percent
             /\ \A i \in 1..Len(pipe) : pipe[i][1] = "percent" => pipe[i][2] <= Head(say')[2]
  <2>1. CASE say' = say
    <3>1. Due
      BY <1>7, <2>1 DEF Due
    <3>2. Head(say)[2] \in Nat
      <4>1. Head(say) \in Word
        BY <3>1, NextWord DEF Due, MessageInv
      <4>2. QED
        BY <4>1 DEF Word
    <3>3. QED
      BY <1>4, <2>1, <3>1, <3>2 DEF Rising
  <2>2. CASE say' = ErrorMessage
    <3>1. Head(ErrorMessage)[1] = "error"
      BY DEF ErrorMessage
    <3>2. QED
      BY <1>7, <2>2, <3>1 DEF Due
  <2>3. CASE say' = Message(progress'.percent)
    <3>1. Head(say')[2] = progress'.percent
      BY <2>3 DEF Message
    <3>2. QED
      BY <1>3, <1>5, <1>6, <3>1
  <2>4. CASE say' = <<>>
    BY <1>7, <2>4 DEF Due
  <2>5. QED
    BY <1>1, <2>1, <2>2, <2>3, <2>4
<1>8. QED
  BY <1>2, <1>3, <1>5, <1>6, <1>7 DEF Rising

\* write() puts the percentage in hand behind all others.
LEMMA WriteKeepsRising ==
    ASSUME Rising, MessageInv, WriteWord
    PROVE  Rising' /\ shown' = shown
<1> DEFINE w == Head(say)
           h == HalfWords(w)
           n == Len(pipe)
<1>1. /\ say # <<>> /\ say' = Tail(say) /\ pipe' = pipe \o h
      /\ UNCHANGED <<shown, progress>>
  BY DEF WriteWord, reader
<1>2. /\ w \in Word
      /\ w[1] = "id" => Head(say')[1] = "percent" /\ Head(say')[2] = w[2]
      /\ say' # <<>> => /\ Head(say')[1] # "id"
                        /\ Head(say')[1] = "percent" => w[1] = "id"
  BY <1>1, NextWord DEF MessageInv
<1>3. h \in Seq(Word) /\ Len(h) \in Nat /\ \A i \in 1..Len(h) : h[i] = w
  BY <1>2, HalfWordsOf
<1>4. pipe \in Seq(Word) /\ n \in Nat
  BY DEF MessageInv, PipeOK
<1>5. w[2] \in Nat
  BY <1>2 DEF Word
<1>6. w[1] \in {"id", "percent"} => Due
  BY <1>1 DEF Due
<1> HIDE DEF w, h
<1>7. /\ Len(pipe') = n + Len(h)
      /\ \A i \in 1..n : pipe'[i] = pipe[i]
      /\ \A i \in (n + 1)..(n + Len(h)) : pipe'[i] = w
  BY <1>1, <1>3, <1>4
<1>8. \A i \in 1..Len(pipe') : \/ i \in 1..n /\ pipe'[i] = pipe[i]
                               \/ i \notin 1..n /\ pipe'[i] = w
  <2>1. ASSUME NEW i \in 1..Len(pipe'), i \notin 1..n PROVE i \in (n + 1)..(n + Len(h))
    <3>1. i \in 1..(n + Len(h))
      BY <1>7, <2>1
    <3>2. QED
      BY <1>3, <1>4, <2>1, <3>1
  <2>2. \A i \in 1..Len(pipe') : i \notin 1..n => pipe'[i] = w
    BY <1>7, <2>1
  <2>3. \A i \in 1..Len(pipe') : i \in 1..n => pipe'[i] = pipe[i]
    BY <1>7
  <2>4. QED
    BY <2>2, <2>3
<1>9. Due => /\ shown <= w[2] /\ w[2] <= progress.percent
             /\ \A i \in 1..n : pipe[i][1] = "percent" => pipe[i][2] <= w[2]
  BY DEF Rising, w
<1>10. \A i \in 1..Len(pipe') : pipe'[i][1] = "percent" =>
          shown <= pipe'[i][2] /\ pipe'[i][2] <= progress.percent
  BY <1>6, <1>8, <1>9 DEF Rising
<1>11. ASSUME NEW i \in 1..Len(pipe'), NEW j \in 1..Len(pipe'), i <= j,
              pipe'[i][1] = "percent", pipe'[j][1] = "percent"
       PROVE  pipe'[i][2] <= pipe'[j][2]
  <2>1. CASE i \in 1..n /\ j \in 1..n
    BY <1>8, <1>11, <2>1 DEF Rising
  <2>2. CASE i \in 1..n /\ j \notin 1..n
    <3>1. pipe'[i] = pipe[i] /\ pipe'[j] = w
      BY <1>8, <2>2
    <3>2. QED
      BY <1>6, <1>9, <1>11, <2>2, <3>1
  <2>3. CASE i \notin 1..n
    <3>1. j \notin 1..n
      BY <1>4, <1>11, <2>3
    <3>2. pipe'[i] = w /\ pipe'[j] = w
      BY <1>8, <2>3, <3>1
    <3>3. QED
      BY <1>5, <3>2
  <2>4. QED
    BY <2>1, <2>2, <2>3
<1>12. ASSUME Due'
       PROVE  /\ shown <= Head(say')[2] /\ Head(say')[2] <= progress.percent
              /\ \A i \in 1..Len(pipe') : pipe'[i][1] = "percent" => pipe'[i][2] <= Head(say')[2]
  <2>1. w[1] = "id" /\ Head(say')[2] = w[2]
    BY <1>2, <1>12 DEF Due
  <2>2. QED
    BY <1>6, <1>8, <1>9, <2>1
<1>13. QED
  BY <1>1, <1>10, <1>11, <1>12 DEF Rising

\* What the client reads is at the front.
LEMMA ReadKeepsRising ==
    ASSUME Rising, MessageInv, Read
    PROVE  Rising' /\ shown' >= shown
<1>1. UNCHANGED <<pc, say, reported, progress>>
  BY DEF Read, ReadId, ReadPercent, ReadSize, ReadText, progVars
<1>2. PICK k \in Nat : pipe' = SubSeq(pipe, k + 1, Len(pipe))
  <2>1. pipe \in Seq(Word)
    BY DEF MessageInv, PipeOK
  <2>2. CASE ReadId \/ ReadPercent \/ ReadSize
    <3>1. pipe' = SubSeq(pipe, 2 + 1, Len(pipe))
      BY <2>2 DEF ReadId, ReadPercent, ReadSize, ReadWord
    <3>2. QED
      BY <3>1
  <2>3. CASE ReadText /\ pipe' = Tail(pipe) /\ pipe # <<>>
    <3>1. pipe' = SubSeq(pipe, 1 + 1, Len(pipe))
      BY <2>1, <2>3, TailIsSubSeq
    <3>2. QED
      BY <3>1
  <2>4. CASE UNCHANGED pipe
    <3>1. SubSeq(pipe, 0 + 1, Len(pipe)) = pipe
      BY <2>1
    <3>2. QED
      BY <2>4, <3>1
  <2>5. QED
    BY <2>2, <2>3, <2>4 DEF Read, ReadText
<1>3. /\ Len(pipe') = IF k <= Len(pipe) THEN Len(pipe) - k ELSE 0
      /\ \A i \in 1..Len(pipe') : pipe'[i] = pipe[i + k]
  BY <1>1, <1>2, ReadKeepsPipe DEF MessageInv
<1>4. Len(pipe) \in Nat /\ \A i \in 1..Len(pipe') : i + k \in 1..Len(pipe) /\ pipe'[i] = pipe[i + k]
  BY <1>3, PipePercents
<1>5. \A i \in 1..Len(pipe') : pipe'[i][1] = "percent" => pipe'[i][2] <= progress'.percent
  BY <1>1, <1>4 DEF Rising
<1>6. \A i, j \in 1..Len(pipe') :
        i <= j /\ pipe'[i][1] = "percent" /\ pipe'[j][1] = "percent" => pipe'[i][2] <= pipe'[j][2]
  <2>1. \A i, j \in 1..Len(pipe') : i <= j => i + k <= j + k
    BY <1>4
  <2>2. QED
    BY <1>4, <2>1 DEF Rising
<1>7. Due' => Due /\ Head(say')[2] = Head(say)[2]
  BY <1>1 DEF Due
<1>8. CASE shown' = shown
  <2>1. \A i \in 1..Len(pipe') : pipe'[i][1] = "percent" => shown <= pipe'[i][2]
    BY <1>4 DEF Rising
  <2>2. Due' => \A i \in 1..Len(pipe') : pipe'[i][1] = "percent" => pipe'[i][2] <= Head(say)[2]
    BY <1>4, <1>7 DEF Rising
  <2>3. QED
    BY <1>1, <1>5, <1>6, <1>7, <1>8, <2>1, <2>2 DEF Rising
<1>9. CASE shown' # shown
  <2>1. at = "percent" /\ Len(pipe) >= 2 /\ shown' = pipe[1][2]
    BY <1>9 DEF Read, ReadId, ReadPercent, ReadSize, ReadText, Whole
  <2>2. 1 \in 1..Len(pipe) /\ pipe # <<>>
    BY <1>4, <2>1
  <2>3. pipe[1][1] = "percent" /\ pipe[1][2] \in Nat
    BY <2>1, <2>2, PipePercents DEF MessageInv, AtOK
  <2>4. shown <= pipe[1][2] /\ pipe[1][2] <= progress.percent
    BY <2>2, <2>3 DEF Rising
  <2>5. \A i \in 1..Len(pipe) : pipe[i][1] = "percent" => pipe[1][2] <= pipe[i][2]
    BY <2>2, <2>3 DEF Rising
  <2>6. \A i \in 1..Len(pipe') : pipe'[i][1] = "percent" => shown' <= pipe'[i][2]
    BY <1>4, <2>1, <2>5
  <2>7. Due' => /\ shown' <= Head(say)[2] /\ Head(say)[2] <= progress.percent
                /\ \A i \in 1..Len(pipe') : pipe'[i][1] = "percent" => pipe'[i][2] <= Head(say)[2]
    BY <1>4, <1>7, <2>1, <2>2, <2>3 DEF Rising
  <2>8. QED
    BY <1>1, <1>5, <1>6, <1>7, <2>1, <2>3, <2>4, <2>6, <2>7 DEF Rising
<1>10. QED
  BY <1>8, <1>9

\* Steps that neither write nor read.
LEMMA RisingKept ==
    ASSUME Rising, UNCHANGED <<pipe, shown, progress>>, say' = say \/ say' = <<>>
    PROVE  Rising' /\ shown' >= shown
BY DEF Rising, Due

LEMMA RisingStep ==
    Rising /\ MessageInv /\ InputOK /\ InputOK' /\ PercentInv /\ [Next]_vars =>
        Rising' /\ (runs' = runs => shown' >= shown)
<1> SUFFICES ASSUME Rising, MessageInv, InputOK, InputOK', PercentInv, [Next]_vars
             PROVE  Rising' /\ (runs' = runs => shown' >= shown)
  OBVIOUS
<1>1. shown \in Nat /\ runs \in Nat
  BY DEF Rising, InputOK
<1>2. CASE (ProgramStep \/ Throw \/ Hang \/ Kill) /\ Quiet
  <2>1. shown' = shown
    BY <1>2 DEF Quiet, reader
  <2>2. QED
    BY <1>1, <1>2, <2>1, PercentStepProgram, ProgramKeepsRising
<1>3. CASE WriteWord
  BY <1>1, <1>3, WriteKeepsRising
<1>4. CASE Stop \/ Running \/ OtherEnds \/ Poll \/ UNCHANGED vars
  <2>1. UNCHANGED <<pipe, shown, progress>> /\ (say' = say \/ say' = <<>>)
    BY <1>4 DEF Stop, Die, Running, OtherEnds, Poll, vars, progVars, reader
  <2>2. QED
    BY <2>1, RisingKept
<1>5. CASE Read
  BY <1>5, ReadKeepsRising
<1>6. ASSUME NEW in \in Inputs, Start(in)
      PROVE  Rising' /\ (runs' = runs => shown' >= shown)
  <2>1. say' = <<>> /\ pipe' = <<>> /\ shown' = 0 /\ runs' = runs + 1
    BY <1>6 DEF Start, NewPipe, Begin
  <2>2. Len(pipe') = 0 /\ progress'.percent \in Nat
    BY <2>1 DEF InputOK, ProgressOK
  <2>3. Rising'
    BY <2>1, <2>2 DEF Rising, Due
  <2>4. QED
    BY <1>1, <2>1, <2>3
<1>7. QED
  BY <1>2, <1>3, <1>4, <1>5, <1>6 DEF Next

\* While a program runs its percentage never goes back: the clicks of update() end
\* at 40%, where the second pass begins, and its increments at 60%, where the
\* pyramid begins, for every number of points and of voxels (ProgressWriter).  The
\* one the client reads never goes back either (readPipe() of QgisUntwine), however
\* the reads cut the messages.
THEOREM PercentNeverFalls == Spec => PercentGrows
<1> DEFINE Inv == InputOK /\ FilesOK /\ PercentInv /\ MessageInv /\ Rising
<1>1. SInit => Inv
  BY InputInit, PercentInit, MessageInit, RisingInit
<1>2. Inv /\ [Next]_vars => Inv'
  BY InputStep, FilesStep, PercentInvStep, MessageStep, RisingStep
<1>3. Inv /\ [Next]_vars => [runs' = runs => progress'.percent >= progress.percent /\ shown' >= shown]_vars
  <2>1. Inv /\ [Next]_vars => InputOK'
    BY InputStep
  <2>2. QED
    BY <2>1, PercentInvStep, RisingStep
<1> HIDE DEF Inv
<1>4. QED
  BY <1>1, <1>2, <1>3, PTL DEF Spec, PercentGrows

-----------------------------------------------------------------------------
(* The points.                                                             *)

\* The files that the second pass makes of a voxel, and those there are when it
\* has ended.
Halves(S)  == {Child(v, d) : v \in S, d \in {Low, High}}
Leaves(in) == in.direct \cup Halves(in.big)
HasPoints(S) == \A v \in S : files[v] = Points(runs, input, v)
HasPoint(S)  == \A w \in S : files[w] = <<[run |-> runs, at |-> w]>>

\* The files of a run that found none, phase by phase.
TiledFiles ==
    DOMAIN files = Parts \ left /\ HasPoints(Parts \ left)
SplittingFiles ==
    /\ DOMAIN files = (input.direct \cup left) \cup Halves(input.big \ left)
    /\ HasPoints(input.direct \cup left) /\ HasPoint(Halves(input.big \ left))
PyramidFiles ==
    /\ Leaves(input) \subseteq DOMAIN files
    /\ DOMAIN files \subseteq Leaves(input) \cup Above(Leaves(input))
    /\ HasPoints(input.direct) /\ HasPoint(Halves(input.big))
Exact ==
    swept =>
        /\ pc \in Begun => DOMAIN files = {}
        /\ pc \in Tiling => TiledFiles
        /\ pc = "split" => SplittingFiles
        /\ pc = "pyramid" => PyramidFiles
        /\ pc \in {"clean", "done"} /\ status = 0 => output = AllPoints(runs, input)

LEMMA HalvesType ==
    ASSUME NEW in \in Inputs \cup {NoInput}
    PROVE  \A v \in in.big : \A d \in {Low, High} :
                Child(v, d) \in VoxelKey /\ Child(v, d).level = 2 /\ Parent(Child(v, d)) = v
<1>1. \A v \in in.big : v \in VoxelKey /\ v.level = 1
  BY InputFacts
<1>2. \A d \in {Low, High} : d \in Dirs
  BY Ends
<1>3. QED
  BY <1>1, <1>2, ChildType

LEMMA LeavesType ==
    ASSUME NEW in \in Inputs \cup {NoInput}
    PROVE  /\ \A x \in Leaves(in) : x \in VoxelKey /\ x.level >= 1
           /\ \A x \in in.direct : x.level = 1 /\ x \notin Halves(in.big)
<1>1. \A x \in Halves(in.big) : x \in VoxelKey /\ x.level = 2
  BY HalvesType DEF Halves
<1>2. \A x \in in.direct : x \in VoxelKey /\ x.level = 1
  BY InputFacts
<1>3. QED
  BY <1>1, <1>2 DEF Leaves

\* No leaf is above another.
LEMMA LeavesApart ==
    ASSUME NEW in \in Inputs \cup {NoInput}, NEW x \in Leaves(in), NEW y \in Leaves(in)
    PROVE  x \notin Ancestors(y)
<1>1. x \in VoxelKey /\ x.level >= 1 /\ x.level \in Nat /\ y \in VoxelKey
  BY LeavesType, LevelType
<1>2. SUFFICES ASSUME x \in Ancestors(y) PROVE FALSE
  OBVIOUS
<1>3. x.level < y.level
  BY <1>1, <1>2, AncestorType
<1>4. PICK v \in in.big, d \in {Low, High} : y = Child(v, d)
  BY <1>1, <1>3, InputFacts DEF Leaves, Halves
<1>5. v \in VoxelKey /\ v.level = 1 /\ y.level = 2 /\ Parent(y) = v /\ v \notin in.direct
  BY <1>4, HalvesType, InputFacts
<1>6. Ancestors(y) = {v} \cup Ancestors(v)
  BY <1>1, <1>5, LineageStep
<1>7. x = v
  <2>1. ASSUME x \in Ancestors(v) PROVE FALSE
    BY <1>1, <1>5, <2>1, AncestorType
  <2>2. QED
    BY <1>2, <1>6, <2>1
<1>8. x \in Halves(in.big)
  BY <1>5, <1>7 DEF Leaves
<1>9. x.level = 2
  BY <1>8, HalvesType DEF Halves
<1>10. QED
  BY <1>5, <1>7, <1>9

\* The input files of the pyramid are the leaves, also when some of their ancestors
\* have files.
LEMMA LeavesAreInput ==
    ASSUME NEW in \in Inputs \cup {NoInput}, NEW D, Leaves(in) \subseteq D,
           D \subseteq Leaves(in) \cup Above(Leaves(in))
    PROVE  InputFiles(D) = Leaves(in)
<1>1. ASSUME NEW x \in Leaves(in), x \in Above(D) PROVE FALSE
  <2>1. PICK y \in D : x \in Ancestors(y)
    BY <1>1 DEF Above
  <2>2. y \notin Leaves(in)
    BY <2>1, LeavesApart
  <2>3. PICK z \in Leaves(in) : y \in Ancestors(z)
    BY <2>2 DEF Above
  <2>4. z \in VoxelKey
    BY LeavesType
  <2>5. x \in Ancestors(z)
    BY <2>1, <2>3, <2>4, AncestorsNest
  <2>6. QED
    BY <2>5, LeavesApart
<1>2. Above(Leaves(in)) \subseteq Above(D)
  BY DEF Above
<1>3. QED
  BY <1>1, <1>2 DEF InputFiles

\* The leaves' points are those of the input.
LEMMA LeavesHaveAll ==
    ASSUME NEW r \in Nat, NEW in \in Inputs \cup {NoInput}, NEW fs,
           \A v \in in.direct : fs[v] = Points(r, in, v),
           \A w \in Halves(in.big) : fs[w] = <<[run |-> r, at |-> w]>>
    PROVE  UNION {Range(fs[w]) : w \in Leaves(in)} = AllPoints(r, in)
<1> DEFINE U == UNION {Range(fs[w]) : w \in Leaves(in)}
           pt(w) == [run |-> r, at |-> w]
<1>1. \A w \in Halves(in.big) : Range(fs[w]) = {pt(w)}
  BY RangeOf
<1>2. \A v \in in.big : Range(Points(r, in, v)) = {pt(Child(v, Low)), pt(Child(v, High))}
  <2>1. \A v \in in.big : Points(r, in, v) = <<pt(Child(v, Low)), pt(Child(v, High))>>
    BY PointsType
  <2> HIDE DEF pt
  <2>2. QED
    BY <2>1, RangeOf
<1>3. \A v \in in.big : Child(v, Low) \in Halves(in.big) /\ Child(v, High) \in Halves(in.big)
  BY DEF Halves
<1> HIDE DEF pt
<1>4. ASSUME NEW p \in U PROVE p \in AllPoints(r, in)
  <2>1. PICK w \in Leaves(in) : p \in Range(fs[w])
    OBVIOUS
  <2>2. CASE w \in in.direct
    BY <2>1, <2>2 DEF AllPoints
  <2>3. CASE w \in Halves(in.big)
    <3>1. PICK v \in in.big : w = Child(v, Low) \/ w = Child(v, High)
      BY <2>3 DEF Halves
    <3>2. p \in Range(Points(r, in, v))
      BY <1>1, <1>2, <2>1, <2>3, <3>1
    <3>3. QED
      BY <3>2 DEF AllPoints
  <2>4. QED
    BY <2>2, <2>3 DEF Leaves
<1>5. ASSUME NEW p \in AllPoints(r, in) PROVE p \in U
  <2>1. PICK v \in in.direct \cup in.big : p \in Range(Points(r, in, v))
    BY DEF AllPoints
  <2>2. CASE v \in in.direct
    BY <2>1, <2>2 DEF Leaves
  <2>3. CASE v \in in.big
    <3>1. PICK w \in {Child(v, Low), Child(v, High)} : p = pt(w)
      BY <1>2, <2>1, <2>3
    <3>2. w \in Halves(in.big) /\ p \in Range(fs[w])
      BY <1>1, <1>3, <2>3, <3>1
    <3>3. QED
      BY <3>2 DEF Leaves
  <2>4. QED
    BY <2>2, <2>3
<1>6. QED
  BY <1>4, <1>5

\* Steps that leave the files and the output alone.
LEMMA ExactKept ==
    ASSUME Exact, UNCHANGED <<input, runs, swept, files, output>>,
           \/ pc' \notin Begun \cup Tiling \cup {"split", "pyramid", "clean", "done"}
           \/ pc' \in {"clean", "done"} /\ (status' # 0 \/ (pc \in {"clean", "done"} /\ status' = status))
           \/ pc \in Begun /\ pc' \in Begun
           \/ pc \in Tiling /\ pc' \in Tiling /\ left' = left
           \/ UNCHANGED <<pc, left, status>>
    PROVE  Exact'
<1>1. Leaves(input)' = Leaves(input) /\ Parts' = Parts
  BY DEF Leaves, Parts
<1>2. \A S : HasPoints(S)' = HasPoints(S) /\ HasPoint(S)' = HasPoint(S)
  BY DEF HasPoints, HasPoint
<1>3. left' = left => TiledFiles' = TiledFiles /\ SplittingFiles' = SplittingFiles
  BY <1>1 DEF TiledFiles, SplittingFiles, HasPoints, HasPoint
<1>4. PyramidFiles' = PyramidFiles
  BY <1>1 DEF PyramidFiles, HasPoints, HasPoint
<1>5. QED
  BY <1>3, <1>4 DEF Exact, Begun, Tiling

LEMMA TileIsExact ==
    ASSUME InputOK, FilesOK, PercentInv, Exact, NEW v \in left, Tile(v)
    PROVE  Exact'
<1> DEFINE s == Points(runs, input, v)
<1>1. /\ pc = "tile" /\ pc' = "update" /\ left' = left \ {v} /\ UNCHANGED <<input, runs, swept>>
      /\ files' = IF s = <<>> THEN files ELSE Extended(files, v, s)
  BY DEF Tile, counts, history
<1>2. s \in Seq(Point) /\ (s = <<>> <=> v \notin Parts) /\ Parts' = Parts
  BY <1>1, PointsType DEF InputOK, Parts
<1>3. SUFFICES ASSUME swept PROVE TiledFiles'
  BY <1>1 DEF Exact, Begun, Tiling
<1>4. DOMAIN files = Parts \ left /\ \A w \in Parts \ left : files[w] = Points(runs, input, w)
  BY <1>1, <1>3 DEF Exact, Tiling, TiledFiles, HasPoints
<1>5. CASE v \notin Parts
  <2>1. files' = files /\ Parts' \ left' = Parts \ left
    BY <1>1, <1>2, <1>5
  <2>2. QED
    BY <1>1, <1>4, <2>1 DEF TiledFiles, HasPoints
<1>6. CASE v \in Parts
  <2>1. Parts' \ left' = (Parts \ left) \cup {v} /\ v \notin DOMAIN files
    BY <1>1, <1>2, <1>4, <1>6
  <2>2. files' = Written(files, v, <<>> \o s)
    BY <1>1, <1>2, <1>6, <2>1 DEF Extended, Content
  <2> HIDE DEF s
  <2>3. <<>> \o s = s
    BY <1>2
  <2>4. DOMAIN files' = DOMAIN files \cup {v} /\ files'[v] = s /\ \A w \in DOMAIN files : files'[w] = files[w]
    BY <2>1, <2>2, <2>3 DEF Written
  <2>5. QED
    BY <1>1, <1>4, <2>1, <2>4 DEF TiledFiles, HasPoints, s
<1>7. QED
  BY <1>5, <1>6

LEMMA SplitIsExact ==
    ASSUME InputOK, FilesOK, PercentInv, Exact, NEW v \in left, Split(v)
    PROVE  Exact'
<1> DEFINE a    == files[v][1]
           b    == files[v][2]
           rest == Without(files, {v})
           lo   == Child(v, Low)
           hi   == Child(v, High)
           pt(w) == [run |-> runs, at |-> w]
<1>1. /\ pc = "split" /\ left' = left \ {v} /\ UNCHANGED <<pc, input, runs, swept>> /\ left \subseteq input.big
      /\ v \in input.big
  BY DEF Split, counts, history, FilesOK
<1>2. SUFFICES ASSUME swept PROVE SplittingFiles'
  BY <1>1 DEF Exact, Begun, Tiling
<1>3. /\ DOMAIN files = (input.direct \cup left) \cup Halves(input.big \ left)
      /\ \A w \in input.direct \cup left : files[w] = Points(runs, input, w)
      /\ \A w \in Halves(input.big \ left) : files[w] = <<pt(w)>>
  BY <1>1, <1>2 DEF Exact, SplittingFiles, HasPoints, HasPoint
<1>4. a = pt(lo) /\ b = pt(hi) /\ a.at = lo /\ b.at = hi
  BY <1>1, <1>3, PointsType DEF InputOK
<1>5. /\ v \in VoxelKey /\ v.level = 1 /\ v \notin input.direct
      /\ \A w \in input.direct \cup input.big : w.level = 1
      /\ \A w \in input.big : \A d \in {Low, High} : Child(w, d).level = 2 /\ Parent(Child(w, d)) = w
  BY <1>1, InputFacts, HalvesType DEF InputOK
<1>6. lo # hi /\ lo.level = 2 /\ hi.level = 2 /\ Parent(lo) = v /\ Parent(hi) = v
  BY <1>1, <1>5, Ends, ChildInjective
<1>7. /\ a \in Point /\ b \in Point /\ DOMAIN rest = DOMAIN files \ {v} /\ FilesType(rest)
      /\ \A w \in DOMAIN rest : rest[w] = files[w]
      /\ DOMAIN files' = DOMAIN rest \cup {a.at, b.at}
      /\ \A w \in DOMAIN files' : files'[w] = Content(rest, w) \o PointsAt(<<a, b>>, w)
  BY SplitFiles
<1> DEFINE H == Halves(input.big \ left)
<1>8. \A w \in H : Parent(w) \in input.big \ left /\ w.level = 2
  BY <1>5 DEF Halves
<1>9. Halves(input.big \ left') = H \cup {lo, hi}
  <2>1. input.big \ left' = (input.big \ left) \cup {v}
    BY <1>1
  <2>2. QED
    BY <2>1 DEF Halves
<1> HIDE DEF a, b, rest, lo, hi, H
<1>10. lo \notin DOMAIN rest /\ hi \notin DOMAIN rest
  <2>1. DOMAIN rest \subseteq (input.direct \cup left) \cup H
    BY <1>3, <1>7 DEF H
  <2>2. \A w \in input.direct \cup left : w # lo /\ w # hi
    BY <1>1, <1>5, <1>6
  <2>3. \A w \in H : w # lo /\ w # hi
    BY <1>1, <1>6, <1>8
  <2>4. QED
    BY <2>1, <2>2, <2>3
<1>11. DOMAIN rest = (input.direct \cup left') \cup H
  <2>1. DOMAIN rest = ((input.direct \cup left) \cup H) \ {v}
    BY <1>3, <1>7 DEF H
  <2>2. v \notin H
    BY <1>5, <1>8
  <2>3. QED
    BY <1>1, <1>5, <2>1, <2>2
<1>12. \A w \in DOMAIN rest : files'[w] = files[w]
  <2> SUFFICES ASSUME NEW w \in DOMAIN rest PROVE files'[w] = files[w]
    OBVIOUS
  <2>1. w # a.at /\ w # b.at
    BY <1>4, <1>10
  <2>2. PointsAt(<<a, b>>, w) = <<>>
    BY <1>7, <2>1, PointsAtPair
  <2>3. Content(rest, w) = files[w] /\ files[w] \in Seq(Point)
    BY <1>7 DEF Content, FilesType
  <2>4. files[w] \o <<>> = files[w]
    BY <2>3
  <2>5. QED
    BY <1>7, <2>2, <2>3, <2>4
<1>13. files'[lo] = <<a>> /\ files'[hi] = <<b>>
  <2>1. PointsAt(<<a, b>>, lo) = <<a>> /\ PointsAt(<<a, b>>, hi) = <<b>>
    BY <1>4, <1>6, <1>7, PointsAtPair
  <2>2. Content(rest, lo) = <<>> /\ Content(rest, hi) = <<>>
    BY <1>10 DEF Content
  <2>3. <<>> \o <<a>> = <<a>> /\ <<>> \o <<b>> = <<b>>
    OBVIOUS
  <2>4. QED
    BY <1>4, <1>7, <2>1, <2>2, <2>3
<1>14. \A w \in H \cup {lo, hi} : files'[w] = <<pt(w)>>
  BY <1>3, <1>4, <1>11, <1>12, <1>13 DEF H
<1>15. \A w \in input.direct \cup left' : files'[w] = Points(runs, input, w)
  BY <1>1, <1>3, <1>11, <1>12
<1>16. QED
  BY <1>1, <1>4, <1>7, <1>9, <1>11, <1>14, <1>15 DEF SplittingFiles, HasPoints, HasPoint

\* At the root of the pyramid the output is made of all leaves; below it new files
\* are no leaves'.
LEMMA SampleIsExact ==
    ASSUME InputOK, FilesOK, Exact, NEW v \in left, Sample(v)
    PROVE  Exact'
<1> DEFINE L == Leaves(input)
<1>1. /\ pc = "pyramid" /\ pc' \in {"pyramid", "clean"} /\ UNCHANGED <<input, runs, swept>>
      /\ input \in Inputs \cup {NoInput} /\ runs \in Nat
  BY DEF Sample, counts, history, InputOK
<1>2. SUFFICES ASSUME swept
               PROVE  /\ pc' = "pyramid" => PyramidFiles'
                      /\ pc' = "clean" => output' = AllPoints(runs, input)
  BY <1>1 DEF Exact, Begun, Tiling
<1>3. /\ L \subseteq DOMAIN files /\ DOMAIN files \subseteq L \cup Above(L)
      /\ \A w \in input.direct : files[w] = Points(runs, input, w)
      /\ \A w \in Halves(input.big) : files[w] = <<[run |-> runs, at |-> w]>>
  BY <1>1, <1>2 DEF Exact, PyramidFiles, HasPoints, HasPoint
<1>4. InputFiles(DOMAIN files) = L
  BY <1>1, <1>3, LeavesAreInput
<1>5. CASE v = Root
  <2>1. output' = UNION {Range(files[w]) : w \in L} /\ pc' = "clean"
    BY <1>4, <1>5 DEF Sample
  <2>2. UNION {Range(files[w]) : w \in L} = AllPoints(runs, input)
    BY <1>1, <1>3, LeavesHaveAll
  <2>3. QED
    BY <2>1, <2>2
<1>6. CASE v # Root
  <2>1. PICK w \in L : v \in Ancestors(w) /\ files' = Written(files, v, <<Head(files[w])>>)
    BY <1>4, <1>6 DEF Sample
  <2>2. v \in Above(L) /\ v \notin L
    BY <1>1, <2>1, LeavesApart DEF Above
  <2>3. DOMAIN files' = DOMAIN files \cup {v} /\ \A x \in L : files'[x] = files[x]
    BY <1>3, <2>1, <2>2 DEF Written
  <2>4. input.direct \subseteq L /\ Halves(input.big) \subseteq L
    BY DEF Leaves
  <2>5. pc' = "pyramid"
    BY <1>1, <1>6 DEF Sample
  <2>6. PyramidFiles'
    BY <1>1, <1>3, <2>2, <2>3, <2>4 DEF PyramidFiles, HasPoints, HasPoint
  <2>7. QED
    BY <2>5, <2>6
<1>7. QED
  BY <1>5, <1>6

LEMMA ExactStepProgram ==
    ASSUME InputOK, FilesOK, PercentInv, Exact, ProgramStep \/ Throw \/ Hang \/ Kill
    PROVE  Exact'
<1>1. CASE HandleOptions
  <2>1. /\ pc \in Begun /\ UNCHANGED <<input, runs, swept, files>>
        /\ pc' \in Begun \/ (pc' = "clean" /\ status' = -1)
    BY <1>1 DEF HandleOptions, history, Begun
  <2>2. QED
    BY <2>1 DEF Exact, Begun, Tiling
<1>2. CASE CreateDirs \/ Throw \/ Hang \/ Kill
  <2>1. /\ UNCHANGED <<input, runs, swept, files, output>>
        /\ \/ pc \in Begun /\ pc' \in Begun
           \/ pc' = "clean" /\ status' = -1
           \/ pc' \in {"hung", "killed"}
    BY <1>2, NothingDeleted DEF CreateDirs, Throw, Hang, Kill, Die, temp, counts, history, Begun
  <2>2. QED
    BY <2>1, ExactKept DEF Begun, Tiling
<1>3. CASE Prepare
  <2>1. /\ pc = "prep" /\ pc' = "tile" /\ UNCHANGED <<input, runs, swept, files>>
        /\ left' = IF NumPoints(input) = 0 THEN {Root} ELSE Parts
    BY <1>3 DEF Prepare, Parts, temp, counts, history
  <2>2. Parts' = Parts /\ Parts \ left' = {}
    BY <2>1, NumPointsType DEF Parts
  <2>3. swept => DOMAIN files = {}
    BY <2>1 DEF Exact, Begun
  <2>4. swept => TiledFiles'
    BY <2>1, <2>2, <2>3 DEF TiledFiles, HasPoints
  <2>5. QED
    BY <2>1, <2>4 DEF Exact, Begun, Tiling
<1>4. CASE Click \/ Updated
  <2>1. UNCHANGED <<input, runs, swept, files, output, left>> /\ pc \in Tiling /\ pc' \in Tiling
    BY <1>4 DEF Click, Updated, temp, counts, history, Tiling
  <2>2. QED
    BY <2>1, ExactKept
<1>5. CASE Tiled
  <2>1. /\ pc = "tile" /\ left = {} /\ pc' = "split" /\ left' = input.big
        /\ UNCHANGED <<input, runs, swept, files>>
    BY <1>5 DEF Tiled, temp, counts, history
  <2>2. swept => TiledFiles
    BY <2>1 DEF Exact, Tiling
  <2>3. Parts \ left = input.direct \cup input.big /\ Halves({}) = {} /\ input.big \ left' = {}
    BY <2>1 DEF Parts, Halves
  <2>4. swept => SplittingFiles'
    BY <2>1, <2>2, <2>3 DEF TiledFiles, SplittingFiles, HasPoints, HasPoint
  <2>5. QED
    BY <2>1, <2>4 DEF Exact, Begun, Tiling
<1>6. CASE StartPyramid
  <2>1. pc = "split" /\ left = {} /\ UNCHANGED <<input, runs, swept, files>>
    BY <1>6 DEF StartPyramid, temp, history
  <2>2. CASE pc' = "clean" /\ status' = -1
    BY <2>1, <2>2 DEF Exact, Begun, Tiling
  <2>3. CASE pc' = "pyramid"
    <3>1. swept => SplittingFiles
      BY <2>1 DEF Exact
    <3>2. input.direct \cup left = input.direct /\ input.big \ left = input.big
      BY <2>1
    <3>3. swept => PyramidFiles'
      BY <2>1, <3>1, <3>2 DEF SplittingFiles, PyramidFiles, HasPoints, HasPoint, Leaves
    <3>4. QED
      BY <2>1, <2>3, <3>3 DEF Exact, Begun, Tiling
  <2>4. QED
    BY <1>6, <2>2, <2>3 DEF StartPyramid
<1>7. CASE Cleanup
  <2>1. /\ pc = "clean" /\ pc' = "done" /\ UNCHANGED <<input, runs, swept, output, status>>
    BY <1>7 DEF Cleanup, counts, history
  <2>2. QED
    BY <2>1 DEF Exact, Begun, Tiling
<1>8. QED
  BY <1>1, <1>2, <1>3, <1>4, <1>5, <1>6, <1>7, TileIsExact, SplitIsExact, SampleIsExact DEF ProgramStep

LEMMA ExactInit == SInit => Exact
<1> SUFFICES ASSUME SInit PROVE Exact
  OBVIOUS
<1>1. pc = "none"
  BY DEF SInit, Init
<1>2. QED
  BY <1>1 DEF Exact, Begun, Tiling

LEMMA ExactStep == InputOK /\ FilesOK /\ PercentInv /\ Exact /\ [Next]_vars => Exact'
<1> SUFFICES ASSUME InputOK, FilesOK, PercentInv, Exact, [Next]_vars PROVE Exact'
  OBVIOUS
<1>1. CASE Outside \/ UNCHANGED vars
  <2>1. /\ UNCHANGED <<input, runs, swept, files, output, left, status>>
        /\ UNCHANGED pc \/ pc' = "killed"
    BY <1>1, OutsideSteps DEF vars, progVars, temp, counts, history
  <2>2. QED
    BY <2>1, ExactKept DEF Begun, Tiling
<1>2. ASSUME NEW in \in Inputs, Start(in) PROVE Exact'
  <2>1. CASE Begin(in)
    <3>1. pc' = "options" /\ UNCHANGED files /\ (swept' => files = <<>>)
      BY <2>1 DEF Begin
    <3>2. swept' => DOMAIN files' = {}
      BY <3>1
    <3>3. QED
      BY <3>1, <3>2 DEF Exact, Begun, Tiling
  <2>2. CASE ~Begin(in)
    <3>1. pc' = "killed"
      BY <1>2, <2>2 DEF Start
    <3>2. QED
      BY <3>1 DEF Exact, Begun, Tiling
  <2>3. QED
    BY <2>1, <2>2
<1>3. CASE ProgramStep \/ Throw \/ Hang \/ Kill
  BY <1>3, ExactStepProgram
<1>4. QED
  BY <1>1, <1>2, <1>3 DEF Next, Outside

\* A run that says it succeeded, and found no temporary file at its beginning, has
\* written every point of its input and no other, whatever runs were before it and
\* however those ended (main(), the phases, createDirs() and cleanup()).
THEOREM OutputIsExact == Spec => []ExactUnlessLeftover
<1> DEFINE Inv == InputOK /\ FilesOK /\ PercentInv /\ Exact
<1>1. SInit => Inv
  BY InputInit, PercentInit, ExactInit
<1>2. Inv /\ [Next]_vars => Inv'
  BY InputStep, FilesStep, PercentInvStep, ExactStep
<1>3. Inv => ExactUnlessLeftover
  BY DEF Exact, ExactUnlessLeftover, SuccessIsExact
<1> HIDE DEF Inv
<1>4. QED
  BY <1>1, <1>2, <1>3, PTL DEF Spec

=============================================================================
