--------------------------- MODULE Reprocess_proof ---------------------------
(***************************************************************************)
(* Proofs about Reprocess, the second pass of Epf::run, for any tree of    *)
(* voxels, sizes, numbers of threads and buffers, and failures: a voxel's  *)
(* file goes only when all its points were handed on, and only a voxel     *)
(* with exactly MaxPointsPerNode points can lose some.                     *)
(***************************************************************************)
EXTENDS Reprocess, Tiling_proof, Voxel_proof

-----------------------------------------------------------------------------
(* How far down a voxel's points go.                                       *)

LEMMA CapacityStep ==
    /\ Capacity[0] = MaxPointsPerNode
    /\ \A l \in Nat : Capacity[l] \in Nat /\ Capacity[l + 1] = 4 * Capacity[l]
<1> DEFINE step == [n \in Nat |-> [c \in Nat |-> 4 * c]]
           N == Nat
<1>1. step \in [Nat -> [N -> N]] /\ MaxPointsPerNode \in N
  BY ReprocessAssumption
<1> HIDE DEF step, N
<1>2. PICK f \in [Nat -> N] :
        f = [n \in Nat |-> IF n = 0 THEN MaxPointsPerNode ELSE step[n][f[n - 1]]]
  BY <1>1, RecursionOnNat
<1>3. \A n \in Nat : n # 0 => f[n - 1] \in Nat
  BY <1>2 DEF N
<1>4. \A n \in Nat : n # 0 => step[n][f[n - 1]] = 4 * f[n - 1]
  BY <1>3 DEF step
<1>5. f = [n \in Nat |-> IF n = 0 THEN MaxPointsPerNode ELSE 4 * f[n - 1]]
  BY <1>2, <1>4
<1> DEFINE IsCapacity(g) == g = [n \in Nat |-> IF n = 0 THEN MaxPointsPerNode ELSE 4 * g[n - 1]]
<1>6. Capacity = CHOOSE g : IsCapacity(g)
  BY DEF Capacity
<1>7. IsCapacity(f)
  BY <1>5
<1> HIDE DEF IsCapacity
<1>8. IsCapacity(Capacity)
  BY <1>6, <1>7, Zenon
<1>9. Capacity = [n \in Nat |-> IF n = 0 THEN MaxPointsPerNode ELSE 4 * Capacity[n - 1]]
  BY <1>8 DEF IsCapacity
<1> DEFINE G == {n \in Nat : Capacity[n] \in Nat}
<1>10. Capacity[0] = MaxPointsPerNode /\ \A n \in Nat : Capacity[n + 1] = 4 * Capacity[n]
  BY <1>9
<1>11. 0 \in G
  BY <1>1, <1>10 DEF N
<1>12. ASSUME NEW n \in Nat, n \in G
       PROVE  n + 1 \in G
  <2>1. Capacity[n + 1] = 4 * Capacity[n] /\ Capacity[n] \in Nat
    BY <1>10, <1>12
  <2>2. QED
    BY <2>1
<1> HIDE DEF G
<1>13. \A n \in Nat : n \in G
  BY <1>11, <1>12, InductionOnNat
<1>14. QED
  BY <1>10, <1>13 DEF G

\* n levels further down there is room for n points.
LEMMA CapacityGrows == \A n \in Nat : n <= Capacity[n]
<1> DEFINE G == {n \in Nat : n + 1 <= Capacity[n]}
<1>1. 0 \in G
  BY CapacityStep, ReprocessAssumption
<1>2. ASSUME NEW n \in Nat, n \in G
      PROVE  n + 1 \in G
  <2>1. Capacity[n + 1] = 4 * Capacity[n] /\ Capacity[n] \in Nat /\ n + 1 <= Capacity[n]
    BY <1>2, CapacityStep
  <2>2. QED
    BY <2>1
<1> HIDE DEF G
<1>3. \A n \in Nat : n \in G
  BY <1>1, <1>2, InductionOnNat
<1>4. QED
  BY <1>3, CapacityStep DEF G

\* The code's loop over the levels ends, and takes none for MaxPointsPerNode points.
LEMMA LevelsType ==
    ASSUME NEW n \in Nat
    PROVE  Levels(n) \in Nat /\ (Levels(n) = 0 => n <= MaxPointsPerNode)
<1> DEFINE S == {l \in 0..n : n <= Capacity[l]}
           Fits(l) == n <= Capacity[l] /\ \A m \in 0..(l - 1) : n > Capacity[m]
<1>1. n \in S /\ S \subseteq Nat
  BY CapacityGrows
<1>2. PICK l \in S : \A m \in S : l <= m
  <2> HIDE DEF S
  <2>1. QED
    BY <1>1, LeastNatural
<1>3. ASSUME NEW m \in 0..(l - 1)
      PROVE  n > Capacity[m]
  <2>1. m \in 0..n /\ m \notin S
    BY <1>2
  <2>2. Capacity[m] \in Nat
    BY CapacityStep
  <2>3. QED
    BY <2>1, <2>2
<1>4. \E i \in 0..n : Fits(i)
  BY <1>2, <1>3
<1>5. Levels(n) = CHOOSE i \in 0..n : Fits(i)
  BY DEF Levels
<1> HIDE DEF Fits
<1>6. Levels(n) \in 0..n /\ Fits(Levels(n))
  BY <1>4, <1>5, Zenon
<1>7. QED
  BY <1>6, CapacityStep DEF Fits

-----------------------------------------------------------------------------
(* The voxels that a voxel's points are tiled into.                        *)

LEMMA TiledType ==
    ASSUME NEW n \in Tiled
    PROVE  /\ n \in [DOMAIN n -> Nat \ {0}] /\ DOMAIN n \subseteq Keys /\ Keys \subseteq VoxelKey
           /\ Selected(n) \subseteq DOMAIN n
           /\ \A k \in Selected(n) : n[k] \in Nat /\ n[k] # 0 /\ n[k] >= MaxPointsPerNode
           /\ \A j, k \in DOMAIN n : j.level = k.level /\ k.level \in Nat
           /\ IsFiniteSet(Keys)
BY ReprocessAssumption, ThreadAssumption DEF Selected, VoxelKey

LEMMA TargetsType ==
    ASSUME NEW k, NEW m
    PROVE  Targets(k, m) \subseteq Keys
BY DEF Targets

\* Two voxels that are reprocessed have no voxel below them in common.
LEMMA TargetsApart ==
    ASSUME NEW n \in Tiled, NEW j \in Selected(n), NEW k \in Selected(n),
           NEW i \in Targets(j, n[j]), i \in Targets(k, n[k])
    PROVE  j = k
<1>1. j.level = k.level /\ k.level \in Nat /\ n[j] \in Nat /\ n[k] \in Nat
  BY TiledType
<1>2. Levels(n[j]) \in Nat /\ Levels(n[k]) \in Nat
  BY <1>1, LevelsType
<1>3. i.level = j.level + Levels(n[j]) /\ i.level = k.level + Levels(n[k])
  BY DEF Targets
<1>4. Levels(n[j]) = Levels(n[k])
  BY <1>1, <1>2, <1>3
<1>5. QED
  BY <1>4 DEF Targets

\* Points are tiled into a voxel that is itself reprocessed only from that
\* voxel, when it has exactly MaxPointsPerNode points.
LEMMA TargetSelected ==
    ASSUME NEW n \in Tiled, NEW k \in Selected(n), NEW i \in Targets(k, n[k]), i \in Selected(n)
    PROVE  i = k /\ n[k] = MaxPointsPerNode
<1>1. /\ i.level = k.level /\ k.level \in Nat /\ n[k] \in Nat /\ n[k] >= MaxPointsPerNode
      /\ i \in VoxelKey
  BY TiledType
<1>2. Levels(n[k]) \in Nat /\ i.level = k.level + Levels(n[k]) /\ Up(i)[Levels(n[k])] = k
  BY <1>1, LevelsType DEF Targets
<1>3. Levels(n[k]) = 0
  BY <1>1, <1>2
<1>4. Up(i)[0] = i
  BY <1>1, UpType
<1>5. n[k] <= MaxPointsPerNode /\ MaxPointsPerNode \in Nat
  BY <1>1, <1>3, LevelsType, ReprocessAssumption
<1>6. QED
  BY <1>1, <1>2, <1>3, <1>4, <1>5

\* How many points were read into a set of voxels, as a sum.
LEMMA ReadIntoTotal ==
    ASSUME StateOK, NEW S, S \subseteq Keys
    PROVE  /\ ReadInto(S) = Total([j \in S |-> read[j]])
           /\ [j \in S |-> read[j]] \in [S -> Nat] /\ IsFiniteSet(S) /\ ReadInto(S) \in Nat
<1> DEFINE f == [j \in S |-> read[j]]
<1>1. f \in [S -> Nat] /\ IsFiniteSet(S)
  BY ThreadAssumption, FS_Subset DEF StateOK
<1>2. Pile(f) = UNION {{j} \X (1..read[j]) : j \in S}
  BY DEF Pile, Tokens
<1>3. ReadInto(S) = Total(f)
  BY <1>2 DEF ReadInto, Total
<1> HIDE DEF f
<1>4. Total(f) \in Nat
  BY <1>1, TotalType
<1>5. QED
  BY <1>1, <1>3, <1>4 DEF f

LEMMA ReadIntoGrows ==
    ASSUME StateOK, StateOK', NEW S, S \subseteq Keys, NEW i \in Keys,
           read' = [read EXCEPT ![i] = @ + 1]
    PROVE  ReadInto(S)' = ReadInto(S) + (IF i \in S THEN 1 ELSE 0)
<1> DEFINE f == [j \in S |-> read[j]]
           g == [j \in S |-> read'[j]]
<1>1. f \in [S -> Nat] /\ IsFiniteSet(S) /\ ReadInto(S) = Total(f) /\ ReadInto(S) \in Nat
  BY ReadIntoTotal
<1>2. read \in [Keys -> Nat] /\ g \in [S -> Nat]
  BY DEF StateOK
<1>3. Pile(g) = UNION {{j} \X (1..read'[j]) : j \in S}
  BY DEF Pile, Tokens
<1>4. ReadInto(S)' = Total(g)
  BY <1>3 DEF ReadInto, Total
<1>5. \A j \in S : g[j] = f[j] + (IF j = i THEN 1 ELSE 0)
  BY <1>2
<1> HIDE DEF f, g
<1>6. CASE i \in S
  <2>1. Total(g) = (Total(f) - f[i]) + g[i] /\ f[i] \in Nat
    BY <1>1, <1>2, <1>5, <1>6, TotalChanged
  <2>2. QED
    BY <1>1, <1>4, <1>5, <1>6, <2>1
<1>7. CASE i \notin S
  <2>1. \A j \in S : g[j] = f[j]
    BY <1>1, <1>5, <1>7
  <2>2. g = f
    BY <1>1, <1>2, <2>1
  <2>3. QED
    BY <1>1, <1>4, <1>7, <2>2
<1>8. QED
  BY <1>6, <1>7

-----------------------------------------------------------------------------
(* The inductive invariant.                                                *)

Spread(k) == ReadInto(Targets(k, sizes[k]))

\* What Epf::run has seen end by each point of its run, and when it sets m_stop.
RePhase ==
    /\ main \in {"join", "stop", "drain", "tiled", "failed", "unwind", "exited", "crashed"}
    /\ stop /\ werrors = 0 => main \in {"drain", "tiled", "failed"}
    /\ main \notin {"join", "exited"} => waiting = {} /\ \A p \in Procs : pc[p] = "idle"
    /\ main \in {"stop", "drain", "tiled"} => perrors = 0
    /\ main = "tiled" => werrors = 0 /\ \A w \in Writers : wpc[w] = "exited"

\* Each voxel that is reprocessed has one Reprocessor, and its points are those
\* read so far and those left.
SourcesOK ==
    /\ sizes \in Tiled /\ waiting \subseteq Selected(sizes)
    /\ source \in [Procs -> Keys \cup {Scratch}] /\ left \in [Procs -> Nat]
    /\ \A p \in Procs : pc[p] # "idle" =>
        /\ source[p] \in Selected(sizes) \ waiting
        /\ Spread(source[p]) + left[p] = sizes[source[p]]
    /\ \A p, q \in Procs : pc[p] # "idle" /\ pc[q] # "idle" /\ source[p] = source[q] => p = q
    /\ \A k \in waiting : Spread(k) = 0
    /\ SourceOutlivesReading

\* Someone will still read the file of k, or an error keeps it.
FileNeeded(k) ==
    \/ k \in waiting \/ perrors > 0
    \/ \E p \in Procs : source[p] = k /\ pc[p] # "idle" /\ (pc[p] = "unwind" => threw[p])

\* The way of the points of voxel k in the second pass.
Kept(k) ==
    /\ ProcFlow(k) /\ InQueue(k) + InWriters(k) <= totals[k]
    /\ k \notin Selected(sizes) => WriterFlow(k, Points(sizes, k))
    /\ k \in Selected(sizes) /\ sizes[k] # MaxPointsPerNode =>
        /\ read[k] = 0
        /\ file[k] # 0 => FileNeeded(k)

ReInv == Local /\ Counting /\ Writing /\ RePhase /\ SourcesOK /\ \A k \in Keys : Kept(k)

LEMMA PointsType ==
    ASSUME NEW n \in Tiled, NEW k
    PROVE  Points(n, k) \in Nat
BY TiledType DEF Points

LEMMA ReInvInit == ReInit => ReInv
<1> SUFFICES ASSUME ReInit
             PROVE  ReInv
  OBVIOUS
<1>1. /\ Fresh /\ sizes \in Tiled /\ waiting = Selected(sizes)
      /\ \A k \in Keys : file[k] = Points(sizes, k)
  BY PointsType, ConstantFacts DEF ReInit, Fresh
<1>2. Local /\ Counting /\ Writing
  BY <1>1, LocalInit, CountingInit, WritingInit
<1>3. RePhase
  BY <1>1 DEF RePhase, Fresh
<1>4. ASSUME NEW k
      PROVE  Spread(k) = 0
  <2>1. PICK S : S = Targets(k, sizes[k])
    OBVIOUS
  <2>2. S \subseteq Keys /\ StateOK /\ \A j \in S : read[j] = 0
    BY <1>1, <1>2, <2>1, TargetsType DEF Local, Fresh
  <2> DEFINE f == [j \in S |-> read[j]]
  <2>3. ReadInto(S) = Total(f) /\ f \in [S -> Nat] /\ \A j \in S : f[j] = 0
    BY <2>2, ReadIntoTotal
  <2> HIDE DEF f
  <2>4. Total(f) = 0
    BY <2>3, TotalZero
  <2>5. QED
    BY <2>1, <2>3, <2>4 DEF Spread
<1>5. \A k \in Selected(sizes) : file[k] # 0
  BY <1>1, TiledType DEF Points
<1>6. SourcesOK
  <2>1. source \in [Procs -> Keys \cup {Scratch}] /\ left \in [Procs -> Nat]
    BY DEF ReInit
  <2>2. \A p \in Procs : pc[p] = "idle"
    BY <1>1 DEF Fresh
  <2>3. SourceOutlivesReading
    BY <1>5 DEF SourceOutlivesReading
  <2>4. QED
    BY <1>1, <1>4, <2>1, <2>2, <2>3 DEF SourcesOK
<1>7. ASSUME NEW k \in Keys
      PROVE  Kept(k)
  <2>1. ProcFlow(k) /\ InQueue(k) = 0 /\ InWriters(k) = 0 /\ totals[k] = 0 /\ read[k] = 0
    BY <1>1, FreshFlow
  <2>2. file[k] = Points(sizes, k) /\ Points(sizes, k) \in Nat
    BY <1>1, PointsType
  <2>3. WriterFlow(k, Points(sizes, k))
    BY <2>1, <2>2 DEF WriterFlow
  <2>4. k \in Selected(sizes) => FileNeeded(k)
    BY <1>1 DEF FileNeeded
  <2>5. QED
    BY <2>1, <2>3, <2>4 DEF Kept
<1>8. QED
  BY <1>2, <1>3, <1>6, <1>7 DEF ReInv

-----------------------------------------------------------------------------
(* What the threads do to one another.                                     *)

LEMMA CellWorkMoves ==
    ASSUME Local, NEW p \in Procs, CellWork(p)
    PROVE  /\ pc[p] # "idle"
           /\ \A q \in Procs \ {p} : /\ pc'[q] = pc[q] \/ (pc[q] = "asleep" /\ pc'[q] = "woken")
                                     /\ threw'[q] = threw[q]
           /\ \/ pc'[p] \notin {"idle", "unwind"} /\ perrors' = perrors
              \/ /\ pc'[p] = "unwind" /\ perrors' = perrors
                 /\ threw'[p] \/ (pc[p] = "unwind" /\ threw'[p] = threw[p])
              \/ /\ pc[p] = "unwind" /\ pc'[p] = "idle"
                 /\ perrors' = perrors + (IF threw[p] THEN 1 ELSE 0)
<1>1. /\ pc \in [Procs -> PcType] /\ threw \in [Procs -> BOOLEAN] /\ StateOK
      /\ pc[p] # "idle"
  BY CellWorkKinds DEF Local, StateOK, PcType
<1>2. CASE Advance(p)
  BY <1>1, <1>2 DEF Advance
<1>3. CASE FetchBuffer(p) \/ Wake(p)
  BY <1>1, <1>3 DEF FetchBuffer, Wake, Acquire, Sleep
<1>4. CASE FetchBlocking(p)
  BY <1>1, <1>4 DEF FetchBlocking, Acquire, Sleep
<1>5. ASSUME NEW k \in CellKeys, FlushCell(p, k) \/ DestroyCell(p, k)
      PROVE  /\ pc[p] \in {"flush", "unwind"} /\ UNCHANGED <<threw, perrors>>
             /\ \A q \in Procs : pc'[q] = pc[q] \/ (pc[q] = "asleep" /\ pc'[q] = "woken")
  BY <1>1, <1>5, ReplaceTypes DEF FlushCell, DestroyCell, Release
<1>6. CASE EndTask(p)
  BY <1>1, <1>6 DEF EndTask
<1>7. QED
  BY <1>1, <1>2, <1>3, <1>4, <1>5, <1>6 DEF CellWork

LEMMA WriterStepMoves ==
    ASSUME Local, NEW w \in Writers, WriterStep(w)
    PROVE  /\ UNCHANGED <<threw, perrors, main, read, totals, cells, cell, want>>
           /\ wpc[w] \in {"scan", "write"}
           /\ \A q \in Procs : pc'[q] = pc[q] \/ (pc[q] = "asleep" /\ pc'[q] = "woken")
           /\ \/ stop' = stop /\ werrors' = werrors
              \/ stop' = TRUE /\ werrors' = werrors + 1
<1>1. /\ UNCHANGED <<threw, perrors, main, read, totals, cells, cell, want>>
      /\ wpc[w] \in {"scan", "write"} /\ (pc' = pc \/ Replace)
  BY DEF WriterStep, TakeEntry, NoEntry, WriteDone, WriteFails, procVars
<1>2. \/ stop' = stop /\ werrors' = werrors
      \/ stop' = TRUE /\ werrors' = werrors + 1
  <2>1. CASE WriteFails(w)
    BY <2>1 DEF WriteFails
  <2>2. CASE ~WriteFails(w)
    <3>1. stop' = stop /\ werrors' = werrors
      BY <2>2 DEF WriterStep, TakeEntry, NoEntry, WriteDone
    <3>2. QED
      BY <3>1
  <2>3. QED
    BY <2>1, <2>2
<1>3. QED
  BY <1>1, <1>2, ReplaceTypes DEF Local

\* What Epf::run does to the threads' variables.
LEMMA ReMainMoves ==
    ASSUME ReMainStep \/ UNCHANGED allVars
    PROVE  /\ UNCHANGED <<procVars, cached, made, queue, active, totals, writing, werrors, perrors,
                          file, passVars>>
           /\ wpc' = wpc \/ wpc' = [w \in Writers |-> IF wpc[w] = "asleep" THEN "scan" ELSE wpc[w]]
           /\ stop' = stop \/ stop' = TRUE
BY DEF ReMainStep, JoinReprocessors, DestroyWriter, StopWriter, JoinWriters, allVars, vars,
       procVars, writerVars, passVars

\* What the steps of a Reprocessor that are not Tiling's leave alone.
LEMMA OwnStepMoves ==
    ASSUME Local, NEW p \in Procs,
           StartReprocessor(p) \/ (\E k \in Keys : ReadMapped(p, k)) \/ DeleteSource(p)
    PROVE  /\ UNCHANGED <<cells, threw, cached, made, queue, totals, stop, perrors, main, active,
                          wpc, writing, werrors, sizes, files>>
           /\ \E v \in {"read", "copy", "fetch", "unwind"} : pc' = [pc EXCEPT ![p] = v]
           /\ pc[p] \in {"idle", "read"} /\ (pc[p] = "idle" => waiting # {})
           /\ \A q \in Procs \ {p} : /\ pc'[q] = pc[q] /\ cell'[q] = cell[q]
                                     /\ want'[q] = want[q]
<1>1. cell \in [Procs -> CellKeys] /\ want \in [Procs -> CellKeys] /\ pc \in [Procs -> PcType]
  BY DEF Local, StateOK, PcType
<1>2. QED
  BY <1>1 DEF StartReprocessor, ReadMapped, DeleteSource, writerVars, passVars

-----------------------------------------------------------------------------
(* The threads, the buffers and the writer: as in the first pass.          *)

LEMMA OwnStepLocal ==
    ASSUME Local, NEW p \in Procs,
           StartReprocessor(p) \/ (\E k \in Keys : ReadMapped(p, k)) \/ DeleteSource(p)
    PROVE  Local'
<1> USE ConstantFacts DEF Local, CellsOK
<1>1. /\ \A q \in Procs \ {p} : ProcOK(q)'
      /\ pc' \in [Procs -> {"idle", "read", "copy", "unwind"} \cup Fetching]
  <2>1. /\ cells' = cells
        /\ \A q \in Procs \ {p} : pc'[q] = pc[q] /\ cell'[q] = cell[q] /\ want'[q] = want[q]
    BY OwnStepMoves
  <2>2. \A q \in Procs \ {p} : ProcOK(q)'
    BY <2>1, ProcUnchanged
  <2>3. pc \in [Procs -> {"idle", "read", "copy", "unwind"} \cup Fetching]
    BY DEF StateOK
  <2>4. PICK v \in {"read", "copy", "fetch", "unwind"} : pc' = [pc EXCEPT ![p] = v]
    BY OwnStepMoves
  <2>5. QED
    BY <2>2, <2>3, <2>4 DEF Fetching
<1>2. CASE StartReprocessor(p) \/ DeleteSource(p)
  <2>1. UNCHANGED <<cell, want, threw, cells, files, unread, read, cached, made, queue, totals, stop,
                    perrors, active, wpc, writing, werrors>>
    BY <1>2 DEF StartReprocessor, DeleteSource, writerVars
  <2>2. file' \in [Keys -> Nat]
    <3>1. file' = file \/ file' = [file EXCEPT ![source[p]] = 0]
      BY <1>2 DEF StartReprocessor, DeleteSource, writerVars
    <3>2. file \in [Keys -> Nat]
      BY DEF StateOK
    <3>3. QED
      BY <3>1, <3>2
  <2>3. StateOK'
    BY <1>1, <2>1, <2>2 DEF StateOK
  <2>4. pc'[p] \in {"read", "unwind"}
    <3>1. pc' = [pc EXCEPT ![p] = "read"] \/ pc' = [pc EXCEPT ![p] = "unwind"]
      BY <1>2 DEF StartReprocessor, DeleteSource
    <3>2. QED
      BY <3>1 DEF StateOK
  <2>5. ProcOK(p)'
    BY <2>1, <2>4 DEF ProcOK, Fetching
  <2>6. QED
    BY <1>1, <2>3, <2>5
<1>3. ASSUME NEW k \in Keys, ReadMapped(p, k)
      PROVE  Local'
  <2>1. /\ UNCHANGED <<threw, cells, files, unread, cached, made, queue, totals, stop,
                       perrors, active, wpc, writing, werrors, file>>
        /\ want' = [want EXCEPT ![p] = k] /\ cell' = [cell EXCEPT ![p] = Scratch]
        /\ read' = [read EXCEPT ![k] = @ + 1]
        /\ pc' = [pc EXCEPT ![p] = IF k \in HeldBy(p) THEN "copy" ELSE "fetch"]
    BY <1>3 DEF ReadMapped, writerVars
  <2>2. StateOK'
    <3>1. want' \in [Procs -> CellKeys] /\ cell' \in [Procs -> CellKeys] /\ read' \in [Keys -> Nat]
      <4>1. want \in [Procs -> CellKeys] /\ cell \in [Procs -> CellKeys] /\ read \in [Keys -> Nat]
        BY DEF StateOK
      <4>2. read[k] \in Nat
        BY <4>1
      <4>3. read' \in [Keys -> Nat]
        BY <2>1, <4>1, <4>2
      <4>4. k \in CellKeys /\ Scratch \in CellKeys
        OBVIOUS
      <4>5. QED
        BY <2>1, <4>1, <4>3, <4>4
    <3>2. QED
      BY <1>1, <2>1, <3>1 DEF StateOK
  <2>3. /\ want'[p] = k /\ HeldBy(p)' = HeldBy(p)
        /\ pc'[p] = IF k \in HeldBy(p) THEN "copy" ELSE "fetch"
    BY <2>1 DEF StateOK, HeldBy
  <2>4. ProcOK(p)'
    BY <2>1, <2>3 DEF ProcOK, Fetching
  <2>5. QED
    BY <1>1, <2>2, <2>4
<1>4. QED
  BY <1>2, <1>3

LEMMA ReLocalStep == Local /\ [ReNext]_allVars => Local'
<1> SUFFICES ASSUME Local, [ReNext]_allVars
             PROVE  Local'
  OBVIOUS
<1>1. ASSUME NEW p \in Procs, CellWork(p)
      PROVE  Local'
  BY <1>1, LocalCellWork
<1>2. ASSUME NEW w \in Writers, WriterStep(w)
      PROVE  Local'
  BY <1>2, LocalWriterStep
<1>3. ASSUME NEW p \in Procs, ExitProcess(p)
      PROVE  Local'
  BY <1>3, LocalUnchanged DEF ExitProcess, procVars, writerVars, Local, StateOK
<1>4. CASE ReMainStep \/ UNCHANGED allVars
  BY <1>4, ReMainMoves, LocalUnchanged DEF Local, StateOK
<1>5. QED
  BY <1>1, <1>2, <1>3, <1>4, OwnStepLocal DEF ReNext, ReprocessorStep, CellStep, ReWriterStep

LEMMA ReCountingStep == Local /\ Counting /\ [ReNext]_allVars => Counting'
<1> SUFFICES ASSUME Local, Counting, [ReNext]_allVars
             PROVE  Counting'
  OBVIOUS
<1>1. ASSUME NEW p \in Procs,
             StartReprocessor(p) \/ (\E k \in Keys : ReadMapped(p, k)) \/ DeleteSource(p)
      PROVE  Counting'
  BY <1>1, OwnStepMoves, QuietCounting
<1>2. ASSUME NEW p \in Procs, CellWork(p)
      PROVE  Counting'
  BY <1>2, CountingCellWork
<1>3. ASSUME NEW w \in Writers, WriterStep(w)
      PROVE  Counting'
  BY <1>3, CountingWriterStep
<1>4. ASSUME NEW p \in Procs, ExitProcess(p)
      PROVE  Counting'
  BY <1>4, CountingUnchanged DEF ExitProcess, procVars, writerVars
<1>5. CASE ReMainStep \/ UNCHANGED allVars
  BY <1>5, ReMainMoves, CountingUnchanged DEF procVars
<1>6. QED
  BY <1>1, <1>2, <1>3, <1>4, <1>5 DEF ReNext, ReprocessorStep, CellStep, ReWriterStep

\* A Reprocessor only runs before the writer is told to stop.
LEMMA RunningEarly ==
    ASSUME RePhase, Local, ~Over, NEW p \in Procs, pc[p] # "idle" \/ waiting # {}
    PROVE  main = "join" /\ (stop => werrors > 0)
BY DEF RePhase, Over, Local, StateOK

LEMMA ReWritingStep ==
    ASSUME Local, Local', Writing, RePhase, [ReNext]_allVars
    PROVE  Writing'
<1>1. ASSUME NEW p \in Procs, ~Over,
             \/ StartReprocessor(p) \/ (\E k \in Keys : ReadMapped(p, k)) \/ DeleteSource(p)
             \/ CellWork(p)
      PROVE  Writing'
  <2>1. /\ UNCHANGED <<stop, werrors, active, writing>> /\ Queued
        /\ pc[p] # "idle" \/ waiting # {}
    BY <1>1, OwnStepMoves, CellWorkKinds DEF Queued
  <2>2. QED
    BY <1>1, <2>1, RunningEarly, WritingQueued
<1>2. ASSUME NEW w \in Writers, WriterStep(w)
      PROVE  Writing'
  BY <1>2, WritingWriterStep
<1>3. ASSUME NEW p \in Procs, ExitProcess(p)
      PROVE  Writing'
  BY <1>3, WritingWoken DEF ExitProcess, writerVars
<1>4. CASE ReMainStep \/ UNCHANGED allVars
  <2>1. \A w \in Writers : wpc'[w] = wpc[w] \/ (wpc[w] = "asleep" /\ wpc'[w] = "scan")
    BY <1>4, ReMainMoves
  <2>2. QED
    BY <1>4, <2>1, ReMainMoves, WritingWoken
<1>5. QED
  BY <1>1, <1>2, <1>3, <1>4 DEF ReNext, ReprocessorStep, CellStep, ReWriterStep

LEMMA RePhaseStep ==
    ASSUME Local, Local', RePhase, [ReNext]_allVars
    PROVE  RePhase'
<1>1. ASSUME NEW p \in Procs, ~Over,
             \/ StartReprocessor(p) \/ (\E k \in Keys : ReadMapped(p, k)) \/ DeleteSource(p)
             \/ CellWork(p)
      PROVE  RePhase'
  <2>1. UNCHANGED <<stop, werrors, main>> /\ (pc[p] # "idle" \/ waiting # {})
    BY <1>1, OwnStepMoves, CellWorkKinds
  <2>2. main = "join"
    BY <1>1, <2>1, RunningEarly
  <2>3. QED
    BY <2>1, <2>2 DEF RePhase
<1>2. ASSUME NEW w \in Writers, ~Over, WriterStep(w), UNCHANGED passVars
      PROVE  RePhase'
  <2>1. /\ UNCHANGED <<main, perrors, waiting>>
        /\ \A q \in Procs : pc[q] = "idle" => pc'[q] = "idle"
    BY <1>2, WriterStepMoves DEF passVars
  <2>2. stop' /\ werrors' = 0 => stop /\ werrors = 0
    <3>1. CASE stop' = stop /\ werrors' = werrors
      BY <3>1
    <3>2. CASE werrors' = werrors + 1
      BY <3>2 DEF Local, StateOK
    <3>3. QED
      BY <1>2, <3>1, <3>2, WriterStepMoves
  <2>3. main # "tiled"
    BY <1>2 DEF Over
  <2>4. QED
    BY <2>1, <2>2, <2>3 DEF RePhase
<1>3. ASSUME NEW p \in Procs, ExitProcess(p)
      PROVE  RePhase'
  <2>1. /\ UNCHANGED <<stop, werrors>> /\ main' = "exited" /\ waiting # {}
    BY <1>3 DEF ExitProcess, writerVars
  <2>2. main \in {"join", "exited"}
    BY <2>1 DEF RePhase
  <2>3. QED
    BY <2>1, <2>2 DEF RePhase
<1>4. CASE ReMainStep
  <2>1. UNCHANGED <<pc, waiting, werrors, perrors>>
    BY <1>4, ReMainMoves DEF procVars, passVars
  <2>2. CASE JoinReprocessors
    <3>1. /\ main = "join" /\ waiting = {} /\ (\A p \in Procs : pc[p] = "idle") /\ stop' = stop
          /\ main' = IF perrors > 0 THEN "unwind" ELSE "stop"
      BY <2>2 DEF JoinReprocessors
    <3>2. main' = "unwind" \/ (main' = "stop" /\ perrors = 0)
      BY <3>1 DEF Local, StateOK
    <3>3. QED
      BY <2>1, <3>1, <3>2 DEF RePhase
  <2>3. CASE DestroyWriter
    <3>1. main = "unwind" /\ main' \in {"failed", "crashed"} /\ stop' = stop
      BY <2>3 DEF DestroyWriter
    <3>2. QED
      BY <2>1, <3>1 DEF RePhase
  <2>4. CASE StopWriter
    <3>1. main = "stop" /\ main' = "drain"
      BY <2>4 DEF StopWriter
    <3>2. QED
      BY <2>1, <3>1 DEF RePhase
  <2>5. CASE JoinWriters
    <3>1. /\ main = "drain" /\ (\A w \in Writers : wpc[w] = "exited") /\ UNCHANGED <<wpc, stop>>
          /\ main' = IF werrors > 0 \/ perrors > 0 THEN "failed" ELSE "tiled"
      BY <2>5 DEF JoinWriters, writerVars
    <3>2. main' = "failed" \/ (main' = "tiled" /\ werrors = 0)
      BY <3>1 DEF Local, StateOK
    <3>3. QED
      BY <2>1, <3>1, <3>2 DEF RePhase
  <2>6. QED
    BY <1>4, <2>2, <2>3, <2>4, <2>5 DEF ReMainStep
<1>5. CASE UNCHANGED allVars
  BY <1>5 DEF RePhase, allVars, vars, procVars, writerVars, passVars
<1>6. QED
  BY <1>1, <1>2, <1>3, <1>4, <1>5 DEF ReNext, ReprocessorStep, CellStep, ReWriterStep

-----------------------------------------------------------------------------
(* The sources.                                                            *)

LEMMA SpreadType ==
    ASSUME StateOK, NEW k
    PROVE  Spread(k) \in Nat
<1>1. PICK S : S = Targets(k, sizes[k])
  OBVIOUS
<1>2. S \subseteq Keys
  BY <1>1, TargetsType
<1>3. QED
  BY <1>1, <1>2, ReadIntoTotal DEF Spread

\* A step that reads nothing, starts no Reprocessor and empties no file.
LEMMA SourcesQuiet ==
    ASSUME SourcesOK, UNCHANGED passVars, read' = read,
           \A q \in Procs : pc'[q] # "idle" => pc[q] # "idle",
           \A k \in Keys : file'[k] = 0 => file[k] = 0
    PROVE  SourcesOK'
<1>1. \A k : Spread(k)' = Spread(k)
  BY DEF Spread, ReadInto, passVars
<1>2. Selected(sizes)' = Selected(sizes) /\ Selected(sizes) \subseteq Keys
  BY TiledType DEF passVars, SourcesOK, Selected
<1>3. SourceOutlivesReading'
  BY <1>1, <1>2 DEF SourcesOK, SourceOutlivesReading, Spread, passVars
<1>4. QED
  BY <1>1, <1>2, <1>3 DEF SourcesOK, passVars

LEMMA SourcesStart ==
    ASSUME SourcesOK, Local, NEW p \in Procs, StartReprocessor(p)
    PROVE  SourcesOK'
<1>1. PICK k \in waiting : /\ waiting' = waiting \ {k}
                           /\ source' = [source EXCEPT ![p] = k]
                           /\ left' = [left EXCEPT ![p] = sizes[k]]
  BY DEF StartReprocessor
<1>2. /\ pc[p] = "idle" /\ pc' = [pc EXCEPT ![p] = "read"]
      /\ UNCHANGED <<sizes, read, file>>
  BY DEF StartReprocessor, writerVars
<1>3. /\ \A j : Spread(j)' = Spread(j)
      /\ Selected(sizes)' = Selected(sizes)
  BY <1>2 DEF Spread, ReadInto, Selected
<1>4. k \in Selected(sizes) /\ k \in Keys /\ sizes[k] \in Nat /\ Spread(k) = 0
  BY TiledType DEF SourcesOK
<1>5. /\ pc \in [Procs -> PcType] /\ source \in [Procs -> Keys \cup {Scratch}]
      /\ left \in [Procs -> Nat]
  BY DEF Local, StateOK, PcType, SourcesOK
<1>6. /\ source' \in [Procs -> Keys \cup {Scratch}] /\ left' \in [Procs -> Nat]
      /\ source'[p] = k /\ left'[p] = sizes[k]
      /\ \A q \in Procs \ {p} : source'[q] = source[q] /\ left'[q] = left[q] /\ pc'[q] = pc[q]
  BY <1>1, <1>2, <1>4, <1>5
<1>7. ASSUME NEW q \in Procs, pc'[q] # "idle"
      PROVE  /\ source'[q] \in Selected(sizes) \ waiting'
             /\ Spread(source'[q]) + left'[q] = sizes[source'[q]]
  <2>1. CASE q = p
    BY <1>1, <1>4, <1>6, <2>1
  <2>2. CASE q # p
    BY <1>1, <1>6, <1>7, <2>2 DEF SourcesOK
  <2>3. QED
    BY <2>1, <2>2
<1>8. ASSUME NEW q \in Procs, NEW r \in Procs, pc'[q] # "idle", pc'[r] # "idle",
             source'[q] = source'[r]
      PROVE  q = r
  <2>1. \A s \in Procs \ {p} : pc'[s] # "idle" => source'[s] # k
    BY <1>1, <1>6 DEF SourcesOK
  <2>2. CASE q = p \/ r = p
    BY <1>6, <1>8, <2>1, <2>2
  <2>3. CASE q # p /\ r # p
    BY <1>6, <1>8, <2>3 DEF SourcesOK
  <2>4. QED
    BY <2>2, <2>3
<1>9. SourceOutlivesReading'
  BY <1>2, <1>3 DEF SourcesOK, SourceOutlivesReading, Spread
<1>10. /\ sizes' \in Tiled /\ waiting' \subseteq Selected(sizes)'
       /\ \A j \in waiting' : Spread(j)' = 0
  BY <1>1, <1>2, <1>3 DEF SourcesOK
<1>11. \A q \in Procs : pc'[q] # "idle" =>
         /\ source'[q] \in (Selected(sizes) \ waiting)'
         /\ Spread(source[q])' + left'[q] = sizes'[source'[q]]
  <2>1. ASSUME NEW q \in Procs, pc'[q] # "idle"
        PROVE  /\ source'[q] \in (Selected(sizes) \ waiting)'
               /\ Spread(source[q])' + left'[q] = sizes'[source'[q]]
    <3>1. PICK j : j = source'[q]
      OBVIOUS
    <3>2. Spread(source[q])' = Spread(j)' /\ Spread(j)' = Spread(j)
      BY <1>3, <3>1 DEF Spread
    <3>3. QED
      BY <1>2, <1>3, <1>7, <2>1, <3>1, <3>2
  <2>2. QED
    BY <2>1
<1>12. QED
  BY <1>6, <1>8, <1>9, <1>10, <1>11 DEF SourcesOK

LEMMA SourcesRead ==
    ASSUME SourcesOK, Local, Local', NEW p \in Procs, NEW i \in Keys, ReadMapped(p, i)
    PROVE  SourcesOK'
<1>1. /\ pc[p] = "read" /\ left[p] > 0 /\ i \in Targets(source[p], sizes[source[p]])
      /\ left' = [left EXCEPT ![p] = @ - 1] /\ read' = [read EXCEPT ![i] = @ + 1]
      /\ UNCHANGED <<sizes, waiting, source, file>>
  BY DEF ReadMapped, writerVars
<1>2. \A q \in Procs : pc'[q] # "idle" => pc[q] # "idle"
  BY <1>1, OwnStepMoves
<1>3. PICK n \in Tiled : n = sizes
  BY DEF SourcesOK
<1>4. source[p] \in Selected(n) \ waiting /\ Spread(source[p]) + left[p] = n[source[p]]
  BY <1>1, <1>3 DEF SourcesOK
<1>5. PICK k \in Selected(n) : k = source[p]
  BY <1>4
<1>6. ASSUME NEW j \in Selected(n)
      PROVE  /\ Spread(j) \in Nat
             /\ Spread(j)' = IF j = k THEN Spread(j) + 1 ELSE Spread(j)
  <2>1. Targets(j, n[j]) \subseteq Keys
    BY TargetsType
  <2>2. ReadInto(Targets(j, n[j]))' = ReadInto(Targets(j, n[j])) + (IF i \in Targets(j, n[j]) THEN 1 ELSE 0)
    BY <1>1, <2>1, ReadIntoGrows DEF Local
  <2>3. ReadInto(Targets(j, n[j])) \in Nat
    BY <2>1, ReadIntoTotal DEF Local
  <2>4. Spread(j) = ReadInto(Targets(j, n[j])) /\ Spread(j)' = ReadInto(Targets(j, n[j]))'
    BY <1>1, <1>3 DEF Spread
  <2>5. i \in Targets(j, n[j]) <=> j = k
    BY <1>1, <1>3, <1>5, TargetsApart
  <2>6. QED
    BY <2>2, <2>3, <2>4, <2>5
<1>7. left' \in [Procs -> Nat] /\ left'[p] = left[p] - 1 /\ left[p] \in Nat
      /\ \A q \in Procs \ {p} : left'[q] = left[q]
  BY <1>1 DEF SourcesOK
<1>8. ASSUME NEW q \in Procs, pc'[q] # "idle"
      PROVE  /\ source'[q] \in (Selected(sizes) \ waiting)'
             /\ Spread(source[q])' + left'[q] = sizes'[source'[q]]
  <2>1. PICK j : j = source[q]
    OBVIOUS
  <2>2. j \in Selected(n) \ waiting /\ Spread(j) + left[q] = n[j] /\ (j = k => q = p)
    BY <1>1, <1>2, <1>3, <1>5, <1>8, <2>1 DEF SourcesOK
  <2>3. Spread(source[q])' = Spread(j)'
    BY <1>1, <2>1 DEF Spread
  <2>4. Spread(j)' + left'[q] = n[j]
    <3>1. CASE q = p
      <4>1. j = k /\ Spread(j) \in Nat /\ Spread(j)' = Spread(j) + 1
        BY <1>5, <1>6, <2>1, <2>2, <3>1
      <4>2. QED
        BY <1>7, <2>2, <3>1, <4>1
    <3>2. CASE q # p
      <4>1. Spread(j)' = Spread(j)
        BY <1>6, <2>2, <3>2
      <4>2. QED
        BY <1>7, <2>2, <3>2, <4>1
    <3>3. QED
      BY <3>1, <3>2
  <2>5. QED
    BY <1>1, <1>3, <2>1, <2>2, <2>3, <2>4
<1>9. \A j \in waiting' : Spread(j)' = 0
  <2>1. \A j \in waiting : j \in Selected(n) /\ j # k /\ Spread(j) = 0
    BY <1>3, <1>4, <1>5 DEF SourcesOK
  <2>2. QED
    BY <1>1, <1>6, <2>1
<1>10. ASSUME NEW j \in Selected(n), file'[j] = 0
       PROVE  Spread(j)' = n[j]
  <2>1. file[j] = 0
    BY <1>1, <1>10
  <2>2. Spread(j) = n[j]
    BY <1>3, <2>1 DEF SourcesOK, SourceOutlivesReading, Spread
  <2>3. j # k
    BY <1>1, <1>4, <1>5, <1>6, <1>7, <2>2
  <2>4. QED
    BY <1>6, <2>2, <2>3
<1>11. SourceOutlivesReading'
  <2>1. Selected(sizes)' = Selected(n) /\ sizes' = n
    BY <1>1, <1>3
  <2>2. \A j : ReadInto(Targets(j, sizes[j]))' = Spread(j)'
    BY DEF Spread
  <2>3. QED
    BY <1>10, <2>1, <2>2 DEF SourceOutlivesReading
<1>12. \A q, r \in Procs : pc'[q] # "idle" /\ pc'[r] # "idle" /\ source'[q] = source'[r] => q = r
  BY <1>1, <1>2 DEF SourcesOK
<1>13. /\ sizes' \in Tiled /\ waiting' \subseteq Selected(sizes)'
       /\ source' \in [Procs -> Keys \cup {Scratch}]
  BY <1>1 DEF SourcesOK
<1>14. QED
  BY <1>7, <1>8, <1>9, <1>11, <1>12, <1>13 DEF SourcesOK

LEMMA SourcesDelete ==
    ASSUME SourcesOK, Local, NEW p \in Procs, DeleteSource(p)
    PROVE  SourcesOK'
<1>1. /\ pc[p] = "read" /\ left[p] = 0 /\ file' = [file EXCEPT ![source[p]] = 0]
      /\ UNCHANGED <<sizes, waiting, source, left, read>>
  BY DEF DeleteSource, passVars
<1>2. \A q \in Procs : pc'[q] # "idle" => pc[q] # "idle"
  BY <1>1, OwnStepMoves
<1>3. /\ \A j : Spread(j)' = Spread(j)
      /\ Selected(sizes)' = Selected(sizes)
  BY <1>1 DEF Spread, ReadInto, Selected
<1>4. Spread(source[p]) = sizes[source[p]]
  <2>1. Spread(source[p]) \in Nat
    BY SpreadType DEF Local
  <2>2. QED
    BY <1>1, <2>1 DEF SourcesOK
<1>5. \A j \in Selected(sizes) : file'[j] = 0 => j = source[p] \/ file[j] = 0
  BY <1>1, TiledType DEF SourcesOK, Local, StateOK
<1>6. ASSUME NEW j \in Selected(sizes), file'[j] = 0
      PROVE  Spread(j) = sizes[j]
  BY <1>4, <1>5, <1>6 DEF SourcesOK, SourceOutlivesReading, Spread
<1>7. SourceOutlivesReading'
  <2>1. \A j : ReadInto(Targets(j, sizes[j]))' = Spread(j)
    BY <1>3 DEF Spread
  <2>2. QED
    BY <1>1, <1>3, <1>6, <2>1 DEF SourceOutlivesReading
<1>8. \A q \in Procs : Spread(source[q])' = Spread(source[q])
  BY <1>1 DEF Spread, ReadInto
<1>9. QED
  BY <1>1, <1>2, <1>3, <1>7, <1>8 DEF SourcesOK

LEMMA SourcesStep ==
    ASSUME SourcesOK, Local, Local', Writing, Writing', [ReNext]_allVars
    PROVE  SourcesOK'
<1>1. ASSUME NEW p \in Procs, CellWork(p), UNCHANGED passVars
      PROVE  SourcesOK'
  <2>1. file' = file /\ read' = read
    BY <1>1, CellWorkKinds
  <2>2. \A q \in Procs : pc'[q] # "idle" => pc[q] # "idle"
    BY <1>1, CellWorkMoves
  <2>3. QED
    BY <1>1, <2>1, <2>2, SourcesQuiet
<1>2. ASSUME NEW w \in Writers, WriterStep(w), UNCHANGED passVars
      PROVE  SourcesOK'
  <2>1. read' = read /\ \A q \in Procs : pc'[q] # "idle" => pc[q] # "idle"
    BY <1>2, WriterStepMoves
  <2>2. ASSUME NEW k \in Keys
        PROVE  file'[k] = 0 => file[k] = 0
    <3>1. InWriters(k) \in Nat /\ file[k] \in Nat
      BY BurdenType DEF Local, Writing, StateOK
    <3>2. PICK n \in 0..InWriters(k) : file'[k] = file[k] + n
      BY <1>2, WriterMoves
    <3>3. QED
      BY <3>1, <3>2
  <2>3. QED
    BY <1>2, <2>1, <2>2, SourcesQuiet
<1>3. ASSUME NEW p \in Procs, ExitProcess(p)
      PROVE  SourcesOK'
  BY <1>3, SourcesQuiet DEF ExitProcess, procVars, writerVars
<1>4. CASE ReMainStep \/ UNCHANGED allVars
  BY <1>4, ReMainMoves, SourcesQuiet DEF procVars
<1>5. QED
  BY <1>1, <1>2, <1>3, <1>4, SourcesStart, SourcesRead, SourcesDelete
     DEF ReNext, ReprocessorStep, CellStep, ReWriterStep

-----------------------------------------------------------------------------
(* The way of the points.                                                  *)

\* Nothing is on its way to a voxel whose own points are tiled further down.
LEMMA NothingToSelected ==
    ASSUME Local, Writing, NEW k \in Keys, Kept(k), read[k] = 0
    PROVE  InQueue(k) = 0 /\ InWriters(k) = 0
<1>1. InQueue(k) \in Nat /\ InWriters(k) \in Nat /\ totals[k] \in Nat /\ InProcs(k) \in Nat
  BY BurdenType, InProcsType DEF Local, Writing, StateOK
<1>2. totals[k] + InProcs(k) <= 0 /\ InQueue(k) + InWriters(k) <= totals[k]
  BY DEF Kept, ProcFlow
<1>3. QED
  BY <1>1, <1>2

\* What is to be shown of a step: the three parts of Kept.
LEMMA KeptParts ==
    ASSUME NEW k \in Keys, ProcFlow(k)', (InQueue(k) + InWriters(k) <= totals[k])', sizes' = sizes,
           NEW n, n = Points(sizes, k), k \notin Selected(sizes) => WriterFlow(k, n)',
           k \in Selected(sizes) /\ sizes[k] # MaxPointsPerNode =>
             read'[k] = 0 /\ (file'[k] # 0 => FileNeeded(k)')
    PROVE  Kept(k)'
<1>1. Points(sizes, k)' = n /\ Selected(sizes)' = Selected(sizes)
  BY DEF Points, Selected
<1>2. k \notin Selected(sizes) => WriterFlow(k, Points(sizes, k))'
  BY <1>1 DEF WriterFlow
<1>3. QED
  BY <1>1, <1>2 DEF Kept

\* A step of a processor that reads nothing or a point of another voxel.
LEMMA KeptByProc ==
    ASSUME Local, Local', Writing, SourcesOK, NEW p \in Procs, NEW k \in Keys, Kept(k), Queued,
           UNCHANGED <<writing, werrors, sizes>>, Balanced(p, k), stop => werrors > 0,
           file'[k] = file[k] \/ (file'[k] = 0 /\ k \in Selected(sizes)),
           file' = file \/ UNCHANGED <<queue, wpc, totals>>,
           k \in Selected(sizes) /\ sizes[k] # MaxPointsPerNode =>
             read'[k] = read[k] /\ (file'[k] # 0 /\ FileNeeded(k) => FileNeeded(k)')
    PROVE  Kept(k)'
<1>1. ProcFlow(k)'
  BY ProcFlowBalanced DEF Kept
<1>2. /\ InQueue(k) \in Nat /\ InWriters(k) \in Nat /\ totals[k] \in Nat
      /\ InQueue(k) + InWriters(k) <= totals[k]
  BY BurdenType DEF Local, Writing, StateOK, Kept
<1>3. PICK n \in Nat : n = Points(sizes, k)
  BY PointsType DEF SourcesOK
<1>4. CASE file' = file
  <2>1. PICK m \in Nat : InQueue(k)' = InQueue(k) + m /\ totals'[k] = totals[k] + m
    BY <1>4, QueuedFlow
  <2>2. InWriters(k)' = InWriters(k)
    BY <1>4, QueuedFlow
  <2>3. InQueue(k)' + InWriters(k)' <= totals'[k]
    BY <1>2, <2>1, <2>2
  <2>4. k \notin Selected(sizes) => WriterFlow(k, n)'
    BY <1>3, <1>4, QueuedWriterFlow DEF Kept
  <2>5. QED
    BY <1>1, <1>3, <1>4, <2>3, <2>4, KeptParts DEF Kept
<1>5. CASE UNCHANGED <<queue, wpc, totals>>
  <2>1. InQueue(k)' = InQueue(k) /\ InWriters(k)' = InWriters(k)
    BY <1>5, InWritersUnchanged DEF InQueue, Entry
  <2>2. k \notin Selected(sizes) => WriterFlow(k, n)'
    BY <1>3, <1>5, <2>1 DEF Kept, WriterFlow
  <2>3. InQueue(k)' + InWriters(k)' <= totals'[k]
    BY <1>2, <1>5, <2>1
  <2>4. QED
    BY <1>1, <1>3, <2>2, <2>3, KeptParts DEF Kept
<1>6. QED
  BY <1>4, <1>5

\* A step of another thread: nobody reads less, and no file comes back.
LEMMA KeptByOther ==
    ASSUME Local, Writing, SourcesOK, NEW k \in Keys, Kept(k),
           UNCHANGED <<cells, cell, want, totals, read, passVars, threw, perrors>>,
           \A q \in Procs : pc'[q] = pc[q] \/ (pc[q] = "asleep" /\ pc'[q] = "woken"),
           werrors' = werrors \/ werrors' > 0,
           InQueue(k)' + InWriters(k)' <= InQueue(k) + InWriters(k),
           InQueue(k)' \in Nat, InWriters(k)' \in Nat,
           NEW n \in Nat, n = Points(sizes, k), k \notin Selected(sizes) => WriterFlow(k, n)',
           InWriters(k) = 0 => file'[k] = file[k]
    PROVE  Kept(k)'
<1>1. ProcFlow(k)'
  BY ProcFlowOtherStep DEF Kept
<1>2. InQueue(k)' + InWriters(k)' <= totals'[k]
  <2>1. /\ InQueue(k) \in Nat /\ InWriters(k) \in Nat /\ totals[k] \in Nat
        /\ InQueue(k) + InWriters(k) <= totals[k]
    BY BurdenType DEF Local, Writing, StateOK, Kept
  <2>2. QED
    BY <2>1
<1>3. ASSUME k \in Selected(sizes), sizes[k] # MaxPointsPerNode
      PROVE  read'[k] = 0 /\ (file'[k] # 0 => FileNeeded(k)')
  <2>1. read[k] = 0 /\ (file[k] # 0 => FileNeeded(k))
    BY <1>3 DEF Kept
  <2>2. file'[k] = file[k]
    BY <2>1, NothingToSelected
  <2>3. FileNeeded(k) => FileNeeded(k)'
    BY DEF FileNeeded, passVars
  <2>4. QED
    BY <2>1, <2>2, <2>3
<1>4. QED
  BY <1>1, <1>2, <1>3, KeptParts DEF passVars

LEMMA KeptOwnStep ==
    ASSUME Local, Local', Writing, SourcesOK, stop => werrors > 0, NEW p \in Procs,
           StartReprocessor(p) \/ (\E i \in Keys : ReadMapped(p, i)) \/ DeleteSource(p),
           NEW k \in Keys, Kept(k)
    PROVE  Kept(k)'
<1>1. /\ UNCHANGED <<cells, threw, queue, totals, perrors, wpc, writing, werrors, sizes>> /\ Queued
      /\ \A q \in Procs \ {p} : pc'[q] = pc[q] /\ cell'[q] = cell[q] /\ want'[q] = want[q]
      /\ pc \in [Procs -> PcType] /\ StateOK
  BY OwnStepMoves DEF Queued, Local, StateOK, PcType
<1>2. CASE StartReprocessor(p)
  <2>1. PICK j \in waiting : waiting' = waiting \ {j} /\ source' = [source EXCEPT ![p] = j]
    BY <1>2 DEF StartReprocessor
  <2>2. /\ pc[p] = "idle" /\ pc' = [pc EXCEPT ![p] = "read"]
        /\ UNCHANGED <<read, file, want, cell>>
    BY <1>2 DEF StartReprocessor, writerVars
  <2>3. Balanced(p, k)
    <3>1. Waiting(p, k)' <=> Waiting(p, k)
      BY <1>1, <2>2 DEF Waiting, Fetching
    <3>2. QED
      BY <1>1, <2>2, <3>1, BalancedQuietly
  <2>4. pc'[p] = "read" /\ source'[p] = j /\ \A q \in Procs \ {p} : source'[q] = source[q]
    BY <1>1, <2>1, <2>2 DEF SourcesOK
  <2>5. FileNeeded(k) => FileNeeded(k)'
    <3>1. CASE k = j
      BY <2>4, <3>1 DEF FileNeeded
    <3>2. ASSUME NEW q \in Procs, source[q] = k, pc[q] # "idle", pc[q] = "unwind" => threw[q]
          PROVE  FileNeeded(k)'
      BY <1>1, <2>2, <2>4, <3>2 DEF FileNeeded
    <3>3. CASE perrors > 0 \/ (k \in waiting /\ k # j)
      BY <1>1, <2>1, <3>3 DEF FileNeeded
    <3>4. QED
      BY <3>1, <3>2, <3>3 DEF FileNeeded
  <2>6. QED
    BY <1>1, <2>2, <2>3, <2>5, KeptByProc
<1>3. ASSUME NEW i \in Keys, ReadMapped(p, i)
      PROVE  Kept(k)'
  <2>1. /\ pc[p] = "read" /\ i \in Targets(source[p], sizes[source[p]])
        /\ want' = [want EXCEPT ![p] = i] /\ cell' = [cell EXCEPT ![p] = Scratch]
        /\ read' = [read EXCEPT ![i] = @ + 1]
        /\ pc' = [pc EXCEPT ![p] = IF i \in HeldBy(p) THEN "copy" ELSE "fetch"]
        /\ UNCHANGED <<file, waiting, source>>
    BY <1>3 DEF ReadMapped, writerVars
  <2>2. /\ want'[p] = i /\ cell'[p] = Scratch /\ i # Scratch
        /\ pc'[p] = "copy" \/ pc'[p] = "fetch"
    BY <1>1, <2>1, ConstantFacts DEF StateOK
  <2>3. Balanced(p, k)
    BY <1>1, <2>1, <2>2, BalancedRead
  <2>4. ASSUME k \in Selected(sizes), sizes[k] # MaxPointsPerNode
        PROVE  read'[k] = read[k]
    <3>1. PICK n \in Tiled : n = sizes
      BY DEF SourcesOK
    <3>2. source[p] \in Selected(n)
      BY <2>1, <3>1 DEF SourcesOK
    <3>3. i # k
      BY <2>1, <2>4, <3>1, <3>2, TargetSelected
    <3>4. QED
      BY <1>1, <2>1, <3>3 DEF StateOK
  <2>5. FileNeeded(k) => FileNeeded(k)'
    <3>1. ASSUME NEW q \in Procs, source[q] = k, pc[q] # "idle", pc[q] = "unwind" => threw[q]
          PROVE  source'[q] = k /\ pc'[q] # "idle" /\ (pc'[q] = "unwind" => threw'[q])
      BY <1>1, <2>1, <2>2, <3>1
    <3>2. QED
      BY <1>1, <2>1, <3>1 DEF FileNeeded
  <2>6. QED
    BY <1>1, <2>1, <2>3, <2>4, <2>5, KeptByProc
<1>4. CASE DeleteSource(p)
  <2>1. /\ pc[p] = "read" /\ file' = [file EXCEPT ![source[p]] = 0]
        /\ pc' = [pc EXCEPT ![p] = "unwind"]
        /\ UNCHANGED <<read, waiting, source, want, cell>>
    BY <1>4 DEF DeleteSource, passVars
  <2>2. Balanced(p, k)
    <3>1. Waiting(p, k)' <=> Waiting(p, k)
      BY <1>1, <2>1 DEF Waiting, Fetching
    <3>2. QED
      BY <1>1, <2>1, <3>1, BalancedQuietly
  <2>3. source[p] \in Selected(sizes)
    BY <2>1 DEF SourcesOK
  <2>4. IF k = source[p] THEN file'[k] = 0 ELSE file'[k] = file[k]
    BY <1>1, <2>1 DEF StateOK
  <2>5. k # source[p] /\ FileNeeded(k) => FileNeeded(k)'
    <3>1. ASSUME NEW q \in Procs, source[q] = k, pc[q] # "idle", pc[q] = "unwind" => threw[q],
                 k # source[p]
          PROVE  source'[q] = k /\ pc'[q] # "idle" /\ (pc'[q] = "unwind" => threw'[q])
      BY <1>1, <2>1, <3>1
    <3>2. QED
      BY <1>1, <2>1, <3>1 DEF FileNeeded
  <2>6. QED
    BY <1>1, <2>1, <2>2, <2>3, <2>4, <2>5, KeptByProc
<1>5. QED
  BY <1>2, <1>3, <1>4

LEMMA KeptCellWork ==
    ASSUME Local, Local', Writing, SourcesOK, stop => werrors > 0, NEW p \in Procs, CellWork(p),
           UNCHANGED passVars, NEW k \in Keys, Kept(k)
    PROVE  Kept(k)'
<1>1. UNCHANGED <<werrors, writing, file, read, sizes, source, waiting>> /\ Queued
  BY CellWorkKinds DEF passVars
<1>2. Balanced(p, k)
  BY BalancedCellWork
<1>3. FileNeeded(k) => FileNeeded(k)'
  <2>1. perrors' >= perrors /\ perrors \in Nat /\ perrors' \in Nat
    <3>1. perrors' = perrors \/ perrors' = perrors + (IF threw[p] THEN 1 ELSE 0)
      BY CellWorkMoves
    <3>2. perrors \in Nat /\ (IF threw[p] THEN 1 ELSE 0) \in Nat
      BY DEF Local, StateOK
    <3>3. QED
      BY <3>1, <3>2
  <2>2. ASSUME NEW q \in Procs, source[q] = k, pc[q] # "idle", pc[q] = "unwind" => threw[q]
        PROVE  FileNeeded(k)'
    <3>1. CASE q # p
      <4>1. pc'[q] = pc[q] \/ (pc[q] = "asleep" /\ pc'[q] = "woken")
        BY <3>1, CellWorkMoves
      <4>2. threw'[q] = threw[q]
        BY <3>1, CellWorkMoves
      <4>3. QED
        BY <1>1, <2>2, <4>1, <4>2 DEF FileNeeded
    <3>2. CASE q = p
      <4>1. \/ pc'[p] \notin {"idle", "unwind"}
            \/ pc'[p] = "unwind" /\ threw'[p]
            \/ perrors' > 0
        BY <2>1, <2>2, <3>2, CellWorkMoves
      <4>2. QED
        BY <1>1, <2>2, <3>2, <4>1 DEF FileNeeded
    <3>3. QED
      BY <3>1, <3>2
  <2>3. QED
    BY <1>1, <2>1, <2>2 DEF FileNeeded
<1>4. QED
  BY <1>1, <1>2, <1>3, KeptByProc

LEMMA KeptStep ==
    ASSUME Local, Local', Writing, Writing', RePhase, SourcesOK, [ReNext]_allVars,
           NEW k \in Keys, Kept(k)
    PROVE  Kept(k)'
<1>1. ASSUME NEW p \in Procs, ~Over,
             StartReprocessor(p) \/ (\E i \in Keys : ReadMapped(p, i)) \/ DeleteSource(p)
      PROVE  Kept(k)'
  <2>1. stop => werrors > 0
    BY <1>1, OwnStepMoves, RunningEarly
  <2>2. QED
    BY <1>1, <2>1, KeptOwnStep
<1>2. ASSUME NEW p \in Procs, ~Over, CellWork(p), UNCHANGED passVars
      PROVE  Kept(k)'
  <2>1. stop => werrors > 0
    BY <1>2, CellWorkKinds, RunningEarly
  <2>2. QED
    BY <1>2, <2>1, KeptCellWork
<1>3. PICK n \in Nat : n = Points(sizes, k)
  BY PointsType DEF SourcesOK
<1>4. /\ InQueue(k) \in Nat /\ InWriters(k) \in Nat /\ file[k] \in Nat /\ werrors \in Nat
  BY BurdenType DEF Local, Writing, StateOK
<1>5. ASSUME NEW w \in Writers, WriterStep(w), UNCHANGED passVars
      PROVE  Kept(k)'
  <2>1. k \notin Selected(sizes) => WriterFlow(k, n)'
    BY <1>3, <1>5, WriterWriterFlow DEF Kept
  <2>2. /\ InQueue(k)' \in Nat /\ InWriters(k)' \in Nat
        /\ InQueue(k)' + InWriters(k)' <= InQueue(k) + InWriters(k)
        /\ InWriters(k) = 0 => file'[k] = file[k]
    BY <1>4, <1>5, WriterMoves
  <2>3. werrors' = werrors \/ werrors' > 0
    <3>1. werrors' = werrors \/ werrors' = werrors + 1
      BY <1>5, WriterStepMoves
    <3>2. QED
      BY <1>4, <3>1
  <2>4. QED
    BY <1>3, <1>5, <2>1, <2>2, <2>3, WriterStepMoves, KeptByOther
<1>6. ASSUME UNCHANGED <<procVars, queue, totals, writing, werrors, perrors, file, passVars>>,
             wpc' = wpc \/ wpc' = [w \in Writers |-> IF wpc[w] = "asleep" THEN "scan" ELSE wpc[w]]
      PROVE  Kept(k)'
  <2>1. InQueue(k)' = InQueue(k) /\ InWriters(k)' = InWriters(k)
    BY <1>6, InWritersUnchanged DEF InQueue, Entry
  <2>2. k \notin Selected(sizes) => WriterFlow(k, n)'
    BY <1>3, <1>6, <2>1 DEF Kept, WriterFlow
  <2>3. QED
    BY <1>3, <1>4, <1>6, <2>1, <2>2, KeptByOther DEF procVars
<1>7. CASE ReMainStep \/ UNCHANGED allVars
  BY <1>6, <1>7, ReMainMoves
<1>8. ASSUME NEW p \in Procs, ExitProcess(p)
      PROVE  Kept(k)'
  BY <1>6, <1>8 DEF ExitProcess, writerVars
<1>9. QED
  BY <1>1, <1>2, <1>5, <1>7, <1>8 DEF ReNext, ReprocessorStep, CellStep, ReWriterStep

-----------------------------------------------------------------------------
(* The theorems.                                                           *)

LEMMA ReInvStep == ReInv /\ [ReNext]_allVars => ReInv'
<1> SUFFICES ASSUME ReInv, [ReNext]_allVars
             PROVE  ReInv'
  OBVIOUS
<1>1. Local /\ Counting /\ Writing /\ RePhase /\ SourcesOK /\ \A k \in Keys : Kept(k)
  BY DEF ReInv
<1>2. Local' /\ Counting'
  BY <1>1, ReLocalStep, ReCountingStep
<1>3. Writing' /\ RePhase'
  BY <1>1, <1>2, ReWritingStep, RePhaseStep
<1>4. SourcesOK'
  BY <1>1, <1>2, <1>3, SourcesStep
<1>5. \A k \in Keys : Kept(k)'
  BY <1>1, <1>2, <1>3, KeptStep
<1>6. QED
  BY <1>2, <1>3, <1>4, <1>5 DEF ReInv

\* The inductive invariant holds in every reachable state of the second pass.
THEOREM ReInvariance == ReSpec => []ReInv
<1>1. QED
  BY ReInvInit, ReInvStep, PTL DEF ReSpec

\* What the first pass promises of its threads and buffers, the second one keeps:
\* no buffer leaks, no wakeup is lost and no two threads write to one file, also
\* when a Reprocessor fails or a write does.
THEOREM ReprocessThreads ==
    ReSpec => []( /\ StateOK /\ BufferConservation /\ OneWriterPerFile
                  /\ NoLostBufferWakeup /\ NoLostWriterWakeup)
<1>1. ReInv => /\ StateOK /\ BufferConservation /\ OneWriterPerFile /\ NoLostBufferWakeup
  BY DEF ReInv, Local, Counting, Writing
<1>2. ReInv => NoLostWriterWakeup
  BY DEF ReInv, Local, StateOK, Writing, StopOK, NoEntryAbandoned, NoLostWriterWakeup
<1>3. QED
  BY <1>1, <1>2, ReInvariance, PTL

\* Reprocessor::run deletes its file only when each point of it was handed to a
\* cell, whatever fails before: a pass that fails can be looked into.
THEOREM SourcesOutliveReading == ReSpec => []SourceOutlivesReading
<1>1. ReInv => SourceOutlivesReading
  BY DEF ReInv, SourcesOK
<1>2. QED
  BY <1>1, ReInvariance, PTL

\* The voxels whose points survive: all but those with MaxPointsPerNode points,
\* which are tiled into themselves and then deleted.
Safe(k) == k \in Selected(sizes) => sizes[k] # MaxPointsPerNode

SafeKeepPoints ==
    main = "tiled" =>
        \A k \in Keys : Safe(k) => file[k] = read[k] +
            (IF k \in Selected(sizes) THEN 0 ELSE Points(sizes, k))

\* When the second pass succeeds, the file of every voxel has just the points tiled
\* into it and, if it was not reprocessed, those it had; only for a voxel with
\* exactly MaxPointsPerNode points does the code fail to see to that.
THEOREM OnlyExactLose == ReSpec => []SafeKeepPoints
<1>1. ASSUME ReInv, main = "tiled", NEW k \in Keys, Safe(k)
      PROVE  file[k] = read[k] + (IF k \in Selected(sizes) THEN 0 ELSE Points(sizes, k))
  <2>1. /\ werrors = 0 /\ perrors = 0 /\ waiting = {} /\ \A p \in Procs : pc[p] = "idle"
        /\ \A w \in Writers : wpc[w] = "exited"
    BY <1>1 DEF ReInv, RePhase
  <2>2. Local /\ Writing /\ Kept(k) /\ sizes \in Tiled
    BY <1>1 DEF ReInv, SourcesOK
  <2>3. file[k] \in Nat /\ totals[k] \in Nat /\ read[k] \in Nat
    BY <2>2 DEF Local, StateOK
  <2>4. CASE k \in Selected(sizes)
    <3>1. sizes[k] # MaxPointsPerNode
      BY <1>1, <2>4 DEF Safe
    <3>2. read[k] = 0 /\ (file[k] # 0 => FileNeeded(k))
      BY <2>2, <2>4, <3>1 DEF Kept
    <3>3. ~FileNeeded(k)
      BY <2>1 DEF FileNeeded
    <3>4. QED
      BY <2>4, <3>2, <3>3
  <2>5. CASE k \notin Selected(sizes)
    <3>1. queue = <<>> /\ Busy = {}
      BY <2>1, <2>2, AllWritten
    <3>2. InQueue(k) = 0 /\ InWriters(k) = 0
      BY <2>2, <3>1, NothingQueued
    <3>3. InProcs(k) = 0
      BY <2>1, <2>2, IdleCarriesNothing
    <3>4. totals[k] + 0 = read[k]
      BY <2>1, <2>2, <3>3 DEF Kept, ProcFlow
    <3>5. PICK n \in Nat : n = Points(sizes, k)
      BY <2>2, PointsType
    <3>6. file[k] + 0 + 0 = n + totals[k]
      BY <2>1, <2>2, <2>5, <3>2, <3>5 DEF Kept, WriterFlow
    <3>7. QED
      BY <2>3, <2>5, <3>4, <3>5, <3>6
  <2>6. QED
    BY <2>4, <2>5
<1>2. ReInv => SafeKeepPoints
  BY <1>1 DEF SafeKeepPoints
<1>3. QED
  BY <1>2, ReInvariance, PTL

\* No voxel of the first pass has exactly MaxPointsPerNode points.
NoneExact == \A n \in Tiled : \A k \in DOMAIN n : n[k] # MaxPointsPerNode

\* So if there is no such voxel the second pass loses and repeats no point at all.
THEOREM PassKeepsPoints == NoneExact => (ReSpec => []ReprocessKeepsPoints)
<1> SUFFICES ASSUME NoneExact
             PROVE  ReSpec => []ReprocessKeepsPoints
  OBVIOUS
<1>1. ReInv /\ SafeKeepPoints => ReprocessKeepsPoints
  <2> SUFFICES ASSUME ReInv, SafeKeepPoints
               PROVE  ReprocessKeepsPoints
    OBVIOUS
  <2>1. \A k : Safe(k)
    BY DEF NoneExact, Safe, ReInv, SourcesOK, Selected
  <2>2. QED
    BY <2>1 DEF SafeKeepPoints, ReprocessKeepsPoints
<1>2. QED
  BY <1>1, ReInvariance, OnlyExactLose, PTL
=============================================================================
