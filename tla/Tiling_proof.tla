---------------------------- MODULE Tiling_proof ----------------------------
(***************************************************************************)
(* Proofs about Tiling, for any number of processors, writer threads,      *)
(* voxels, buffers, files, points and failures: what each thread holds,    *)
(* the buffers, the writer threads and the way of the points, and in the   *)
(* end that the phase implements TileStore.  What is said of CellWork,     *)
(* WriterStep and Queued holds in the second pass too, and Reprocess_proof *)
(* uses it.                                                                *)
(***************************************************************************)
EXTENDS Tiling, Lemmas, SequenceTheorems

-----------------------------------------------------------------------------
(* Lemmas about the operators.                                             *)

\* Taking an entry off the queue shortens it by one.
LEMMA RemoveAtShortens ==
    ASSUME NEW D, NEW q \in Seq(D), NEW i \in 1..Len(q)
    PROVE  RemoveAt(q, i) \in Seq(D) /\ Len(RemoveAt(q, i)) = Len(q) - 1
<1>1. \A j \in 1..Len(q) : q[j] \in D
  BY ElementOfSeq
<1>2. /\ SubSeq(q, 1, i-1) \in Seq(D)
      /\ Len(SubSeq(q, 1, i-1)) = i - 1
  BY <1>1, SubSeqProperties, 1 \in Int, i-1 \in Int
<1>3. /\ SubSeq(q, i+1, Len(q)) \in Seq(D)
      /\ Len(SubSeq(q, i+1, Len(q))) = Len(q) - i
  BY <1>1, SubSeqProperties, i+1 \in Int, Len(q) \in Int
<1>4. ASSUME NEW a \in Seq(D), NEW b \in Seq(D)
      PROVE  a \o b \in Seq(D) /\ Len(a \o b) = Len(a) + Len(b)
  BY ConcatProperties
<1>5. RemoveAt(q, i) \in Seq(D) /\ Len(RemoveAt(q, i)) = (i - 1) + (Len(q) - i)
  BY <1>2, <1>3, <1>4, Zenon DEF RemoveAt
<1>6. (i - 1) + (Len(q) - i) = Len(q) - 1
  OBVIOUS
<1>7. QED
  BY <1>5, <1>6, Zenon

-----------------------------------------------------------------------------
(* The inductive invariant.                                                *)

\* What a processor holds at each point of its run, in either pass.
ProcOK(p) ==
    /\ pc[p] = "idle" => HeldBy(p) = {}
    /\ pc[p] = "copy" => want[p] \in HeldBy(p)
    /\ pc[p] \in Fetching => want[p] \notin HeldBy(p)
    /\ pc[p] = "copy" \/ (pc[p] \in Fetching /\ want[p] # cell[p]) => want[p] \in Keys
    /\ cells[p][Scratch] <= 0

CellsOK == \A p \in Procs : ProcOK(p)

\* In the first pass the last point's cell has its buffer until the next one is copied.
SourceOK(p) ==
    /\ pc[p] = "read" => cell[p] \in HeldBy(p)
    /\ pc[p] \in Fetching \cup {"copy"} /\ want[p] # cell[p] => cell[p] \in HeldBy(p)

SourcesHeld == \A p \in Procs : SourceOK(p)

\* m_active holds the voxels being written and those whose write failed.
ActiveOK ==
    /\ werrors = 0 => \A k \in active : \E w \in Busy : writing[w].key = k
    /\ \A w \in Busy : writing[w] \in Data

\* m_stop is set by a write that fails or by stop(), and no thread leaves before.
StopOK == (werrors > 0 => stop) /\ \A w \in Writers : wpc[w] = "exited" => stop

\* Until a write fails, an entry that can be written is never left alone.
NoEntryAbandoned ==
    werrors = 0 /\ Writable # {} => \E w \in Writers : wpc[w] \in {"scan", "write"}

\* What Epf::run has seen end by each point of its run, and when it sets m_stop.
PhaseOK ==
    /\ main \in {"join", "stop", "drain", "tiled", "failed"}
    /\ stop /\ werrors = 0 => main \in {"drain", "tiled", "failed"}
    /\ main # "join" => files = 0 /\ \A p \in Procs : pc[p] = "idle"
    /\ main \in {"tiled", "failed"} => \A w \in Writers : wpc[w] = "exited"

-----------------------------------------------------------------------------
(* Types, and what each processor holds.                                   *)

Local == StateOK /\ CellsOK

LEMMA ConstantFacts ==
    /\ Scratch \in CellKeys /\ Scratch \notin Keys /\ Keys \subseteq CellKeys
    /\ BufPoints \in Nat /\ BufPoints >= 1 /\ MaxBuffers \in Nat /\ MaxBuffers >= 1
    /\ NumFileProcessors \in Nat
    /\ NumFiles \in Nat /\ MaxPoints \in Nat
BY ThreadAssumption, BufferAssumption, BoundAssumption DEF CellKeys

\* How either pass starts, whatever its tasks and the files are.
Fresh ==
    /\ pc = [p \in Procs |-> "idle"]
    /\ cells = [p \in Procs |-> [k \in CellKeys |-> NoBuffer]]
    /\ cell = [p \in Procs |-> Scratch] /\ want = [p \in Procs |-> Scratch]
    /\ threw = [p \in Procs |-> FALSE]
    /\ files \in Nat /\ unread \in Nat
    /\ cached = 0 /\ made = 0
    /\ queue = <<>> /\ active = {}
    /\ totals = [k \in Keys |-> 0]
    /\ stop = FALSE
    /\ wpc = [w \in Writers |-> "scan"]
    /\ writing = [w \in Writers |-> NoData]
    /\ werrors = 0 /\ perrors = 0
    /\ main = "join"
    /\ file \in [Keys -> Nat] /\ read = [k \in Keys |-> 0]

LEMMA InitIsFresh == Init => Fresh
BY ConstantFacts DEF Init, Fresh

LEMMA LocalInit == Fresh => Local
<1> SUFFICES ASSUME Fresh
             PROVE  Local
  OBVIOUS
<1>1. StateOK
  <2>1. /\ NoBuffer \in NoBuffer..(BufPoints - 1)
        /\ queue \in Seq(Data)
    BY ConstantFacts DEF Fresh, NoBuffer
  <2>2. cells \in [Procs -> [CellKeys -> NoBuffer..(BufPoints - 1)]]
    BY <2>1 DEF Fresh
  <2>3. writing \in [Writers -> Data \cup {NoData}]
    BY DEF Fresh
  <2>4. /\ pc \in [Procs -> {"idle", "read", "copy", "unwind"} \cup Fetching]
        /\ cell \in [Procs -> CellKeys] /\ want \in [Procs -> CellKeys]
        /\ threw \in [Procs -> BOOLEAN]
    BY ConstantFacts DEF Fresh
  <2>5. /\ wpc \in [Writers -> {"scan", "asleep", "write", "exited"}]
        /\ totals \in [Keys -> Nat] /\ file \in [Keys -> Nat] /\ read \in [Keys -> Nat]
    BY DEF Fresh
  <2>6. /\ files \in Nat /\ unread \in Nat /\ cached \in Nat /\ made \in 0..MaxBuffers
        /\ werrors \in Nat /\ perrors \in Nat /\ stop \in BOOLEAN
        /\ active \subseteq Keys
    BY ConstantFacts, 0 \in 0..MaxBuffers DEF Fresh
  <2>7. QED
    BY <2>1, <2>2, <2>3, <2>4, <2>5, <2>6 DEF Fresh, StateOK
<1>2. CellsOK
  BY ConstantFacts DEF Fresh, CellsOK, ProcOK, HeldBy, NoBuffer, Fetching
<1>3. QED
  BY <1>1, <1>2 DEF Local

\* What a critical section that enqueues does to the types.
LEMMA EnqueueTypes ==
    ASSUME StateOK, NEW k \in Keys, NEW n \in 1..BufPoints, Enqueue(k, n)
    PROVE  /\ totals' \in [Keys -> Nat]
           /\ queue' \in Seq(Data) /\ Len(queue') = Len(queue) + 1
           /\ wpc' \in [Writers -> {"scan", "asleep", "write", "exited"}]
           /\ \A w \in Writers : wpc'[w] = wpc[w] \/ (wpc[w] = "asleep" /\ wpc'[w] = "scan")
<1>1. totals' \in [Keys -> Nat]
  <2>1. n \in Nat /\ totals \in [Keys -> Nat]
    BY ConstantFacts DEF StateOK
  <2>2. QED
    BY <2>1 DEF Enqueue
<1>2. queue' \in Seq(Data) /\ Len(queue') = Len(queue) + 1
  BY DEF Enqueue, StateOK, Data
<1>3. QED
  <2>1. wpc' \in NotifyOne(wpc, "scan")
    BY DEF Enqueue
  <2>2. wpc \in [Writers -> {"scan", "asleep", "write", "exited"}]
    BY DEF StateOK
  <2>3. QED
    BY <1>1, <1>2, <2>1, <2>2 DEF NotifyOne

PcType == {"idle", "read", "copy", "unwind"} \cup Fetching

\* What a critical section that returns a buffer does to the types.
LEMMA ReplaceTypes ==
    ASSUME StateOK, Replace
    PROVE  /\ cached' \in Nat
           /\ pc' \in [Procs -> PcType]
           /\ \A p \in Procs : pc'[p] = pc[p] \/ (pc[p] = "asleep" /\ pc'[p] = "woken")
<1>1. cached' \in Nat
  BY DEF Replace, StateOK
<1>2. pc \in [Procs -> PcType]
  BY DEF StateOK, PcType
<1>3. CASE pc' = pc
  BY <1>1, <1>2, <1>3
<1>4. CASE pc' \in NotifyOne(pc, "woken")
  <2>1. "woken" \in PcType
    BY DEF PcType, Fetching
  <2>2. QED
    BY <1>1, <1>2, <1>4, <2>1 DEF NotifyOne
<1>5. QED
  BY <1>3, <1>4 DEF Replace

\* A step of another thread can only wake q.
LEMMA ProcUnchanged ==
    ASSUME NEW q \in Procs, ProcOK(q),
           cells'[q] = cells[q], cell'[q] = cell[q], want'[q] = want[q],
           pc'[q] = pc[q] \/ (pc[q] = "asleep" /\ pc'[q] = "woken")
    PROVE  ProcOK(q)'
BY DEF ProcOK, HeldBy, Fetching

CountType == NoBuffer..(BufPoints - 1)

\* Setting one cell's count touches that cell only.
LEMMA SetCell ==
    ASSUME StateOK, NEW p \in Procs, NEW k \in CellKeys, NEW v \in CountType,
           cells' = [cells EXCEPT ![p][k] = v]
    PROVE  /\ cells' \in [Procs -> [CellKeys -> CountType]]
           /\ cells'[p][k] = v
           /\ \A j \in CellKeys \ {k} : cells'[p][j] = cells[p][j]
           /\ \A q \in Procs \ {p} : cells'[q] = cells[q]
<1>1. cells \in [Procs -> [CellKeys -> CountType]]
  BY DEF StateOK, CountType
<1>2. QED
  BY <1>1

\* Where a processor goes when BufferCache::fetch gives it a buffer.
LEMMA AcquireLocal ==
    ASSUME Local, NEW p \in Procs, pc[p] \in Fetching, Acquire(p), UNCHANGED <<cell, want>>
    PROVE  /\ pc' \in [Procs -> PcType] /\ cells' \in [Procs -> [CellKeys -> CountType]]
           /\ cached' \in Nat /\ made' \in 0..MaxBuffers /\ threw' = threw
           /\ CellsOK'
<1> USE ConstantFacts
<1>1. pc \in [Procs -> PcType] /\ want[p] \in CellKeys /\ cell[p] \in CellKeys /\ 0 \in CountType
  BY DEF Local, StateOK, PcType, CountType, NoBuffer
<1>2. cached' \in Nat /\ made' \in 0..MaxBuffers /\ threw' = threw
  BY DEF Local, StateOK, Acquire, Available
<1>3. pc' = [pc EXCEPT ![p] = IF want[p] = cell[p] THEN "read" ELSE "copy"]
  BY DEF Acquire
<1>4. pc' \in [Procs -> PcType]
  BY <1>1, <1>3 DEF PcType
<1>5. cells' = [cells EXCEPT ![p][want[p]] = 0]
  BY DEF Acquire
<1>6. /\ cells' \in [Procs -> [CellKeys -> CountType]]
      /\ cells'[p][want[p]] = 0
      /\ \A j \in CellKeys \ {want[p]} : cells'[p][j] = cells[p][j]
      /\ \A q \in Procs \ {p} : cells'[q] = cells[q]
  BY <1>1, <1>5, SetCell DEF Local
<1>7. \A q \in Procs \ {p} : ProcOK(q)'
  BY <1>1, <1>3, <1>6, ProcUnchanged DEF Local, CellsOK
<1>8. ProcOK(p)'
  BY <1>1, <1>3, <1>6 DEF Local, CellsOK, ProcOK, HeldBy, Fetching, NoBuffer
<1>9. QED
  BY <1>2, <1>4, <1>6, <1>7, <1>8 DEF CellsOK

\* A processor that has to wait for a buffer.
LEMMA SleepLocal ==
    ASSUME Local, NEW p \in Procs, pc[p] \in Fetching, Sleep(p), UNCHANGED <<cell, want>>
    PROVE  /\ pc' \in [Procs -> PcType] /\ cells' \in [Procs -> [CellKeys -> CountType]]
           /\ cached' \in Nat /\ made' \in 0..MaxBuffers /\ threw' = threw
           /\ CellsOK'
<1>1. pc \in [Procs -> PcType] /\ cells \in [Procs -> [CellKeys -> CountType]]
  BY DEF Local, StateOK, PcType, CountType
<1>2. /\ pc' = [pc EXCEPT ![p] = "asleep"]
      /\ UNCHANGED <<cells, cached, made, threw>>
  BY DEF Sleep
<1>3. \A q \in Procs \ {p} : ProcOK(q)'
  BY <1>1, <1>2, ProcUnchanged DEF Local, CellsOK
<1>4. ProcOK(p)'
  BY <1>1, <1>2 DEF Local, CellsOK, ProcOK, HeldBy, Fetching
<1>5. QED
  BY <1>1, <1>2, <1>3, <1>4 DEF Local, StateOK, CellsOK, PcType, Fetching

\* A cell is destroyed, by a flush or with its CellMgr.
LEMMA ReleaseLocal ==
    ASSUME Local, NEW p \in Procs, NEW k \in CellKeys, k \in HeldBy(p), Release(p, k),
           pc[p] = "unwind" \/ (pc[p] = "flush" /\ k # cell[p])
    PROVE  Local'
<1> USE ConstantFacts
<1>1. cells[p][k] \in CountType /\ cells[p][k] # NoBuffer /\ NoBuffer \in CountType
  BY DEF Local, StateOK, CountType, NoBuffer, HeldBy
<1>2. cells' = [cells EXCEPT ![p][k] = NoBuffer]
  BY DEF Release
<1>3. /\ cells' \in [Procs -> [CellKeys -> CountType]]
      /\ cells'[p][k] = NoBuffer
      /\ \A j \in CellKeys \ {k} : cells'[p][j] = cells[p][j]
      /\ \A q \in Procs \ {p} : cells'[q] = cells[q]
  BY <1>1, <1>2, SetCell DEF Local
<1>4. /\ pc' \in [Procs -> PcType] /\ cached' \in Nat
      /\ totals' \in [Keys -> Nat] /\ queue' \in Seq(Data)
      /\ wpc' \in [Writers -> {"scan", "asleep", "write", "exited"}]
      /\ \A q \in Procs : pc'[q] = pc[q] \/ (pc[q] = "asleep" /\ pc'[q] = "woken")
  <2>1. CASE cells[p][k] > 0
    <3>1. k \in Keys /\ cells[p][k] \in 1..BufPoints
      BY <1>1, <2>1 DEF Local, CellsOK, ProcOK, CellKeys, CountType, NoBuffer
    <3>2. Enqueue(k, cells[p][k]) /\ UNCHANGED <<pc, cached>>
      BY <2>1 DEF Release
    <3>3. StateOK
      BY DEF Local
    <3>4. pc' \in [Procs -> PcType] /\ cached' \in Nat
      BY <3>2, <3>3 DEF StateOK, PcType
    <3>5. QED
      BY <3>1, <3>2, <3>3, <3>4, EnqueueTypes
  <2>2. CASE ~(cells[p][k] > 0)
    <3>1. Replace /\ UNCHANGED <<queue, totals, wpc>>
      BY <2>2 DEF Release
    <3>2. QED
      BY <3>1, ReplaceTypes DEF Local, StateOK
  <2>3. QED
    BY <2>1, <2>2
<1>5. UNCHANGED <<cell, want, threw, files, unread, read, made, stop, perrors, main,
                  active, writing, werrors, file>>
  BY DEF Release
<1>6. StateOK'
  BY <1>3, <1>4, <1>5 DEF Local, StateOK, CountType, PcType
<1>7. \A q \in Procs \ {p} : ProcOK(q)'
  BY <1>3, <1>4, <1>5, ProcUnchanged DEF Local, CellsOK
<1>8. ProcOK(p)'
  <2>1. pc'[p] = pc[p]
    BY <1>4
  <2>2. QED
    BY <1>1, <1>3, <1>5, <2>1 DEF Local, CellsOK, ProcOK, HeldBy, Fetching, NoBuffer
<1>9. QED
  BY <1>6, <1>7, <1>8 DEF Local, CellsOK

LEMMA QueueEntry ==
    ASSUME StateOK, NEW i \in 1..Len(queue)
    PROVE  queue[i] \in Data /\ queue[i].key \in Keys
<1>1. queue \in Seq(Data)
  BY DEF StateOK
<1>2. queue[i] \in Data
  BY <1>1, ElementOfSeq
<1>3. QED
  BY <1>2 DEF Data

\* Appending to a file keeps its count a natural number.
LEMMA AppendToFile ==
    ASSUME StateOK, NEW k, NEW n \in Nat, file' = [file EXCEPT ![k] = @ + n]
    PROVE  file' \in [Keys -> Nat]
<1>1. file \in [Keys -> Nat]
  BY DEF StateOK
<1>2. \A j \in Keys : file[j] + n \in Nat
  BY <1>1
<1>3. QED
  BY <1>1, <1>2

LEMMA LocalCellWork ==
    ASSUME Local, NEW p \in Procs, CellWork(p)
    PROVE  Local'
<1> USE ConstantFacts DEF Local, CellsOK
<1>1. CASE Advance(p)
  <2> DEFINE k == want[p]
             n == cells[p][k] + 1
  <2>1. /\ pc[p] = "copy" /\ k \in Keys /\ k \in CellKeys /\ k \in HeldBy(p)
        /\ cells[p][k] \in CountType /\ n \in 1..BufPoints
        /\ NoBuffer \in CountType /\ (n < BufPoints => n \in CountType)
    BY <1>1 DEF Advance, StateOK, ProcOK, HeldBy, CountType, NoBuffer
  <2>2. /\ cell' = [cell EXCEPT ![p] = k]
        /\ UNCHANGED <<want, threw, files, unread, read, cached, made, stop,
                       perrors, main, active, writing, werrors, file>>
    BY <1>1 DEF Advance
  <2>3. cell' \in [Procs -> CellKeys]
    BY <2>1, <2>2 DEF StateOK
  <2>4. CASE n < BufPoints
    <3>1. /\ cells' = [cells EXCEPT ![p][k] = n]
          /\ pc' = [pc EXCEPT ![p] = "read"]
          /\ UNCHANGED <<queue, totals, wpc>>
      BY <1>1, <2>4 DEF Advance
    <3>2. /\ cells' \in [Procs -> [CellKeys -> CountType]]
          /\ cells'[p][k] = n
          /\ \A j \in CellKeys \ {k} : cells'[p][j] = cells[p][j]
          /\ \A q \in Procs \ {p} : cells'[q] = cells[q]
      BY <2>1, <2>4, <3>1, SetCell
    <3>3. StateOK'
      BY <2>2, <2>3, <3>1, <3>2 DEF StateOK, CountType
    <3>4. ProcOK(p)'
      BY <2>1, <2>2, <3>1, <3>2 DEF ProcOK, HeldBy, Fetching, NoBuffer, StateOK
    <3>5. \A q \in Procs \ {p} : ProcOK(q)'
      BY <2>2, <3>1, <3>2, ProcUnchanged DEF StateOK
    <3>6. QED
      BY <3>3, <3>4, <3>5
  <2>5. CASE ~(n < BufPoints)
    <3>1. /\ cells' = [cells EXCEPT ![p][k] = NoBuffer]
          /\ pc' = [pc EXCEPT ![p] = "fetch"]
          /\ Enqueue(k, n)
      BY <1>1, <2>5 DEF Advance
    <3>2. /\ cells' \in [Procs -> [CellKeys -> CountType]]
          /\ cells'[p][k] = NoBuffer
          /\ \A j \in CellKeys \ {k} : cells'[p][j] = cells[p][j]
          /\ \A q \in Procs \ {p} : cells'[q] = cells[q]
      BY <2>1, <3>1, SetCell
    <3>3. /\ totals' \in [Keys -> Nat] /\ queue' \in Seq(Data)
          /\ wpc' \in [Writers -> {"scan", "asleep", "write", "exited"}]
      BY <2>1, <3>1, EnqueueTypes
    <3>4. StateOK'
      BY <2>2, <2>3, <3>1, <3>2, <3>3 DEF StateOK, CountType, Fetching
    <3>5. ProcOK(p)'
      BY <2>1, <2>2, <3>1, <3>2 DEF ProcOK, HeldBy, Fetching, NoBuffer, StateOK
    <3>6. \A q \in Procs \ {p} : ProcOK(q)'
      BY <2>2, <3>1, <3>2, ProcUnchanged DEF StateOK
    <3>7. QED
      BY <3>4, <3>5, <3>6
  <2>6. QED
    BY <2>4, <2>5
<1>2. CASE FetchBuffer(p)
  <2>1. /\ pc[p] = "fetch"
        /\ UNCHANGED <<cell, want, files, unread, read, queue, totals, stop, perrors, main,
                       active, wpc, writing, werrors, file>>
    BY <1>2 DEF FetchBuffer, writerVars
  <2>2. CASE Acquire(p) \/ Sleep(p)
    BY <2>1, <2>2, AcquireLocal, SleepLocal DEF StateOK, PcType, CountType, Fetching
  <2>3. CASE /\ pc' = [pc EXCEPT ![p] = "flush"]
             /\ UNCHANGED <<cells, cached, made, threw>>
    <3>1. StateOK'
      BY <2>1, <2>3 DEF StateOK, Fetching
    <3>2. ProcOK(p)'
      BY <2>1, <2>3 DEF ProcOK, HeldBy, StateOK, Fetching
    <3>3. \A q \in Procs \ {p} : ProcOK(q)'
      BY <2>1, <2>3, ProcUnchanged DEF StateOK
    <3>4. QED
      BY <3>1, <3>2, <3>3
  <2>4. QED
    BY <1>2, <2>2, <2>3 DEF FetchBuffer
<1>3. CASE FetchBlocking(p)
  <2>1. /\ pc[p] \in Fetching
        /\ UNCHANGED <<cell, want, files, unread, read, queue, totals, stop, perrors, main,
                       active, wpc, writing, werrors, file>>
    BY <1>3 DEF FetchBlocking, writerVars, Fetching
  <2>2. CASE Acquire(p) \/ Sleep(p)
    BY <2>1, <2>2, AcquireLocal, SleepLocal DEF StateOK, PcType, CountType
  <2>3. CASE /\ stop
             /\ pc' = [pc EXCEPT ![p] = "unwind"]
             /\ threw' = [threw EXCEPT ![p] = TRUE]
             /\ UNCHANGED <<cells, cached, made>>
    <3>1. StateOK'
      BY <2>1, <2>3 DEF StateOK
    <3>2. ProcOK(p)'
      BY <2>1, <2>3 DEF ProcOK, HeldBy, StateOK, Fetching
    <3>3. \A q \in Procs \ {p} : ProcOK(q)'
      BY <2>1, <2>3, ProcUnchanged DEF StateOK
    <3>4. QED
      BY <3>1, <3>2, <3>3
  <2>4. QED
    BY <1>3, <2>2, <2>3 DEF FetchBlocking
<1>4. CASE Wake(p)
  <2>1. /\ pc[p] \in Fetching
        /\ UNCHANGED <<cell, want, files, unread, read, queue, totals, stop, perrors, main,
                       active, wpc, writing, werrors, file>>
    BY <1>4 DEF Wake, writerVars, Fetching
  <2>2. QED
    BY <1>4, <2>1, AcquireLocal, SleepLocal DEF Wake, StateOK, PcType, CountType
<1>5. ASSUME NEW k \in CellKeys, FlushCell(p, k) \/ DestroyCell(p, k)
      PROVE  Local'
  BY <1>5, ReleaseLocal DEF FlushCell, DestroyCell
<1>6. CASE EndTask(p)
  <2>1. StateOK'
    BY <1>6 DEF EndTask, StateOK, Fetching, writerVars, NoBuffer
  <2>2. ProcOK(p)'
    BY <1>6 DEF EndTask, StateOK, Fetching, writerVars, ProcOK, HeldBy, NoBuffer
  <2>3. \A q \in Procs \ {p} : ProcOK(q)'
    BY <1>6, ProcUnchanged DEF EndTask, StateOK, writerVars
  <2>4. QED
    BY <2>1, <2>2, <2>3
<1>7. QED
  BY <1>1, <1>2, <1>3, <1>4, <1>5, <1>6 DEF CellWork

LEMMA LocalWriterStep ==
    ASSUME Local, NEW w \in Writers, WriterStep(w)
    PROVE  Local'
<1> USE ConstantFacts DEF Local, CellsOK
<1>1. CASE TakeEntry(w)
  <2>1. PICK i \in Writable :
              /\ writing' = [writing EXCEPT ![w] = queue[i]]
              /\ active' = active \cup {queue[i].key}
              /\ queue' = RemoveAt(queue, i)
    BY <1>1 DEF TakeEntry
  <2>2. i \in 1..Len(queue) /\ queue[i] \in Data /\ queue[i].key \in Keys
    BY QueueEntry DEF Writable
  <2>3. queue' \in Seq(Data)
    BY <2>1, <2>2, RemoveAtShortens DEF StateOK
  <2>4. writing' \in [Writers -> Data \cup {NoData}] /\ active' \subseteq Keys
    BY <2>1, <2>2 DEF StateOK
  <2>5. /\ wpc' = [wpc EXCEPT ![w] = "write"]
        /\ UNCHANGED <<pc, cells, cell, want, threw, files, unread, read, cached, made,
                       totals, stop, werrors, perrors, main, file>>
    BY <1>1 DEF TakeEntry, procVars
  <2>6. StateOK'
    BY <2>3, <2>4, <2>5 DEF StateOK
  <2>7. \A q \in Procs : ProcOK(q)'
    BY <2>5, ProcUnchanged
  <2>8. QED
    BY <2>6, <2>7
<1>2. CASE NoEntry(w)
  <2>1. StateOK'
    BY <1>2 DEF NoEntry, StateOK, Fetching, writerVars, procVars, NoBuffer
  <2>2. \A q \in Procs : ProcOK(q)'
    BY <1>2, ProcUnchanged DEF NoEntry, StateOK, writerVars, procVars
  <2>3. QED
    BY <2>1, <2>2
<1>3. CASE WriteDone(w)
  <2>1. /\ UNCHANGED <<cells, cell, want, threw, files, unread, read, made, queue,
                       totals, stop, werrors, perrors, main>>
        /\ active' = active \ {writing[w].key}
        /\ writing' = [writing EXCEPT ![w] = NoData]
        /\ wpc' = [wpc EXCEPT ![w] = "scan"]
        /\ file' = [file EXCEPT ![writing[w].key] = @ + writing[w].size]
    BY <1>3 DEF WriteDone
  <2>2. writing[w].size \in Nat
    BY ConstantFacts DEF StateOK, Data, NoData
  <2>3. file' \in [Keys -> Nat]
    BY <2>1, <2>2, AppendToFile
  <2>4. /\ cached' \in Nat /\ pc' \in [Procs -> PcType]
        /\ \A q \in Procs : pc'[q] = pc[q] \/ (pc[q] = "asleep" /\ pc'[q] = "woken")
    BY <1>3, ReplaceTypes DEF WriteDone
  <2>5. StateOK'
    BY <2>1, <2>3, <2>4 DEF StateOK, PcType
  <2>6. \A q \in Procs : ProcOK(q)'
    BY <2>1, <2>4, ProcUnchanged
  <2>7. QED
    BY <2>5, <2>6
<1>4. CASE WriteFails(w)
  <2>1. PICK n \in 0..writing[w].size : file' = [file EXCEPT ![writing[w].key] = @ + n]
    BY <1>4 DEF WriteFails
  <2>2. writing[w].size \in Nat
    BY ConstantFacts DEF StateOK, Data, NoData
  <2>3. n \in Nat
    BY <2>2
  <2>4. file' \in [Keys -> Nat]
    BY <2>1, <2>3, AppendToFile
  <2>5. StateOK'
    <3>1. /\ werrors' \in Nat /\ stop' \in BOOLEAN
          /\ wpc' \in [Writers -> {"scan", "asleep", "write", "exited"}]
          /\ writing' \in [Writers -> Data \cup {NoData}]
      BY <1>4 DEF WriteFails, StateOK
    <3>2. UNCHANGED <<procVars, cached, made, queue, active, totals, perrors, main>>
      BY <1>4 DEF WriteFails
    <3>3. QED
      BY <2>4, <3>1, <3>2 DEF StateOK, procVars
  <2>6. \A q \in Procs : ProcOK(q)'
    BY <1>4, ProcUnchanged DEF WriteFails, procVars
  <2>7. QED
    BY <2>5, <2>6
<1>5. QED
  BY <1>1, <1>2, <1>3, <1>4 DEF WriterStep

\* Steps that touch nothing a processor holds, and none of the types.
LEMMA LocalUnchanged ==
    ASSUME Local, UNCHANGED <<procVars, cached, made, queue, active, totals, writing, werrors, file>>,
           stop' \in BOOLEAN, perrors' \in Nat,
           wpc' \in [Writers -> {"scan", "asleep", "write", "exited"}]
    PROVE  Local'
BY DEF Local, CellsOK, ProcOK, HeldBy, StateOK, procVars

LEMMA LocalStep == Local /\ [Next]_vars => Local'
<1> SUFFICES ASSUME Local, [Next]_vars PROVE Local'
  OBVIOUS
<1> USE ConstantFacts DEF Local, CellsOK
<1>1. ASSUME NEW p \in Procs, ClaimFile(p)
      PROVE  Local'
  <2>1. StateOK'
    BY <1>1 DEF ClaimFile, StateOK, Fetching, writerVars, NoBuffer
  <2>2. ProcOK(p)'
    BY <1>1 DEF ClaimFile, StateOK, Fetching, writerVars, ProcOK, HeldBy, NoBuffer
  <2>3. \A q \in Procs \ {p} : ProcOK(q)'
    BY <1>1, ProcUnchanged DEF ClaimFile, StateOK, writerVars
  <2>4. QED
    BY <2>1, <2>2, <2>3
<1>2. ASSUME NEW p \in Procs, NEW k \in Keys, ReadPoint(p, k)
      PROVE  Local'
  <2>1. StateOK'
    <3>1. unread' \in Nat /\ read' \in [Keys -> Nat]
      BY <1>2 DEF ReadPoint, StateOK
    <3>2. /\ want' \in [Procs -> CellKeys]
          /\ pc' \in [Procs -> {"idle", "read", "copy", "unwind"} \cup Fetching]
      BY <1>2 DEF ReadPoint, StateOK, Fetching
    <3>3. UNCHANGED <<cells, cell, threw, files, cached, made, queue, totals, stop, perrors, main,
                      active, wpc, writing, werrors, file>>
      BY <1>2 DEF ReadPoint, writerVars
    <3>4. QED
      BY <3>1, <3>2, <3>3 DEF StateOK
  <2>2. ProcOK(p)'
    BY <1>2 DEF ReadPoint, StateOK, Fetching, writerVars, ProcOK, HeldBy, NoBuffer
  <2>3. \A q \in Procs \ {p} : ProcOK(q)'
    BY <1>2, ProcUnchanged DEF ReadPoint, StateOK, writerVars
  <2>4. QED
    BY <2>1, <2>2, <2>3
<1>3. ASSUME NEW p \in Procs, EndOfFile(p)
      PROVE  Local'
  <2>1. StateOK'
    BY <1>3 DEF EndOfFile, StateOK, Fetching, writerVars, NoBuffer
  <2>2. ProcOK(p)'
    BY <1>3 DEF EndOfFile, StateOK, Fetching, writerVars, ProcOK, HeldBy, NoBuffer
  <2>3. \A q \in Procs \ {p} : ProcOK(q)'
    BY <1>3, ProcUnchanged DEF EndOfFile, StateOK, writerVars
  <2>4. QED
    BY <2>1, <2>2, <2>3
<1>4. ASSUME NEW p \in Procs, CellWork(p)
      PROVE  Local'
  BY <1>4, LocalCellWork
<1>5. ASSUME NEW w \in Writers, WriterStep(w)
      PROVE  Local'
  BY <1>5, LocalWriterStep
<1>6. CASE MainStep \/ UNCHANGED vars
  BY <1>6, LocalUnchanged DEF MainStep, JoinPool, StopWriter, JoinWriters, vars, procVars, writerVars,
                              StateOK
<1>7. QED
  BY <1>1, <1>2, <1>3, <1>4, <1>5, <1>6 DEF Next, ProcStep, Finished

-----------------------------------------------------------------------------
(* The cell a point is copied from.                                        *)

LEMMA SourcesHeldInit == Init => SourcesHeld
BY DEF Init, SourcesHeld, SourceOK, Fetching

LEMMA SourceUnchanged ==
    ASSUME NEW q \in Procs, SourceOK(q),
           cells'[q] = cells[q], cell'[q] = cell[q], want'[q] = want[q],
           pc'[q] = pc[q] \/ (pc[q] = "asleep" /\ pc'[q] = "woken")
    PROVE  SourceOK(q)'
BY DEF SourceOK, HeldBy, Fetching

LEMMA SourceCellWork ==
    ASSUME Local, SourcesHeld, NEW p \in Procs, CellWork(p)
    PROVE  SourcesHeld'
<1> USE ConstantFacts DEF SourcesHeld
<1>1. pc \in [Procs -> PcType] /\ want[p] \in CellKeys /\ cell[p] \in CellKeys /\ StateOK
  BY DEF Local, StateOK, PcType
<1>2. ASSUME NEW k \in CellKeys, NEW v \in CountType, cells' = [cells EXCEPT ![p][k] = v]
      PROVE  /\ HeldBy(p)' = IF v = NoBuffer THEN HeldBy(p) \ {k} ELSE HeldBy(p) \cup {k}
             /\ \A q \in Procs \ {p} : cells'[q] = cells[q]
  <2> HIDE ConstantFacts DEF SourcesHeld
  <2>1. /\ cells'[p][k] = v
        /\ \A j \in CellKeys \ {k} : cells'[p][j] = cells[p][j]
        /\ \A q \in Procs \ {p} : cells'[q] = cells[q]
    <3>1. StateOK
      BY <1>1
    <3>2. QED
      BY <1>2, <3>1, SetCell
  <2>2. HeldBy(p)' = {j \in CellKeys : cells'[p][j] # NoBuffer}
    BY DEF HeldBy
  <2>3. \A j \in CellKeys : cells'[p][j] # NoBuffer <=> IF j = k THEN v # NoBuffer ELSE j \in HeldBy(p)
    BY <2>1 DEF HeldBy
  <2>4. HeldBy(p) \subseteq CellKeys
    BY DEF HeldBy
  <2>5. QED
    BY <2>1, <2>2, <2>3, <2>4
<1>0. NoBuffer \in CountType /\ 0 \in CountType /\ NoBuffer # 0
  BY DEF CountType, NoBuffer
<1>3. CASE Advance(p)
  <2>1. pc[p] = "copy" /\ want[p] \in HeldBy(p) /\ cells[p][want[p]] + 1 \in 1..BufPoints
    BY <1>1, <1>3 DEF Advance, Local, CellsOK, ProcOK, HeldBy, StateOK, NoBuffer
  <2>2. cell' = [cell EXCEPT ![p] = want[p]] /\ want' = want /\ cell \in [Procs -> CellKeys]
    BY <1>3 DEF Advance, Local, StateOK
  <2>3. CASE cells[p][want[p]] + 1 < BufPoints
    <3>1. /\ cells' = [cells EXCEPT ![p][want[p]] = cells[p][want[p]] + 1]
          /\ pc' = [pc EXCEPT ![p] = "read"]
      BY <1>3, <2>3 DEF Advance
    <3>2. cells[p][want[p]] + 1 \in CountType /\ cells[p][want[p]] + 1 # NoBuffer
      BY <2>1, <2>3 DEF CountType, NoBuffer
    <3>3. want[p] \in HeldBy(p)' /\ \A q \in Procs \ {p} : cells'[q] = cells[q]
      BY <1>1, <1>2, <3>1, <3>2
    <3>4. SourceOK(p)'
      BY <1>1, <2>2, <3>1, <3>3 DEF SourceOK, Fetching
    <3>5. \A q \in Procs \ {p} : SourceOK(q)'
      BY <1>1, <2>2, <3>1, <3>3, SourceUnchanged
    <3>6. QED
      BY <3>4, <3>5
  <2>4. CASE ~(cells[p][want[p]] + 1 < BufPoints)
    <3>1. /\ cells' = [cells EXCEPT ![p][want[p]] = NoBuffer]
          /\ pc' = [pc EXCEPT ![p] = "fetch"]
      BY <1>3, <2>4 DEF Advance
    <3>2. \A q \in Procs \ {p} : cells'[q] = cells[q]
      BY <1>0, <1>1, <1>2, <3>1
    <3>3. SourceOK(p)'
      BY <1>1, <2>2, <3>1 DEF SourceOK, Fetching
    <3>4. \A q \in Procs \ {p} : SourceOK(q)'
      BY <1>1, <2>2, <3>1, <3>2, SourceUnchanged
    <3>5. QED
      BY <3>3, <3>4
  <2>5. QED
    BY <2>3, <2>4
<1>4. CASE (FetchBuffer(p) \/ FetchBlocking(p) \/ Wake(p)) /\ Acquire(p)
  <2>1. /\ UNCHANGED <<cell, want>> /\ pc[p] \in Fetching
        /\ cells' = [cells EXCEPT ![p][want[p]] = 0]
        /\ pc' = [pc EXCEPT ![p] = IF want[p] = cell[p] THEN "read" ELSE "copy"]
    BY <1>4 DEF FetchBuffer, FetchBlocking, Wake, Acquire, Fetching
  <2>2. /\ HeldBy(p)' = HeldBy(p) \cup {want[p]}
        /\ \A q \in Procs \ {p} : cells'[q] = cells[q]
    BY <1>0, <1>1, <1>2, <2>1
  <2>3. SourceOK(p)'
    BY <1>1, <2>1, <2>2 DEF SourceOK, Fetching
  <2>4. \A q \in Procs \ {p} : SourceOK(q)'
    BY <1>1, <2>1, <2>2, SourceUnchanged
  <2>5. QED
    BY <2>3, <2>4
<1>5. CASE (FetchBuffer(p) \/ FetchBlocking(p) \/ Wake(p) \/ EndTask(p)) /\ ~Acquire(p)
  <2>1. /\ UNCHANGED <<cells, cell, want>>
        /\ \E v \in {"flush", "asleep", "unwind", "idle"} : pc' = [pc EXCEPT ![p] = v]
        /\ pc[p] \in Fetching \cup {"unwind"}
    BY <1>5 DEF FetchBuffer, FetchBlocking, Wake, EndTask, Sleep, Fetching
  <2>2. pc[p] = "unwind" => pc'[p] = "idle"
    BY <1>1, <1>5 DEF FetchBuffer, FetchBlocking, Wake, EndTask
  <2>3. SourceOK(p)'
    BY <1>1, <2>1, <2>2 DEF SourceOK, HeldBy, Fetching
  <2>4. \A q \in Procs \ {p} : SourceOK(q)'
    BY <1>1, <2>1, SourceUnchanged
  <2>5. QED
    BY <2>3, <2>4
<1>6. ASSUME NEW k \in CellKeys, FlushCell(p, k) \/ DestroyCell(p, k)
      PROVE  SourcesHeld'
  <2>1. /\ UNCHANGED <<cell, want>> /\ cells' = [cells EXCEPT ![p][k] = NoBuffer]
        /\ pc[p] = "unwind" \/ (pc[p] = "flush" /\ k # cell[p])
        /\ pc' = pc \/ Replace
    BY <1>6 DEF FlushCell, DestroyCell, Release
  <2>2. \A q \in Procs : pc'[q] = pc[q] \/ (pc[q] = "asleep" /\ pc'[q] = "woken")
    BY <1>1, <2>1, ReplaceTypes
  <2>3. HeldBy(p)' = HeldBy(p) \ {k} /\ \A q \in Procs \ {p} : cells'[q] = cells[q]
    BY <1>0, <1>1, <1>2, <2>1
  <2>4. SourceOK(p)'
    BY <2>1, <2>2, <2>3 DEF SourceOK, Fetching
  <2>5. \A q \in Procs \ {p} : SourceOK(q)'
    BY <2>1, <2>2, <2>3, SourceUnchanged
  <2>6. QED
    BY <2>4, <2>5
<1>7. (FetchBuffer(p) \/ FetchBlocking(p) \/ Wake(p) \/ EndTask(p)) /\ Acquire(p) =>
        FetchBuffer(p) \/ FetchBlocking(p) \/ Wake(p)
  BY <1>1 DEF EndTask, Acquire
<1>8. QED
  BY <1>3, <1>4, <1>5, <1>6, <1>7 DEF CellWork

LEMMA SourcesHeldStep == Local /\ SourcesHeld /\ [Next]_vars => SourcesHeld'
<1> SUFFICES ASSUME Local, SourcesHeld, [Next]_vars PROVE SourcesHeld'
  OBVIOUS
<1> USE DEF SourcesHeld
<1>1. pc \in [Procs -> PcType] /\ want \in [Procs -> CellKeys] /\ cell \in [Procs -> CellKeys]
      /\ StateOK
  BY DEF Local, StateOK, PcType
<1>2. ASSUME NEW p \in Procs, ClaimFile(p) \/ EndOfFile(p) \/ \E k \in Keys : ReadPoint(p, k)
      PROVE  SourcesHeld'
  <2>1. UNCHANGED cells /\ \A q \in Procs \ {p} : UNCHANGED <<pc[q], cell[q], want[q]>>
    BY <1>1, <1>2 DEF ClaimFile, EndOfFile, ReadPoint
  <2>2. CASE ClaimFile(p) \/ EndOfFile(p)
    BY <1>1, <2>1, <2>2, SourceUnchanged DEF ClaimFile, EndOfFile, SourceOK, Fetching
  <2>3. ASSUME NEW k \in Keys, ReadPoint(p, k)
        PROVE  SourcesHeld'
    <3>1. /\ pc[p] = "read" /\ cell' = cell /\ want' = [want EXCEPT ![p] = k]
          /\ HeldBy(p)' = HeldBy(p)
      BY <2>3 DEF ReadPoint, HeldBy
    <3>2. pc'[p] \in {"copy", "fetch"}
      BY <1>1, <2>3 DEF ReadPoint
    <3>3. SourceOK(p)'
      BY <1>1, <3>1, <3>2 DEF SourceOK
    <3>4. \A q \in Procs \ {p} : SourceOK(q)'
      BY <2>1, SourceUnchanged
    <3>5. QED
      BY <3>3, <3>4
  <2>4. QED
    BY <1>2, <2>2, <2>3
<1>3. ASSUME NEW p \in Procs, CellWork(p)
      PROVE  SourcesHeld'
  BY <1>3, SourceCellWork
<1>4. ASSUME UNCHANGED <<cells, cell, want>>, pc' = pc \/ Replace
      PROVE  SourcesHeld'
  BY <1>1, <1>4, ReplaceTypes, SourceUnchanged
<1>5. ASSUME NEW w \in Writers, WriterStep(w)
      PROVE  SourcesHeld'
  BY <1>4, <1>5 DEF WriterStep, TakeEntry, NoEntry, WriteDone, WriteFails, procVars
<1>6. CASE MainStep \/ UNCHANGED vars
  BY <1>4, <1>6 DEF MainStep, JoinPool, StopWriter, JoinWriters, vars, procVars
<1>7. QED
  BY <1>2, <1>3, <1>5, <1>6 DEF Next, ProcStep, Finished

-----------------------------------------------------------------------------
(* Counting buffers, and the wakeups of the processors that wait for them. *)

Counting == BufferConservation /\ NoLostBufferWakeup

LEMMA CountsAreFinite ==
    /\ IsFiniteSet(Held) /\ IsFiniteSet(Busy) /\ IsFiniteSet(Woken)
    /\ Cardinality(Held) \in Nat /\ Cardinality(Busy) \in Nat /\ Cardinality(Woken) \in Nat
<1>1. IsFiniteSet(CellKeys)
  BY ThreadAssumption, FS_AddElement DEF CellKeys
<1>2. IsFiniteSet(Procs \X CellKeys)
  BY <1>1, ThreadAssumption, FS_Product
<1>3. /\ Held \in SUBSET (Procs \X CellKeys)
      /\ Busy \in SUBSET Writers /\ Woken \in SUBSET Procs
  BY DEF Held, Busy, Woken
<1>4. IsFiniteSet(Held) /\ IsFiniteSet(Busy) /\ IsFiniteSet(Woken)
  BY <1>2, <1>3, ThreadAssumption, FS_Subset
<1>5. QED
  BY <1>4, FS_CardinalityType

LEMMA NextWokenIsFinite == Cardinality(Woken') \in Nat
<1>1. Woken' \in SUBSET Procs
  BY DEF Woken
<1>2. IsFiniteSet(Woken')
  BY <1>1, ThreadAssumption, FS_Subset
<1>3. QED
  BY <1>2, FS_CardinalityType

\* A cell that gets or loses its buffer changes the number of held ones by one.
LEMMA HeldCount ==
    ASSUME StateOK, NEW p \in Procs, NEW k \in CellKeys, NEW v \in CountType,
           cells' = [cells EXCEPT ![p][k] = v]
    PROVE  /\ cells[p][k] = NoBuffer /\ v # NoBuffer =>
                 Cardinality(Held') = Cardinality(Held) + 1
           /\ cells[p][k] # NoBuffer /\ v = NoBuffer =>
                 Cardinality(Held') = Cardinality(Held) - 1
           /\ cells[p][k] # NoBuffer /\ v # NoBuffer =>
                 Cardinality(Held') = Cardinality(Held)
<1>1. /\ cells'[p][k] = v
      /\ \A j \in CellKeys \ {k} : cells'[p][j] = cells[p][j]
      /\ \A q \in Procs \ {p} : cells'[q] = cells[q]
  BY SetCell
<1>2. \A c \in Procs \X CellKeys : c # <<p, k>> => cells'[c[1]][c[2]] = cells[c[1]][c[2]]
  BY <1>1
<1>3. <<p, k>> \in Held <=> cells[p][k] # NoBuffer
  BY DEF Held
<1>4. <<p, k>> \in Held' <=> v # NoBuffer
  BY <1>1 DEF Held
<1>5. CASE v # NoBuffer
  <2>1. Held' = Held \cup {<<p, k>>}
    BY <1>2, <1>4, <1>5 DEF Held
  <2>2. QED
    BY <1>3, <1>5, <2>1, CountsAreFinite, FS_AddElement
<1>6. CASE v = NoBuffer
  <2>1. Held' = Held \ {<<p, k>>}
    BY <1>2, <1>4, <1>6 DEF Held
  <2>2. QED
    BY <1>3, <1>6, <2>1, CountsAreFinite, FS_RemoveElement
<1>7. QED
  BY <1>5, <1>6

\* So does a writer thread that starts or ends a write.
LEMMA BusyStart ==
    ASSUME StateOK, NEW w \in Writers, wpc[w] = "scan", wpc' = [wpc EXCEPT ![w] = "write"]
    PROVE  Cardinality(Busy') = Cardinality(Busy) + 1
<1>1. Busy' = Busy \cup {w} /\ w \notin Busy
  BY DEF StateOK, Busy
<1>2. QED
  BY <1>1, CountsAreFinite, FS_AddElement

LEMMA BusyEnd ==
    ASSUME StateOK, NEW w \in Writers, wpc[w] = "write", wpc' = [wpc EXCEPT ![w] = "scan"]
    PROVE  Cardinality(Busy') = Cardinality(Busy) - 1
<1>1. Busy' = Busy \ {w} /\ w \in Busy
  BY DEF StateOK, Busy
<1>2. QED
  BY <1>1, CountsAreFinite, FS_RemoveElement

\* A step that leaves sleepers and woken threads alone keeps their wakeups.
LEMMA QuietStep ==
    ASSUME StateOK, NEW p \in Procs, NEW v, pc' = [pc EXCEPT ![p] = v],
           pc[p] \notin {"asleep", "woken"}, v \notin {"asleep", "woken"}
    PROVE  Asleep' = Asleep /\ Woken' = Woken
BY DEF StateOK, Asleep, Woken

\* fetch() by a processor that is not asleep: it takes a buffer, or sleeps
\* because there is none.
LEMMA FetchCounting ==
    ASSUME Local, Counting, NEW p \in Procs, pc[p] \in Fetching \ {"asleep"},
           Acquire(p) \/ Sleep(p), UNCHANGED <<cell, want, queue, wpc, werrors>>
    PROVE  Counting'
<1> USE ConstantFacts
<1>1. /\ cached \in Nat /\ made \in 0..MaxBuffers /\ want[p] \in CellKeys
      /\ pc \in [Procs -> PcType] /\ Len(queue) \in Nat /\ werrors \in Nat
  BY DEF Local, StateOK, PcType
<1>2. Busy' = Busy
  BY DEF Busy
<1>3. CASE Acquire(p)
  <2>1. /\ cells' = [cells EXCEPT ![p][want[p]] = 0]
        /\ Available
        /\ IF cached > 0 THEN cached' = cached - 1 /\ UNCHANGED made
                         ELSE made' = made + 1 /\ UNCHANGED cached
        /\ pc' = [pc EXCEPT ![p] = IF want[p] = cell[p] THEN "read" ELSE "copy"]
    BY <1>3 DEF Acquire
  <2>2. cells[p][want[p]] = NoBuffer /\ 0 \in CountType /\ 0 # NoBuffer
    BY <1>1 DEF Local, CellsOK, ProcOK, HeldBy, CountType, NoBuffer
  <2>3. Cardinality(Held') = Cardinality(Held) + 1
    BY <1>1, <2>1, <2>2, HeldCount DEF Local
  <2>4. BufferConservation'
    <3>1. made = cached + Cardinality(Held) + Len(queue) + Cardinality(Busy) + werrors
      BY DEF Counting, BufferConservation
    <3>2. Len(queue') = Len(queue) /\ werrors' = werrors /\ Busy' = Busy
      BY <1>2
    <3>3. CASE cached > 0
      <4>1. cached' = cached - 1 /\ made' = made
        BY <2>1, <3>3
      <4>2. QED
        BY <1>1, <2>3, <3>1, <3>2, <4>1, CountsAreFinite DEF BufferConservation
    <3>4. CASE ~(cached > 0)
      <4>1. cached' = cached /\ made' = made + 1
        BY <2>1, <3>4
      <4>2. PICK c, h, q, b, e \in Nat : /\ c = cached /\ h = Cardinality(Held) /\ q = Len(queue)
                                         /\ b = Cardinality(Busy) /\ e = werrors
        BY <1>1, CountsAreFinite
      <4>3. (c + h + q + b + e) + 1 = c + (h + 1) + q + b + e
        OBVIOUS
      <4>4. /\ made' = (c + h + q + b + e) + 1 /\ cached' = c /\ Cardinality(Held)' = h + 1
            /\ Len(queue)' = q /\ Cardinality(Busy)' = b /\ werrors' = e
        BY <2>3, <3>1, <3>2, <4>1, <4>2
      <4>5. QED
        BY <4>3, <4>4 DEF BufferConservation
    <3>5. QED
      BY <3>3, <3>4
  <2>5. Asleep' = Asleep /\ Woken' = Woken \ {p}
    BY <1>1, <2>1 DEF Asleep, Woken
  <2>6. Cardinality(Woken') >= Cardinality(Woken) - 1
    <3>1. IsFiniteSet(Woken) /\ Cardinality(Woken) \in Nat
      BY CountsAreFinite
    <3>2. CASE p \in Woken
      <4>1. Cardinality(Woken \ {p}) = Cardinality(Woken) - 1
        BY <3>1, <3>2, FS_RemoveElement
      <4>2. QED
        BY <2>5, <3>1, <4>1
    <3>3. CASE p \notin Woken
      <4>1. Woken' = Woken
        BY <2>5, <3>3
      <4>2. QED
        BY <3>1, <4>1
    <3>4. QED
      BY <3>2, <3>3
  <2>7. NoLostBufferWakeup'
    <3>1. CASE Asleep = {}
      BY <2>5, <3>1 DEF NoLostBufferWakeup
    <3>2. CASE Asleep # {}
      <4>1. made = MaxBuffers /\ cached <= Cardinality(Woken)
        BY <3>2 DEF Counting, NoLostBufferWakeup
      <4>2. cached' = cached - 1 /\ made' = MaxBuffers
        BY <1>1, <2>1, <4>1 DEF Available
      <4>3. QED
        BY <1>1, <2>6, <4>1, <4>2, CountsAreFinite, NextWokenIsFinite DEF NoLostBufferWakeup
    <3>3. QED
      BY <3>1, <3>2
  <2>8. QED
    BY <2>4, <2>7 DEF Counting
<1>4. CASE Sleep(p)
  <2>1. ~Available /\ UNCHANGED <<cells, cached, made>>
    BY <1>4 DEF Sleep
  <2>2. cached' = 0 /\ made' = MaxBuffers
    BY <1>1, <2>1 DEF Available
  <2>3. Held' = Held
    BY <2>1 DEF Held
  <2>4. BufferConservation'
    BY <1>2, <2>1, <2>3 DEF Counting, BufferConservation
  <2>5. NoLostBufferWakeup'
    BY <2>2, NextWokenIsFinite DEF NoLostBufferWakeup
  <2>6. QED
    BY <2>4, <2>5 DEF Counting
<1>5. QED
  BY <1>3, <1>4

\* replace(): the buffer that comes back has a woken processor, if one waits.
LEMMA ReplaceWakes ==
    ASSUME StateOK, NoLostBufferWakeup, Replace, UNCHANGED made
    PROVE  NoLostBufferWakeup'
<1>1. /\ cached \in Nat /\ made \in 0..MaxBuffers /\ pc \in [Procs -> PcType]
      /\ cached' = cached + 1
  BY DEF StateOK, PcType, Replace
<1>2. CASE Asleep = {}
  <2>1. pc' = pc
    BY <1>1, <1>2 DEF Asleep, Replace, NotifyOne
  <2>2. QED
    BY <1>2, <2>1 DEF NoLostBufferWakeup, Asleep
<1>3. CASE Asleep # {}
  <2>1. made = MaxBuffers /\ cached <= Cardinality(Woken)
    BY <1>3 DEF NoLostBufferWakeup
  <2>2. PICK x \in Procs : pc[x] = "asleep" /\ pc' = [pc EXCEPT ![x] = "woken"]
    BY <1>1, <1>3, <2>1 DEF Asleep, Replace, NotifyOne
  <2>3. Woken' = Woken \cup {x} /\ x \notin Woken
    BY <1>1, <2>2 DEF Woken
  <2>4. Cardinality(Woken') = Cardinality(Woken) + 1
    BY <2>3, CountsAreFinite, FS_AddElement
  <2>5. QED
    BY <1>1, <2>1, <2>4, CountsAreFinite DEF NoLostBufferWakeup
<1>4. QED
  BY <1>2, <1>3

\* The writer threads' sleepers are not the processors': only writes count.
LEMMA EnqueueCounting ==
    ASSUME Local, NEW k \in Keys, NEW n \in 1..BufPoints, Enqueue(k, n)
    PROVE  Busy' = Busy /\ Len(queue') = Len(queue) + 1
BY EnqueueTypes DEF Local, Busy

LEMMA ReleaseCounting ==
    ASSUME Local, Counting, NEW p \in Procs, NEW k \in CellKeys, k \in HeldBy(p), Release(p, k)
    PROVE  Counting'
<1> USE ConstantFacts
<1>1. cached \in Nat /\ made \in Nat /\ Len(queue) \in Nat /\ werrors \in Nat
  BY DEF Local, StateOK
<1>2. /\ cells[p][k] \in CountType /\ cells[p][k] # NoBuffer /\ NoBuffer \in CountType
      /\ StateOK
  BY DEF Local, StateOK, HeldBy, CountType, NoBuffer
<1>3. cells' = [cells EXCEPT ![p][k] = NoBuffer]
  BY DEF Release
<1>4. made' = made /\ werrors' = werrors
  BY DEF Release
<1>5. made = cached + Cardinality(Held) + Len(queue) + Cardinality(Busy) + werrors
  BY DEF Counting, BufferConservation
<1>6. Cardinality(Held') = Cardinality(Held) - 1
  BY <1>2, <1>3, HeldCount
<1>7. CASE cells[p][k] > 0
  <2>1. k \in Keys /\ cells[p][k] \in 1..BufPoints
    BY <1>2, <1>7 DEF Local, CellsOK, ProcOK, CellKeys, CountType, NoBuffer
  <2>2. Enqueue(k, cells[p][k]) /\ UNCHANGED <<pc, cached>>
    BY <1>7 DEF Release
  <2>3. Busy' = Busy /\ Len(queue') = Len(queue) + 1
    BY <2>1, <2>2, EnqueueCounting
  <2>4. cached' = cached
    BY <2>2
  <2>5. PICK c, h, q, b, e \in Nat : /\ c = cached /\ h = Cardinality(Held) /\ q = Len(queue)
                                     /\ b = Cardinality(Busy) /\ e = werrors
    BY <1>1, CountsAreFinite
  <2>6. BufferConservation'
    <3>1. c + h + q + b + e = c + (h - 1) + (q + 1) + b + e
      OBVIOUS
    <3>2. /\ made' = c + h + q + b + e /\ cached' = c /\ Cardinality(Held)' = h - 1
          /\ Len(queue)' = q + 1 /\ Cardinality(Busy)' = b /\ werrors' = e
      BY <1>4, <1>5, <1>6, <2>3, <2>4, <2>5
    <3>3. QED
      BY <3>1, <3>2 DEF BufferConservation
  <2>7. NoLostBufferWakeup'
    BY <1>4, <2>2 DEF Counting, NoLostBufferWakeup, Asleep, Woken
  <2>8. QED
    BY <2>6, <2>7 DEF Counting
<1>8. CASE ~(cells[p][k] > 0)
  <2>1. Replace /\ UNCHANGED <<queue, totals, wpc>>
    BY <1>8 DEF Release
  <2>2. cached' = cached + 1 /\ Busy' = Busy
    BY <2>1 DEF Replace, Busy
  <2>3. BufferConservation'
    BY <1>1, <1>4, <1>5, <1>6, <2>1, <2>2, CountsAreFinite DEF BufferConservation
  <2>4. NoLostBufferWakeup'
    BY <1>2, <1>4, <2>1, ReplaceWakes DEF Counting
  <2>5. QED
    BY <2>3, <2>4 DEF Counting
<1>9. QED
  BY <1>7, <1>8

LEMMA CountingInit == Fresh => Counting
<1> SUFFICES ASSUME Fresh
             PROVE  Counting
  OBVIOUS
<1>1. Held = {} /\ Busy = {} /\ Asleep = {}
  BY DEF Fresh, Held, Busy, Asleep, NoBuffer
<1>2. Cardinality(Held) = 0 /\ Cardinality(Busy) = 0 /\ Len(queue) = 0
  BY <1>1, FS_EmptySet DEF Fresh
<1>3. QED
  BY <1>1, <1>2 DEF Fresh, Counting, BufferConservation, NoLostBufferWakeup

\* A processor's step that touches no buffer, sleeper or woken thread.
LEMMA QuietCounting ==
    ASSUME Local, Counting, UNCHANGED <<cells, cached, made, queue, wpc, werrors>>,
           NEW p \in Procs, NEW v \in {"idle", "read", "copy", "unwind", "fetch", "flush"},
           pc' = [pc EXCEPT ![p] = v], pc[p] \notin {"asleep", "woken"}
    PROVE  Counting'
<1>1. Asleep' = Asleep /\ Woken' = Woken
  BY QuietStep DEF Local
<1>2. Held' = Held /\ Busy' = Busy
  BY DEF Held, Busy
<1>3. QED
  BY <1>1, <1>2 DEF Counting, BufferConservation, NoLostBufferWakeup

LEMMA CountingCellWork ==
    ASSUME Local, Counting, NEW p \in Procs, CellWork(p)
    PROVE  Counting'
<1> USE ConstantFacts
<1>1. /\ cached \in Nat /\ made \in 0..MaxBuffers /\ Len(queue) \in Nat /\ werrors \in Nat
      /\ StateOK
  BY DEF Local, StateOK
<1>2. CASE Advance(p)
  <2> DEFINE k == want[p]
             n == cells[p][k] + 1
  <2>1. /\ pc[p] = "copy" /\ k \in Keys /\ k \in CellKeys /\ cells[p][k] # NoBuffer
        /\ cells[p][k] \in CountType /\ n \in 1..BufPoints
        /\ NoBuffer \in CountType /\ (n < BufPoints => n \in CountType /\ n # NoBuffer)
    BY <1>2 DEF Advance, Local, CellsOK, StateOK, ProcOK, HeldBy, CountType, NoBuffer
  <2>2. UNCHANGED <<cached, made, werrors>>
    BY <1>2 DEF Advance
  <2>3. CASE n < BufPoints
    <3>1. /\ cells' = [cells EXCEPT ![p][k] = n]
          /\ pc' = [pc EXCEPT ![p] = "read"]
          /\ UNCHANGED <<queue, wpc>>
      BY <1>2, <2>3 DEF Advance
    <3>2. Cardinality(Held') = Cardinality(Held)
      BY <1>1, <2>1, <2>3, <3>1, HeldCount
    <3>3. Asleep' = Asleep /\ Woken' = Woken
      BY <1>1, <2>1, <3>1, QuietStep
    <3>4. QED
      BY <2>2, <3>1, <3>2, <3>3 DEF Counting, BufferConservation, NoLostBufferWakeup, Busy
  <2>4. CASE ~(n < BufPoints)
    <3>1. /\ cells' = [cells EXCEPT ![p][k] = NoBuffer]
          /\ pc' = [pc EXCEPT ![p] = "fetch"]
          /\ Enqueue(k, n)
      BY <1>2, <2>4 DEF Advance
    <3>2. Cardinality(Held') = Cardinality(Held) - 1
      BY <1>1, <2>1, <3>1, HeldCount
    <3>3. Asleep' = Asleep /\ Woken' = Woken
      BY <1>1, <2>1, <3>1, QuietStep
    <3>4. Busy' = Busy /\ Len(queue') = Len(queue) + 1
      BY <2>1, <3>1, EnqueueCounting
    <3>5. made = cached + Cardinality(Held) + Len(queue) + Cardinality(Busy) + werrors
      BY DEF Counting, BufferConservation
    <3>6. BufferConservation'
      <4>1. PICK c, h, q, b, e \in Nat : /\ c = cached /\ h = Cardinality(Held) /\ q = Len(queue)
                                         /\ b = Cardinality(Busy) /\ e = werrors
        BY <1>1, CountsAreFinite
      <4>2. c + h + q + b + e = c + (h - 1) + (q + 1) + b + e
        OBVIOUS
      <4>3. /\ made' = made /\ cached' = c /\ Cardinality(Held)' = h - 1 /\ Len(queue)' = q + 1
            /\ Cardinality(Busy)' = b /\ werrors' = e
        BY <2>2, <3>2, <3>4, <4>1
      <4>4. made = c + h + q + b + e
        BY <3>5, <4>1
      <4>5. QED
        BY <4>2, <4>3, <4>4 DEF BufferConservation
    <3>7. NoLostBufferWakeup'
      BY <2>2, <3>3 DEF Counting, NoLostBufferWakeup
    <3>8. QED
      BY <3>6, <3>7 DEF Counting
  <2>5. QED
    BY <2>3, <2>4
<1>3. CASE FetchBuffer(p)
  <2>1. /\ pc[p] = "fetch" /\ pc[p] \in Fetching \ {"asleep"}
        /\ UNCHANGED <<cell, want, queue, wpc, werrors>>
    BY <1>3 DEF FetchBuffer, writerVars, Fetching
  <2>2. CASE Acquire(p) \/ Sleep(p)
    BY <2>1, <2>2, FetchCounting
  <2>3. CASE /\ pc' = [pc EXCEPT ![p] = "flush"]
             /\ UNCHANGED <<cells, cached, made, threw>>
    BY <2>1, <2>3, QuietCounting
  <2>4. QED
    BY <1>3, <2>2, <2>3 DEF FetchBuffer
<1>4. ASSUME NEW k \in CellKeys, FlushCell(p, k) \/ DestroyCell(p, k)
      PROVE  Counting'
  BY <1>4, ReleaseCounting DEF FlushCell, DestroyCell
<1>5. CASE FetchBlocking(p)
  <2>1. /\ pc[p] = "flush" /\ pc[p] \in Fetching \ {"asleep"}
        /\ UNCHANGED <<cell, want, queue, wpc, werrors>>
    BY <1>5 DEF FetchBlocking, writerVars, Fetching
  <2>2. CASE Acquire(p) \/ Sleep(p)
    BY <2>1, <2>2, FetchCounting
  <2>3. CASE /\ pc' = [pc EXCEPT ![p] = "unwind"]
             /\ UNCHANGED <<cells, cached, made>>
    BY <2>1, <2>3, QuietCounting
  <2>4. QED
    BY <1>5, <2>2, <2>3 DEF FetchBlocking
<1>6. CASE Wake(p)
  <2>1. /\ pc[p] \in Fetching \ {"asleep"} /\ UNCHANGED <<cell, want, queue, wpc, werrors>>
        /\ Acquire(p) \/ Sleep(p)
    BY <1>6 DEF Wake, writerVars, Fetching
  <2>2. QED
    BY <2>1, FetchCounting
<1>7. CASE EndTask(p)
  BY <1>7, QuietCounting DEF EndTask, writerVars
<1>8. QED
  BY <1>2, <1>3, <1>4, <1>5, <1>6, <1>7 DEF CellWork

LEMMA CountingWriterStep ==
    ASSUME Local, Counting, NEW w \in Writers, WriterStep(w)
    PROVE  Counting'
<1> USE ConstantFacts
<1>1. /\ cached \in Nat /\ made \in 0..MaxBuffers /\ Len(queue) \in Nat /\ werrors \in Nat
      /\ StateOK
  BY DEF Local, StateOK
<1>2. CASE TakeEntry(w)
  <2>1. PICK i \in Writable : queue' = RemoveAt(queue, i)
    BY <1>2 DEF TakeEntry
  <2>2. Len(queue') = Len(queue) - 1
    BY <1>1, <2>1, RemoveAtShortens DEF Writable, StateOK
  <2>3. /\ wpc[w] = "scan" /\ wpc' = [wpc EXCEPT ![w] = "write"]
        /\ UNCHANGED <<pc, cells, cached, made, werrors>>
    BY <1>2 DEF TakeEntry, procVars
  <2>4. Cardinality(Busy') = Cardinality(Busy) + 1
    BY <1>1, <2>3, BusyStart
  <2>5. Held' = Held /\ Asleep' = Asleep /\ Woken' = Woken
    BY <2>3 DEF Held, Asleep, Woken
  <2>6. BufferConservation'
    BY <1>1, <2>2, <2>3, <2>4, <2>5, CountsAreFinite DEF Counting, BufferConservation
  <2>7. NoLostBufferWakeup'
    BY <2>3, <2>5 DEF Counting, NoLostBufferWakeup
  <2>8. QED
    BY <2>6, <2>7 DEF Counting
<1>3. CASE NoEntry(w)
  <2>1. /\ wpc[w] = "scan" /\ wpc' = [wpc EXCEPT ![w] = IF stop THEN "exited" ELSE "asleep"]
        /\ UNCHANGED <<pc, cells, cached, made, queue, werrors>>
    BY <1>3 DEF NoEntry, procVars
  <2>2. Busy' = Busy
    BY <1>1, <2>1 DEF Busy, StateOK
  <2>3. QED
    BY <2>1, <2>2 DEF Counting, BufferConservation, NoLostBufferWakeup, Held, Asleep, Woken
<1>4. CASE WriteDone(w)
  <2>1. /\ wpc[w] = "write" /\ wpc' = [wpc EXCEPT ![w] = "scan"] /\ Replace
        /\ UNCHANGED <<cells, made, queue, werrors>>
    BY <1>4 DEF WriteDone
  <2>2. Cardinality(Busy') = Cardinality(Busy) - 1
    BY <1>1, <2>1, BusyEnd
  <2>3. Held' = Held /\ cached' = cached + 1
    BY <2>1 DEF Held, Replace
  <2>4. NoLostBufferWakeup'
    BY <1>1, <2>1, ReplaceWakes DEF Counting
  <2>5. PICK c, h, q, b, e \in Nat : /\ c = cached /\ h = Cardinality(Held) /\ q = Len(queue)
                                     /\ b = Cardinality(Busy) /\ e = werrors
    BY <1>1, CountsAreFinite
  <2>6. c + h + q + b + e = (c + 1) + h + q + (b - 1) + e
    OBVIOUS
  <2>7. /\ made' = c + h + q + b + e /\ cached' = c + 1 /\ Cardinality(Held)' = h
        /\ Len(queue)' = q /\ Cardinality(Busy)' = b - 1 /\ werrors' = e
    BY <2>1, <2>2, <2>3, <2>5 DEF Counting, BufferConservation
  <2>8. QED
    BY <2>4, <2>6, <2>7 DEF Counting, BufferConservation
<1>5. CASE WriteFails(w)
  <2>1. /\ wpc[w] = "write" /\ wpc' = [wpc EXCEPT ![w] = "scan"]
        /\ werrors' = werrors + 1
        /\ UNCHANGED <<pc, cells, cached, made, queue>>
    BY <1>5 DEF WriteFails, procVars
  <2>2. Cardinality(Busy') = Cardinality(Busy) - 1
    BY <1>1, <2>1, BusyEnd
  <2>3. Held' = Held /\ Asleep' = Asleep /\ Woken' = Woken
    BY <2>1 DEF Held, Asleep, Woken
  <2>4. BufferConservation'
    <3>1. made = cached + Cardinality(Held) + Len(queue) + Cardinality(Busy) + werrors
      BY DEF Counting, BufferConservation
    <3>2. PICK c, h, q, b, e \in Nat : /\ c = cached /\ h = Cardinality(Held) /\ q = Len(queue)
                                       /\ b = Cardinality(Busy) /\ e = werrors
      BY <1>1, CountsAreFinite
    <3>3. c + h + q + b + e = c + h + q + (b - 1) + (e + 1)
      OBVIOUS
    <3>4. /\ made' = made /\ cached' = c /\ Cardinality(Held)' = h /\ Len(queue)' = q
          /\ Cardinality(Busy)' = b - 1 /\ werrors' = e + 1
      BY <2>1, <2>2, <2>3, <3>2
    <3>5. made = c + h + q + b + e
      BY <3>1, <3>2
    <3>6. QED
      BY <3>3, <3>4, <3>5 DEF BufferConservation
  <2>5. NoLostBufferWakeup'
    BY <2>1, <2>3 DEF Counting, NoLostBufferWakeup
  <2>6. QED
    BY <2>4, <2>5 DEF Counting
<1>6. QED
  BY <1>2, <1>3, <1>4, <1>5 DEF WriterStep

\* Waking all the writer threads makes none of them busy.
LEMMA CountingUnchanged ==
    ASSUME Local, Counting, UNCHANGED <<pc, cells, cached, made, queue, werrors>>,
           wpc' = wpc \/ wpc' = [w \in Writers |-> IF wpc[w] = "asleep" THEN "scan" ELSE wpc[w]]
    PROVE  Counting'
<1>1. Busy' = Busy
  BY DEF Busy
<1>2. QED
  BY <1>1 DEF Counting, BufferConservation, NoLostBufferWakeup, Held, Asleep, Woken

LEMMA CountingStep == Local /\ Counting /\ [Next]_vars => Counting'
<1> SUFFICES ASSUME Local, Counting, [Next]_vars
             PROVE  Counting'
  OBVIOUS
<1>1. ASSUME NEW p \in Procs, ClaimFile(p) \/ EndOfFile(p) \/ \E k \in Keys : ReadPoint(p, k)
      PROVE  Counting'
  BY <1>1, QuietCounting DEF ClaimFile, EndOfFile, ReadPoint, writerVars
<1>2. ASSUME NEW p \in Procs, CellWork(p)
      PROVE  Counting'
  BY <1>2, CountingCellWork
<1>3. ASSUME NEW w \in Writers, WriterStep(w)
      PROVE  Counting'
  BY <1>3, CountingWriterStep
<1>4. CASE MainStep \/ UNCHANGED vars
  BY <1>4, CountingUnchanged DEF MainStep, JoinPool, StopWriter, JoinWriters, vars, procVars, writerVars
<1>5. QED
  BY <1>1, <1>2, <1>3, <1>4 DEF Next, ProcStep, Finished

-----------------------------------------------------------------------------
(* The writer threads: who writes what, and when they may leave.           *)

Writing == OneWriterPerFile /\ ActiveOK /\ StopOK /\ NoEntryAbandoned

LEMMA WritingInit == Fresh => Writing /\ PhaseOK
<1> SUFFICES ASSUME Fresh
             PROVE  Writing /\ PhaseOK
  OBVIOUS
<1>1. Busy = {} /\ Writable = {} /\ active = {}
  BY DEF Fresh, Busy, Writable
<1>2. QED
  BY <1>1 DEF Fresh, Writing, OneWriterPerFile, ActiveOK, StopOK, PhaseOK, NoEntryAbandoned

\* All that a processor does to the writer is to queue points.
Queued ==
    \/ queue' = queue /\ wpc' = wpc /\ totals' = totals
    \/ \E k \in Keys : \E n \in 1..BufPoints : Enqueue(k, n)

LEMMA CellWorkKinds ==
    ASSUME Local, NEW p \in Procs, CellWork(p)
    PROVE  /\ UNCHANGED <<main, stop, werrors, active, writing, file, read, files>>
           /\ pc[p] # "idle" /\ Queued
<1> USE ConstantFacts DEF Queued
<1>1. CASE EndTask(p)
  BY <1>1 DEF EndTask, writerVars
<1>2. CASE FetchBuffer(p) \/ FetchBlocking(p) \/ Wake(p)
  BY <1>2 DEF FetchBuffer, FetchBlocking, Wake, writerVars, Fetching
<1>3. CASE Advance(p)
  <2>1. want[p] \in Keys /\ cells[p][want[p]] + 1 \in 1..BufPoints
    BY <1>3 DEF Advance, Local, CellsOK, StateOK, ProcOK, HeldBy, NoBuffer
  <2>2. QED
    BY <1>3, <2>1 DEF Advance
<1>4. ASSUME NEW k \in CellKeys, FlushCell(p, k) \/ DestroyCell(p, k)
      PROVE  /\ UNCHANGED <<main, stop, werrors, active, writing, file, read, files>>
             /\ pc[p] # "idle" /\ Queued
  <2>1. Release(p, k) /\ pc[p] # "idle"
    BY <1>4 DEF FlushCell, DestroyCell
  <2>2. cells[p][k] > 0 => k \in Keys /\ cells[p][k] \in 1..BufPoints
    BY DEF Local, CellsOK, ProcOK, StateOK, CellKeys, NoBuffer
  <2>3. QED
    BY <2>1, <2>2 DEF Release
<1>5. QED
  BY <1>1, <1>2, <1>3, <1>4 DEF CellWork

LEMMA ProcStepKinds ==
    ASSUME Local, NEW p \in Procs, ProcStep(p)
    PROVE  /\ UNCHANGED <<main, stop, werrors, active, writing, file>>
           /\ files > 0 \/ pc[p] # "idle"
           /\ Queued
<1>1. CASE ClaimFile(p) \/ (\E k \in Keys : ReadPoint(p, k)) \/ EndOfFile(p)
  BY <1>1 DEF ClaimFile, ReadPoint, EndOfFile, writerVars, Queued
<1>2. QED
  BY <1>1, CellWorkKinds DEF ProcStep

\* Waking sleepers does not change who is writing, nor who has exited.
LEMMA WakingWriters ==
    ASSUME OneWriterPerFile, ActiveOK,
           \A w \in Writers : wpc'[w] = wpc[w] \/ (wpc[w] = "asleep" /\ wpc'[w] = "scan"),
           UNCHANGED <<active, writing, werrors>>
    PROVE  /\ Busy' = Busy
           /\ OneWriterPerFile' /\ ActiveOK'
           /\ \A w \in Writers : wpc'[w] = "exited" <=> wpc[w] = "exited"
           /\ \A w \in Writers : wpc[w] \in {"scan", "write"} => wpc'[w] \in {"scan", "write"}
<1>1. Busy' = Busy
  BY DEF Busy
<1>2. QED
  BY <1>1 DEF OneWriterPerFile, ActiveOK


\* Points are queued only while no thread has reason to leave.
LEMMA WritingQueued ==
    ASSUME Local, Local', Writing, UNCHANGED <<stop, werrors, active, writing>>, Queued,
           stop => werrors > 0
    PROVE  Writing'
<1>1. CASE queue' = queue /\ wpc' = wpc
  <2>1. Writable' = Writable /\ Busy' = Busy
    BY <1>1 DEF Writable, Busy
  <2>2. QED
    BY <1>1, <2>1 DEF Writing, OneWriterPerFile, ActiveOK, StopOK, NoEntryAbandoned
<1>2. ASSUME NEW k \in Keys, NEW n \in 1..BufPoints, Enqueue(k, n)
      PROVE  Writing'
  <2>1. \A w \in Writers : wpc'[w] = wpc[w] \/ (wpc[w] = "asleep" /\ wpc'[w] = "scan")
    BY <1>2, EnqueueTypes DEF Local
  <2>2. /\ OneWriterPerFile' /\ ActiveOK'
        /\ \A w \in Writers : wpc'[w] = "exited" <=> wpc[w] = "exited"
        /\ \A w \in Writers : wpc[w] \in {"scan", "write"} => wpc'[w] \in {"scan", "write"}
    BY <2>1, WakingWriters DEF Writing
  <2>3. StopOK'
    BY <2>2 DEF Writing, StopOK
  <2>4. NoEntryAbandoned'
    <3>1. CASE werrors # 0
      BY <3>1 DEF NoEntryAbandoned
    <3>2. CASE werrors = 0 /\ \E w \in Writers : wpc[w] = "asleep"
      <4>1. \E w \in Writers : wpc'[w] = "scan"
        <5>1. wpc \in [Writers -> {"scan", "asleep", "write", "exited"}]
          BY DEF Local, StateOK
        <5>2. PICK x \in Writers : wpc' = [wpc EXCEPT ![x] = "scan"]
          BY <1>2, <3>2, <5>1 DEF Enqueue, NotifyOne
        <5>3. QED
          BY <5>1, <5>2
      <4>2. QED
        BY <4>1 DEF NoEntryAbandoned
    <3>3. CASE werrors = 0 /\ \A w \in Writers : wpc[w] # "asleep"
      <4>1. \A w \in Writers : wpc[w] # "exited"
        BY <3>3 DEF Writing, StopOK
      <4>2. \E w \in Writers : wpc[w] \in {"scan", "write"}
        BY <3>3, <4>1, ThreadAssumption DEF Local, StateOK
      <4>3. QED
        BY <2>2, <4>2 DEF NoEntryAbandoned
    <3>4. QED
      BY <3>1, <3>2, <3>3
  <2>5. QED
    BY <2>2, <2>3, <2>4 DEF Writing
<1>3. QED
  BY <1>1, <1>2 DEF Queued

LEMMA WritingWriterStep ==
    ASSUME Local, Writing, NEW w \in Writers, WriterStep(w)
    PROVE  Writing'
<1>1. CASE TakeEntry(w)
  <2>1. PICK i \in Writable :
              /\ writing' = [writing EXCEPT ![w] = queue[i]]
              /\ active' = active \cup {queue[i].key}
    BY <1>1 DEF TakeEntry
  <2>2. queue[i] \in Data /\ queue[i].key \notin active
    BY QueueEntry DEF Writable, Local
  <2>3. /\ wpc[w] = "scan" /\ wpc' = [wpc EXCEPT ![w] = "write"]
        /\ UNCHANGED <<pc, files, werrors, stop, main>>
    BY <1>1 DEF TakeEntry, procVars
  <2>4. Busy' = Busy \cup {w} /\ w \notin Busy /\ writing'[w] = queue[i]
        /\ \A v \in Busy : writing'[v] = writing[v]
    BY <2>1, <2>3 DEF Busy, Local, StateOK
  <2>5. OneWriterPerFile'
    BY <2>1, <2>2, <2>4 DEF Writing, OneWriterPerFile
  <2>6. ActiveOK'
    BY <2>1, <2>2, <2>3, <2>4 DEF Writing, ActiveOK
  <2>7. StopOK'
    BY <2>3 DEF Writing, StopOK, Local, StateOK
  <2>8. NoEntryAbandoned'
    BY <2>3 DEF NoEntryAbandoned, Local, StateOK
  <2>9. QED
    BY <2>5, <2>6, <2>7, <2>8 DEF Writing
<1>2. CASE NoEntry(w)
  <2>1. /\ wpc[w] = "scan" /\ Writable = {}
        /\ wpc' = [wpc EXCEPT ![w] = IF stop THEN "exited" ELSE "asleep"]
        /\ UNCHANGED <<pc, files, queue, active, writing, werrors, stop, main>>
    BY <1>2 DEF NoEntry, procVars
  <2>2. Busy' = Busy /\ Writable' = Writable
    BY <2>1 DEF Busy, Writable, Local, StateOK
  <2>3. OneWriterPerFile' /\ ActiveOK' /\ NoEntryAbandoned'
    BY <2>1, <2>2 DEF Writing, OneWriterPerFile, ActiveOK, NoEntryAbandoned
  <2>4. StopOK'
    BY <2>1 DEF Writing, StopOK, Local, StateOK
  <2>5. QED
    BY <2>3, <2>4 DEF Writing
<1>3. CASE WriteDone(w)
  <2>1. /\ wpc[w] = "write" /\ wpc' = [wpc EXCEPT ![w] = "scan"]
        /\ active' = active \ {writing[w].key}
        /\ writing' = [writing EXCEPT ![w] = NoData]
        /\ UNCHANGED <<files, werrors, stop, main>>
    BY <1>3 DEF WriteDone
  <2>2. Busy' = Busy \ {w} /\ w \in Busy /\ \A v \in Busy' : writing'[v] = writing[v]
    BY <2>1 DEF Busy, Local, StateOK
  <2>3. OneWriterPerFile' /\ ActiveOK'
    BY <2>1, <2>2 DEF Writing, OneWriterPerFile, ActiveOK
  <2>4. \A q \in Procs : pc[q] = "idle" => pc'[q] = "idle"
    BY <1>3, ReplaceTypes DEF WriteDone, Local
  <2>5. StopOK'
    BY <2>1, <2>4 DEF Writing, StopOK, Local, StateOK
  <2>6. NoEntryAbandoned'
    BY <2>1 DEF NoEntryAbandoned, Local, StateOK
  <2>7. QED
    BY <2>3, <2>5, <2>6 DEF Writing
<1>4. CASE WriteFails(w)
  <2>1. /\ wpc[w] = "write" /\ wpc' = [wpc EXCEPT ![w] = "scan"]
        /\ writing' = [writing EXCEPT ![w] = NoData]
        /\ werrors' = werrors + 1 /\ stop' = TRUE
        /\ UNCHANGED <<pc, files, active, main>>
    BY <1>4 DEF WriteFails, procVars
  <2>2. werrors' > 0
    BY <2>1 DEF Local, StateOK
  <2>3. Busy' = Busy \ {w} /\ \A v \in Busy' : writing'[v] = writing[v]
    BY <2>1 DEF Busy, Local, StateOK
  <2>4. OneWriterPerFile' /\ ActiveOK'
    BY <2>1, <2>2, <2>3 DEF Writing, OneWriterPerFile, ActiveOK
  <2>5. StopOK'
    BY <2>1, <2>2 DEF Writing, StopOK, Local, StateOK
  <2>6. NoEntryAbandoned'
    BY <2>2 DEF NoEntryAbandoned
  <2>7. QED
    BY <2>4, <2>5, <2>6 DEF Writing
<1>5. QED
  BY <1>1, <1>2, <1>3, <1>4 DEF WriterStep

\* Setting m_stop and waking the threads.
LEMMA WritingWoken ==
    ASSUME Writing, UNCHANGED <<queue, active, writing, werrors>>, stop' = stop \/ stop' = TRUE,
           \A w \in Writers : wpc'[w] = wpc[w] \/ (wpc[w] = "asleep" /\ wpc'[w] = "scan")
    PROVE  Writing'
<1>1. /\ OneWriterPerFile' /\ ActiveOK'
      /\ \A w \in Writers : wpc'[w] = "exited" <=> wpc[w] = "exited"
      /\ \A w \in Writers : wpc[w] \in {"scan", "write"} => wpc'[w] \in {"scan", "write"}
  BY WakingWriters DEF Writing
<1>2. Writable' = Writable
  BY DEF Writable
<1>3. NoEntryAbandoned' /\ StopOK'
  BY <1>1, <1>2 DEF Writing, NoEntryAbandoned, StopOK
<1>4. QED
  BY <1>1, <1>3 DEF Writing

LEMMA WritingStep == Local /\ Writing /\ PhaseOK /\ [Next]_vars => Writing' /\ PhaseOK'
<1> SUFFICES ASSUME Local, Writing, PhaseOK, [Next]_vars
             PROVE  Writing' /\ PhaseOK'
  OBVIOUS
<1>1. ASSUME NEW p \in Procs, ProcStep(p)
      PROVE  Writing' /\ PhaseOK'
  <2>1. /\ UNCHANGED <<main, stop, werrors, active, writing>> /\ Queued
        /\ files > 0 \/ pc[p] # "idle"
    BY <1>1, ProcStepKinds
  <2>2. main = "join" /\ (stop => werrors > 0)
    BY <2>1 DEF PhaseOK, Local, StateOK
  <2>3. Writing'
    BY <1>1, <2>1, <2>2, LocalStep, WritingQueued DEF Next
  <2>4. PhaseOK'
    BY <2>1, <2>2 DEF PhaseOK
  <2>5. QED
    BY <2>3, <2>4
<1>2. ASSUME NEW w \in Writers, WriterStep(w)
      PROVE  Writing' /\ PhaseOK'
  <2>1. wpc[w] \in {"scan", "write"} /\ UNCHANGED <<files, main>> /\ (pc' = pc \/ Replace)
    BY <1>2 DEF WriterStep, TakeEntry, NoEntry, WriteDone, WriteFails, procVars
  <2>2. \A q \in Procs : pc[q] = "idle" => pc'[q] = "idle"
    BY <2>1, ReplaceTypes DEF Local
  <2>3. stop' /\ werrors' = 0 => stop /\ werrors = 0
    <3>1. CASE WriteFails(w)
      BY <3>1 DEF WriteFails, Local, StateOK
    <3>2. CASE ~WriteFails(w)
      BY <1>2, <3>2 DEF WriterStep, TakeEntry, NoEntry, WriteDone, procVars
    <3>3. QED
      BY <3>1, <3>2
  <2>4. PhaseOK'
    BY <2>1, <2>2, <2>3 DEF PhaseOK
  <2>5. QED
    BY <1>2, <2>4, WritingWriterStep
<1>3. CASE MainStep \/ UNCHANGED vars
  <2>1. /\ UNCHANGED <<pc, files, queue, active, writing, werrors>> /\ (stop' = stop \/ stop' = TRUE)
        /\ \A w \in Writers : wpc'[w] = wpc[w] \/ (wpc[w] = "asleep" /\ wpc'[w] = "scan")
    BY <1>3 DEF MainStep, JoinPool, StopWriter, JoinWriters, vars, procVars, writerVars
  <2>2. PhaseOK'
    BY <1>3, <2>1 DEF PhaseOK, MainStep, JoinPool, StopWriter, JoinWriters, vars, writerVars
  <2>3. QED
    BY <2>1, <2>2, WritingWoken
<1>4. QED
  BY <1>1, <1>2, <1>3 DEF Next, Finished

-----------------------------------------------------------------------------
(* The theorems.                                                           *)

IInv == Local /\ SourcesHeld /\ Counting /\ Writing /\ PhaseOK

\* The inductive invariant holds in every reachable state of Epf::run's tiling
\* phase, whatever the constants.
THEOREM Invariance == Spec => []IInv
<1>1. Init => IInv
  BY InitIsFresh, LocalInit, SourcesHeldInit, CountingInit, WritingInit DEF IInv
<1>2. IInv /\ [Next]_vars => IInv'
  BY LocalStep, SourcesHeldStep, CountingStep, WritingStep DEF IInv
<1>3. QED
  BY <1>1, <1>2, PTL DEF Spec

\* Every variable keeps its type: in particular no empty buffer and no scratch
\* cell is ever queued for the Writer.
THEOREM TypeCorrect == Spec => []TypeOK
<1>1. IInv => TypeOK
  BY DEF IInv, Local, PhaseOK, TypeOK
<1>2. QED
  BY <1>1, Invariance, PTL

\* BufferCache loses no buffer but those of failed writes, and never has more
\* than MaxBuffers of them.
THEOREM BuffersConserved == Spec => []BufferConservation
<1>1. IInv => BufferConservation
  BY DEF IInv, Counting
<1>2. QED
  BY <1>1, Invariance, PTL

\* The cell that CellMgr::flush excludes still has its buffer when the point
\* is copied out of it.
THEOREM SourceKept == Spec => []SourceCellKept
<1>1. IInv => SourceCellKept
  BY DEF IInv, SourcesHeld, SourceOK, SourceCellKept
<1>2. QED
  BY <1>1, Invariance, PTL

\* Writer::run never has two threads append to one file.
THEOREM OneWriter == Spec => []OneWriterPerFile
<1>1. IInv => OneWriterPerFile
  BY DEF IInv, Writing
<1>2. QED
  BY <1>1, Invariance, PTL

\* notify_one in BufferCache::replace is enough: no wakeup of a processor is lost.
THEOREM BufferWakeups == Spec => []NoLostBufferWakeup
<1>1. IInv => NoLostBufferWakeup
  BY DEF IInv, Counting
<1>2. QED
  BY <1>1, Invariance, PTL

\* notify_one in Writer::enqueue is enough: no wakeup of a writer thread is lost.
THEOREM WriterWakeups == Spec => []NoLostWriterWakeup
<1>1. IInv => NoLostWriterWakeup
  BY DEF IInv, Local, StateOK, Writing, StopOK, NoEntryAbandoned, NoLostWriterWakeup
<1>2. QED
  BY <1>1, Invariance, PTL

\* What writer threads that have left leave behind.
LEMMA AllWritten ==
    ASSUME Local, Writing, \A w \in Writers : wpc[w] = "exited", werrors = 0
    PROVE  queue = <<>> /\ Busy = {}
<1>1. Busy = {}
  BY DEF Busy
<1>2. active = {}
  BY <1>1 DEF Writing, ActiveOK
<1>3. Writable = {}
  BY DEF Writing, NoEntryAbandoned
<1>4. queue \in Seq(Data) /\ ~(\E i \in 1..Len(queue) : TRUE)
  BY <1>2, <1>3 DEF Local, StateOK, Writable
<1>5. QED
  BY <1>1, <1>4

LEMMA Drained ==
    ASSUME IInv, main # "join", \A w \in Writers : wpc[w] = "exited", werrors = 0
    PROVE  queue = <<>> /\ Busy = {} /\ cached = made
<1>1. \A p \in Procs : pc[p] = "idle"
  BY DEF IInv, PhaseOK
<1>2. queue = <<>> /\ Busy = {}
  BY AllWritten DEF IInv
<1>3. Held = {}
  BY <1>1 DEF IInv, Local, CellsOK, ProcOK, HeldBy, Held
<1>4. Cardinality(Held) = 0 /\ Cardinality(Busy) = 0 /\ Len(queue) = 0
  BY <1>2, <1>3, FS_EmptySet
<1>5. cached = made
  BY <1>4 DEF IInv, Counting, BufferConservation, Local, StateOK
<1>6. QED
  BY <1>2, <1>5

\* Writer::stop() returns only when everything queued has been written, if no
\* write failed.
THEOREM StopIsComplete == Spec => []StopDrains
<1>1. IInv => StopDrains
  BY Drained DEF StopDrains, IInv, PhaseOK
<1>2. QED
  BY <1>1, Invariance, PTL

-----------------------------------------------------------------------------
(* Where the points of a voxel are.                                        *)

\* A point has been read for k, and p has not copied it to k's cell yet.
Waiting(p, k) ==
    /\ want[p] = k
    /\ pc[p] = "copy" \/ (pc[p] \in Fetching /\ want[p] # cell[p])

\* The points of voxel k that p has read and not queued.
Carried(p, k) ==
    (IF cells[p][k] = NoBuffer THEN 0 ELSE cells[p][k]) + (IF Waiting(p, k) THEN 1 ELSE 0)

\* The points of k in one entry of the queue, and with one writer thread.
Entry(d, k)  == IF d.key = k THEN d.size ELSE 0
Burden(w, k) == IF wpc[w] = "write" THEN Entry(writing[w], k) ELSE 0

InProcs(k)   == Total([p \in Procs |-> Carried(p, k)])
InQueue(k)   == Total([i \in 1..Len(queue) |-> Entry(queue[i], k)])
InWriters(k) == Total([w \in Writers |-> Burden(w, k)])

\* A point that was read is with a processor until m_totals counts it; it is
\* then on the queue, with a writer thread or in its file.  None is in two of
\* these places, and until a write fails none is lost.
ProcFlow(k) ==
    /\ totals[k] + InProcs(k) <= read[k]
    /\ werrors = 0 => totals[k] + InProcs(k) = read[k]

\* n points were in the file when the writer was created.
WriterFlow(k, n) ==
    /\ file[k] + InQueue(k) + InWriters(k) <= n + totals[k]
    /\ werrors = 0 => file[k] + InQueue(k) + InWriters(k) = n + totals[k]

TiledCleanly == main = "tiled" => werrors = 0

Flow == TiledCleanly /\ \A k \in Keys : ProcFlow(k) /\ WriterFlow(k, 0)

-----------------------------------------------------------------------------
(* What a processor does to the points it carries.                         *)

LEMMA CarriedType ==
    ASSUME StateOK, NEW p \in Procs, NEW k \in Keys
    PROVE  Carried(p, k) \in Nat
<1>1. cells[p][k] \in NoBuffer..(BufPoints - 1) /\ BufPoints \in Nat
  BY ConstantFacts DEF StateOK
<1>2. QED
  BY <1>1 DEF Carried, NoBuffer

\* A step of another thread can only wake q, which changes nothing here.
LEMMA CarriedUnchanged ==
    ASSUME NEW q \in Procs, NEW k \in Keys,
           cells'[q] = cells[q], cell'[q] = cell[q], want'[q] = want[q],
           pc'[q] = pc[q] \/ (pc[q] = "asleep" /\ pc'[q] = "woken")
    PROVE  Carried(q, k)' = Carried(q, k)
BY DEF Carried, Waiting, Fetching

\* The points of k that p adds to those it carries or that m_totals counts
\* are those it reads; it loses none, unless it is told to give up.
Balanced(p, k) ==
    /\ \A q \in Procs \ {p} : Carried(q, k)' = Carried(q, k)
    /\ totals'[k] + Carried(p, k)' + read[k] <= totals[k] + Carried(p, k) + read'[k]
    /\ stop \/ totals'[k] + Carried(p, k)' + read[k] = totals[k] + Carried(p, k) + read'[k]

\* The same for a step that reads and queues nothing.
LEMMA BalancedLocally ==
    ASSUME StateOK, NEW p \in Procs, NEW k \in Keys, UNCHANGED <<totals, read>>,
           \A q \in Procs \ {p} : Carried(q, k)' = Carried(q, k),
           Carried(p, k)' = Carried(p, k)
    PROVE  Balanced(p, k)
<1>1. totals[k] \in Nat /\ read[k] \in Nat /\ Carried(p, k) \in Nat
  BY CarriedType DEF StateOK
<1>2. totals'[k] = totals[k] /\ read'[k] = read[k]
  OBVIOUS
<1>3. totals'[k] + Carried(p, k)' + read[k] = totals[k] + Carried(p, k) + read'[k]
  BY <1>2, Zenon
<1>4. totals[k] + Carried(p, k) + read'[k] \in Nat
  BY <1>1, <1>2
<1>5. QED
  BY <1>3, <1>4 DEF Balanced

LEMMA AcquireBalanced ==
    ASSUME Local, NEW p \in Procs, pc[p] \in Fetching, Acquire(p),
           UNCHANGED <<cell, want>>, NEW k \in Keys
    PROVE  /\ \A q \in Procs \ {p} : Carried(q, k)' = Carried(q, k)
           /\ Carried(p, k)' = Carried(p, k)
<1>1. /\ want[p] \in CellKeys /\ want[p] \notin HeldBy(p) /\ k \in CellKeys /\ 0 \in CountType
      /\ pc \in [Procs -> PcType]
  BY ConstantFacts DEF Local, StateOK, CellsOK, ProcOK, CountType, NoBuffer, PcType
<1>2. /\ pc' = [pc EXCEPT ![p] = IF want[p] = cell[p] THEN "read" ELSE "copy"]
      /\ cells' = [cells EXCEPT ![p][want[p]] = 0]
  BY DEF Acquire
<1>3. /\ cells' \in [Procs -> [CellKeys -> CountType]]
      /\ cells'[p][want[p]] = 0
      /\ \A j \in CellKeys \ {want[p]} : cells'[p][j] = cells[p][j]
      /\ \A q \in Procs \ {p} : cells'[q] = cells[q]
  BY <1>1, <1>2, SetCell DEF Local
<1>4. \A q \in Procs \ {p} : Carried(q, k)' = Carried(q, k)
  BY <1>1, <1>2, <1>3, CarriedUnchanged
<1>5. Waiting(p, k)' <=> Waiting(p, k)
  BY <1>1, <1>2 DEF Waiting, Fetching
<1>6. CASE k = want[p]
  <2>1. cells[p][k] = NoBuffer /\ cells'[p][k] = 0
    BY <1>1, <1>3, <1>6 DEF HeldBy
  <2>2. QED
    BY <1>4, <1>5, <2>1 DEF Carried, NoBuffer
<1>7. CASE k # want[p]
  <2>1. cells'[p][k] = cells[p][k]
    BY <1>1, <1>3, <1>7
  <2>2. QED
    BY <1>4, <1>5, <2>1 DEF Carried
<1>8. QED
  BY <1>6, <1>7

LEMMA SleepBalanced ==
    ASSUME Local, NEW p \in Procs, pc[p] \in Fetching, Sleep(p),
           UNCHANGED <<cell, want>>, NEW k \in Keys
    PROVE  /\ \A q \in Procs \ {p} : Carried(q, k)' = Carried(q, k)
           /\ Carried(p, k)' = Carried(p, k)
<1>1. pc \in [Procs -> PcType] /\ pc' = [pc EXCEPT ![p] = "asleep"] /\ cells' = cells
  BY DEF Local, StateOK, PcType, Sleep
<1>2. QED
  BY <1>1, CarriedUnchanged DEF Carried, Waiting, Fetching

LEMMA ReleaseBalanced ==
    ASSUME Local, Local', NEW p \in Procs, NEW j \in CellKeys, j \in HeldBy(p), Release(p, j),
           pc[p] = "unwind" \/ (pc[p] = "flush" /\ j # cell[p]), NEW k \in Keys
    PROVE  Balanced(p, k)
<1>1. cells[p][j] \in CountType /\ cells[p][j] # NoBuffer /\ NoBuffer \in CountType /\ k \in CellKeys
  BY ConstantFacts DEF Local, StateOK, CountType, NoBuffer, HeldBy
<1>2. /\ cells' = [cells EXCEPT ![p][j] = NoBuffer]
      /\ UNCHANGED <<cell, want, read>>
  BY DEF Release
<1>3. /\ cells'[p][j] = NoBuffer
      /\ \A i \in CellKeys \ {j} : cells'[p][i] = cells[p][i]
      /\ \A q \in Procs \ {p} : cells'[q] = cells[q]
  BY <1>1, <1>2, SetCell DEF Local
<1>4. /\ \A q \in Procs : pc'[q] = pc[q] \/ (pc[q] = "asleep" /\ pc'[q] = "woken")
      /\ totals'[k] = totals[k] + (IF k = j THEN cells[p][k] ELSE 0)
  <2>1. CASE cells[p][j] > 0
    <3>1. totals' = [totals EXCEPT ![j] = @ + cells[p][j]] /\ pc' = pc
      BY <2>1 DEF Release, Enqueue
    <3>2. totals \in [Keys -> Nat]
      BY DEF Local, StateOK
    <3>3. QED
      BY <3>1, <3>2
  <2>2. CASE ~(cells[p][j] > 0)
    <3>1. Replace /\ totals' = totals /\ cells[p][j] = 0
      BY <1>1, <2>2, ConstantFacts DEF Release, CountType, NoBuffer
    <3>2. totals[k] \in Nat
      BY DEF Local, StateOK
    <3>3. QED
      BY <3>1, <3>2, ReplaceTypes DEF Local
  <2>3. QED
    BY <2>1, <2>2
<1>5. \A q \in Procs \ {p} : Carried(q, k)' = Carried(q, k)
  BY <1>2, <1>3, <1>4, CarriedUnchanged
<1>6. Waiting(p, k)' <=> Waiting(p, k)
  BY <1>2, <1>4 DEF Waiting, Fetching
<1>7. totals[k] \in Nat /\ read[k] \in Nat /\ cells[p][k] \in CountType /\ read'[k] = read[k]
  BY <1>1, <1>2 DEF Local, StateOK, CountType
<1>8. Carried(p, k) = Carried(p, k)' + (IF k = j THEN cells[p][k] ELSE 0)
  <2>1. CASE k = j
    BY <1>1, <1>3, <1>6, <1>7, <2>1, ConstantFacts DEF Carried, CountType, NoBuffer
  <2>2. CASE k # j
    <3>1. Carried(p, k)' = Carried(p, k) /\ Carried(p, k) \in Nat
      BY <1>1, <1>3, <1>6, <2>2, CarriedType DEF Carried, Local
    <3>2. QED
      BY <2>2, <3>1
  <2>3. QED
    BY <2>1, <2>2
<1>9. Carried(p, k)' \in Nat /\ (IF k = j THEN cells[p][k] ELSE 0) \in Nat
  <2>1. Carried(p, k)' \in Nat
    <3>1. cells'[p][k] \in CountType
      BY <1>1 DEF Local, StateOK, CountType
    <3>2. QED
      BY <3>1, ConstantFacts DEF Carried, CountType, NoBuffer
  <2>2. QED
    BY <1>1, <1>7, <2>1, ConstantFacts DEF CountType, NoBuffer
<1> DEFINE c == IF k = j THEN cells[p][k] ELSE 0
<1>10. c \in Nat /\ totals'[k] = totals[k] + c /\ Carried(p, k) = Carried(p, k)' + c
  BY <1>4, <1>8, <1>9
<1> HIDE DEF c
<1>11. totals'[k] + Carried(p, k)' + read[k] = totals[k] + Carried(p, k) + read'[k]
  BY <1>7, <1>9, <1>10
<1>12. QED
  BY <1>5, <1>7, <1>9, <1>10, <1>11 DEF Balanced

\* So does a step that moves p elsewhere in its program.
LEMMA BalancedQuietly ==
    ASSUME StateOK, NEW p \in Procs, NEW k \in Keys, UNCHANGED <<totals, read, cells>>,
           \A q \in Procs \ {p} : cell'[q] = cell[q] /\ want'[q] = want[q] /\ pc'[q] = pc[q],
           Waiting(p, k)' <=> Waiting(p, k)
    PROVE  Balanced(p, k)
<1>1. \A q \in Procs \ {p} : Carried(q, k)' = Carried(q, k)
  BY CarriedUnchanged
<1>2. Carried(p, k)' = Carried(p, k)
  BY DEF Carried
<1>3. QED
  BY <1>1, <1>2, BalancedLocally

\* A point is read, and waits for the cell of its voxel.
LEMMA BalancedRead ==
    ASSUME StateOK, NEW p \in Procs, NEW k \in Keys, NEW j \in Keys, pc[p] = "read",
           UNCHANGED <<cells, totals>>, read' = [read EXCEPT ![j] = @ + 1],
           \A q \in Procs \ {p} : cell'[q] = cell[q] /\ want'[q] = want[q] /\ pc'[q] = pc[q],
           want'[p] = j, pc'[p] = "copy" \/ (pc'[p] = "fetch" /\ j # cell'[p])
    PROVE  Balanced(p, k)
<1>1. \A q \in Procs \ {p} : Carried(q, k)' = Carried(q, k)
  BY CarriedUnchanged
<1>2. ~Waiting(p, k) /\ (Waiting(p, k)' <=> k = j)
  BY DEF Waiting, Fetching
<1>3. read'[k] = read[k] + (IF k = j THEN 1 ELSE 0) /\ totals'[k] = totals[k]
  BY DEF StateOK
<1>4. cells[p][k] \in CountType
  BY ConstantFacts DEF StateOK, CountType
<1>5. Carried(p, k)' = Carried(p, k) + (IF k = j THEN 1 ELSE 0)
  BY <1>2, <1>4, ConstantFacts DEF Carried, CountType, NoBuffer
<1>6. totals[k] \in Nat /\ read[k] \in Nat /\ Carried(p, k) \in Nat
  BY CarriedType DEF StateOK
<1>7. QED
  BY <1>1, <1>3, <1>5, <1>6 DEF Balanced

LEMMA BalancedCellWork ==
    ASSUME Local, Local', NEW p \in Procs, CellWork(p), NEW k \in Keys
    PROVE  Balanced(p, k)
<1>1. /\ pc \in [Procs -> PcType] /\ k \in CellKeys /\ k # Scratch
      /\ totals \in [Keys -> Nat] /\ read \in [Keys -> Nat]
      /\ StateOK /\ ProcOK(p) /\ Carried(p, k) \in Nat
  BY ConstantFacts, CarriedType DEF Local, StateOK, CellsOK, PcType
<1>2. CASE Advance(p)
  <2> DEFINE j == want[p]
             n == cells[p][j] + 1
  <2>1. /\ pc[p] = "copy" /\ j \in Keys /\ j \in CellKeys /\ cells[p][j] \in 0..(BufPoints - 1)
        /\ n \in 1..BufPoints /\ NoBuffer \in CountType /\ (n < BufPoints => n \in CountType)
    <3>1. pc[p] = "copy"
      BY <1>2 DEF Advance
    <3>2. j \in Keys /\ j \in CellKeys /\ cells[p][j] # NoBuffer
      BY <1>1, <3>1 DEF ProcOK, HeldBy
    <3>3. cells[p][j] \in CountType
      BY <3>2, <1>1 DEF StateOK, CountType
    <3>4. QED
      BY <3>1, <3>2, <3>3, ConstantFacts DEF CountType, NoBuffer
  <2>2. cell' = [cell EXCEPT ![p] = j] /\ want' = want /\ read' = read
    BY <1>2 DEF Advance
  <2>3. Waiting(p, k) <=> k = j
    BY <2>1 DEF Waiting
  <2>4. CASE n < BufPoints
    <3>1. /\ cells' = [cells EXCEPT ![p][j] = n]
          /\ pc' = [pc EXCEPT ![p] = "read"] /\ totals' = totals
      BY <1>2, <2>4 DEF Advance
    <3>2. /\ cells' \in [Procs -> [CellKeys -> CountType]]
          /\ cells'[p][j] = n
          /\ \A i \in CellKeys \ {j} : cells'[p][i] = cells[p][i]
          /\ \A q \in Procs \ {p} : cells'[q] = cells[q]
      BY <1>1, <2>1, <2>4, <3>1, SetCell
    <3>3. \A q \in Procs \ {p} : Carried(q, k)' = Carried(q, k)
      BY <1>1, <2>2, <3>1, <3>2, CarriedUnchanged DEF Local, StateOK
    <3>4. ~Waiting(p, k)'
      BY <1>1, <3>1 DEF Waiting, Fetching
    <3>5. Carried(p, k)' = Carried(p, k)
      BY <1>1, <2>1, <2>3, <3>2, <3>4 DEF Carried, NoBuffer
    <3>6. QED
      BY <1>1, <2>2, <3>1, <3>3, <3>5, BalancedLocally
  <2>5. CASE ~(n < BufPoints)
    <3>1. /\ cells' = [cells EXCEPT ![p][j] = NoBuffer]
          /\ pc' = [pc EXCEPT ![p] = "fetch"]
          /\ totals' = [totals EXCEPT ![j] = @ + n]
      BY <1>2, <2>5 DEF Advance, Enqueue
    <3>2. /\ cells' \in [Procs -> [CellKeys -> CountType]]
          /\ cells'[p][j] = NoBuffer
          /\ \A i \in CellKeys \ {j} : cells'[p][i] = cells[p][i]
          /\ \A q \in Procs \ {p} : cells'[q] = cells[q]
      BY <1>1, <2>1, <3>1, SetCell
    <3>3. \A q \in Procs \ {p} : Carried(q, k)' = Carried(q, k)
      BY <1>1, <2>2, <3>1, <3>2, CarriedUnchanged DEF Local, StateOK
    <3>4. ~Waiting(p, k)'
      BY <1>1, <2>2, <3>1 DEF Waiting, Local, StateOK
    <3>5. CASE k = j
      <4>1. Carried(p, k) = n /\ Carried(p, k)' = 0
        BY <2>1, <2>3, <3>2, <3>4, <3>5 DEF Carried, NoBuffer
      <4>2. totals'[k] = totals[k] + n /\ read'[k] = read[k]
        BY <1>1, <2>2, <3>1, <3>5
      <4>3. totals[k] \in Nat /\ read[k] \in Nat /\ n \in Nat
        BY <1>1, <2>1, ConstantFacts
      <4> HIDE DEF n, j
      <4>4. QED
        BY <3>3, <4>1, <4>2, <4>3 DEF Balanced
    <3>6. CASE k # j
      <4>1. Carried(p, k)' = Carried(p, k)
        BY <1>1, <2>3, <3>2, <3>4, <3>6 DEF Carried
      <4>2. totals'[k] = totals[k] /\ read'[k] = read[k] /\ totals[k] \in Nat /\ read[k] \in Nat
        BY <1>1, <2>2, <3>1, <3>6
      <4>3. QED
        BY <1>1, <3>3, <4>1, <4>2 DEF Balanced
    <3>7. QED
      BY <3>5, <3>6
  <2>6. QED
    BY <2>4, <2>5
<1>3. CASE /\ pc[p] \in Fetching /\ (Acquire(p) \/ Sleep(p))
           /\ UNCHANGED <<cell, want, read, totals>>
  <2>1. /\ \A q \in Procs \ {p} : Carried(q, k)' = Carried(q, k)
        /\ Carried(p, k)' = Carried(p, k)
    BY <1>3, AcquireBalanced, SleepBalanced
  <2>2. QED
    BY <1>1, <1>3, <2>1, BalancedLocally
<1>4. CASE FetchBuffer(p)
  <2>1. CASE pc' = [pc EXCEPT ![p] = "flush"] /\ cells' = cells
    <3>1. Waiting(p, k)' <=> Waiting(p, k)
      BY <1>1, <1>4, <2>1 DEF FetchBuffer, Waiting, Fetching
    <3>2. QED
      BY <1>1, <1>4, <2>1, <3>1, BalancedQuietly DEF FetchBuffer
  <2>2. QED
    BY <1>3, <1>4, <2>1 DEF FetchBuffer, Fetching
<1>5. CASE FetchBlocking(p)
  <2>1. CASE stop /\ pc' = [pc EXCEPT ![p] = "unwind"] /\ cells' = cells
    <3>1. UNCHANGED <<cell, want, read, totals>>
      BY <1>5 DEF FetchBlocking
    <3>2. \A q \in Procs \ {p} : Carried(q, k)' = Carried(q, k)
      BY <1>1, <2>1, <3>1, CarriedUnchanged
    <3>3. Carried(p, k)' <= Carried(p, k) /\ Carried(p, k)' \in Nat
      <4>1. ~Waiting(p, k)' /\ cells[p][k] \in CountType
        BY <1>1, <2>1 DEF Waiting, Fetching, StateOK, CountType
      <4>2. QED
        BY <2>1, <4>1, ConstantFacts DEF Carried, CountType, NoBuffer
    <3>4. totals'[k] = totals[k] /\ read'[k] = read[k] /\ totals[k] \in Nat /\ read[k] \in Nat
      BY <1>1, <3>1
    <3>5. QED
      BY <1>1, <2>1, <3>2, <3>3, <3>4 DEF Balanced
  <2>2. QED
    BY <1>3, <1>5, <2>1 DEF FetchBlocking, Fetching
<1>6. CASE Wake(p)
  BY <1>3, <1>6 DEF Wake, Fetching
<1>7. ASSUME NEW j \in CellKeys, FlushCell(p, j) \/ DestroyCell(p, j)
       PROVE  Balanced(p, k)
  BY <1>7, ReleaseBalanced DEF FlushCell, DestroyCell
<1>8. CASE EndTask(p)
  <2>1. Waiting(p, k)' <=> Waiting(p, k)
    BY <1>1, <1>8 DEF EndTask, Waiting, Fetching
  <2>2. QED
    BY <1>1, <1>8, <2>1, BalancedQuietly DEF EndTask
<1>9. QED
  BY <1>2, <1>4, <1>5, <1>6, <1>7, <1>8 DEF CellWork

LEMMA BalancedStep ==
    ASSUME Local, Local', SourcesHeld, NEW p \in Procs, ProcStep(p), NEW k \in Keys
    PROVE  Balanced(p, k)
<1>1. /\ pc \in [Procs -> PcType] /\ StateOK /\ k \in CellKeys /\ k # Scratch
      /\ cell \in [Procs -> CellKeys] /\ want \in [Procs -> CellKeys]
  BY ConstantFacts DEF Local, StateOK, PcType
<1>2. CASE ClaimFile(p)
  <2>1. Waiting(p, k)' <=> Waiting(p, k)
    BY <1>1, <1>2 DEF ClaimFile, Waiting, Fetching
  <2>2. QED
    BY <1>1, <1>2, <2>1, BalancedQuietly DEF ClaimFile
<1>3. ASSUME NEW j \in Keys, ReadPoint(p, j)
      PROVE  Balanced(p, k)
  <2>1. /\ pc[p] = "read" /\ UNCHANGED <<cells, totals, cell>>
        /\ pc' = [pc EXCEPT ![p] = IF j \in HeldBy(p) THEN "copy" ELSE "fetch"]
        /\ want' = [want EXCEPT ![p] = j]
        /\ read' = [read EXCEPT ![j] = @ + 1]
    BY <1>3 DEF ReadPoint
  <2>2. cell[p] \in HeldBy(p)
    BY <2>1 DEF SourcesHeld, SourceOK
  <2>3. /\ want'[p] = j /\ (pc'[p] = "copy" \/ (pc'[p] = "fetch" /\ j # cell'[p]))
        /\ \A q \in Procs \ {p} : cell'[q] = cell[q] /\ want'[q] = want[q] /\ pc'[q] = pc[q]
    BY <1>1, <2>1, <2>2
  <2>4. QED
    BY <1>1, <2>1, <2>3, BalancedRead
<1>4. CASE EndOfFile(p)
  <2>1. Waiting(p, k)' <=> Waiting(p, k)
    BY <1>1, <1>4 DEF EndOfFile, Waiting, Fetching
  <2>2. QED
    BY <1>1, <1>4, <2>1, BalancedQuietly DEF EndOfFile
<1>5. QED
  BY <1>2, <1>3, <1>4, BalancedCellWork DEF ProcStep

LEMMA InProcsType ==
    ASSUME StateOK, NEW k \in Keys
    PROVE  [p \in Procs |-> Carried(p, k)] \in [Procs -> Nat] /\ InProcs(k) \in Nat
<1>1. [p \in Procs |-> Carried(p, k)] \in [Procs -> Nat]
  BY CarriedType
<1>2. QED
  BY <1>1, TotalType, ThreadAssumption DEF InProcs

\* A processor's step keeps the account of the points that are not queued yet.
LEMMA ProcFlowBalanced ==
    ASSUME Local, Local', NEW p \in Procs, NEW k \in Keys, Balanced(p, k), ProcFlow(k),
           stop => werrors > 0, werrors' = werrors
    PROVE  ProcFlow(k)'
<1> DEFINE f == [q \in Procs |-> Carried(q, k)]
           g == [q \in Procs |-> Carried(q, k)']
<1>1. f \in [Procs -> Nat]
  BY InProcsType DEF Local
<1>2. \A q \in Procs : cells'[q][k] \in CountType
  BY ConstantFacts DEF Local, StateOK, CountType
<1>3. \A q \in Procs : Carried(q, k)' \in Nat
  BY <1>2, ConstantFacts DEF Carried, CountType, NoBuffer
<1>4. g \in [Procs -> Nat]
  BY <1>3
<1>5. \A q \in Procs \ {p} : g[q] = f[q]
  BY DEF Balanced
<1>6. f[p] = Carried(p, k) /\ g[p] = Carried(p, k)'
  OBVIOUS
<1>7. InProcs(k) = Total(f) /\ InProcs(k)' = Total(g)
  BY DEF InProcs
<1> HIDE DEF f, g
<1>8. Total(g) = (Total(f) - f[p]) + g[p]
  BY <1>1, <1>4, <1>5, ThreadAssumption, TotalChanged
<1>9. Total(f) \in Nat /\ Total(g) \in Nat /\ f[p] \in Nat /\ g[p] \in Nat
  BY <1>1, <1>4, ThreadAssumption, TotalType
<1>10. /\ totals[k] \in Nat /\ totals'[k] \in Nat /\ read[k] \in Nat /\ read'[k] \in Nat
       /\ werrors \in Nat
  BY DEF Local, StateOK
<1>11. /\ totals'[k] + g[p] + read[k] <= totals[k] + f[p] + read'[k]
       /\ stop \/ totals'[k] + g[p] + read[k] = totals[k] + f[p] + read'[k]
  BY <1>6 DEF Balanced
<1>12. /\ totals[k] + Total(f) <= read[k]
       /\ werrors = 0 => totals[k] + Total(f) = read[k]
  BY <1>7 DEF ProcFlow
<1>13. /\ totals'[k] + Total(g) <= read'[k]
       /\ werrors = 0 => totals'[k] + Total(g) = read'[k]
  BY <1>8, <1>9, <1>10, <1>11, <1>12
<1>14. QED
  BY <1>7, <1>13 DEF ProcFlow

\* The steps of the writer threads and of Epf::run move none of these points.
LEMMA ProcFlowOtherStep ==
    ASSUME Local, NEW k \in Keys, ProcFlow(k), UNCHANGED <<cells, cell, want, totals, read>>,
           \A q \in Procs : pc'[q] = pc[q] \/ (pc[q] = "asleep" /\ pc'[q] = "woken"),
           werrors' = werrors \/ werrors' > 0
    PROVE  ProcFlow(k)'
<1>1. \A q \in Procs : Carried(q, k)' = Carried(q, k)
  BY CarriedUnchanged
<1>2. InProcs(k)' = InProcs(k)
  BY <1>1 DEF InProcs
<1>3. QED
  BY <1>2 DEF ProcFlow

-----------------------------------------------------------------------------
(* The queue and the writer threads.                                       *)

\* Where the entries are when one was taken off.
LEMMA RemoveAtEntries ==
    ASSUME NEW D, NEW q \in Seq(D), NEW i \in 1..Len(q), NEW j \in 1..(Len(q) - 1)
    PROVE  RemoveAt(q, i)[j] = IF j < i THEN q[j] ELSE q[j + 1]
<1>1. \A m \in 1..Len(q) : q[m] \in D
  BY ElementOfSeq
<1> DEFINE a == SubSeq(q, 1, i - 1)
           b == SubSeq(q, i + 1, Len(q))
<1>2. /\ a \in Seq(D) /\ Len(a) = i - 1
      /\ \A m \in 1..(i - 1) : a[m] = q[m]
  BY <1>1, SubSeqProperties, 1 \in Int, i - 1 \in Int
<1>3. /\ b \in Seq(D) /\ Len(b) = Len(q) - i
      /\ \A m \in 1..(Len(q) - i) : b[m] = q[i + m]
  BY <1>1, SubSeqProperties, i + 1 \in Int, Len(q) \in Int
<1>4. RemoveAt(q, i) = a \o b
  BY DEF RemoveAt
<1> HIDE DEF a, b
<1>5. (a \o b)[j] = IF j <= Len(a) THEN a[j] ELSE b[j - Len(a)]
  BY <1>2, <1>3, ConcatProperties
<1>6. QED
  BY <1>2, <1>3, <1>4, <1>5

EntriesOf(q, k) == [i \in 1..Len(q) |-> Entry(q[i], k)]

LEMMA EntriesType ==
    ASSUME NEW q \in Seq(Data), NEW k
    PROVE  /\ EntriesOf(q, k) \in [1..Len(q) -> Nat] /\ Len(q) \in Nat
           /\ Total(EntriesOf(q, k)) \in Nat
<1>1. \A i \in 1..Len(q) : Entry(q[i], k) \in Nat
  <2>1. \A i \in 1..Len(q) : q[i] \in Data
    BY ElementOfSeq
  <2>2. QED
    BY <2>1, ConstantFacts DEF Entry, Data
<1>2. EntriesOf(q, k) \in [1..Len(q) -> Nat] /\ Len(q) \in Nat
  BY <1>1 DEF EntriesOf
<1> DEFINE S == 1..Len(q)
           f == EntriesOf(q, k)
<1>3. IsFiniteSet(S) /\ f \in [S -> Nat]
  BY <1>2, FS_Interval
<1> HIDE DEF S, f
<1>4. Total(f) \in Nat
  BY <1>3, TotalType
<1>5. QED
  BY <1>2, <1>4 DEF f

LEMMA EntriesAppended ==
    ASSUME NEW q \in Seq(Data), NEW d \in Data, NEW k
    PROVE  Total(EntriesOf(Append(q, d), k)) = Total(EntriesOf(q, k)) + Entry(d, k)
<1> DEFINE r == Append(q, d)
           n == Len(q) + 1
           f == EntriesOf(q, k)
           g == EntriesOf(r, k)
<1>1. r \in Seq(Data) /\ Len(r) = n /\ r[n] = d /\ \A i \in 1..Len(q) : r[i] = q[i]
  OBVIOUS
<1>2. f \in [1..(n - 1) -> Nat] /\ g \in [1..n -> Nat] /\ n \in Nat /\ n \in 1..n
  <2>1. f \in [1..Len(q) -> Nat] /\ g \in [1..Len(r) -> Nat] /\ Len(q) \in Nat
    BY <1>1, EntriesType
  <2>2. n - 1 = Len(q) /\ n \in Nat /\ n \in 1..n
    BY <2>1
  <2> HIDE DEF f, g, n
  <2>3. QED
    BY <1>1, <2>1, <2>2
<1>3. g[n] = Entry(d, k) /\ \A y \in 1..Len(q) : g[y] = f[y]
  BY <1>1 DEF EntriesOf
<1>4. \A j \in 1..(n - 1) : f[j] = IF j < n THEN g[j] ELSE g[j + 1]
  BY <1>3
<1>5. Total(f) \in Nat /\ Total(g) \in Nat
  BY <1>1, EntriesType
<1> HIDE DEF f, g, n
<1>6. Total(f) = Total(g) - g[n]
  BY <1>2, <1>4, TotalRemoved
<1>7. g[n] \in Nat
  BY <1>2
<1>8. QED
  BY <1>3, <1>5, <1>6, <1>7 DEF f, g

LEMMA EntriesRemoved ==
    ASSUME NEW q \in Seq(Data), NEW i \in 1..Len(q), NEW k
    PROVE  Total(EntriesOf(RemoveAt(q, i), k)) = Total(EntriesOf(q, k)) - Entry(q[i], k)
<1> DEFINE r == RemoveAt(q, i)
           n == Len(q)
           f == EntriesOf(q, k)
           g == EntriesOf(r, k)
<1>1. r \in Seq(Data) /\ Len(r) = n - 1
  BY RemoveAtShortens
<1>2. f \in [1..n -> Nat] /\ g \in [1..(n - 1) -> Nat] /\ n \in Nat /\ i \in 1..n
  BY <1>1, EntriesType
<1>3. \A j \in 1..(n - 1) : r[j] = IF j < i THEN q[j] ELSE q[j + 1]
  BY RemoveAtEntries
<1>4. \A j \in 1..(n - 1) : g[j] = IF j < i THEN f[j] ELSE f[j + 1]
  BY <1>1, <1>3 DEF EntriesOf
<1>5. f[i] = Entry(q[i], k)
  BY DEF EntriesOf
<1> HIDE DEF f, g, n
<1>6. Total(g) = Total(f) - f[i]
  BY <1>2, <1>4, TotalRemoved
<1>7. QED
  BY <1>5, <1>6 DEF f, g

LEMMA BurdenType ==
    ASSUME StateOK, ActiveOK, NEW k
    PROVE  /\ [w \in Writers |-> Burden(w, k)] \in [Writers -> Nat]
           /\ InQueue(k) = Total(EntriesOf(queue, k))
           /\ InQueue(k) \in Nat /\ InWriters(k) \in Nat
<1>1. \A w \in Writers : Burden(w, k) \in Nat
  BY ConstantFacts DEF ActiveOK, Busy, Burden, Entry, Data
<1> DEFINE f == [w \in Writers |-> Burden(w, k)]
<1>2. f \in [Writers -> Nat]
  BY <1>1
<1>3. InQueue(k) = Total(EntriesOf(queue, k))
  BY DEF InQueue, EntriesOf
<1>4. InQueue(k) \in Nat
  BY <1>3, EntriesType DEF StateOK
<1> HIDE DEF f
<1>5. Total(f) \in Nat
  BY <1>2, TotalType, ThreadAssumption
<1>6. QED
  BY <1>2, <1>3, <1>4, <1>5 DEF f, InWriters

\* Waking sleepers changes nothing that a writer thread holds.
LEMMA InWritersUnchanged ==
    ASSUME NEW k, writing' = writing,
           \A w \in Writers : wpc'[w] = wpc[w] \/ (wpc[w] # "write" /\ wpc'[w] # "write")
    PROVE  InWriters(k)' = InWriters(k)
<1>1. \A w \in Writers : Burden(w, k)' = Burden(w, k)
  BY DEF Burden, Entry
<1>2. QED
  BY <1>1 DEF InWriters

\* One writer thread takes or gives up an entry.
LEMMA InWritersChanged ==
    ASSUME StateOK, ActiveOK, StateOK', ActiveOK', NEW k, NEW w \in Writers,
           \A v \in Writers \ {w} : wpc'[v] = wpc[v] /\ writing'[v] = writing[v]
    PROVE  /\ InWriters(k)' = (InWriters(k) - Burden(w, k)) + Burden(w, k)'
           /\ InWriters(k) \in Nat /\ InWriters(k)' \in Nat
           /\ Burden(w, k) \in Nat /\ Burden(w, k)' \in Nat
<1> DEFINE f == [v \in Writers |-> Burden(v, k)]
           g == [v \in Writers |-> Burden(v, k)']
<1>1. f \in [Writers -> Nat]
  BY BurdenType
<1>2. \A v \in Writers : Burden(v, k)' \in Nat
  BY ConstantFacts DEF ActiveOK, Busy, Burden, Entry, Data
<1>3. g \in [Writers -> Nat]
  BY <1>2
<1>4. \A v \in Writers \ {w} : g[v] = f[v]
  BY DEF Burden, Entry
<1>5. f[w] = Burden(w, k) /\ g[w] = Burden(w, k)'
  OBVIOUS
<1>6. InWriters(k) = Total(f) /\ InWriters(k)' = Total(g)
  BY DEF InWriters
<1> HIDE DEF f, g
<1>7. Total(g) = (Total(f) - f[w]) + g[w]
  BY <1>1, <1>3, <1>4, ThreadAssumption, TotalChanged
<1>8. Total(f) \in Nat /\ Total(g) \in Nat /\ f[w] \in Nat /\ g[w] \in Nat
  BY <1>1, <1>3, ThreadAssumption, TotalType
<1>9. QED
  BY <1>5, <1>6, <1>7, <1>8

\* A processor only adds entries to the queue, and m_totals counts them.
LEMMA QueuedFlow ==
    ASSUME Local, Writing, NEW k \in Keys, Queued, UNCHANGED <<writing, file>>
    PROVE  /\ file'[k] = file[k] /\ InWriters(k)' = InWriters(k)
           /\ \E n \in Nat : InQueue(k)' = InQueue(k) + n /\ totals'[k] = totals[k] + n
<1>1. /\ file[k] \in Nat /\ totals[k] \in Nat /\ InQueue(k) \in Nat /\ InWriters(k) \in Nat
      /\ InQueue(k) = Total(EntriesOf(queue, k)) /\ file'[k] = file[k]
  BY BurdenType DEF Local, Writing, StateOK
<1>2. CASE queue' = queue /\ wpc' = wpc /\ totals' = totals
  <2>1. InQueue(k)' = InQueue(k) /\ InWriters(k)' = InWriters(k)
    BY <1>2, InWritersUnchanged DEF InQueue, Entry
  <2>2. InQueue(k)' = InQueue(k) + 0 /\ totals'[k] = totals[k] + 0
    BY <1>1, <1>2, <2>1
  <2>3. QED
    BY <1>1, <2>1, <2>2
<1>3. ASSUME NEW j \in Keys, NEW n \in 1..BufPoints, Enqueue(j, n)
      PROVE  /\ InWriters(k)' = InWriters(k)
             /\ \E m \in Nat : InQueue(k)' = InQueue(k) + m /\ totals'[k] = totals[k] + m
  <2> DEFINE d == [key |-> j, size |-> n]
  <2>1. d \in Data /\ queue' = Append(queue, d) /\ totals' = [totals EXCEPT ![j] = @ + n]
        /\ Entry(d, k) = IF j = k THEN n ELSE 0
    BY <1>3 DEF Data, Enqueue, Entry
  <2>2. InWriters(k)' = InWriters(k)
    <3>1. \A w \in Writers : wpc'[w] = wpc[w] \/ (wpc[w] = "asleep" /\ wpc'[w] = "scan")
      BY <1>3, EnqueueTypes DEF Local
    <3>2. QED
      BY <3>1, InWritersUnchanged
  <2>3. totals'[k] = totals[k] + Entry(d, k) /\ Entry(d, k) \in Nat
    <3>1. totals \in [Keys -> Nat] /\ n \in Nat
      BY ConstantFacts DEF Local, StateOK
    <3> HIDE DEF d
    <3>2. QED
      BY <2>1, <3>1
  <2> HIDE DEF d
  <2>4. queue \in Seq(Data)
    BY DEF Local, StateOK
  <2>5. Total(EntriesOf(Append(queue, d), k)) = Total(EntriesOf(queue, k)) + Entry(d, k)
    BY <2>1, <2>4, EntriesAppended
  <2>6. InQueue(k)' = InQueue(k) + Entry(d, k)
    BY <1>1, <2>1, <2>5 DEF InQueue, EntriesOf
  <2>7. QED
    BY <2>2, <2>3, <2>6
<1>4. QED
  BY <1>1, <1>2, <1>3 DEF Queued

LEMMA QueuedWriterFlow ==
    ASSUME Local, Writing, NEW k \in Keys, NEW n \in Nat, WriterFlow(k, n), Queued,
           UNCHANGED <<writing, file, werrors>>
    PROVE  WriterFlow(k, n)'
<1>1. PICK m \in Nat : InQueue(k)' = InQueue(k) + m /\ totals'[k] = totals[k] + m
  BY QueuedFlow
<1>2. InWriters(k)' = InWriters(k) /\ file'[k] = file[k]
  BY QueuedFlow
<1>3. /\ file[k] \in Nat /\ totals[k] \in Nat /\ InQueue(k) \in Nat /\ InWriters(k) \in Nat
  BY BurdenType DEF Local, Writing, StateOK
<1>4. QED
  BY <1>1, <1>2, <1>3 DEF WriterFlow

\* A writer thread moves points from the queue to itself, and from there to the
\* file; only one whose write fails loses some.
LEMMA WriterMoves ==
    ASSUME Local, Writing, Local', Writing', NEW w \in Writers, WriterStep(w), NEW k \in Keys
    PROVE  /\ totals' = totals
           /\ InQueue(k)' \in Nat /\ InWriters(k)' \in Nat
           /\ InQueue(k)' + InWriters(k)' <= InQueue(k) + InWriters(k)
           /\ \E n \in 0..InWriters(k) : file'[k] = file[k] + n
           /\ file'[k] + InQueue(k)' + InWriters(k)' <= file[k] + InQueue(k) + InWriters(k)
           /\ \/ werrors' = werrors + 1
              \/ /\ werrors' = werrors
                 /\ file'[k] + InQueue(k)' + InWriters(k)' = file[k] + InQueue(k) + InWriters(k)
<1>1. /\ file[k] \in Nat /\ InQueue(k) \in Nat /\ InWriters(k) \in Nat
      /\ InQueue(k)' \in Nat /\ InWriters(k)' \in Nat
      /\ InQueue(k) = Total(EntriesOf(queue, k)) /\ queue \in Seq(Data)
      /\ wpc \in [Writers -> {"scan", "asleep", "write", "exited"}]
      /\ writing \in [Writers -> Data \cup {NoData}] /\ file \in [Keys -> Nat] /\ werrors \in Nat
  <2>1. PICK q \in Seq(Data) : q = queue'
    BY DEF Local, StateOK
  <2>2. InQueue(k)' = Total(EntriesOf(q, k))
    BY <2>1 DEF InQueue, EntriesOf
  <2>3. InQueue(k)' \in Nat
    BY <2>2, EntriesType
  <2>4. \A v \in Writers \ {w} : wpc'[v] = wpc[v] /\ writing'[v] = writing[v]
    BY DEF WriterStep, TakeEntry, NoEntry, WriteDone, WriteFails, Local, StateOK
  <2>5. InWriters(k)' \in Nat
    BY <2>4, InWritersChanged DEF Local, Writing
  <2>6. QED
    BY <2>3, <2>5, BurdenType DEF Local, Writing, StateOK
<1>2. StateOK /\ StateOK' /\ ActiveOK /\ ActiveOK'
  BY DEF Local, Writing
<1>3. CASE TakeEntry(w)
  <2>1. PICK i \in Writable : /\ writing' = [writing EXCEPT ![w] = queue[i]]
                              /\ queue' = RemoveAt(queue, i)
    BY <1>3 DEF TakeEntry
  <2>2. /\ wpc[w] = "scan" /\ wpc' = [wpc EXCEPT ![w] = "write"]
        /\ totals' = totals /\ file' = file /\ werrors' = werrors
    BY <1>3 DEF TakeEntry
  <2>3. Burden(w, k) = 0 /\ Burden(w, k)' = Entry(queue[i], k)
    BY <1>1, <2>1, <2>2 DEF Burden, Entry
  <2>4. \A v \in Writers \ {w} : wpc'[v] = wpc[v] /\ writing'[v] = writing[v]
    BY <1>1, <2>1, <2>2
  <2>5. /\ InWriters(k)' = (InWriters(k) - Burden(w, k)) + Burden(w, k)'
        /\ Burden(w, k)' \in Nat
    BY <1>2, <2>4, InWritersChanged
  <2>6. i \in 1..Len(queue)
    BY DEF Writable
  <2>7. Total(EntriesOf(RemoveAt(queue, i), k)) = Total(EntriesOf(queue, k)) - Entry(queue[i], k)
    BY <1>1, <2>6, EntriesRemoved
  <2>8. InQueue(k)' = InQueue(k) - Entry(queue[i], k)
    BY <1>1, <2>1, <2>7 DEF InQueue, EntriesOf
  <2>9. InQueue(k)' + InWriters(k)' = InQueue(k) + InWriters(k)
    BY <1>1, <2>3, <2>5, <2>8
  <2>10. 0 \in 0..InWriters(k) /\ file'[k] = file[k] + 0 /\ file'[k] = file[k]
    BY <1>1, <2>2
  <2>11. file'[k] + InQueue(k)' + InWriters(k)' = file[k] + InQueue(k) + InWriters(k)
    <3>1. PICK f, q, r, qq, rr \in Nat : /\ f = file[k] /\ q = InQueue(k) /\ r = InWriters(k)
                                         /\ qq = InQueue(k)' /\ rr = InWriters(k)'
      BY <1>1
    <3>2. qq + rr = q + r
      BY <2>9, <3>1
    <3>3. f + qq + rr = f + q + r
      BY <3>2
    <3>4. QED
      BY <2>10, <3>1, <3>3
  <2>12. QED
    BY <1>1, <2>2, <2>9, <2>10, <2>11
<1>4. CASE NoEntry(w)
  <2>1. /\ wpc[w] = "scan" /\ wpc' = [wpc EXCEPT ![w] = IF stop THEN "exited" ELSE "asleep"]
        /\ UNCHANGED <<writing, queue, totals, file, werrors>>
    BY <1>4 DEF NoEntry
  <2>2. InWriters(k)' = InWriters(k) /\ InQueue(k)' = InQueue(k)
    BY <1>1, <2>1, InWritersUnchanged DEF InQueue, Entry
  <2>3. 0 \in 0..InWriters(k) /\ file'[k] = file[k] + 0
    BY <1>1, <2>1
  <2>4. QED
    BY <1>1, <2>1, <2>2, <2>3
<1>5. CASE WriteDone(w) \/ WriteFails(w)
  <2>1. /\ wpc[w] = "write" /\ wpc' = [wpc EXCEPT ![w] = "scan"]
        /\ writing' = [writing EXCEPT ![w] = NoData] /\ totals' = totals /\ queue' = queue
    BY <1>5 DEF WriteDone, WriteFails
  <2>2. writing[w] \in Data
    BY <1>2, <2>1 DEF ActiveOK, Busy
  <2>3. Burden(w, k) = Entry(writing[w], k) /\ Burden(w, k)' = 0
    BY <1>1, <2>1 DEF Burden
  <2>4. \A v \in Writers \ {w} : wpc'[v] = wpc[v] /\ writing'[v] = writing[v]
    BY <1>1, <2>1
  <2>5. InWriters(k)' = (InWriters(k) - Burden(w, k)) + Burden(w, k)' /\ Burden(w, k) \in Nat
    BY <1>2, <2>4, InWritersChanged
  <2>6. InQueue(k)' = InQueue(k)
    BY <2>1 DEF InQueue, Entry
  <2>7. \E n \in 0..Burden(w, k) : /\ file'[k] = file[k] + n
                                   /\ werrors' = werrors + 1 \/ (werrors' = werrors /\ n = Burden(w, k))
    <3>1. CASE WriteDone(w)
      <4>1. file' = [file EXCEPT ![writing[w].key] = @ + writing[w].size] /\ werrors' = werrors
        BY <3>1 DEF WriteDone
      <4>2. file'[k] = file[k] + Burden(w, k)
        BY <1>1, <2>2, <2>3, <4>1 DEF Entry, Data
      <4>3. Burden(w, k) \in 0..Burden(w, k)
        BY <2>5
      <4>4. QED
        BY <4>1, <4>2, <4>3
    <3>2. CASE WriteFails(w)
      <4>1. PICK n \in 0..writing[w].size : file' = [file EXCEPT ![writing[w].key] = @ + n]
        BY <3>2 DEF WriteFails
      <4>2. werrors' = werrors + 1
        BY <3>2 DEF WriteFails
      <4>3. CASE k = writing[w].key
        BY <1>1, <2>2, <2>3, <4>1, <4>2, <4>3 DEF Entry, Data
      <4>4. CASE k # writing[w].key
        <5>1. file'[k] = file[k] + 0 /\ 0 \in 0..Burden(w, k)
          BY <1>1, <2>5, <4>1, <4>4
        <5>2. QED
          BY <4>2, <5>1
      <4>5. QED
        BY <4>3, <4>4
    <3>3. QED
      BY <1>5, <3>1, <3>2
  <2>8. Burden(w, k) <= InWriters(k)
    BY <1>1, <2>3, <2>5
  <2>9. PICK n \in 0..Burden(w, k) : /\ file'[k] = file[k] + n
                                     /\ werrors' = werrors + 1 \/ (werrors' = werrors /\ n = Burden(w, k))
    BY <2>7
  <2>10. PICK f, q, r, b \in Nat : f = file[k] /\ q = InQueue(k) /\ r = InWriters(k) /\ b = Burden(w, k)
    BY <1>1, <2>5
  <2>11. /\ q + ((r - b) + 0) <= q + r /\ f + n + q + ((r - b) + 0) <= f + q + r
         /\ n = b => f + n + q + ((r - b) + 0) = f + q + r
    BY <2>10
  <2>12. file'[k] = f + n /\ InQueue(k)' = q /\ InWriters(k)' = (r - b) + 0 /\ n \in 0..r
    BY <2>3, <2>5, <2>6, <2>8, <2>9, <2>10
  <2>13. QED
    BY <1>1, <2>1, <2>9, <2>10, <2>11, <2>12
<1>6. QED
  BY <1>3, <1>4, <1>5 DEF WriterStep

LEMMA WriterWriterFlow ==
    ASSUME Local, Writing, Local', Writing', NEW w \in Writers, WriterStep(w),
           NEW k \in Keys, NEW n \in Nat, WriterFlow(k, n)
    PROVE  WriterFlow(k, n)'
<1>1. /\ file[k] \in Nat /\ file'[k] \in Nat /\ totals[k] \in Nat /\ werrors \in Nat
      /\ InQueue(k) \in Nat /\ InWriters(k) \in Nat
  BY BurdenType DEF Local, Writing, StateOK
<1>2. /\ totals' = totals /\ InQueue(k)' \in Nat /\ InWriters(k)' \in Nat
      /\ file'[k] + InQueue(k)' + InWriters(k)' <= file[k] + InQueue(k) + InWriters(k)
      /\ \/ werrors' = werrors + 1
         \/ /\ werrors' = werrors
            /\ file'[k] + InQueue(k)' + InWriters(k)' = file[k] + InQueue(k) + InWriters(k)
  BY WriterMoves
<1>3. QED
  BY <1>1, <1>2 DEF WriterFlow

-----------------------------------------------------------------------------
(* The theorems.                                                           *)

\* At the start no point is on its way.
LEMMA FreshFlow ==
    ASSUME Fresh, NEW k \in Keys
    PROVE  /\ ProcFlow(k) /\ InQueue(k) = 0 /\ InWriters(k) = 0
           /\ totals[k] = 0 /\ read[k] = 0
<1> DEFINE f == [p \in Procs |-> Carried(p, k)]
           g == [i \in 1..Len(queue) |-> Entry(queue[i], k)]
           h == [w \in Writers |-> Burden(w, k)]
<1>1. k \in CellKeys /\ queue = <<>> /\ Len(queue) = 0
  BY ConstantFacts DEF Fresh
<1>2. f \in [Procs -> Nat] /\ \A p \in Procs : f[p] = 0
  BY <1>1 DEF Fresh, Carried, Waiting, Fetching
<1>3. h \in [Writers -> Nat] /\ \A w \in Writers : h[w] = 0
  BY DEF Fresh, Burden
<1>4. g \in [{} -> Nat]
  BY <1>1
<1> HIDE DEF f, g, h
<1>5. Total(f) = 0 /\ Total(h) = 0
  BY <1>2, <1>3, TotalZero
<1>6. Total(g) = 0
  BY <1>4, TotalZero
<1>7. InProcs(k) = 0 /\ InQueue(k) = 0 /\ InWriters(k) = 0
  BY <1>5, <1>6 DEF f, g, h, InProcs, InQueue, InWriters
<1>8. totals[k] = 0 /\ read[k] = 0
  BY DEF Fresh
<1>9. QED
  BY <1>7, <1>8 DEF ProcFlow

LEMMA FlowInit == Init => Flow
<1> SUFFICES ASSUME Init
             PROVE  Flow
  OBVIOUS
<1>1. TiledCleanly
  BY DEF Init, TiledCleanly
<1>2. ASSUME NEW k \in Keys
      PROVE  ProcFlow(k) /\ WriterFlow(k, 0)
  <2>1. ProcFlow(k) /\ InQueue(k) = 0 /\ InWriters(k) = 0 /\ totals[k] = 0
    BY InitIsFresh, FreshFlow
  <2>2. file[k] = 0
    BY DEF Init
  <2>3. QED
    BY <2>1, <2>2 DEF WriterFlow
<1>3. QED
  BY <1>1, <1>2 DEF Flow

LEMMA FlowStep == IInv /\ IInv' /\ Flow /\ [Next]_vars => Flow'
<1> SUFFICES ASSUME IInv, IInv', Flow, [Next]_vars
             PROVE  Flow'
  OBVIOUS
<1>1. Local /\ Writing /\ Local' /\ Writing' /\ SourcesHeld /\ PhaseOK
  BY DEF IInv
<1>2. TiledCleanly /\ werrors \in Nat
  BY <1>1 DEF Flow, Local, StateOK
<1>3. ASSUME NEW p \in Procs, ProcStep(p)
      PROVE  Flow'
  <2>1. /\ UNCHANGED <<main, werrors, writing, file>> /\ (files > 0 \/ pc[p] # "idle")
        /\ Queued
    BY <1>1, <1>3, ProcStepKinds
  <2>2. stop => werrors > 0
    <3>1. stop /\ werrors = 0 => main \in {"drain", "tiled", "failed"}
      BY <1>1 DEF PhaseOK
    <3>2. main # "join" => files = 0 /\ pc[p] = "idle"
      BY <1>1 DEF PhaseOK
    <3>3. QED
      BY <1>2, <2>1, <3>1, <3>2
  <2>3. ASSUME NEW k \in Keys
        PROVE  ProcFlow(k)' /\ WriterFlow(k, 0)'
    <3>1. ProcFlow(k)'
      BY <1>1, <1>3, <2>1, <2>2, BalancedStep, ProcFlowBalanced DEF Flow
    <3>2. WriterFlow(k, 0)'
      BY <1>1, <2>1, QueuedWriterFlow DEF Flow
    <3>3. QED
      BY <3>1, <3>2
  <2>4. QED
    BY <1>2, <2>1, <2>3 DEF Flow, TiledCleanly
<1>4. ASSUME NEW w \in Writers, WriterStep(w)
      PROVE  Flow'
  <2>1. /\ UNCHANGED <<cells, cell, want, totals, read, main>>
        /\ wpc[w] \in {"scan", "write"}
        /\ werrors' = werrors \/ werrors' > 0
        /\ pc' = pc \/ Replace
    BY <1>2, <1>4 DEF WriterStep, TakeEntry, NoEntry, WriteDone, WriteFails, procVars
  <2>2. \A q \in Procs : pc'[q] = pc[q] \/ (pc[q] = "asleep" /\ pc'[q] = "woken")
    BY <1>1, <2>1, ReplaceTypes DEF Local
  <2>3. main # "tiled"
    BY <1>1, <2>1 DEF PhaseOK
  <2>4. ASSUME NEW k \in Keys
        PROVE  ProcFlow(k)' /\ WriterFlow(k, 0)'
    <3>1. ProcFlow(k)'
      BY <1>1, <2>1, <2>2, ProcFlowOtherStep DEF Flow
    <3>2. WriterFlow(k, 0)'
      BY <1>1, <1>4, WriterWriterFlow DEF Flow
    <3>3. QED
      BY <3>1, <3>2
  <2>5. QED
    BY <2>1, <2>3, <2>4 DEF Flow, TiledCleanly
<1>5. CASE MainStep \/ UNCHANGED vars
  <2>1. /\ UNCHANGED <<pc, cells, cell, want, totals, read, queue, writing, file, werrors>>
        /\ \A w \in Writers : wpc'[w] = wpc[w] \/ (wpc[w] # "write" /\ wpc'[w] # "write")
        /\ main' = "tiled" => werrors = 0
    BY <1>2, <1>5 DEF MainStep, JoinPool, StopWriter, JoinWriters, vars, procVars, writerVars,
                      TiledCleanly
  <2>2. ASSUME NEW k \in Keys
        PROVE  ProcFlow(k)' /\ WriterFlow(k, 0)'
    <3>1. InWriters(k)' = InWriters(k) /\ InQueue(k)' = InQueue(k)
      BY <2>1, InWritersUnchanged DEF InQueue, Entry
    <3>2. WriterFlow(k, 0)'
      BY <2>1, <3>1 DEF Flow, WriterFlow
    <3>3. ProcFlow(k)'
      BY <1>1, <2>1, ProcFlowOtherStep DEF Flow
    <3>4. QED
      BY <3>2, <3>3
  <2>3. QED
    BY <2>1, <2>2 DEF Flow, TiledCleanly
<1>6. QED
  BY <1>3, <1>4, <1>5 DEF Next, Finished

\* In every reachable state each point that was read is in exactly one place:
\* a processor's cell, the queue, a writer thread or its voxel's file; and
\* m_totals counts those that left the processors.  A failed write is the only
\* way to lose one.
THEOREM PointsAccounted == Spec => [](IInv /\ Flow)
<1>1. Init => IInv /\ Flow
  BY InitIsFresh, LocalInit, SourcesHeldInit, CountingInit, WritingInit, FlowInit DEF IInv
<1>2. IInv /\ Flow /\ [Next]_vars => IInv' /\ Flow'
  BY LocalStep, SourcesHeldStep, CountingStep, WritingStep, FlowStep DEF IInv
<1>3. QED
  BY <1>1, <1>2, PTL DEF Spec

LEMMA IdleCarriesNothing ==
    ASSUME Local, \A p \in Procs : pc[p] = "idle", NEW k \in Keys
    PROVE  InProcs(k) = 0
<1> DEFINE f == [p \in Procs |-> Carried(p, k)]
<1>1. f \in [Procs -> Nat]
  BY InProcsType DEF Local
<1>2. \A p \in Procs : f[p] = 0
  BY ConstantFacts DEF Local, CellsOK, ProcOK, HeldBy, Carried, Waiting, Fetching
<1> HIDE DEF f
<1>3. Total(f) = 0
  BY <1>1, <1>2, TotalZero
<1>4. QED
  BY <1>3 DEF f, InProcs

LEMMA NothingQueued ==
    ASSUME Local, Writing, queue = <<>>, Busy = {}, NEW k \in Keys
    PROVE  InQueue(k) = 0 /\ InWriters(k) = 0
<1> DEFINE g == EntriesOf(queue, k)
           h == [w \in Writers |-> Burden(w, k)]
<1>1. h \in [Writers -> Nat] /\ \A w \in Writers : h[w] = 0
  BY BurdenType DEF Busy, Burden, Local, Writing
<1>2. g \in [{} -> Nat]
  BY DEF EntriesOf
<1> HIDE DEF g, h
<1>3. Total(g) = 0 /\ Total(h) = 0
  BY <1>1, <1>2, TotalZero
<1>4. QED
  BY <1>3 DEF g, h, InQueue, InWriters, EntriesOf

\* When the writer's threads have left and no write failed, every voxel's file has
\* all its points, and m_totals has their number.
LEMMA DrainedHasAll ==
    ASSUME IInv, Flow, main # "join", \A w \in Writers : wpc[w] = "exited", werrors = 0,
           NEW k \in Keys
    PROVE  file[k] = read[k] /\ totals[k] = read[k]
<1>1. queue = <<>> /\ Busy = {} /\ \A p \in Procs : pc[p] = "idle"
  BY Drained DEF IInv, PhaseOK
<1>2. InProcs(k) = 0
  BY <1>1, IdleCarriesNothing DEF IInv
<1>3. InQueue(k) = 0 /\ InWriters(k) = 0
  BY <1>1, NothingQueued DEF IInv
<1>4. totals[k] \in Nat /\ file[k] \in Nat
  BY DEF IInv, Local, StateOK
<1>5. QED
  BY <1>2, <1>3, <1>4 DEF Flow, ProcFlow, WriterFlow

\* When the phase succeeds, each voxel's file has exactly the points read for
\* it, and m_totals, from which Epf::run selects the voxels to reprocess,
\* counts the same.
THEOREM TilingIsComplete == Spec => []SuccessIsComplete
<1>1. ASSUME IInv, Flow, main = "tiled", NEW k \in Keys
      PROVE  file[k] = read[k] /\ totals[k] = read[k]
  <2>1. werrors = 0 /\ \A w \in Writers : wpc[w] = "exited"
    BY <1>1 DEF Flow, TiledCleanly, IInv, PhaseOK
  <2>2. QED
    BY <1>1, <2>1, DrainedHasAll
<1>2. IInv /\ Flow => SuccessIsComplete
  BY <1>1 DEF SuccessIsComplete
<1>3. QED
  BY <1>2, PointsAccounted, PTL

-----------------------------------------------------------------------------
(* Tiling implements TileStore.                                            *)

Outcome == IF main \in {"tiled", "failed"} THEN main ELSE "running"

\* A file never has more points than were read for its voxel.
FilesBounded == \A k \in Keys : file[k] <= read[k]

LEMMA FlowBoundsFiles == IInv /\ Flow => FilesBounded
<1> SUFFICES ASSUME IInv, Flow, NEW k \in Keys
             PROVE  file[k] <= read[k]
  BY DEF FilesBounded
<1>1. InProcs(k) \in Nat /\ InQueue(k) \in Nat /\ InWriters(k) \in Nat
  BY InProcsType, BurdenType DEF IInv, Local, Writing
<1>2. file[k] \in Nat /\ totals[k] \in Nat /\ read[k] \in Nat
  BY DEF IInv, Local, StateOK
<1>3. QED
  BY <1>1, <1>2 DEF Flow, ProcFlow, WriterFlow

LEMMA StoreInit == Init => Store!Init
BY DEF Init, Store!Init

\* What a write appends was read and is not in the file.
LEMMA AppendImplementsStore ==
    ASSUME IInv, FilesBounded', NEW k \in Keys, NEW n \in Nat,
           file' = [file EXCEPT ![k] = @ + n], main' = main, read' = read,
           main \notin {"tiled", "failed"}
    PROVE  Store!Store(k) \/ UNCHANGED <<read, file, Outcome>>
<1>1. file \in [Keys -> Nat] /\ read[k] \in Nat
  BY DEF IInv, Local, StateOK
<1>2. file[k] + n <= read[k]
  BY <1>1 DEF FilesBounded
<1>3. CASE n = 0
  BY <1>1, <1>3 DEF Outcome
<1>4. CASE n # 0
  <2>1. n \in 1..(read[k] - file[k])
    BY <1>1, <1>2, <1>4
  <2>2. QED
    BY <2>1 DEF Store!Store
<1>5. QED
  BY <1>3, <1>4

LEMMA StoreStep ==
    ASSUME IInv, Flow, FilesBounded', [Next]_vars
    PROVE  [Store!Next]_<<read, file, Outcome>>
<1>1. ASSUME NEW p \in Procs, ProcStep(p)
      PROVE  [Store!Next]_<<read, file, Outcome>>
  <2>1. file' = file /\ main' = main /\ main = "join"
    BY <1>1, ProcStepKinds DEF IInv, Local, StateOK, PhaseOK
  <2>2. ASSUME NEW k \in Keys, ReadPoint(p, k)
        PROVE  Store!Arrive(k)
    BY <2>1, <2>2 DEF ReadPoint, Store!Arrive
  <2>3. ASSUME \A k \in Keys : ~ReadPoint(p, k)
        PROVE  read' = read
    BY <1>1, <2>3, CellWorkKinds DEF IInv, ProcStep, ClaimFile, EndOfFile
  <2>4. QED
    BY <2>1, <2>2, <2>3 DEF Store!Next, Outcome
<1>2. ASSUME NEW w \in Writers, WriterStep(w)
      PROVE  [Store!Next]_<<read, file, Outcome>>
  <2>1. main' = main /\ read' = read /\ main \notin {"tiled", "failed"}
    BY <1>2 DEF WriterStep, TakeEntry, NoEntry, WriteDone, WriteFails, procVars, IInv, PhaseOK
  <2>2. CASE TakeEntry(w) \/ NoEntry(w)
    BY <2>1, <2>2 DEF TakeEntry, NoEntry, Outcome
  <2>3. CASE WriteDone(w) \/ WriteFails(w)
    <3>1. writing[w] \in Data
      BY <2>3 DEF WriteDone, WriteFails, IInv, Writing, ActiveOK, Busy
    <3>2. /\ writing[w].key \in Keys /\ writing[w].size \in Nat
          /\ 0..writing[w].size \subseteq Nat
      BY <3>1, ConstantFacts DEF Data
    <3>3. \E n \in Nat : file' = [file EXCEPT ![writing[w].key] = @ + n]
      BY <2>3, <3>2 DEF WriteDone, WriteFails
    <3>4. Store!Store(writing[w].key) \/ UNCHANGED <<read, file, Outcome>>
      BY <2>1, <3>2, <3>3, AppendImplementsStore
    <3>5. QED
      BY <3>2, <3>4 DEF Store!Next
  <2>4. QED
    BY <1>2, <2>2, <2>3 DEF WriterStep
<1>3. CASE JoinWriters
  <2>1. /\ main = "drain" /\ \A w \in Writers : wpc[w] = "exited"
        /\ read' = read /\ file' = file
        /\ main' = IF werrors > 0 \/ perrors > 0 THEN "failed" ELSE "tiled"
    BY <1>3 DEF JoinWriters, procVars, writerVars
  <2>2. CASE main' = "failed"
    BY <2>1, <2>2 DEF Store!Next, Store!Fail
  <2>3. CASE main' = "tiled"
    <3>1. werrors = 0
      BY <2>1, <2>3 DEF IInv, Local, StateOK
    <3>2. \A k \in Keys : file[k] = read[k]
      BY <2>1, <3>1, DrainedHasAll
    <3>3. file = read
      BY <3>2 DEF IInv, Local, StateOK
    <3>4. QED
      BY <2>1, <2>3, <3>3 DEF Store!Next, Store!Succeed
  <2>4. QED
    BY <2>1, <2>2, <2>3
<1>4. CASE JoinPool \/ StopWriter \/ UNCHANGED vars
  BY <1>4 DEF JoinPool, StopWriter, vars, procVars, writerVars, Outcome
<1>5. QED
  BY <1>1, <1>2, <1>3, <1>4 DEF Next, MainStep, Finished

\* The tiling phase implements TileStore: whatever its threads and buffers do, a
\* voxel's file only ever grows by points that were read for it, and the phase
\* reports success only when every file has all of them.
THEOREM TilingImplementsTileStore == Spec => ImplementsTileStore
<1>1. Init => Store!Init
  BY StoreInit
<1>2. IInv /\ Flow /\ FilesBounded' /\ [Next]_vars => [Store!Next]_<<read, file, Outcome>>
  BY StoreStep
<1>3. IInv /\ Flow => FilesBounded
  BY FlowBoundsFiles
<1>4. Spec => [](IInv /\ Flow)
  BY PointsAccounted
<1>5. QED
  BY <1>1, <1>2, <1>3, <1>4, PTL DEF Spec, ImplementsTileStore, Store!Spec, Outcome
=============================================================================
