--------------------------- MODULE Pyramid_proof ---------------------------
(***************************************************************************)
(* Proofs about Pyramid: the voxels that are alive cut the tree, so that   *)
(* nothing runs when the root is reached, and an error is never missed; no *)
(* point is lost or in two places, the hierarchy is complete, and Pyramid  *)
(* implements ChunkStore.                                                  *)
(***************************************************************************)
EXTENDS Pyramid, Voxel_proof, FiniteSetTheorems, SequenceTheorems, TLAPS

-----------------------------------------------------------------------------
(* Sequences of octants and tasks, by their keys.                          *)

KeysOf(s)  == {s[i].key : i \in 1..Len(s)}
OneEach(s) == \A i, j \in 1..Len(s) : s[i].key = s[j].key => i = j

LEMMA IsSequence ==
    ASSUME NEW S, NEW n \in Nat, NEW s \in [1..n -> S]
    PROVE  s \in Seq(S) /\ Len(s) = n /\ DOMAIN s = 1..n
<1>1. s \in Seq(S)
  BY SeqDef
<1>2. QED
  BY <1>1, LenProperties

LEMMA KeyedAppend ==
    ASSUME NEW T, NEW s \in Seq(T), NEW t \in T
    PROVE  /\ Append(s, t) \in Seq(T)
           /\ KeysOf(Append(s, t)) = KeysOf(s) \cup {t.key}
           /\ OneEach(s) /\ t.key \notin KeysOf(s) => OneEach(Append(s, t))
<1> DEFINE a == Append(s, t)
<1>1. /\ a \in Seq(T) /\ Len(a) = Len(s) + 1 /\ Len(s) \in Nat
      /\ \A i \in 1..Len(s) : a[i] = s[i]
      /\ a[Len(s) + 1] = t
  BY AppendProperties
<1> HIDE DEF a
<1>2. 1..Len(a) = 1..Len(s) \cup {Len(s) + 1}
  BY <1>1
<1>3. KeysOf(a) = KeysOf(s) \cup {t.key}
  BY <1>1, <1>2 DEF KeysOf
<1>4. ASSUME OneEach(s), t.key \notin KeysOf(s)
      PROVE  OneEach(a)
  <2>1. \A i \in 1..Len(s) : a[i].key # a[Len(s) + 1].key
    BY <1>1, <1>4 DEF KeysOf
  <2>2. \A i, j \in 1..Len(s) : a[i].key = a[j].key => i = j
    BY <1>1, <1>4 DEF OneEach
  <2>3. QED
    BY <1>2, <2>1, <2>2 DEF OneEach
<1>5. QED
  BY <1>1, <1>3, <1>4 DEF a

LEMMA KeyedTail ==
    ASSUME NEW T, NEW s \in Seq(T), s # <<>>
    PROVE  /\ Head(s) \in T /\ Tail(s) \in Seq(T)
           /\ Head(s) = s[1] /\ 1 \in 1..Len(s)
           /\ KeysOf(s) = KeysOf(Tail(s)) \cup {Head(s).key}
           /\ OneEach(s) => OneEach(Tail(s)) /\ Head(s).key \notin KeysOf(Tail(s))
<1> DEFINE r == Tail(s)
<1>1. /\ r \in Seq(T) /\ Len(s) \in Nat \ {0} /\ Len(r) = Len(s) - 1
      /\ \A i \in 1..Len(r) : r[i] = s[i + 1]
      /\ Head(s) = s[1] /\ s[1] \in T
  BY HeadTailProperties, ElementOfSeq, EmptySeq
<1> HIDE DEF r
<1>2. \A i \in 1..Len(r) : i + 1 \in 1..Len(s) /\ i + 1 # 1
  BY <1>1
<1>3. \A i \in 1..Len(s) : i # 1 => i - 1 \in 1..Len(r) /\ r[i - 1] = s[i]
  <2> TAKE i \in 1..Len(s)
  <2> HAVE i # 1
  <2>1. i - 1 \in 1..Len(r) /\ (i - 1) + 1 = i
    BY <1>1
  <2>2. QED
    BY <1>1, <2>1
<1>4. KeysOf(s) = KeysOf(r) \cup {Head(s).key}
  <2>1. 1 \in 1..Len(s)
    BY <1>1
  <2>2. QED
    BY <1>1, <1>2, <1>3, <2>1 DEF KeysOf
<1>5. ASSUME OneEach(s)
      PROVE  OneEach(r) /\ Head(s).key \notin KeysOf(r)
  <2>1. \A i, j \in 1..Len(r) : s[i + 1].key = s[j + 1].key => i + 1 = j + 1
    BY <1>2, <1>5 DEF OneEach
  <2>2. OneEach(r)
    BY <1>1, <2>1 DEF OneEach
  <2>3. \A i \in 1..Len(r) : s[i + 1].key # s[1].key
    BY <1>1, <1>2, <1>5 DEF OneEach
  <2>4. QED
    BY <1>1, <2>2, <2>3 DEF KeysOf
<1>6. QED
  BY <1>1, <1>4, <1>5 DEF r

\* As many keys as places.
LEMMA KeysCount ==
    ASSUME NEW T, NEW s \in Seq(T), OneEach(s)
    PROVE  IsFiniteSet(KeysOf(s)) /\ Cardinality(KeysOf(s)) = Len(s)
<1> DEFINE f == [i \in 1..Len(s) |-> s[i].key]
<1>1. Len(s) \in Nat
  BY LenProperties
<1>2. f \in Bijection(1..Len(s), KeysOf(s))
  BY DEF KeysOf, OneEach, Bijection, Injection, Surjection, IsInjective
<1>3. ExistsBijection(1..Len(s), KeysOf(s))
  BY <1>2 DEF ExistsBijection
<1>4. QED
  BY <1>1, <1>3, FS_CountingElements, FS_NatBijection

\* A sequence of the elements of a finite set has each of them.
LEMMA SequenceOfSet ==
    ASSUME NEW S, IsFiniteSet(S), NEW s \in SetToSeqs(S)
    PROVE  /\ s \in Seq(S)
           /\ {s[i] : i \in 1..Len(s)} = S
           /\ \A i, j \in 1..Len(s) : s[i] = s[j] => i = j
<1> DEFINE n == Cardinality(S)
           E == {s[i] : i \in 1..n}
<1>1. n \in Nat
  BY FS_CardinalityType
<1>2. s \in [1..n -> S] /\ \A i, j \in 1..n : i # j => s[i] # s[j]
  BY DEF SetToSeqs
<1> HIDE DEF n
<1>3. s \in Seq(S) /\ Len(s) = n
  BY <1>1, <1>2, SeqDef, LenProperties
<1>4. s \in Bijection(1..n, E)
  BY <1>2 DEF Bijection, Injection, Surjection, IsInjective
<1>5. Cardinality(E) = n
  BY <1>1, <1>4, FS_CountingElements DEF ExistsBijection
<1>6. E \in SUBSET S
  BY <1>2
<1>7. E = S
  BY <1>5, <1>6, FS_Subset DEF n
<1>8. QED
  BY <1>2, <1>3, <1>7

-----------------------------------------------------------------------------
(* The types.                                                              *)

Files   == [key : VoxelKey, merged : BOOLEAN]
Octants == [key : VoxelKey, files : SUBSET Files, mustWrite : BOOLEAN]
Tasks   == [key : VoxelKey, kids : [Dirs -> Octants]]

\* An octant of a child for each half.
KidsOf(k, os) == \A d \in Dirs : os[d].key = Child(k, d)

TypeInv ==
    /\ queue \in Seq(Octants) /\ tasks \in Seq(Tasks) /\ popped \in Octants
    /\ octant \in [Workers -> Octants] /\ kids \in [Workers -> [Dirs -> Octants]]
    /\ DOMAIN completes \subseteq VoxelKey /\ IsFiniteSet(DOMAIN completes)
    /\ completes = [k \in DOMAIN completes |-> completes[k]]
    /\ \A k \in DOMAIN completes : completes[k] \in Octants /\ completes[k].key = k
    /\ \A t \in Waiting : KidsOf(t.key, t.kids)
    /\ \A w \in Workers : wpc[w] = "prepare" => KidsOf(octant[w].key, kids[w])
    /\ error \in BOOLEAN /\ failures \in Nat
    /\ main \in {"start", "run", "process", "join", "finish", "done", "failed"}
    /\ wpc \in [Workers -> {"idle", "prepare", "chunk", "write", "threw"}]

-----------------------------------------------------------------------------
(* The cut.                                                                *)

\* Where a voxel is that is alive: on the queue, with the complete octants, in
\* the hands of the main thread, with the tasks, in the hands of a worker.
InQueue == {o.key : o \in Queued}
InHands == IF main \in {"process", "finish", "done"} THEN {popped.key} ELSE {}
InTasks == {t.key : t \in Waiting}
InWork  == {octant[w].key : w \in Busy}

\* No place has two of them, and no two places have the same.
OnePlace ==
    /\ OneEach(queue) /\ OneEach(tasks)
    /\ \A v, w \in Busy : octant[v].key = octant[w].key => v = w
    /\ InQueue \cap (DOMAIN completes \cup InHands \cup InTasks \cup InWork) = {}
    /\ DOMAIN completes \cap (InHands \cup InTasks \cup InWork) = {}
    /\ InHands \cap (InTasks \cup InWork) = {} /\ InTasks \cap InWork = {}

InTheTree(K) == \A k \in K : k \in VoxelKey /\ InTree(k)
Antichain(K) == \A j, k \in K : j \notin Ancestors(k)
Covers(K, F) == \A k \in F : \E j \in K : j \in {k} \cup Ancestors(k)

FoundInv == InTheTree(found) /\ Antichain(found) /\ IsFiniteSet(found)

Cut ==
    /\ OnePlace
    /\ InTheTree(LiveKeys) /\ Antichain(LiveKeys)
    /\ main = "start" => LiveKeys = {}
    /\ main \notin {"start", "failed"} /\ ~error => Covers(LiveKeys, found)

\* Where the main thread is, and the errors that were.
MainInv ==
    /\ main \in {"start", "finish", "done"} => ~error
    /\ main = "join" => error
    /\ main = "process" => popped.key # Root
    /\ main \in {"finish", "done"} => popped.key = Root
    /\ failures > 0 => error \/ \E w \in Workers : wpc[w] = "threw"

CutInv == TypeInv /\ FoundInv /\ Cut /\ MainInv

-----------------------------------------------------------------------------
(* The voxels to process and those needed for it.                          *)

LEMMA FoundInit == Init => FoundInv
<1> SUFFICES ASSUME Init PROVE FoundInv
  OBVIOUS
<1>1. PICK in \in Inputs : found = Kept(in)
  BY DEF Init
<1>2. /\ DOMAIN in \subseteq VoxelKey /\ IsFiniteSet(DOMAIN in)
      /\ \A k \in DOMAIN in : InTree(k)
  BY PyramidAssumption
<1>3. found \in SUBSET DOMAIN in /\ \A j, k \in found : j \notin Ancestors(k)
  BY <1>1 DEF Kept
<1>4. IsFiniteSet(found)
  BY <1>2, <1>3, FS_Subset
<1>5. QED
  BY <1>2, <1>3, <1>4 DEF FoundInv, InTheTree, Antichain

LEMMA FoundStep == FoundInv /\ [Next]_vars => FoundInv'
<1>1. [Next]_vars => found' = found
  BY DEF Next, MainStep, WorkerStep, QueueWork, PopOctant, Process, JoinPool, Finish, TakeTask,
         Prepare, NewChunk, WriteChunk, Throw, EndTask, Finished, vars
<1>2. QED
  BY <1>1 DEF FoundInv, InTheTree, Antichain

\* What is needed is a child of an ancestor of a file's voxel, and neither a
\* file's voxel nor above one.
LEMMA NeededType ==
    ASSUME FoundInv, NEW j \in Needed(found)
    PROVE  /\ j \in VoxelKey /\ InTree(j) /\ j # Root
           /\ \E k \in found : Parent(j) \in Ancestors(k) /\ Ancestors(j) \subseteq Ancestors(k)
           /\ \A k \in found : j # k /\ j \notin Ancestors(k)
<1>1. PICK p \in Parents(found) : j \in Children(p)
  BY DEF Needed
<1>2. PICK k \in found : p \in Ancestors(k)
  BY <1>1 DEF Parents
<1>3. k \in VoxelKey /\ InTree(k)
  BY DEF FoundInv, InTheTree
<1>4. p \in VoxelKey /\ InTree(p)
  BY <1>2, <1>3, AncestorType, TreeAncestors
<1>5. /\ j \in VoxelKey /\ InTree(j) /\ j # Root /\ Parent(j) = p
      /\ Ancestors(j) = {p} \cup Ancestors(p)
  BY <1>1, <1>4, ChildrenType, TreeChildren
<1>6. Ancestors(j) \subseteq Ancestors(k)
  BY <1>2, <1>3, <1>5, AncestorsNest
<1>7. \A i \in found : j \notin Lineage(i)
  BY DEF Needed
<1>8. \A i \in found : {i} \cup Ancestors(i) = Lineage(i) \cup {Root}
  BY TreeLineage DEF FoundInv, InTheTree
<1>9. \A i \in found : j \notin {i} \cup Ancestors(i)
  BY <1>5, <1>7, <1>8
<1>10. QED
  BY <1>2, <1>5, <1>6, <1>9

LEMMA NeededFinite ==
    ASSUME FoundInv
    PROVE  IsFiniteSet(Needed(found))
<1>1. IsFiniteSet(found) /\ \A k \in found : k \in VoxelKey
  BY DEF FoundInv, InTheTree
<1> DEFINE f == [k \in found |-> Ancestors(k)]
           g == [p \in Parents(found) |-> Children(p)]
<1> HIDE DEF f, g
<1>2. IsFiniteSet(Parents(found))
  <2>1. \A k \in found : f[k] = Ancestors(k)
    BY DEF f
  <2>2. \A k \in found : IsFiniteSet(f[k])
    BY <1>1, <2>1, AncestorsFinite
  <2>3. IsFiniteSet(UNION {f[k] : k \in found})
    BY <1>1, <2>2, FiniteUnion
  <2>4. QED
    BY <2>1, <2>3 DEF Parents
<1>3. IsFiniteSet(UNION {Children(p) : p \in Parents(found)})
  <2>1. \A p \in Parents(found) : g[p] = Children(p)
    BY DEF g
  <2>2. \A p \in Parents(found) : IsFiniteSet(g[p])
    BY <2>1, ChildrenFinite
  <2>3. IsFiniteSet(UNION {g[p] : p \in Parents(found)})
    BY <1>2, <2>2, FiniteUnion
  <2>4. QED
    BY <2>1, <2>3
<1>4. QED
  BY <1>3, FS_Difference DEF Needed

\* BuPyramid::queueWork queues an octant for each file, and for each voxel
\* needed.
LEMMA QueuedWork ==
    ASSUME FoundInv, QueueWork
    PROVE  /\ queue' \in Seq(Octants) /\ OneEach(queue')
           /\ KeysOf(queue') = found \cup Needed(found)
           /\ \A i \in 1..Len(queue') : LET k == queue'[i].key IN
                queue'[i] = Octant(k, IF k \in found THEN {Bin(k)} ELSE {}, FALSE)
<1>1. PICK have \in SetToSeqs(found), need \in SetToSeqs(Needed(found)) :
        queue' = [i \in DOMAIN have |-> Octant(have[i], {Bin(have[i])}, FALSE)]
                   \o [i \in DOMAIN need |-> Octant(need[i], {}, FALSE)]
  BY DEF QueueWork
<1> DEFINE q == [i \in 1..Len(have) |-> Octant(have[i], {Bin(have[i])}, FALSE)]
           r == [i \in 1..Len(need) |-> Octant(need[i], {}, FALSE)]
           H == {have[i] : i \in 1..Len(have)}
           N == {need[i] : i \in 1..Len(need)}
<1>2. /\ have \in Seq(found) /\ H = found
      /\ \A i, j \in 1..Len(have) : have[i] = have[j] => i = j
  BY SequenceOfSet DEF FoundInv
<1>3. /\ need \in Seq(Needed(found)) /\ N = Needed(found)
      /\ \A i, j \in 1..Len(need) : need[i] = need[j] => i = j
  BY NeededFinite, SequenceOfSet
<1>4. \A k \in found : k \in VoxelKey /\ k \notin Needed(found)
  BY NeededType DEF FoundInv, InTheTree
<1>5. \A k \in Needed(found) : k \in VoxelKey
  BY NeededType
<1>6. /\ Len(have) \in Nat /\ DOMAIN have = 1..Len(have) /\ have \in [1..Len(have) -> found]
      /\ Len(need) \in Nat /\ DOMAIN need = 1..Len(need) /\ need \in [1..Len(need) -> Needed(found)]
  BY <1>2, <1>3, LenProperties
<1>7. \A k \in VoxelKey : Octant(k, {Bin(k)}, FALSE) \in Octants /\ Octant(k, {}, FALSE) \in Octants
  BY DEF Octant, Octants, Bin, Files
<1>8. q \in [1..Len(have) -> Octants] /\ r \in [1..Len(need) -> Octants]
  BY <1>4, <1>5, <1>6, <1>7
<1> HIDE DEF q, r
<1>9. q \in Seq(Octants) /\ Len(q) = Len(have) /\ r \in Seq(Octants) /\ Len(r) = Len(need)
  BY <1>6, <1>8, IsSequence, Zenon
<1>10. queue' = q \o r
  BY <1>1, <1>6 DEF q, r
<1>11. /\ \A i \in 1..Len(have) : q[i] = Octant(have[i], {Bin(have[i])}, FALSE) /\ q[i].key = have[i]
       /\ \A i \in 1..Len(need) : r[i] = Octant(need[i], {}, FALSE) /\ r[i].key = need[i]
  BY DEF Octant, q, r
<1>12. /\ queue' \in Seq(Octants) /\ Len(queue') = Len(have) + Len(need)
       /\ \A i \in 1..(Len(have) + Len(need)) :
            queue'[i] = IF i <= Len(have) THEN q[i] ELSE r[i - Len(have)]
  <2>1. /\ q \o r \in Seq(Octants) /\ Len(q \o r) = Len(q) + Len(r)
        /\ \A i \in 1..(Len(q) + Len(r)) : (q \o r)[i] = IF i <= Len(q) THEN q[i] ELSE r[i - Len(q)]
    BY <1>9, ConcatProperties, Zenon
  <2>2. QED
    BY <1>9, <1>10, <2>1, Zenon
<1>13. \A i \in 1..Len(queue') :
         \/ i \in 1..Len(have) /\ queue'[i] = q[i]
         \/ i - Len(have) \in 1..Len(need) /\ queue'[i] = r[i - Len(have)]
  BY <1>6, <1>12
<1>14. \A i \in 1..Len(have) : i \in 1..Len(queue') /\ queue'[i].key = have[i]
  <2> TAKE i \in 1..Len(have)
  <2>1. i \in 1..(Len(have) + Len(need)) /\ i <= Len(have)
    BY <1>6
  <2>2. QED
    BY <1>11, <1>12, <2>1
<1>15. \A i \in 1..Len(need) : i + Len(have) \in 1..Len(queue') /\ queue'[i + Len(have)].key = need[i]
  <2> TAKE i \in 1..Len(need)
  <2>1. i + Len(have) \in 1..(Len(have) + Len(need)) /\ ~(i + Len(have) <= Len(have))
        /\ (i + Len(have)) - Len(have) = i
    BY <1>6
  <2>2. QED
    BY <1>11, <1>12, <2>1
<1>16. KeysOf(queue') = H \cup N
  <2>1. ASSUME NEW k \in KeysOf(queue')
        PROVE  k \in H \cup N
    <3>1. PICK i \in 1..Len(queue') : k = queue'[i].key
      BY <2>1 DEF KeysOf
    <3>2. \/ k = have[i] /\ i \in 1..Len(have)
          \/ k = need[i - Len(have)] /\ i - Len(have) \in 1..Len(need)
      BY <1>11, <1>13, <3>1, Zenon
    <3>3. QED
      BY <3>2
  <2>2. ASSUME NEW k \in H \cup N
        PROVE  k \in KeysOf(queue')
    BY <1>14, <1>15 DEF KeysOf
  <2>3. QED
    BY <2>1, <2>2
<1>17. OneEach(queue')
  <2>1. SUFFICES ASSUME NEW i \in 1..Len(queue'), NEW j \in 1..Len(queue'),
                        queue'[i].key = queue'[j].key
                 PROVE  i = j
    BY DEF OneEach
  <2>2. CASE i \in 1..Len(have) /\ j \in 1..Len(have)
    BY <1>2, <1>14, <2>1, <2>2
  <2>3. ASSUME i - Len(have) \in 1..Len(need), queue'[i] = r[i - Len(have)],
               j - Len(have) \in 1..Len(need), queue'[j] = r[j - Len(have)]
        PROVE  i = j
    <3>1. need[i - Len(have)] = need[j - Len(have)]
      BY <1>11, <2>1, <2>3
    <3>2. i - Len(have) = j - Len(have)
      BY <1>3, <2>3, <3>1
    <3>3. QED
      BY <1>6, <1>12, <3>2
  <2>4. \A m \in 1..Len(have), n \in 1..Len(need) : q[m].key # r[n].key
    BY <1>4, <1>6, <1>11
  <2>5. QED
    BY <1>13, <2>1, <2>2, <2>3, <2>4
<1>18. ASSUME NEW i \in 1..Len(queue')
       PROVE  LET k == queue'[i].key IN
                queue'[i] = Octant(k, IF k \in found THEN {Bin(k)} ELSE {}, FALSE)
  <2>1. CASE i \in 1..Len(have) /\ queue'[i] = q[i]
    BY <1>6, <1>11, <2>1
  <2>2. CASE i - Len(have) \in 1..Len(need) /\ queue'[i] = r[i - Len(have)]
    BY <1>4, <1>6, <1>11, <2>2
  <2>3. QED
    BY <1>13, <2>1, <2>2
<1>19. QED
  BY <1>2, <1>3, <1>12, <1>16, <1>17, <1>18

-----------------------------------------------------------------------------
(* What process() does with the octant it is given.                        *)

\* m_completes with the octant, and the children of its parent among them.
All  == Put(completes, popped.key, popped)
Kids == [d \in Dirs |-> All[Child(Parent(popped.key), d)]]

LEMMA AliveKeys ==
    ASSUME TypeInv
    PROVE  /\ InQueue = KeysOf(queue) /\ InTasks = KeysOf(tasks)
           /\ LiveKeys = InQueue \cup DOMAIN completes \cup InHands \cup InTasks \cup InWork
<1>1. DOMAIN queue = 1..Len(queue) /\ DOMAIN tasks = 1..Len(tasks)
  BY LenProperties DEF TypeInv
<1>2. InQueue = KeysOf(queue)
  BY <1>1 DEF InQueue, Queued, KeysOf
<1>3. InTasks = KeysOf(tasks)
  BY <1>1 DEF InTasks, Waiting, KeysOf
<1>4. QED
  BY <1>2, <1>3 DEF LiveKeys, InQueue, InTasks, InHands, InWork

\* The voxel of the octant is no other one's, and below the root.
LEMMA HeldVoxel ==
    ASSUME CutInv, main = "process"
    PROVE  LET k == popped.key
               p == Parent(k)
           IN  /\ k \in VoxelKey /\ InTree(k) /\ k # Root /\ k.level > 0
               /\ p \in VoxelKey /\ InTree(p) /\ k \in Children(p)
               /\ k \notin DOMAIN completes /\ k \in LiveKeys
               /\ Ancestors(k) = {p} \cup Ancestors(p)
<1> DEFINE k == popped.key
<1>1. k \in InHands
  BY DEF InHands
<1>2. k \in LiveKeys /\ k \notin DOMAIN completes
  BY <1>1, AliveKeys DEF CutInv, Cut, OnePlace
<1>3. k \in VoxelKey /\ InTree(k) /\ k # Root
  BY <1>2 DEF CutInv, Cut, InTheTree, MainInv
<1>4. QED
  BY <1>2, <1>3, TreeTop, TreeParent, ParentType, ChildOfParent, LineageStep

LEMMA AllType ==
    ASSUME CutInv, main = "process"
    PROVE  /\ DOMAIN All = DOMAIN completes \cup {popped.key}
           /\ \A k \in DOMAIN completes : All[k] = completes[k] /\ k # popped.key
           /\ All[popped.key] = popped
           /\ \A k \in DOMAIN All : k \in VoxelKey /\ All[k] \in Octants /\ All[k].key = k
<1>1. popped.key \notin DOMAIN completes /\ popped.key \in VoxelKey
  BY HeldVoxel
<1>2. /\ popped \in Octants
      /\ \A k \in DOMAIN completes : k \in VoxelKey /\ completes[k] \in Octants /\ completes[k].key = k
  BY DEF CutInv, TypeInv
<1>3. QED
  BY <1>1, <1>2 DEF All, Put

LEMMA KidsType ==
    ASSUME CutInv, main = "process", Children(Parent(popped.key)) \subseteq DOMAIN All
    PROVE  /\ Kids \in [Dirs -> Octants] /\ KidsOf(Parent(popped.key), Kids)
           /\ \A d \in Dirs : /\ Child(Parent(popped.key), d) \in DOMAIN All
                              /\ Kids[d] = All[Child(Parent(popped.key), d)]
<1>1. \A d \in Dirs : Child(Parent(popped.key), d) \in DOMAIN All
  BY DEF Children
<1>2. QED
  BY <1>1, AllType DEF Kids, KidsOf

\* The three things process() does: the octant waits for its siblings, or its
\* parent is a task, or its parent is complete as well.
LEMMA ProcessKinds ==
    ASSUME CutInv, Process
    PROVE  LET p == Parent(popped.key) IN
           /\ main = "process" /\ main' = "run"
           /\ UNCHANGED <<disk, error, popped, poolVars, copcVars, data, written, childCounts, found>>
           /\ \/ /\ ~ Children(p) \subseteq DOMAIN All
                 /\ completes' = All /\ queue' = queue /\ tasks' = tasks
              \/ /\ Children(p) \subseteq DOMAIN All
                 /\ completes' = [k \in DOMAIN All \ Children(p) |-> All[k]]
                 /\ queue' = queue
                 /\ tasks' = Append(tasks, [key |-> p, kids |-> Kids])
              \/ /\ Children(p) \subseteq DOMAIN All
                 /\ completes' = [k \in DOMAIN All \ Children(p) |-> All[k]]
                 /\ \A d \in Dirs : NumPoints(Kids[d], disk) = 0
                 /\ queue' = Append(queue, Octant(p, {}, FALSE))
                 /\ tasks' = tasks
<1>1. main = "process"
  BY DEF Process
<1>2. popped.key \notin DOMAIN completes
  BY <1>1, HeldVoxel
<1>3. QED
  BY <1>1, <1>2 DEF Process, All, Kids

-----------------------------------------------------------------------------
(* The types are kept.                                                     *)

LEMMA NoOctantType == NoOctant \in Octants
BY RootType DEF NoOctant, Octant, Octants

LEMMA TypeInit == Init => TypeInv
<1> SUFFICES ASSUME Init PROVE TypeInv
  OBVIOUS
<1>1. queue = <<>> /\ tasks = <<>> /\ completes = <<>>
  BY DEF Init
<1>2. queue \in Seq(Octants) /\ tasks \in Seq(Tasks) /\ Waiting = {} /\ DOMAIN completes = {}
      /\ IsFiniteSet({})
  BY <1>1, FS_EmptySet DEF Waiting
<1>3. completes = [k \in DOMAIN completes |-> completes[k]]
  BY <1>1
<1>4. QED
  BY <1>2, <1>3, NoOctantType DEF Init, TypeInv

LEMMA MergeType ==
    ASSUME NEW o \in Octants
    PROVE  /\ MergeOctant(o) \in Octants
           /\ MergeOctant(o).key = o.key /\ MergeOctant(o).mustWrite = o.mustWrite
           /\ MergeOctant(o).files \subseteq o.files \cup {Merged(o.key)}
<1> DEFINE m == IF PointsIn(Small(o), disk) = {} THEN {} ELSE {Merged(o.key)}
<1>1. o.key \in VoxelKey /\ o.files \in SUBSET Files /\ o.mustWrite \in BOOLEAN
  BY DEF Octants
<1>2. Merged(o.key) \in Files
  BY <1>1 DEF Merged, Files
<1>3. (o.files \ Small(o)) \cup m \in SUBSET Files
  BY <1>1, <1>2
<1>4. MergeOctant(o) = [o EXCEPT !.files = (o.files \ Small(o)) \cup m]
  BY DEF MergeOctant
<1> HIDE DEF m
<1>5. /\ MergeOctant(o) \in Octants
      /\ MergeOctant(o).key = o.key /\ MergeOctant(o).mustWrite = o.mustWrite
      /\ MergeOctant(o).files = (o.files \ Small(o)) \cup m
  BY <1>3, <1>4 DEF Octants
<1>6. QED
  BY <1>5 DEF m

LEMMA MergedKidType ==
    ASSUME TypeInv, NEW w \in Workers, NEW d \in Dirs
    PROVE  /\ kids[w][d] \in Octants /\ MergedKid(w, d) \in Octants
           /\ MergedKid(w, d).key = kids[w][d].key
           /\ MergedKid(w, d).mustWrite = kids[w][d].mustWrite
           /\ MergedKid(w, d).files \subseteq kids[w][d].files \cup {Merged(kids[w][d].key)}
<1>1. kids[w][d] \in Octants
  BY DEF TypeInv
<1>2. QED
  BY <1>1, MergeType DEF MergedKid

\* The files of the children that are hoisted, and of the others.
LEMMA FilesType ==
    ASSUME TypeInv, NEW w \in Workers
    PROVE  HoistedFiles(w) \subseteq Files /\ RestFiles(w) \subseteq Files
<1>1. \A d \in Dirs : MergedKid(w, d).files \subseteq Files
  BY MergedKidType DEF Octants
<1>2. Hoisted(w) \subseteq Dirs
  BY DEF Hoisted
<1>3. QED
  BY <1>1, <1>2 DEF HoistedFiles, RestFiles

LEMMA WaitingAppend ==
    ASSUME TypeInv, NEW t \in Tasks, tasks' = Append(tasks, t)
    PROVE  tasks' \in Seq(Tasks) /\ Waiting' = Waiting \cup {t}
<1>1. tasks \in Seq(Tasks) /\ DOMAIN tasks = 1..Len(tasks) /\ Len(tasks) \in Nat
  BY LenProperties DEF TypeInv
<1>2. /\ tasks' \in Seq(Tasks) /\ Len(tasks') = Len(tasks) + 1
      /\ \A i \in 1..Len(tasks) : tasks'[i] = tasks[i]
      /\ tasks'[Len(tasks) + 1] = t
  BY <1>1, AppendProperties
<1>3. DOMAIN tasks' = 1..Len(tasks) \cup {Len(tasks) + 1}
  <2>1. DOMAIN tasks' = 1..Len(tasks')
    BY <1>2, LenProperties
  <2>2. QED
    BY <1>1, <1>2, <2>1
<1>4. QED
  BY <1>1, <1>2, <1>3 DEF Waiting

\* Every action keeps the types.
LEMMA TypeStep ==
    ASSUME CutInv, [Next]_vars
    PROVE  TypeInv'
<1> USE DEF CutInv, mainVars, poolVars, copcVars
<1>1. CASE QueueWork
  <2>1. queue' \in Seq(Octants)
    BY <1>1, QueuedWork
  <2>2. QED
    BY <1>1, <2>1 DEF QueueWork, TypeInv, KidsOf, Waiting
<1>2. CASE PopOctant
  <2>1. Head(queue) \in Octants /\ Tail(queue) \in Seq(Octants)
    BY <1>2, KeyedTail DEF PopOctant, TypeInv
  <2>2. QED
    BY <1>2, <2>1 DEF PopOctant, TypeInv, KidsOf, Waiting
<1>3. CASE Process
  <2> DEFINE p == Parent(popped.key)
             t == [key |-> p, kids |-> Kids]
  <2>1. main = "process" /\ main' = "run" /\ p \in VoxelKey
    BY <1>3, ProcessKinds, HeldVoxel
  <2>2. /\ UNCHANGED <<disk, error, popped, wpc, octant, kids, failures>>
        /\ \/ completes' = All /\ queue' = queue /\ tasks' = tasks
           \/ /\ Children(p) \subseteq DOMAIN All
              /\ completes' = [k \in DOMAIN All \ Children(p) |-> All[k]]
              /\ \/ queue' = queue /\ tasks' = Append(tasks, t)
                 \/ queue' = Append(queue, Octant(p, {}, FALSE)) /\ tasks' = tasks
    BY <1>3, ProcessKinds
  <2>3. /\ DOMAIN completes' \subseteq VoxelKey
        /\ completes' = [k \in DOMAIN completes' |-> completes'[k]]
        /\ \A k \in DOMAIN completes' : completes'[k] \in Octants /\ completes'[k].key = k
    BY <2>1, <2>2, AllType DEF All, Put
  <2>4. queue' \in Seq(Octants)
    <3>1. Octant(p, {}, FALSE) \in Octants
      BY <2>1 DEF Octant, Octants
    <3>2. Append(queue, Octant(p, {}, FALSE)) \in Seq(Octants)
      BY <3>1, KeyedAppend DEF TypeInv
    <3>3. QED
      BY <2>2, <3>2 DEF TypeInv
  <2>5. tasks' \in Seq(Tasks) /\ \A u \in Waiting' : KidsOf(u.key, u.kids)
    <3>1. CASE tasks' = tasks
      BY <3>1 DEF TypeInv, Waiting
    <3>2. CASE Children(p) \subseteq DOMAIN All /\ tasks' = Append(tasks, t)
      <4>1. t \in Tasks /\ KidsOf(t.key, t.kids)
        BY <2>1, <3>2, KidsType DEF Tasks
      <4>2. tasks' \in Seq(Tasks) /\ Waiting' = Waiting \cup {t}
        BY <3>2, <4>1, WaitingAppend DEF TypeInv
      <4>3. QED
        BY <4>1, <4>2 DEF TypeInv
    <3>3. QED
      BY <2>2, <3>1, <3>2
  <2>6. IsFiniteSet(DOMAIN completes')
    <3>1. IsFiniteSet(DOMAIN All) /\ DOMAIN All = DOMAIN completes \cup {popped.key}
      <4>1. IsFiniteSet(DOMAIN completes) /\ DOMAIN All = DOMAIN completes \cup {popped.key}
        BY <2>1, AllType DEF TypeInv
      <4>2. QED
        BY <4>1, FS_AddElement
    <3>2. DOMAIN completes' \subseteq DOMAIN All
      BY <2>2, <3>1 DEF TypeInv
    <3>3. QED
      BY <3>1, <3>2, FS_Subset
  <2>7. QED
    BY <2>1, <2>2, <2>3, <2>4, <2>5, <2>6 DEF TypeInv, KidsOf
<1>4. CASE JoinPool \/ Finish \/ Finished
  BY <1>4 DEF JoinPool, Finish, Finished, vars, TypeInv, KidsOf, Waiting
<1>5. CASE UNCHANGED vars
  BY <1>5 DEF vars, TypeInv, KidsOf, Waiting
<1>6. ASSUME NEW w \in Workers, TakeTask(w)
      PROVE  TypeInv'
  <2>1. Head(tasks) \in Tasks /\ Tail(tasks) \in Seq(Tasks) /\ Head(tasks) = tasks[1]
        /\ 1 \in 1..Len(tasks)
    BY <1>6, KeyedTail DEF TakeTask, TypeInv
  <2>2. Head(tasks) \in Waiting /\ Waiting' \subseteq Waiting
    <3>1. DOMAIN tasks = 1..Len(tasks) /\ tasks' = Tail(tasks)
      BY <1>6, LenProperties DEF TakeTask, TypeInv
    <3>2. /\ DOMAIN Tail(tasks) = 1..Len(Tail(tasks)) /\ Len(Tail(tasks)) = Len(tasks) - 1
          /\ Len(tasks) \in Nat
          /\ \A i \in 1..Len(Tail(tasks)) : Tail(tasks)[i] = tasks[i + 1]
      BY <1>6, <2>1, HeadTailProperties, LenProperties DEF TakeTask, TypeInv
    <3>3. \A i \in DOMAIN Tail(tasks) : Tail(tasks)[i] = tasks[i + 1] /\ i + 1 \in DOMAIN tasks
      BY <3>1, <3>2
    <3>4. QED
      BY <2>1, <3>1, <3>3 DEF Waiting
  <2>3. Octant(Head(tasks).key, {}, FALSE) \in Octants /\ Head(tasks).kids \in [Dirs -> Octants]
    BY <2>1 DEF Tasks, Octant, Octants
  <2>4. KidsOf(Head(tasks).key, Head(tasks).kids)
    BY <2>2 DEF TypeInv
  <2>5. ASSUME NEW v \in Workers, wpc'[v] = "prepare"
        PROVE  KidsOf(octant'[v].key, kids'[v])
    <3>1. CASE v = w
      BY <1>6, <2>4, <3>1 DEF TakeTask, TypeInv, Octant
    <3>2. CASE v # w
      BY <1>6, <2>5, <3>2 DEF TakeTask, TypeInv
    <3>3. QED
      BY <3>1, <3>2
  <2>6. QED
    BY <1>6, <2>1, <2>2, <2>3, <2>5 DEF TakeTask, TypeInv
<1>7. ASSUME NEW w \in Workers, Prepare(w)
      PROVE  TypeInv'
  <2>1. PICK keep \in BOOLEAN, must \in BOOLEAN :
          octant' = [octant EXCEPT ![w] = Octant(octant[w].key,
                        HoistedFiles(w) \cup (IF keep THEN {Bin(octant[w].key)} ELSE {}), must)]
    BY <1>7 DEF Prepare
  <2>2. octant[w].key \in VoxelKey
    BY DEF TypeInv, Octants
  <2>3. octant' \in [Workers -> Octants]
    <3>1. Bin(octant[w].key) \in Files
      BY <2>2 DEF Bin, Files
    <3>2. Octant(octant[w].key, HoistedFiles(w) \cup (IF keep THEN {Bin(octant[w].key)} ELSE {}), must)
            \in Octants
      BY <2>2, <3>1, FilesType DEF Octant, Octants
    <3>3. QED
      BY <2>1, <3>2 DEF TypeInv
  <2>4. kids' \in [Workers -> [Dirs -> Octants]]
    BY <1>7, NoOctantType DEF Prepare, TypeInv
  <2>5. ASSUME NEW v \in Workers, wpc'[v] = "prepare"
        PROVE  KidsOf(octant'[v].key, kids'[v])
    BY <1>7, <2>5 DEF Prepare, TypeInv
  <2>6. QED
    BY <1>7, <2>3, <2>4, <2>5 DEF Prepare, TypeInv, Waiting
<1>8. ASSUME NEW w \in Workers, NewChunk(w) \/ WriteChunk(w) \/ Throw(w)
      PROVE  TypeInv'
  <2>1. wpc' \in [Workers -> {"idle", "prepare", "chunk", "write", "threw"}]
        /\ \A v \in Workers : wpc'[v] = "prepare" => wpc[v] = "prepare"
    BY <1>8 DEF NewChunk, WriteChunk, Throw, TypeInv
  <2>2. failures' \in Nat
    BY <1>8 DEF NewChunk, WriteChunk, Throw, TypeInv
  <2>3. UNCHANGED <<queue, tasks, popped, octant, kids, completes, error, main>>
    BY <1>8 DEF NewChunk, WriteChunk, Throw
  <2>4. QED
    BY <2>1, <2>2, <2>3 DEF TypeInv, KidsOf, Waiting
<1>9. ASSUME NEW w \in Workers, EndTask(w)
      PROVE  TypeInv'
  <2>1. queue' \in Seq(Octants)
    BY <1>9, KeyedAppend DEF EndTask, TypeInv
  <2>2. octant' \in [Workers -> Octants] /\ kids' \in [Workers -> [Dirs -> Octants]]
    BY <1>9, NoOctantType DEF EndTask, TypeInv
  <2>3. ASSUME NEW v \in Workers, wpc'[v] = "prepare"
        PROVE  KidsOf(octant'[v].key, kids'[v])
    BY <1>9, <2>3 DEF EndTask, TypeInv
  <2>4. QED
    BY <1>9, <2>1, <2>2, <2>3 DEF EndTask, TypeInv, Waiting
<1>10. QED
  BY <1>1, <1>2, <1>3, <1>4, <1>5, <1>6, <1>7, <1>8, <1>9 DEF Next, MainStep, WorkerStep

-----------------------------------------------------------------------------
(* The cut is kept.                                                        *)

LEMMA AliveKeysNext ==
    ASSUME TypeInv'
    PROVE  /\ InQueue' = KeysOf(queue') /\ InTasks' = KeysOf(tasks')
           /\ LiveKeys' = (InQueue \cup DOMAIN completes \cup InHands \cup InTasks \cup InWork)'
<1>1. DOMAIN queue' = 1..Len(queue') /\ DOMAIN tasks' = 1..Len(tasks')
  BY LenProperties DEF TypeInv
<1>2. InQueue' = KeysOf(queue')
  BY <1>1 DEF InQueue, Queued, KeysOf
<1>3. InTasks' = KeysOf(tasks')
  BY <1>1 DEF InTasks, Waiting, KeysOf
<1>4. QED
  BY <1>2, <1>3 DEF LiveKeys, InQueue, InTasks, InHands, InWork

LEMMA CutInit == Init => Cut
<1> SUFFICES ASSUME Init PROVE Cut
  OBVIOUS
<1>1. queue = <<>> /\ tasks = <<>> /\ completes = <<>> /\ Busy = {} /\ main = "start"
  BY DEF Init, Busy
<1>2. Len(queue) = 0 /\ Len(tasks) = 0 /\ InQueue = {} /\ InTasks = {} /\ DOMAIN completes = {}
  BY <1>1 DEF InQueue, InTasks, Queued, Waiting
<1>3. InHands = {} /\ InWork = {}
  BY <1>1 DEF InHands, InWork
<1>4. LiveKeys = {}
  BY <1>2, <1>3, AliveKeys, TypeInit
<1>5. OnePlace
  BY <1>1, <1>2, <1>3 DEF OnePlace, OneEach
<1>6. QED
  BY <1>1, <1>4, <1>5 DEF Cut, InTheTree, Antichain

\* When no voxel comes to life it is enough to see that each has one place.
LEMMA StillCut ==
    ASSUME Cut, OnePlace', LiveKeys' \subseteq LiveKeys, found' = found, main' # "start",
           main' # "failed" /\ ~error' =>
              LiveKeys' = LiveKeys /\ main \notin {"start", "failed"} /\ ~error
    PROVE  Cut'
BY DEF Cut, InTheTree, Antichain, Covers

\* The work that is queued first cuts the tree.
LEMMA QueueWorkCut ==
    ASSUME CutInv, TypeInv', QueueWork
    PROVE  Cut'
<1>1. LiveKeys = {} /\ ~error
  BY DEF QueueWork, CutInv, Cut, MainInv
<1>2. DOMAIN completes = {} /\ InTasks = {} /\ InWork = {}
  BY <1>1, AliveKeys DEF CutInv
<1>3. DOMAIN completes' = {} /\ InTasks' = {} /\ InWork' = {} /\ InHands' = {}
  BY <1>2 DEF QueueWork, InTasks, Waiting, InWork, Busy, InHands, poolVars
<1>4. InQueue' = found \cup Needed(found) /\ OneEach(queue')
  BY QueuedWork, AliveKeysNext DEF CutInv
<1>5. LiveKeys' = found \cup Needed(found)
  BY <1>3, <1>4, AliveKeysNext
<1>6. OnePlace'
  BY <1>3, <1>4 DEF OnePlace, QueueWork, poolVars, CutInv, Cut, Busy
<1>7. InTheTree(LiveKeys')
  BY <1>5, NeededType DEF CutInv, FoundInv, InTheTree
<1>8. ASSUME NEW j \in LiveKeys', NEW k \in LiveKeys', j \in Ancestors(k)
      PROVE  FALSE
  <2>1. CASE j \in found /\ k \in found
    BY <1>8, <2>1 DEF CutInv, FoundInv, Antichain
  <2>2. CASE j \in Needed(found) /\ k \in found
    BY <1>8, <2>2, NeededType DEF CutInv
  <2>3. CASE k \in Needed(found)
    <3>1. PICK i \in found : Ancestors(k) \subseteq Ancestors(i)
      BY <2>3, NeededType DEF CutInv
    <3>2. j \in Ancestors(i)
      BY <1>8, <3>1
    <3>3. QED
      BY <1>5, <3>2, NeededType DEF CutInv, FoundInv, Antichain
  <2>4. QED
    BY <1>5, <2>1, <2>2, <2>3
<1>9. Covers(LiveKeys', found)
  BY <1>5 DEF Covers
<1>10. found' = found /\ main' # "start"
  BY DEF QueueWork
<1>11. QED
  BY <1>6, <1>7, <1>8, <1>9, <1>10 DEF Cut, Antichain

LEMMA PopOctantCut ==
    ASSUME CutInv, TypeInv', PopOctant
    PROVE  Cut'
<1> DEFINE h == Head(queue).key
<1>1. /\ KeysOf(queue) = KeysOf(queue') \cup {h}
      /\ OneEach(queue') /\ h \notin KeysOf(queue')
  BY KeyedTail DEF PopOctant, CutInv, TypeInv, Cut, OnePlace
<1>2. main = "run" /\ main' # "start" /\ found' = found /\ error' = error
      /\ UNCHANGED <<completes, tasks, wpc, octant>>
  BY DEF PopOctant, poolVars
<1>3. InHands = {} /\ InTasks' = InTasks /\ InWork' = InWork /\ Busy' = Busy
  BY <1>2 DEF InHands, InTasks, InWork, Waiting, Busy
<1>4. InHands' = IF error THEN {} ELSE {h}
  BY DEF InHands, PopOctant
<1>5. InQueue = KeysOf(queue) /\ InQueue' = KeysOf(queue')
      /\ LiveKeys = InQueue \cup DOMAIN completes \cup InHands \cup InTasks \cup InWork
      /\ LiveKeys' = InQueue' \cup DOMAIN completes \cup InHands' \cup InTasks \cup InWork
  BY <1>2, <1>3, AliveKeys, AliveKeysNext DEF CutInv
<1> HIDE DEF h
<1>6. LiveKeys' \subseteq LiveKeys /\ (~error => LiveKeys' = LiveKeys)
  BY <1>1, <1>3, <1>4, <1>5
<1>7. OnePlace'
  <2>1. OnePlace
    BY DEF CutInv, Cut
  <2>2. /\ InQueue' \cap (DOMAIN completes \cup InHands' \cup InTasks \cup InWork) = {}
        /\ DOMAIN completes \cap (InHands' \cup InTasks \cup InWork) = {}
        /\ InHands' \cap (InTasks \cup InWork) = {} /\ InTasks \cap InWork = {}
    BY <1>1, <1>4, <1>5, <2>1 DEF OnePlace
  <2>3. QED
    BY <1>1, <1>2, <1>3, <2>1, <2>2 DEF OnePlace
<1>8. QED
  BY <1>2, <1>6, <1>7, StillCut DEF CutInv

\* A voxel takes the place of its children.
LEMMA ParentCut ==
    ASSUME NEW K, InTheTree(K), Antichain(K),
           NEW p \in VoxelKey, InTree(p), Children(p) \subseteq K,
           NEW L, L = (K \ Children(p)) \cup {p}
    PROVE  /\ p \notin K
           /\ InTheTree(L) /\ Antichain(L)
           /\ \A F : InTheTree(F) /\ Covers(K, F) => Covers(L, F)
<1>1. \A c \in Children(p) : c \in VoxelKey /\ Ancestors(c) = {p} \cup Ancestors(p)
  BY ChildrenType, TreeChildren
<1>2. PICK c \in Children(p) : TRUE
  <2>1. [a \in Axes |-> 0] \in Dirs
    BY DEF Dirs
  <2>2. QED
    BY <2>1 DEF Children
<1>3. p \notin K
  BY <1>1, <1>2 DEF Antichain
<1>4. \A k \in K \ Children(p) : Apart(k, p)
  <2> TAKE k \in K \ Children(p)
  <2>1. \A i \in Children(p) : Apart(k, i)
    BY DEF Antichain, Apart
  <2>2. QED
    BY <2>1, ApartFromParent DEF InTheTree
<1>5. InTheTree(L)
  BY DEF InTheTree
<1>6. p \notin Ancestors(p)
  BY AncestorType, LevelType
<1>7. Antichain(L)
  BY <1>4, <1>6 DEF Antichain, Apart
<1>8. ASSUME NEW F, InTheTree(F), Covers(K, F), NEW k \in F
      PROVE  \E j \in L : j \in {k} \cup Ancestors(k)
  <2>1. PICK j \in K : j \in {k} \cup Ancestors(k)
    BY <1>8 DEF Covers
  <2>2. CASE j \in Children(p)
    <3>1. p \in Ancestors(j)
      BY <1>1, <2>2
    <3>2. p \in Ancestors(k)
      BY <1>8, <2>1, <3>1, AncestorsNest DEF InTheTree
    <3>3. QED
      BY <3>2
  <2>3. QED
    BY <2>1, <2>2
<1>9. QED
  BY <1>3, <1>5, <1>7, <1>8 DEF Covers

LEMMA ProcessCut ==
    ASSUME CutInv, TypeInv', Process
    PROVE  Cut'
<1> DEFINE k == popped.key
           p == Parent(k)
           C == Children(p)
<1>1. /\ main = "process" /\ main' = "run" /\ found' = found /\ error' = error
      /\ UNCHANGED <<wpc, octant>>
  BY ProcessKinds DEF poolVars
<1>2. p \in VoxelKey /\ InTree(p) /\ k \in C /\ k \notin DOMAIN completes
  BY <1>1, HeldVoxel
<1>3. InHands = {k} /\ InHands' = {} /\ InWork' = InWork /\ Busy' = Busy
  BY <1>1 DEF InHands, InWork, Busy
<1>4. DOMAIN All = DOMAIN completes \cup {k}
  BY <1>1, AllType
<1>5. /\ InQueue = KeysOf(queue) /\ InQueue' = KeysOf(queue')
      /\ InTasks = KeysOf(tasks) /\ InTasks' = KeysOf(tasks')
      /\ LiveKeys = InQueue \cup DOMAIN completes \cup {k} \cup InTasks \cup InWork
      /\ LiveKeys' = InQueue' \cup DOMAIN completes' \cup InTasks' \cup InWork
  BY <1>3, AliveKeys, AliveKeysNext DEF CutInv
<1>6. OnePlace /\ InTheTree(LiveKeys) /\ Antichain(LiveKeys)
  BY DEF CutInv, Cut
<1>7. \/ completes' = All /\ queue' = queue /\ tasks' = tasks
      \/ /\ C \subseteq DOMAIN All /\ DOMAIN completes' = DOMAIN All \ C
         /\ \/ queue' = queue /\ tasks' = Append(tasks, [key |-> p, kids |-> Kids])
            \/ queue' = Append(queue, Octant(p, {}, FALSE)) /\ tasks' = tasks
  BY ProcessKinds
<1> HIDE DEF k, p, C
<1>8. CASE completes' = All /\ queue' = queue /\ tasks' = tasks
  <2>1. DOMAIN completes' = DOMAIN completes \cup {k} /\ InQueue' = InQueue /\ InTasks' = InTasks
    BY <1>4, <1>5, <1>8
  <2>2. LiveKeys' = LiveKeys
    BY <1>5, <2>1
  <2>3. OnePlace'
    <3>1. /\ InQueue \cap (DOMAIN completes \cup {k} \cup InTasks \cup InWork) = {}
          /\ DOMAIN completes \cap ({k} \cup InTasks \cup InWork) = {}
          /\ {k} \cap (InTasks \cup InWork) = {} /\ InTasks \cap InWork = {}
          /\ \A v, w \in Busy : octant[v].key = octant[w].key => v = w
      BY <1>3, <1>6 DEF OnePlace
    <3>2. /\ InQueue' \cap (DOMAIN completes' \cup InHands' \cup InTasks' \cup InWork') = {}
          /\ DOMAIN completes' \cap (InHands' \cup InTasks' \cup InWork') = {}
          /\ InHands' \cap (InTasks' \cup InWork') = {} /\ InTasks' \cap InWork' = {}
      BY <1>3, <2>1, <3>1
    <3>3. \A v, w \in Busy' : octant'[v].key = octant'[w].key => v = w
      BY <1>1, <1>3, <3>1
    <3>4. OneEach(queue') /\ OneEach(tasks')
      BY <1>6, <1>8 DEF OnePlace
    <3>5. QED
      BY <3>2, <3>3, <3>4 DEF OnePlace
  <2>4. QED
    BY <1>1, <2>2, <2>3, StillCut DEF CutInv
<1>9. CASE /\ C \subseteq DOMAIN All /\ DOMAIN completes' = DOMAIN All \ C
           /\ \/ queue' = queue /\ tasks' = Append(tasks, [key |-> p, kids |-> Kids])
              \/ queue' = Append(queue, Octant(p, {}, FALSE)) /\ tasks' = tasks
  <2>1. C \subseteq DOMAIN completes \cup {k} /\ DOMAIN completes' = DOMAIN completes \ C
    BY <1>2, <1>4, <1>9
  <2>2. p \notin LiveKeys /\ InTheTree((LiveKeys \ C) \cup {p}) /\ Antichain((LiveKeys \ C) \cup {p})
        /\ (Covers(LiveKeys, found) => Covers((LiveKeys \ C) \cup {p}, found))
    <3>1. Children(p) \subseteq LiveKeys
      BY <1>5, <2>1 DEF C
    <3>2. InTheTree(found)
      BY DEF CutInv, FoundInv
    <3>3. QED
      BY <1>2, <1>6, <3>1, <3>2, ParentCut DEF C
  <2>3. /\ InQueue \cap (DOMAIN completes \cup {k} \cup InTasks \cup InWork) = {}
        /\ DOMAIN completes \cap ({k} \cup InTasks \cup InWork) = {}
        /\ {k} \cap (InTasks \cup InWork) = {} /\ InTasks \cap InWork = {}
        /\ \A v, w \in Busy : octant[v].key = octant[w].key => v = w
        /\ OneEach(queue) /\ OneEach(tasks)
    BY <1>3, <1>6 DEF OnePlace
  <2>4. \/ /\ InTasks' = InTasks \cup {p} /\ InQueue' = InQueue
           /\ OneEach(queue') /\ OneEach(tasks')
        \/ /\ InTasks' = InTasks /\ InQueue' = InQueue \cup {p}
           /\ OneEach(queue') /\ OneEach(tasks')
    <3>1. CASE queue' = queue /\ tasks' = Append(tasks, [key |-> p, kids |-> Kids])
      <4>1. [key |-> p, kids |-> Kids] \in Tasks
        BY <1>1, <1>2, <1>9, KidsType DEF Tasks, C, p, k
      <4>2. /\ KeysOf(tasks') = KeysOf(tasks) \cup {p}
            /\ p \notin KeysOf(tasks) => OneEach(tasks')
        BY <2>3, <3>1, <4>1, KeyedAppend DEF CutInv, TypeInv
      <4>3. QED
        BY <1>5, <2>2, <2>3, <3>1, <4>2
    <3>2. CASE queue' = Append(queue, Octant(p, {}, FALSE)) /\ tasks' = tasks
      <4> DEFINE o == Octant(p, {}, FALSE)
      <4>1. o \in Octants /\ o.key = p /\ queue' = Append(queue, o)
        BY <1>2, <3>2 DEF Octant, Octants
      <4> HIDE DEF o
      <4>2. /\ KeysOf(queue') = KeysOf(queue) \cup {p}
            /\ p \notin KeysOf(queue) => OneEach(queue')
        <5>1. queue \in Seq(Octants)
          BY DEF CutInv, TypeInv
        <5>2. /\ KeysOf(Append(queue, o)) = KeysOf(queue) \cup {o.key}
              /\ OneEach(queue) /\ o.key \notin KeysOf(queue) => OneEach(Append(queue, o))
          BY <4>1, <5>1, KeyedAppend
        <5>3. QED
          BY <2>3, <4>1, <5>2
      <4>3. QED
        BY <1>5, <2>2, <2>3, <3>2, <4>2
    <3>3. QED
      BY <1>9, <3>1, <3>2
  <2>5. p \notin InQueue \cup InTasks \cup InWork \cup DOMAIN completes
    BY <1>5, <2>2
  <2>6. LiveKeys' = (LiveKeys \ C) \cup {p}
    <3>1. (InQueue \cup InTasks \cup InWork) \cap C = {}
      BY <2>1, <2>3
    <3>2. k \in C
      BY <1>2
    <3>3. LiveKeys' = InQueue \cup (DOMAIN completes \ C) \cup InTasks \cup InWork \cup {p}
      BY <1>5, <2>1, <2>4
    <3>4. QED
      BY <1>5, <3>1, <3>2, <3>3
  <2>7. OnePlace'
    <3>1. /\ InQueue' \cap (DOMAIN completes' \cup InHands' \cup InTasks' \cup InWork') = {}
          /\ DOMAIN completes' \cap (InHands' \cup InTasks' \cup InWork') = {}
          /\ InHands' \cap (InTasks' \cup InWork') = {} /\ InTasks' \cap InWork' = {}
      BY <1>3, <2>1, <2>3, <2>4, <2>5
    <3>2. \A v, w \in Busy' : octant'[v].key = octant'[w].key => v = w
      BY <1>1, <1>3, <2>3
    <3>3. QED
      BY <2>4, <3>1, <3>2 DEF OnePlace
  <2>8. main' \notin {"start", "failed"} /\ ~error' => Covers(LiveKeys', found')
    BY <1>1, <2>2, <2>6 DEF CutInv, Cut
  <2>9. QED
    BY <1>1, <2>2, <2>6, <2>7, <2>8 DEF Cut
<1>10. QED
  BY <1>7, <1>8, <1>9

LEMMA TakeTaskCut ==
    ASSUME CutInv, TypeInv', NEW w \in Workers, TakeTask(w)
    PROVE  Cut'
<1> DEFINE h == Head(tasks).key
<1>1. /\ KeysOf(tasks) = KeysOf(tasks') \cup {h}
      /\ OneEach(tasks') /\ h \notin KeysOf(tasks')
  BY KeyedTail DEF TakeTask, CutInv, TypeInv, Cut, OnePlace
<1>2. /\ main' = main /\ main # "start" /\ found' = found /\ error' = error
      /\ UNCHANGED <<queue, completes, popped>>
  <2>1. h \in LiveKeys
    BY <1>1, AliveKeys DEF CutInv
  <2>2. QED
    BY <2>1 DEF TakeTask, mainVars, CutInv, Cut
<1>3. /\ w \notin Busy /\ Busy' = Busy \cup {w}
      /\ octant'[w].key = h /\ \A v \in Busy : octant'[v] = octant[v]
  BY DEF TakeTask, Busy, CutInv, TypeInv, Octant
<1> HIDE DEF h
<1>4. InQueue' = InQueue /\ InHands' = InHands /\ InWork' = InWork \cup {h}
  <2>1. InQueue' = InQueue /\ InHands' = InHands
    BY <1>2 DEF InQueue, Queued, InHands
  <2>2. QED
    BY <1>3, <2>1 DEF InWork
<1>5. InTasks = KeysOf(tasks) /\ InTasks' = KeysOf(tasks')
      /\ LiveKeys = InQueue \cup DOMAIN completes \cup InHands \cup InTasks \cup InWork
      /\ LiveKeys' = InQueue \cup DOMAIN completes \cup InHands \cup InTasks' \cup InWork'
  BY <1>2, <1>4, AliveKeys, AliveKeysNext DEF CutInv
<1>6. LiveKeys' = LiveKeys
  BY <1>1, <1>4, <1>5
<1>7. OnePlace'
  <2>1. /\ InQueue \cap (DOMAIN completes \cup InHands \cup InTasks \cup InWork) = {}
        /\ DOMAIN completes \cap (InHands \cup InTasks \cup InWork) = {}
        /\ InHands \cap (InTasks \cup InWork) = {} /\ InTasks \cap InWork = {}
        /\ \A u, v \in Busy : octant[u].key = octant[v].key => u = v
        /\ OneEach(queue)
    BY DEF CutInv, Cut, OnePlace
  <2>2. /\ InQueue' \cap (DOMAIN completes' \cup InHands' \cup InTasks' \cup InWork') = {}
        /\ DOMAIN completes' \cap (InHands' \cup InTasks' \cup InWork') = {}
        /\ InHands' \cap (InTasks' \cup InWork') = {} /\ InTasks' \cap InWork' = {}
    BY <1>1, <1>2, <1>4, <1>5, <2>1
  <2>3. \A v \in Busy : octant[v].key # h
    BY <1>1, <1>5, <2>1 DEF InWork
  <2>4. \A u, v \in Busy' : octant'[u].key = octant'[v].key => u = v
    BY <1>3, <2>1, <2>3
  <2>5. QED
    BY <1>1, <1>2, <2>1, <2>2, <2>4 DEF OnePlace
<1>8. QED
  BY <1>2, <1>6, <1>7, StillCut DEF CutInv

LEMMA EndTaskCut ==
    ASSUME CutInv, TypeInv', NEW w \in Workers, EndTask(w)
    PROVE  Cut'
<1> DEFINE k == octant[w].key
           o == octant[w]
<1>1. w \in Busy /\ Busy' = Busy \ {w} /\ \A v \in Busy' : octant'[v] = octant[v]
  BY DEF EndTask, Busy, CutInv, TypeInv
<1>2. k \in InWork /\ k \in LiveKeys
  BY <1>1, AliveKeys DEF InWork, CutInv
<1>3. /\ main' = main /\ main # "start" /\ found' = found /\ (~error' => ~error)
      /\ UNCHANGED <<tasks, completes, popped>>
  BY <1>2 DEF EndTask, mainVars, CutInv, Cut, TypeInv
<1>4. /\ InQueue \cap (DOMAIN completes \cup InHands \cup InTasks \cup InWork) = {}
      /\ DOMAIN completes \cap (InHands \cup InTasks \cup InWork) = {}
      /\ InHands \cap (InTasks \cup InWork) = {} /\ InTasks \cap InWork = {}
      /\ \A u, v \in Busy : octant[u].key = octant[v].key => u = v
      /\ OneEach(tasks) /\ OneEach(queue)
  BY DEF CutInv, Cut, OnePlace
<1>5. InTasks' = InTasks /\ InHands' = InHands
  BY <1>3 DEF InTasks, Waiting, InHands
<1>6. InWork' = InWork \ {k}
  <2>1. \A v \in Busy : v # w => octant[v].key # k
    BY <1>1, <1>4
  <2>2. QED
    BY <1>1, <2>1 DEF InWork
<1>7. InQueue = KeysOf(queue) /\ InQueue' = KeysOf(queue')
      /\ LiveKeys = InQueue \cup DOMAIN completes \cup InHands \cup InTasks \cup InWork
      /\ LiveKeys' = InQueue' \cup DOMAIN completes \cup InHands \cup InTasks \cup InWork'
  BY <1>3, <1>5, AliveKeys, AliveKeysNext DEF CutInv
<1>8. InQueue' = InQueue \cup {k} /\ OneEach(queue')
  <2>1. queue \in Seq(Octants) /\ o \in Octants /\ queue' = Append(queue, o)
    BY DEF CutInv, TypeInv, EndTask
  <2>2. /\ KeysOf(Append(queue, o)) = KeysOf(queue) \cup {o.key}
        /\ OneEach(queue) /\ o.key \notin KeysOf(queue) => OneEach(Append(queue, o))
    BY <2>1, KeyedAppend
  <2>3. k \notin KeysOf(queue)
    BY <1>2, <1>4, <1>7
  <2>4. QED
    BY <1>4, <1>7, <2>1, <2>2, <2>3
<1> HIDE DEF k, o
<1>9. LiveKeys' = LiveKeys
  BY <1>2, <1>6, <1>7, <1>8
<1>10. OnePlace'
  <2>1. /\ InQueue' \cap (DOMAIN completes' \cup InHands' \cup InTasks' \cup InWork') = {}
        /\ DOMAIN completes' \cap (InHands' \cup InTasks' \cup InWork') = {}
        /\ InHands' \cap (InTasks' \cup InWork') = {} /\ InTasks' \cap InWork' = {}
    BY <1>2, <1>3, <1>4, <1>5, <1>6, <1>8
  <2>2. \A u, v \in Busy' : octant'[u].key = octant'[v].key => u = v
    BY <1>1, <1>4
  <2>3. QED
    BY <1>3, <1>4, <1>8, <2>1, <2>2 DEF OnePlace
<1>11. QED
  BY <1>3, <1>9, <1>10, StillCut DEF CutInv

\* The other steps move no octant.
Unmoved ==
    /\ queue' = queue /\ completes' = completes /\ popped' = popped /\ tasks' = tasks
    /\ found' = found /\ error' = error /\ Busy' = Busy
    /\ \A w \in Workers : octant'[w].key = octant[w].key
    /\ \/ main' = main /\ main # "start"
       \/ main = "finish" /\ main' \in {"done", "failed"}
       \/ main = "join" /\ main' = "failed"

LEMMA OtherCut ==
    ASSUME CutInv, TypeInv', Unmoved
    PROVE  Cut'
<1> USE DEF Unmoved
<1>1. InQueue' = InQueue /\ InTasks' = InTasks /\ InHands' \subseteq InHands
      /\ (main' # "failed" /\ ~error => InHands' = InHands)
  BY DEF InQueue, Queued, InTasks, Waiting, InHands, CutInv, MainInv
<1>2. InWork' = InWork
  <2>1. Busy \subseteq Workers
    BY DEF Busy
  <2>2. QED
    BY <2>1 DEF InWork
<1>3. /\ LiveKeys' \subseteq LiveKeys
      /\ main' # "failed" /\ ~error => LiveKeys' = LiveKeys
  BY <1>1, <1>2, AliveKeys, AliveKeysNext DEF CutInv
<1>4. OnePlace'
  <2>1. OnePlace /\ Busy \subseteq Workers
    BY DEF CutInv, Cut, Busy
  <2>2. /\ InQueue' \cap (DOMAIN completes' \cup InHands' \cup InTasks' \cup InWork') = {}
        /\ DOMAIN completes' \cap (InHands' \cup InTasks' \cup InWork') = {}
        /\ InHands' \cap (InTasks' \cup InWork') = {} /\ InTasks' \cap InWork' = {}
    BY <1>1, <1>2, <2>1 DEF OnePlace
  <2>3. \A u, v \in Busy' : octant'[u].key = octant'[v].key => u = v
    BY <2>1 DEF OnePlace
  <2>4. QED
    BY <2>1, <2>2, <2>3 DEF OnePlace
<1>5. Cut
  BY DEF CutInv
<1>6. QED
  BY <1>3, <1>4, <1>5, StillCut

LEMMA CutStep ==
    ASSUME CutInv, TypeInv', [Next]_vars
    PROVE  Cut'
<1>1. CASE QueueWork \/ PopOctant \/ Process
  BY <1>1, QueueWorkCut, PopOctantCut, ProcessCut
<1>2. CASE JoinPool \/ Finish
  <2>1. Unmoved
    BY <1>2 DEF JoinPool, Finish, poolVars, Busy, Unmoved
  <2>2. QED
    BY <2>1, OtherCut
<1>3. CASE UNCHANGED vars
  <2>1. Busy' = Busy /\ UNCHANGED <<queue, completes, popped, tasks, found, error, octant, main>>
    BY <1>3 DEF vars, Busy
  <2>2. CASE main # "start"
    <3>1. Unmoved
      BY <2>1, <2>2 DEF Unmoved
    <3>2. QED
      BY <3>1, OtherCut
  <2>3. CASE main = "start"
    <3>1. InQueue' = InQueue /\ InTasks' = InTasks /\ InHands' = InHands /\ InWork' = InWork
      BY <2>1 DEF InQueue, Queued, InTasks, Waiting, InHands, InWork
    <3>2. LiveKeys' = LiveKeys
      BY <2>1, <3>1, AliveKeys, AliveKeysNext DEF CutInv
    <3>3. QED
      BY <2>1, <3>1, <3>2 DEF CutInv, Cut, OnePlace, InTheTree, Antichain, Covers
  <2>4. QED
    BY <2>2, <2>3
<1>4. ASSUME NEW w \in Workers, Prepare(w) \/ NewChunk(w) \/ WriteChunk(w) \/ Throw(w)
      PROVE  Cut'
  <2>1. w \in Busy /\ Busy' = Busy
    BY <1>4 DEF Busy, Prepare, NewChunk, WriteChunk, Throw, CutInv, TypeInv
  <2>2. UNCHANGED <<queue, completes, popped, tasks, found, error, main>>
    BY <1>4 DEF Prepare, NewChunk, WriteChunk, Throw, mainVars
  <2>3. \A v \in Workers : octant'[v].key = octant[v].key
    BY <1>4 DEF Prepare, NewChunk, WriteChunk, Throw, CutInv, TypeInv, Octant
  <2>4. main # "start"
    BY <2>1, AliveKeys DEF CutInv, Cut, InWork
  <2>5. Unmoved
    BY <2>1, <2>2, <2>3, <2>4 DEF Unmoved
  <2>6. QED
    BY <2>5, OtherCut
<1>5. QED
  BY <1>1, <1>2, <1>3, <1>4, TakeTaskCut, EndTaskCut
     DEF Next, MainStep, WorkerStep, Finished

-----------------------------------------------------------------------------
(* The main thread and the errors.                                         *)

\* When the root is reached nothing else is alive.
LEMMA RootIsLast ==
    ASSUME CutInv, main \in {"finish", "done"}
    PROVE  NoTaskAtFinish /\ InQueue = {} /\ LiveKeys = {Root}
<1>1. InHands = {Root}
  BY DEF InHands, CutInv, MainInv
<1>2. /\ InTasks = KeysOf(tasks)
      /\ LiveKeys = InQueue \cup DOMAIN completes \cup {Root} \cup InTasks \cup InWork
  BY <1>1, AliveKeys DEF CutInv
<1>3. \A k \in LiveKeys : k = Root
  <2>1. \A k \in LiveKeys : k \in VoxelKey /\ InTree(k)
    BY DEF CutInv, Cut, InTheTree
  <2>2. Root \in LiveKeys /\ \A k \in LiveKeys : Root \notin Ancestors(k)
    BY <1>2 DEF CutInv, Cut, Antichain
  <2>3. QED
    BY <2>1, <2>2, TreeTop
<1>4. /\ Root \notin InQueue /\ Root \notin DOMAIN completes /\ Root \notin InTasks /\ Root \notin InWork
  BY <1>1 DEF CutInv, Cut, OnePlace
<1>5. InQueue = {} /\ DOMAIN completes = {} /\ InTasks = {} /\ InWork = {} /\ LiveKeys = {Root}
  BY <1>2, <1>3, <1>4
<1>6. Busy = {}
  BY <1>5 DEF InWork
<1>7. tasks = <<>>
  <2>1. tasks \in Seq(Tasks)
    BY DEF CutInv, TypeInv
  <2>2. tasks # <<>> => Head(tasks).key \in KeysOf(tasks)
    BY <2>1, KeyedTail
  <2>3. QED
    BY <1>2, <1>5, <2>2
<1>8. completes = <<>>
  <2>1. completes = [k \in {} |-> completes[k]]
    BY <1>5 DEF CutInv, TypeInv
  <2>2. QED
    BY <2>1
<1>9. QED
  BY <1>5, <1>6, <1>7, <1>8 DEF NoTaskAtFinish

LEMMA NothingAtStart ==
    ASSUME CutInv, main = "start"
    PROVE  tasks = <<>> /\ Busy = {} /\ queue = <<>>
<1>1. LiveKeys = {} /\ tasks \in Seq(Tasks) /\ queue \in Seq(Octants)
  BY DEF CutInv, Cut, TypeInv
<1>2. KeysOf(tasks) = {} /\ KeysOf(queue) = {} /\ InWork = {}
  BY <1>1, AliveKeys DEF CutInv
<1>3. tasks # <<>> => Head(tasks).key \in KeysOf(tasks)
  BY <1>1, KeyedTail
<1>4. queue # <<>> => Head(queue).key \in KeysOf(queue)
  BY <1>1, KeyedTail
<1>5. QED
  BY <1>2, <1>3, <1>4 DEF InWork

LEMMA MainInit == Init => MainInv
BY DEF Init, MainInv

LEMMA MainInvStep ==
    ASSUME CutInv, [Next]_vars
    PROVE  MainInv'
<1> USE DEF CutInv
<1>1. CASE QueueWork \/ Process \/ JoinPool \/ Finish \/ UNCHANGED vars
  <2>1. /\ wpc' = wpc /\ error' = error /\ failures' = failures
        /\ \/ main' \in {"run", "failed"}
           \/ popped' = popped /\ main' = main
           \/ popped' = popped /\ main = "finish" /\ main' = "done"
    BY <1>1 DEF QueueWork, Process, JoinPool, Finish, vars, poolVars
  <2>2. QED
    BY <2>1 DEF MainInv
<1>2. CASE PopOctant
  <2>1. /\ wpc' = wpc /\ error' = error /\ failures' = failures /\ popped' = Head(queue)
        /\ error => main' = "join"
        /\ ~error => main' = IF Head(queue).key = Root THEN "finish" ELSE "process"
    BY <1>2 DEF PopOctant, TypeInv, poolVars
  <2>2. QED
    BY <2>1 DEF MainInv, TypeInv
<1>3. ASSUME NEW w \in Workers, WorkerStep(w)
      PROVE  MainInv'
  <2>1. main \notin {"start", "finish", "done"}
    <3>1. tasks # <<>> \/ w \in Busy
      BY <1>3 DEF WorkerStep, TakeTask, Prepare, NewChunk, WriteChunk, Throw, EndTask, Busy
    <3>2. QED
      BY <3>1, RootIsLast, NothingAtStart DEF NoTaskAtFinish
  <2>2. main' = main /\ popped' = popped /\ (error => error')
    BY <1>3 DEF WorkerStep, TakeTask, Prepare, NewChunk, WriteChunk, Throw, EndTask, mainVars, TypeInv
  <2>3. failures' > 0 => error' \/ \E v \in Workers : wpc'[v] = "threw"
    <3>1. CASE TakeTask(w) \/ Prepare(w) \/ NewChunk(w) \/ WriteChunk(w)
      <4>1. /\ failures' = failures /\ error' = error /\ wpc[w] # "threw"
            /\ \A v \in Workers \ {w} : wpc'[v] = wpc[v]
        BY <3>1 DEF TakeTask, Prepare, NewChunk, WriteChunk, TypeInv
      <4>2. QED
        BY <4>1 DEF MainInv
    <3>2. CASE Throw(w)
      <4>1. wpc'[w] = "threw"
        BY <3>2 DEF Throw, TypeInv
      <4>2. QED
        BY <4>1
    <3>3. CASE EndTask(w)
      <4>1. failures' = failures /\ \A v \in Workers \ {w} : wpc'[v] = wpc[v]
        BY <3>3 DEF EndTask, TypeInv
      <4>2. error' = (error \/ wpc[w] = "threw")
        BY <3>3 DEF EndTask
      <4>3. QED
        BY <4>1, <4>2 DEF MainInv
    <3>4. QED
      BY <1>3, <3>1, <3>2, <3>3 DEF WorkerStep
  <2>4. QED
    BY <2>1, <2>2, <2>3 DEF MainInv
<1>4. CASE Finished
  BY <1>1, <1>4 DEF Finished
<1>5. QED
  BY <1>1, <1>2, <1>3, <1>4 DEF Next, MainStep

-----------------------------------------------------------------------------
(* The theorems.                                                           *)

\* The voxels that are alive are pairwise apart, each in one place, and until
\* there is an error there is one on each temporary file's way to the root.
THEOREM CutInvariance == Spec => []CutInv
<1>1. Init => CutInv
  BY TypeInit, FoundInit, CutInit, MainInit DEF CutInv
<1>2. CutInv /\ [Next]_vars => CutInv'
  <2>1. SUFFICES ASSUME CutInv, [Next]_vars PROVE CutInv'
    OBVIOUS
  <2>2. TypeInv'
    BY <2>1, TypeStep
  <2>3. FoundInv' /\ Cut' /\ MainInv'
    BY <2>1, <2>2, FoundStep, CutStep, MainInvStep DEF CutInv
  <2>4. QED
    BY <2>2, <2>3 DEF CutInv
<1>3. QED
  BY <1>1, <1>2, PTL DEF Spec

\* When the main thread has the root's octant no Processor is at work and none
\* will be: what they share is read without a lock (PyramidManager::run).
THEOREM QuietAtFinish == Spec => []NoTaskAtFinish
<1>1. CutInv => NoTaskAtFinish
  BY RootIsLast DEF NoTaskAtFinish
<1>2. QED
  BY <1>1, CutInvariance, PTL

\* A run in which a Processor threw does not succeed (PyramidManager::run looks
\* at the error before the octant).
THEOREM ErrorsEndRun == Spec => []ErrorStopsRun
<1>1. CutInv => ErrorStopsRun
  <2>1. SUFFICES ASSUME CutInv, main \in {"finish", "done"} PROVE failures = 0
    BY DEF ErrorStopsRun
  <2>2. Busy = {} /\ ~error
    BY <2>1, RootIsLast DEF NoTaskAtFinish, CutInv, MainInv
  <2>3. ~ \E w \in Workers : wpc[w] = "threw"
    BY <2>2 DEF Busy
  <2>4. QED
    BY <2>1, <2>2, <2>3 DEF CutInv, MainInv, TypeInv
<1>2. QED
  BY <1>1, CutInvariance, PTL

LEMMA DisjointUnion ==
    ASSUME NEW S, NEW T, IsFiniteSet(S), IsFiniteSet(T), S \cap T = {}
    PROVE  IsFiniteSet(S \cup T) /\ Cardinality(S \cup T) = Cardinality(S) + Cardinality(T)
<1>1. Cardinality(S) \in Nat /\ Cardinality(T) \in Nat /\ Cardinality(S \cap T) = 0
  BY FS_CardinalityType, FS_EmptySet
<1>2. IsFiniteSet(S \cup T)
      /\ Cardinality(S \cup T) = Cardinality(S) + Cardinality(T) - Cardinality(S \cap T)
  BY FS_Union, Zenon
<1>3. QED
  BY <1>1, <1>2

LEMMA LiveCounts ==
    ASSUME CutInv
    PROVE  LiveCount = Cardinality(LiveKeys)
<1>1. /\ InQueue = KeysOf(queue) /\ InTasks = KeysOf(tasks)
      /\ LiveKeys = InQueue \cup DOMAIN completes \cup InHands \cup InTasks \cup InWork
  BY AliveKeys DEF CutInv
<1>2. IsFiniteSet(InQueue) /\ Cardinality(InQueue) = Len(queue)
  BY <1>1, KeysCount DEF CutInv, TypeInv, Cut, OnePlace
<1>3. IsFiniteSet(InTasks) /\ Cardinality(InTasks) = Len(tasks)
  BY <1>1, KeysCount DEF CutInv, TypeInv, Cut, OnePlace
<1>4. IsFiniteSet(InWork) /\ Cardinality(InWork) = Cardinality(Busy)
  <2> DEFINE f == [w \in Busy |-> octant[w].key]
  <2>1. IsFiniteSet(Busy)
    BY PyramidAssumption, FS_Subset DEF Busy
  <2>2. f \in Bijection(Busy, InWork)
    BY DEF CutInv, Cut, OnePlace, InWork, Bijection, Injection, Surjection, IsInjective
  <2>3. QED
    BY <2>1, <2>2, FS_Bijection DEF ExistsBijection
<1>5. IsFiniteSet(InHands)
      /\ Cardinality(InHands) = (IF main \in {"process", "finish", "done"} THEN 1 ELSE 0)
  BY FS_EmptySet, FS_Singleton DEF InHands
<1>6. IsFiniteSet(DOMAIN completes)
  BY DEF CutInv, TypeInv
<1>7. /\ InQueue \cap (DOMAIN completes \cup InHands \cup InTasks \cup InWork) = {}
      /\ DOMAIN completes \cap (InHands \cup InTasks \cup InWork) = {}
      /\ InHands \cap (InTasks \cup InWork) = {} /\ InTasks \cap InWork = {}
  BY DEF CutInv, Cut, OnePlace
<1>8. LiveKeys = InQueue \cup (DOMAIN completes \cup (InHands \cup (InTasks \cup InWork)))
  BY <1>1
<1>9. IsFiniteSet(InTasks \cup InWork)
      /\ Cardinality(InTasks \cup InWork) = Cardinality(InTasks) + Cardinality(InWork)
  BY <1>3, <1>4, <1>7, DisjointUnion
<1>10. IsFiniteSet(InHands \cup (InTasks \cup InWork))
       /\ Cardinality(InHands \cup (InTasks \cup InWork))
            = Cardinality(InHands) + Cardinality(InTasks \cup InWork)
  BY <1>5, <1>7, <1>9, DisjointUnion
<1>11. IsFiniteSet(DOMAIN completes \cup (InHands \cup (InTasks \cup InWork)))
       /\ Cardinality(DOMAIN completes \cup (InHands \cup (InTasks \cup InWork)))
            = Cardinality(DOMAIN completes) + Cardinality(InHands \cup (InTasks \cup InWork))
  <2>1. DOMAIN completes \cap (InHands \cup (InTasks \cup InWork)) = {}
    BY <1>7
  <2>2. QED
    BY <1>6, <1>10, <2>1, DisjointUnion
<1>12. IsFiniteSet(LiveKeys)
       /\ Cardinality(LiveKeys)
            = Cardinality(InQueue) + Cardinality(DOMAIN completes \cup (InHands \cup (InTasks \cup InWork)))
  <2>1. InQueue \cap (DOMAIN completes \cup (InHands \cup (InTasks \cup InWork))) = {}
    BY <1>7
  <2>2. QED
    BY <1>2, <1>8, <1>11, <2>1, DisjointUnion
<1>13. /\ Len(queue) \in Nat /\ Len(tasks) \in Nat /\ Cardinality(Busy) \in Nat
       /\ Cardinality(DOMAIN completes) \in Nat
  <2>1. IsFiniteSet(Busy)
    BY PyramidAssumption, FS_Subset DEF Busy
  <2>2. QED
    BY <1>6, <2>1, LenProperties, FS_CardinalityType DEF CutInv, TypeInv
<1>14. Cardinality(LiveKeys) = Len(queue) + (Cardinality(DOMAIN completes)
          + (Cardinality(InHands) + (Len(tasks) + Cardinality(Busy))))
  BY <1>2, <1>3, <1>4, <1>9, <1>10, <1>11, <1>12
<1>15. QED
  BY <1>5, <1>13, <1>14 DEF LiveCount

\* Until there is an error the voxels that are alive cut the tree: each is in
\* one place, and there is exactly one on the way of each file to the root
\* (PyramidManager::process queues a voxel when its last child is complete).
THEOREM CutsTheTree == Spec => []OneCutOfTree
<1>1. CutInv => OneCutOfTree
  <2>1. SUFFICES ASSUME CutInv, main # "start", ~error, main # "failed" PROVE
                   /\ LiveCount = Cardinality(LiveKeys)
                   /\ \A k \in found : Cardinality((Lineage(k) \cup {Root}) \cap LiveKeys) = 1
    BY DEF OneCutOfTree
  <2>2. ASSUME NEW k \in found
        PROVE  Cardinality((Lineage(k) \cup {Root}) \cap LiveKeys) = 1
    <3>1. k \in VoxelKey /\ InTree(k)
      BY <2>1 DEF CutInv, FoundInv, InTheTree
    <3>2. Lineage(k) \cup {Root} = {k} \cup Ancestors(k)
      BY <3>1, TreeLineage
    <3>3. PICK j \in LiveKeys : j \in {k} \cup Ancestors(k)
      BY <2>1 DEF CutInv, Cut, Covers
    <3>4. \A i \in LiveKeys : i \in {k} \cup Ancestors(k) => i = j
      <4> TAKE i \in LiveKeys
      <4> HAVE i \in {k} \cup Ancestors(k)
      <4>1. i = j \/ i \in Ancestors(j) \/ j \in Ancestors(i)
        BY <3>1, <3>3, AncestorsAreAChain
      <4>2. QED
        BY <2>1, <4>1 DEF CutInv, Cut, Antichain
    <3>5. (Lineage(k) \cup {Root}) \cap LiveKeys = {j}
      BY <3>2, <3>3, <3>4
    <3>6. QED
      BY <3>5, FS_Singleton
  <2>3. QED
    BY <2>1, <2>2, LiveCounts
<1>2. QED
  BY <1>1, CutInvariance, PTL

-----------------------------------------------------------------------------
(* The temporary files.                                                    *)

AllOctants ==
    Queued \cup {popped} \cup {octant[w] : w \in Workers} \cup {completes[k] : k \in DOMAIN completes}
      \cup {t.kids[d] : t \in Waiting, d \in Dirs} \cup {kids[w][d] : w \in Workers, d \in Dirs}

\* Octants name files that exist, and all is finite.
DiskInv ==
    /\ DOMAIN disk \subseteq Files /\ IsFiniteSet(DOMAIN disk)
    /\ \A f \in DOMAIN disk : IsFiniteSet(disk[f])
    /\ \A k \in found : Bin(k) \in DOMAIN disk
    /\ \A o \in AllOctants : o.files \subseteq DOMAIN disk

\* The octants whose files still matter, but for those a worker has.
SourcesBut(w) ==
    Queued \cup {completes[k] : k \in DOMAIN completes}
      \cup (IF main \in {"process", "finish", "done"} THEN {popped} ELSE {})
      \cup {t.kids[d] : t \in Waiting, d \in Dirs}
      \cup {kids[v][d] : v \in {u \in Workers \ {w} : wpc[u] = "prepare"}, d \in Dirs}
      \cup {octant[v] : v \in Busy \ {w}}
Sources ==
    Queued \cup {completes[k] : k \in DOMAIN completes}
      \cup (IF main \in {"process", "finish", "done"} THEN {popped} ELSE {})
      \cup {t.kids[d] : t \in Waiting, d \in Dirs}
      \cup {kids[v][d] : v \in {u \in Workers : wpc[u] = "prepare"}, d \in Dirs}
      \cup {octant[v] : v \in Busy}

\* An octant has the file of its voxel and files of voxels below it.
Owns(o) == \A f \in o.files : f = Bin(o.key) \/ o.key \in Ancestors(f.key)

Region == found \cup Needed(found) \cup Parents(found)

OwnInv ==
    /\ \A o \in Sources : Owns(o) /\ o.key \in Region
    /\ InTasks \cup InWork \subseteq Parents(found)
    /\ \A w \in Workers : wpc[w] = "prepare" => octant[w].files = {} /\ ~octant[w].mustWrite
    /\ main = "failed" => tasks = <<>> /\ Busy = {}
    /\ error \/ (\E w \in Workers : wpc[w] = "threw") => failures > 0

-----------------------------------------------------------------------------
(* The chunks.                                                             *)

IsChunk(c) == c = [key |-> c.key, points |-> c.points] /\ IsFiniteSet(c.points)

TodoKeys(w) == {c.key : c \in todo[w]}
ChunkKeys   == DOMAIN hierarchy \cup UNION {TodoKeys(w) : w \in Workers}
Storing     == {w \in Workers : wpc[w] = "write"}

\* The voxels whose Processor has not seen to its children yet.
Open == InTasks \cup {octant[w].key : w \in {v \in Workers : wpc[v] = "prepare"}}

\* A voxel that has a chunk is below the cut, and its parent was prepared.
Settled ==
    /\ ChunkKeys \subseteq Region
    /\ \A h \in ChunkKeys : \A j \in LiveKeys : h \notin Ancestors(j)
    /\ \A h \in ChunkKeys \ {Root} : h \notin LiveKeys /\ Parent(h) \notin Open
    /\ Root \in ChunkKeys => Root \notin Open
    /\ main = "start" => ChunkKeys = {}

\* Each chunk is written once.
TodoInv ==
    /\ todo = [w \in Workers |-> todo[w]] /\ chunk = [w \in Workers |-> chunk[w]]
    /\ \A w \in Workers : \A c \in todo[w] : IsChunk(c) /\ c.key \notin DOMAIN hierarchy
    /\ \A w \in Workers : todo[w] # {} => wpc[w] \in {"chunk", "write"}
    /\ \A w \in Workers : \A b, c \in todo[w] : b.key = c.key => b = c
    /\ \A v, w \in Workers : v # w => TodoKeys(v) \cap TodoKeys(w) = {}

\* Each chunk that is not empty has a place of its own.
OffsetsInv ==
    /\ pointPos \in Nat \ {0} /\ chunkTable \in Seq(Nat \ {0})
    /\ \A k \in DOMAIN hierarchy : hierarchy[k].count \in Nat /\ hierarchy[k].offset \in Nat
    /\ \A k \in DOMAIN hierarchy : hierarchy[k].count > 0 => hierarchy[k].offset < pointPos
    /\ \A j, k \in DOMAIN hierarchy :
        hierarchy[j].count > 0 /\ hierarchy[k].count > 0 /\ hierarchy[j].offset = hierarchy[k].offset
            => j = k

\* A worker writes a chunk where its place is, and a chunk no one else writes.
StoringInv ==
    /\ \A w \in Storing : /\ chunk[w].key \in DOMAIN hierarchy \ DOMAIN written
                          /\ IsFiniteSet(chunk[w].points)
                          /\ hierarchy[chunk[w].key].offset = chunk[w].at
                          /\ hierarchy[chunk[w].key].count = Cardinality(chunk[w].points)
    /\ \A v, w \in Storing : chunk[v].key = chunk[w].key => v = w
    /\ failures = 0 => \A k \in DOMAIN hierarchy \ DOMAIN written : \E w \in Storing : chunk[w].key = k

WrittenInv ==
    /\ DOMAIN written \subseteq DOMAIN hierarchy
    /\ \A k \in DOMAIN written : written[k] = hierarchy[k].count
    /\ \A k \in DOMAIN written : written[k] > 0 => hierarchy[k].offset \in DOMAIN data

HierarchyInv == OffsetsInv /\ StoringInv /\ WrittenInv

\* The parent of a voxel that has a chunk has one, or is going to.
IndexInv ==
    failures = 0 /\ main # "failed" =>
        /\ \A h \in ChunkKeys \ {Root} :
            Parent(h) \in ChunkKeys \/ \E o \in Sources : o.key = Parent(h) /\ o.mustWrite
        /\ \A o \in Sources : o.mustWrite =>
            IF o.key = Root THEN Root \in ChunkKeys ELSE PointsIn(o.files, disk) # {}

-----------------------------------------------------------------------------
(* The points.                                                             *)

PointsOf(o, d) == IF o.key = Root THEN {} ELSE PointsIn(o.files, d)

ChunkPlaces ==
    {<<c.key, c.points>> : c \in UNION {todo[w] : w \in Workers}}
      \cup {<<chunk[w].key, chunk[w].points>> : w \in Storing}
      \cup {<<k, data[hierarchy[k].offset]>> : k \in {j \in DOMAIN written : written[j] > 0}}

\* No point is in two places, none is from elsewhere, and until a task throws
\* none is lost.
PointsInv ==
    /\ \A j, k \in found : j # k => disk[Bin(j)] \cap disk[Bin(k)] = {}
    /\ \A o, q \in Sources : o # q => PointsOf(o, disk) \cap PointsOf(q, disk) = {}
    /\ \A b, c \in ChunkPlaces : b # c => b[2] \cap c[2] = {}
    /\ \A o \in Sources, c \in ChunkPlaces : PointsOf(o, disk) \cap c[2] = {}
    /\ \A o \in Sources : PointsOf(o, disk) \subseteq Input
    /\ \A c \in ChunkPlaces : c[2] \subseteq Input
    /\ main \notin {"start", "failed"} /\ failures = 0 =>
        \A x \in Input : (\E o \in Sources : x \in PointsOf(o, disk)) \/ (\E c \in ChunkPlaces : x \in c[2])

-----------------------------------------------------------------------------
(* Where the octants are.                                                  *)

LEMMA SourcesSplit ==
    ASSUME NEW w \in Workers
    PROVE  Sources = SourcesBut(w)
             \cup (IF wpc[w] = "prepare" THEN {kids[w][d] : d \in Dirs} ELSE {})
             \cup (IF wpc[w] # "idle" THEN {octant[w]} ELSE {})
BY DEF Sources, SourcesBut, Busy

\* Two voxels that are alive, in two places, are apart.
LEMMA AliveApart ==
    ASSUME CutInv, NEW j \in LiveKeys, NEW k \in LiveKeys, j # k
    PROVE  Apart(j, k) /\ j \in VoxelKey /\ k \in VoxelKey /\ InTree(j) /\ InTree(k)
BY DEF CutInv, Cut, Antichain, InTheTree, Apart

\* What is below one of two voxels that are apart is apart from the other.
LEMMA ApartBelow ==
    ASSUME NEW j \in VoxelKey, InTree(j), NEW k \in VoxelKey, Apart(j, k), NEW c \in Children(j)
    PROVE  Apart(c, k)
<1>1. c \in VoxelKey /\ Ancestors(c) = {j} \cup Ancestors(j)
  BY ChildrenType, TreeChildren
<1>2. c # k
  BY <1>1 DEF Apart
<1>3. c \notin Ancestors(k)
  <2>1. SUFFICES ASSUME c \in Ancestors(k) PROVE FALSE
    OBVIOUS
  <2>2. QED
    BY <1>1, <2>1, AncestorsNest DEF Apart
<1>4. k \notin Ancestors(c)
  BY <1>1 DEF Apart
<1>5. QED
  BY <1>2, <1>3, <1>4 DEF Apart

\* The voxels of the octants that are elsewhere are apart from the one a worker
\* has.
LEMMA OthersApart ==
    ASSUME CutInv, NEW w \in Busy, NEW o \in SourcesBut(w)
    PROVE  Apart(o.key, octant[w].key) /\ o.key \in VoxelKey /\ InTree(o.key)
<1> DEFINE k == octant[w].key
<1>1. /\ LiveKeys = InQueue \cup DOMAIN completes \cup InHands \cup InTasks \cup InWork
      /\ OnePlace
  BY AliveKeys DEF CutInv, Cut
<1>2. k \in InWork /\ k \in LiveKeys
  BY <1>1 DEF InWork
<1> HIDE DEF k
<1>3. ASSUME NEW j \in LiveKeys, j \notin InWork \/ \E v \in Busy \ {w} : j = octant[v].key
      PROVE  Apart(j, k) /\ j \in VoxelKey /\ InTree(j) /\ k \in VoxelKey
  <2>1. j # k
    BY <1>1, <1>2, <1>3 DEF OnePlace, k
  <2>2. QED
    BY <1>2, <2>1, AliveApart
<1>4. CASE o \in Queued \/ o \in {completes[i] : i \in DOMAIN completes}
           \/ (main \in {"process", "finish", "done"} /\ o = popped)
  <2>1. o.key \in InQueue \cup DOMAIN completes \cup InHands
    BY <1>4 DEF InQueue, InHands, CutInv, TypeInv
  <2>2. o.key \in LiveKeys /\ o.key \notin InWork
    BY <1>1, <2>1 DEF OnePlace
  <2>3. QED
    BY <1>3, <2>2 DEF k
<1>5. CASE o \in {t.kids[d] : t \in Waiting, d \in Dirs}
  <2>1. PICK t \in Waiting, d \in Dirs : o = t.kids[d]
    BY <1>5
  <2>2. o.key = Child(t.key, d) /\ o.key \in Children(t.key)
    BY <2>1 DEF CutInv, TypeInv, KidsOf, Children
  <2>3. t.key \in InTasks
    BY DEF InTasks
  <2>4. t.key \in LiveKeys /\ t.key \notin InWork
    BY <1>1, <2>3 DEF OnePlace
  <2>5. Apart(t.key, k) /\ t.key \in VoxelKey /\ InTree(t.key) /\ k \in VoxelKey
    BY <1>3, <2>4
  <2>6. QED
    BY <2>2, <2>5, ApartBelow, ChildrenType, TreeChildren DEF k
<1>6. CASE o \in {kids[v][d] : v \in {u \in Workers \ {w} : wpc[u] = "prepare"}, d \in Dirs}
  <2>1. PICK v \in Workers \ {w}, d \in Dirs : wpc[v] = "prepare" /\ o = kids[v][d]
    BY <1>6
  <2>2. o.key \in Children(octant[v].key)
    BY <2>1 DEF CutInv, TypeInv, KidsOf, Children
  <2>3. v \in Busy \ {w} /\ octant[v].key \in LiveKeys
    BY <1>1, <2>1 DEF Busy, InWork
  <2>4. Apart(octant[v].key, k) /\ octant[v].key \in VoxelKey /\ InTree(octant[v].key) /\ k \in VoxelKey
    BY <1>3, <2>3
  <2>5. QED
    BY <2>2, <2>4, ApartBelow, ChildrenType, TreeChildren DEF k
<1>7. CASE o \in {octant[v] : v \in Busy \ {w}}
  <2>1. PICK v \in Busy \ {w} : o = octant[v]
    BY <1>7
  <2>2. o.key \in LiveKeys
    BY <1>1, <2>1 DEF InWork
  <2>3. QED
    BY <1>3, <2>1, <2>2 DEF k
<1>8. QED
  BY <1>4, <1>5, <1>6, <1>7 DEF SourcesBut

-----------------------------------------------------------------------------
(* What each step does to them.                                            *)

LEMMA SourcesAtStart ==
    ASSUME CutInv, main = "start"
    PROVE  Sources = {}
<1>1. /\ LiveKeys = {}
      /\ LiveKeys = InQueue \cup DOMAIN completes \cup InHands \cup InTasks \cup InWork
  BY AliveKeys DEF CutInv, Cut
<1>2. Queued = {} /\ DOMAIN completes = {} /\ Waiting = {} /\ Busy = {}
  BY <1>1 DEF InQueue, InTasks, InWork
<1>3. QED
  BY <1>2 DEF Sources, Busy

EntriesOf(s) == {s[i] : i \in 1..Len(s)}

LEMMA EntriesAppend ==
    ASSUME NEW T, NEW s \in Seq(T), NEW t \in T
    PROVE  EntriesOf(Append(s, t)) = EntriesOf(s) \cup {t}
<1> DEFINE a == Append(s, t)
<1>1. /\ a \in Seq(T) /\ Len(a) = Len(s) + 1 /\ Len(s) \in Nat
      /\ \A i \in 1..Len(s) : a[i] = s[i]
      /\ a[Len(s) + 1] = t
  BY AppendProperties
<1> HIDE DEF a
<1>2. 1..Len(a) = 1..Len(s) \cup {Len(s) + 1}
  BY <1>1
<1>3. EntriesOf(a) = EntriesOf(s) \cup {t}
  BY <1>1, <1>2 DEF EntriesOf
<1>4. QED
  BY <1>3 DEF a

LEMMA EntriesTail ==
    ASSUME NEW T, NEW s \in Seq(T), s # <<>>
    PROVE  EntriesOf(s) = EntriesOf(Tail(s)) \cup {Head(s)}
<1> DEFINE r == Tail(s)
<1>1. /\ r \in Seq(T) /\ Len(s) \in Nat \ {0} /\ Len(r) = Len(s) - 1
      /\ \A i \in 1..Len(r) : r[i] = s[i + 1]
      /\ Head(s) = s[1]
  BY HeadTailProperties, EmptySeq
<1> HIDE DEF r
<1>2. \A i \in 1..Len(r) : i + 1 \in 1..Len(s)
  BY <1>1
<1>3. \A i \in 1..Len(s) : i # 1 => i - 1 \in 1..Len(r) /\ r[i - 1] = s[i]
  <2> TAKE i \in 1..Len(s)
  <2> HAVE i # 1
  <2>1. i - 1 \in 1..Len(r) /\ (i - 1) + 1 = i
    BY <1>1
  <2>2. QED
    BY <1>1, <2>1
<1>4. 1 \in 1..Len(s)
  BY <1>1
<1>5. EntriesOf(s) = EntriesOf(r) \cup {Head(s)}
  BY <1>1, <1>2, <1>3, <1>4 DEF EntriesOf
<1>6. QED
  BY <1>5 DEF r

LEMMA EntriesAre ==
    /\ TypeInv => Queued = EntriesOf(queue) /\ Waiting = EntriesOf(tasks)
    /\ TypeInv' => Queued' = EntriesOf(queue') /\ Waiting' = EntriesOf(tasks')
<1>1. TypeInv => DOMAIN queue = 1..Len(queue) /\ DOMAIN tasks = 1..Len(tasks)
  BY LenProperties DEF TypeInv
<1>2. TypeInv' => DOMAIN queue' = 1..Len(queue') /\ DOMAIN tasks' = 1..Len(tasks')
  BY LenProperties DEF TypeInv
<1>3. QED
  BY <1>1, <1>2 DEF Queued, Waiting, EntriesOf

LEMMA QueuedTail ==
    ASSUME TypeInv, TypeInv', queue # <<>>, queue' = Tail(queue)
    PROVE  Queued = Queued' \cup {Head(queue)}
<1>1. queue \in Seq(Octants)
  BY DEF TypeInv
<1>2. QED
  BY <1>1, EntriesTail, EntriesAre

LEMMA QueuedAppend ==
    ASSUME TypeInv, TypeInv', NEW o \in Octants, queue' = Append(queue, o)
    PROVE  Queued' = Queued \cup {o}
<1>1. queue \in Seq(Octants)
  BY DEF TypeInv
<1>2. QED
  BY <1>1, EntriesAppend, EntriesAre

LEMMA WaitingTail ==
    ASSUME TypeInv, TypeInv', tasks # <<>>, tasks' = Tail(tasks)
    PROVE  Waiting = Waiting' \cup {Head(tasks)} /\ Head(tasks) \in Tasks
<1>1. tasks \in Seq(Tasks)
  BY DEF TypeInv
<1>2. QED
  BY <1>1, EntriesTail, EntriesAre, HeadTailProperties

\* The places that make up Sources.
InCompletes == {completes[k] : k \in DOMAIN completes}
InMain      == IF main \in {"process", "finish", "done"} THEN {popped} ELSE {}
TaskKids    == {t.kids[d] : t \in Waiting, d \in Dirs}
WorkKids    == {kids[v][d] : v \in {u \in Workers : wpc[u] = "prepare"}, d \in Dirs}
InBusy      == {octant[v] : v \in Busy}

LEMMA SourcesAre ==
    /\ Sources = Queued \cup InCompletes \cup InMain \cup TaskKids \cup WorkKids \cup InBusy
    /\ Sources' = Queued' \cup InCompletes' \cup InMain' \cup TaskKids' \cup WorkKids' \cup InBusy'
BY DEF Sources, InCompletes, InMain, TaskKids, WorkKids, InBusy

LEMMA PopSources ==
    ASSUME CutInv, TypeInv', PopOctant
    PROVE  Sources' \subseteq Sources /\ (~error => Sources' = Sources)
<1>1. Queued = Queued' \cup {Head(queue)}
  BY QueuedTail DEF CutInv, PopOctant
<1>2. /\ InCompletes' = InCompletes /\ TaskKids' = TaskKids /\ WorkKids' = WorkKids
      /\ InBusy' = InBusy
  BY DEF PopOctant, poolVars, InCompletes, TaskKids, WorkKids, InBusy, Waiting, Busy
<1>3. InMain = {} /\ InMain' = IF error THEN {} ELSE {Head(queue)}
  BY DEF PopOctant, InMain
<1>4. QED
  BY <1>1, <1>2, <1>3, SourcesAre

LEMMA ProcessSources ==
    ASSUME CutInv, TypeInv', Process
    PROVE  \/ Sources' = Sources
           \/ \E o \in Octants :
                /\ o = Octant(Parent(popped.key), {}, FALSE)
                /\ Children(Parent(popped.key)) \subseteq DOMAIN All
                /\ \A d \in Dirs : NumPoints(Kids[d], disk) = 0 /\ Kids[d] \in Sources
                /\ Sources' \subseteq Sources \cup {o} /\ o \in Sources'
                /\ Sources \subseteq Sources' \cup {Kids[d] : d \in Dirs}
<1> DEFINE p == Parent(popped.key)
           K == {Kids[d] : d \in Dirs}
           o == Octant(p, {}, FALSE)
           t == [key |-> p, kids |-> Kids]
<1>1. main = "process" /\ InMain = {popped} /\ InMain' = {}
  BY ProcessKinds DEF InMain
<1>2. WorkKids' = WorkKids /\ InBusy' = InBusy
  BY ProcessKinds DEF WorkKids, InBusy, Busy, poolVars
<1>3. {All[k] : k \in DOMAIN All} = InCompletes \cup {popped}
  BY <1>1, AllType DEF InCompletes
<1>4. CASE completes' = All /\ queue' = queue /\ tasks' = tasks
  <2>1. InCompletes' = InCompletes \cup {popped} /\ Queued' = Queued /\ TaskKids' = TaskKids
    BY <1>3, <1>4 DEF InCompletes, Queued, TaskKids, Waiting
  <2>2. QED
    BY <1>1, <1>2, <2>1, SourcesAre
<1>5. ASSUME Children(p) \subseteq DOMAIN All, completes' = [k \in DOMAIN All \ Children(p) |-> All[k]]
      PROVE  InCompletes \cup {popped} = InCompletes' \cup K
  <2>1. InCompletes' = {All[k] : k \in DOMAIN All \ Children(p)}
    BY <1>5 DEF InCompletes
  <2>2. K = {All[k] : k \in Children(p)}
    BY <1>1, <1>5, KidsType DEF Children
  <2>3. QED
    BY <1>3, <1>5, <2>1, <2>2
<1>6. CASE /\ Children(p) \subseteq DOMAIN All
           /\ completes' = [k \in DOMAIN All \ Children(p) |-> All[k]]
           /\ queue' = queue /\ tasks' = Append(tasks, t)
  <2>1. t \in Tasks
    BY <1>1, <1>6, HeldVoxel, KidsType DEF Tasks
  <2>2. Waiting' = Waiting \cup {t}
    BY <1>6, <2>1, WaitingAppend DEF CutInv
  <2>3. TaskKids' = TaskKids \cup K /\ Queued' = Queued
    BY <1>6, <2>2 DEF TaskKids, Queued
  <2>4. Sources' = Queued \cup InCompletes' \cup (TaskKids \cup K) \cup WorkKids \cup InBusy
    BY <1>1, <1>2, <2>3, SourcesAre
  <2>5. Sources = Queued \cup InCompletes \cup {popped} \cup TaskKids \cup WorkKids \cup InBusy
    BY <1>1, SourcesAre
  <2>6. InCompletes \cup {popped} = InCompletes' \cup K
    BY <1>5, <1>6
  <2> HIDE DEF K
  <2>7. Sources' = Sources
    BY <2>4, <2>5, <2>6
  <2>8. QED
    BY <2>7
<1>7. CASE /\ Children(p) \subseteq DOMAIN All
           /\ completes' = [k \in DOMAIN All \ Children(p) |-> All[k]]
           /\ \A d \in Dirs : NumPoints(Kids[d], disk) = 0
           /\ queue' = Append(queue, o) /\ tasks' = tasks
  <2>1. o \in Octants
    BY <1>1, HeldVoxel DEF Octant, Octants
  <2> HIDE DEF o
  <2>2. Queued' = Queued \cup {o} /\ TaskKids' = TaskKids
    <3>1. queue' = Append(queue, o) /\ TypeInv
      BY <1>7 DEF CutInv
    <3>2. Queued' = Queued \cup {o}
      BY <2>1, <3>1, QueuedAppend
    <3>3. TaskKids' = TaskKids
      BY <1>7 DEF TaskKids, Waiting
    <3>4. QED
      BY <3>2, <3>3
  <2>3. Sources' = Queued \cup {o} \cup InCompletes' \cup TaskKids \cup WorkKids \cup InBusy
    BY <1>1, <1>2, <2>2, SourcesAre
  <2>4. Sources = Queued \cup InCompletes \cup {popped} \cup TaskKids \cup WorkKids \cup InBusy
    BY <1>1, SourcesAre
  <2> HIDE DEF K
  <2>5. K \subseteq Sources /\ Sources' \subseteq Sources \cup {o} /\ o \in Sources'
        /\ Sources \subseteq Sources' \cup K
    BY <1>5, <1>7, <2>3, <2>4
  <2>6. QED
    BY <1>7, <2>1, <2>5 DEF o, K
<1>8. QED
  BY <1>4, <1>6, <1>7, ProcessKinds

LEMMA TakeTaskSources ==
    ASSUME CutInv, TypeInv', NEW w \in Workers, TakeTask(w)
    PROVE  \E o \in Octants :
             /\ o = Octant(Head(tasks).key, {}, FALSE) /\ o = octant'[w]
             /\ Head(tasks) \in Waiting /\ o.key \in InTasks
             /\ Sources' = Sources \cup {o}
<1> DEFINE t == Head(tasks)
           o == Octant(t.key, {}, FALSE)
           K == {t.kids[d] : d \in Dirs}
<1>1. Waiting = Waiting' \cup {t} /\ t \in Tasks
  BY WaitingTail DEF CutInv, TakeTask
<1>2. /\ w \notin Busy /\ Busy' = Busy \cup {w} /\ octant'[w] = o
      /\ \A v \in Busy : octant'[v] = octant[v]
  <2> HIDE DEF o
  <2>1. /\ octant' = [octant EXCEPT ![w] = o] /\ wpc' = [wpc EXCEPT ![w] = "prepare"]
        /\ wpc[w] = "idle"
    BY DEF TakeTask, o
  <2>2. DOMAIN octant = Workers /\ DOMAIN wpc = Workers
    BY DEF CutInv, TypeInv
  <2>3. octant'[w] = o /\ (\A v \in Workers \ {w} : octant'[v] = octant[v] /\ wpc'[v] = wpc[v])
        /\ wpc'[w] = "prepare"
    BY <2>1, <2>2
  <2>4. QED
    BY <2>1, <2>3 DEF Busy
<1>3. o \in Octants /\ o.key = t.key
  BY <1>1 DEF Octant, Octants, Tasks
<1>4. TaskKids = TaskKids' \cup K
  BY <1>1 DEF TaskKids
<1>5. WorkKids' = WorkKids \cup K
  <2>1. /\ {u \in Workers : wpc'[u] = "prepare"} = {u \in Workers : wpc[u] = "prepare"} \cup {w}
        /\ kids'[w] = t.kids /\ wpc[w] # "prepare"
        /\ \A v \in Workers \ {w} : kids'[v] = kids[v]
    BY DEF TakeTask, CutInv, TypeInv
  <2>2. QED
    BY <2>1 DEF WorkKids
<1>6. Queued' = Queued /\ InCompletes' = InCompletes /\ InMain' = InMain
  BY DEF TakeTask, mainVars, Queued, InCompletes, InMain
<1>7. InBusy' = InBusy \cup {o}
  BY <1>2 DEF InBusy
<1> HIDE DEF o, K
<1>8. Sources' = Sources \cup {o}
  BY <1>4, <1>5, <1>6, <1>7, SourcesAre
<1>9. t \in Waiting /\ o.key \in InTasks
  BY <1>1, <1>3 DEF InTasks
<1>10. QED
  BY <1>2, <1>3, <1>8, <1>9 DEF o

LEMMA EndTaskSources ==
    ASSUME CutInv, TypeInv', NEW w \in Workers, EndTask(w)
    PROVE  Sources' = Sources
<1>1. w \in Busy /\ Busy' = Busy \ {w} /\ \A v \in Busy' : octant'[v] = octant[v]
  BY DEF EndTask, Busy, CutInv, TypeInv
<1>2. octant[w] \in Octants /\ Queued' = Queued \cup {octant[w]}
  BY QueuedAppend DEF EndTask, CutInv, TypeInv
<1>3. WorkKids' = WorkKids
  <2>1. /\ {u \in Workers : wpc'[u] = "prepare"} = {u \in Workers : wpc[u] = "prepare"}
        /\ \A v \in {u \in Workers : wpc[u] = "prepare"} : kids'[v] = kids[v]
    BY DEF EndTask, CutInv, TypeInv
  <2>2. QED
    BY <2>1 DEF WorkKids
<1>4. InCompletes' = InCompletes /\ InMain' = InMain /\ TaskKids' = TaskKids
  BY DEF EndTask, mainVars, InCompletes, InMain, TaskKids, Waiting
<1>5. InBusy' \cup {octant[w]} = InBusy
  BY <1>1 DEF InBusy
<1>6. QED
  BY <1>2, <1>3, <1>4, <1>5, SourcesAre

LEMMA OtherSources ==
    ASSUME CutInv, TypeInv', NEW w \in Workers, NewChunk(w) \/ WriteChunk(w) \/ Throw(w)
    PROVE  /\ Sources' \subseteq Sources
           /\ ~Throw(w) => Sources' = Sources
<1>1. /\ Queued' = Queued /\ InCompletes' = InCompletes /\ InMain' = InMain
      /\ TaskKids' = TaskKids
  <2>1. UNCHANGED <<queue, mainVars, tasks>>
    BY DEF NewChunk, WriteChunk, Throw
  <2>2. QED
    BY <2>1 DEF mainVars, Queued, InCompletes, InMain, TaskKids, Waiting
<1>2. Busy' = Busy /\ InBusy' = InBusy
  BY DEF NewChunk, WriteChunk, Throw, Busy, InBusy, CutInv, TypeInv
<1>3. /\ {u \in Workers : wpc'[u] = "prepare"} \subseteq {u \in Workers : wpc[u] = "prepare"}
      /\ ~Throw(w) => {u \in Workers : wpc'[u] = "prepare"} = {u \in Workers : wpc[u] = "prepare"}
      /\ kids' = kids
  BY DEF NewChunk, WriteChunk, Throw, CutInv, TypeInv
<1>4. WorkKids' \subseteq WorkKids /\ (~Throw(w) => WorkKids' = WorkKids)
  BY <1>3 DEF WorkKids
<1>5. QED
  BY <1>1, <1>2, <1>4, SourcesAre

LEMMA MainSources ==
    ASSUME CutInv, JoinPool \/ Finish \/ Finished \/ UNCHANGED vars
    PROVE  Sources' \subseteq Sources /\ (main' # "failed" => Sources' = Sources)
<1>1. /\ Queued' = Queued /\ InCompletes' = InCompletes /\ TaskKids' = TaskKids
      /\ WorkKids' = WorkKids /\ InBusy' = InBusy
  BY DEF JoinPool, Finish, Finished, vars, poolVars, Queued, InCompletes, TaskKids, Waiting,
         WorkKids, InBusy, Busy
<1>2. InMain' \subseteq InMain /\ (main' # "failed" => InMain' = InMain)
  BY DEF JoinPool, Finish, Finished, vars, InMain
<1>3. QED
  BY <1>1, <1>2, SourcesAre

-----------------------------------------------------------------------------
(* The preparing of the chunks of a voxel's children.                      *)

\* What a worker that prepares may count on.
Preparing(w) == CutInv /\ DiskInv /\ OwnInv /\ w \in Workers /\ wpc[w] = "prepare"

LEMMA PreparingVoxel ==
    ASSUME NEW w, Preparing(w)
    PROVE  /\ octant[w].key \in VoxelKey /\ InTree(octant[w].key) /\ octant[w].key \in LiveKeys
           /\ octant[w].key \in Parents(found) /\ octant[w].key \in Open
           /\ w \in Busy /\ octant[w] \in Octants
<1>1. w \in Busy
  BY DEF Preparing, Busy
<1>2. octant[w].key \in InWork /\ octant[w].key \in Open
  BY <1>1 DEF InWork, Open, Preparing
<1>3. octant[w].key \in LiveKeys
  BY <1>2, AliveKeys DEF Preparing, CutInv
<1>4. QED
  BY <1>1, <1>2, <1>3 DEF Preparing, CutInv, TypeInv, Cut, InTheTree, OwnInv

LEMMA KidFacts ==
    ASSUME NEW w, Preparing(w), NEW d \in Dirs
    PROVE  LET o == kids[w][d]
               k == octant[w].key IN
           /\ o \in Sources /\ o \in AllOctants /\ o \in Octants
           /\ o.key = Child(k, d) /\ o.key \in VoxelKey /\ o.key # Root
           /\ Parent(o.key) = k /\ Ancestors(o.key) = {k} \cup Ancestors(k)
           /\ o.key \notin Ancestors(o.key)
           /\ o.files \subseteq DOMAIN disk /\ IsFiniteSet(o.files)
<1> DEFINE k == octant[w].key
           o == kids[w][d]
<1>1. k \in VoxelKey /\ InTree(k)
  BY PreparingVoxel
<1>2. o.key = Child(k, d) /\ o \in Octants /\ w \in Workers /\ wpc[w] = "prepare"
  BY DEF Preparing, CutInv, TypeInv, KidsOf
<1>3. o \in Sources
  BY <1>2 DEF Sources
<1>4. o \in AllOctants
  BY <1>2 DEF AllOctants
<1> HIDE DEF k, o
<1>5. o.key \in Children(k)
  BY <1>2 DEF Children
<1>6. o.key \in VoxelKey /\ o.key # Root /\ Parent(o.key) = k /\ Ancestors(o.key) = {k} \cup Ancestors(k)
  BY <1>1, <1>5, TreeChildren, ChildrenType
<1>7. o.key \notin Ancestors(o.key)
  BY <1>6, AncestorType, LevelType
<1>8. o.files \subseteq DOMAIN disk /\ IsFiniteSet(o.files)
  BY <1>4, FS_Subset DEF Preparing, DiskInv
<1>9. QED
  BY <1>2, <1>3, <1>4, <1>6, <1>7, <1>8 DEF k, o

\* No octant of a child has the file its small files may be merged in.
LEMMA KidFiles ==
    ASSUME NEW w, Preparing(w), NEW d \in Dirs, NEW f \in kids[w][d].files
    PROVE  /\ f \in Files /\ octant[w].key \in Ancestors(f.key) /\ f # Bin(octant[w].key)
           /\ \A e \in Dirs : f # Merged(kids[w][e].key)
<1> DEFINE k == octant[w].key
           o == kids[w][d]
<1>1. k \in VoxelKey
  BY PreparingVoxel
<1>2. /\ o \in Sources /\ o \in Octants /\ o.key \in VoxelKey
      /\ Ancestors(o.key) = {k} \cup Ancestors(k) /\ o.key \notin Ancestors(o.key)
  BY KidFacts
<1>3. f \in Files /\ f.key \in VoxelKey
  BY <1>2 DEF Octants, Files
<1>4. f = Bin(o.key) \/ o.key \in Ancestors(f.key)
  BY <1>2 DEF Preparing, OwnInv, Owns
<1>5. k \in Ancestors(f.key)
  <2>1. CASE f = Bin(o.key)
    BY <1>2, <2>1 DEF Bin
  <2>2. CASE o.key \in Ancestors(f.key)
    BY <1>2, <1>3, <2>2, AncestorsNest
  <2>3. QED
    BY <1>4, <2>1, <2>2
<1>6. k \notin Ancestors(k)
  BY <1>1, AncestorType, LevelType
<1>7. f # Bin(k)
  BY <1>5, <1>6 DEF Bin
<1>8. ASSUME NEW e \in Dirs, f = Merged(kids[w][e].key) PROVE FALSE
  <2>1. /\ kids[w][e].key \in VoxelKey /\ Ancestors(kids[w][e].key) = {k} \cup Ancestors(k)
        /\ Parent(kids[w][e].key) = k /\ Parent(o.key) = k
    BY KidFacts
  <2>2. o.key \in Ancestors(f.key) /\ f.key = kids[w][e].key
    BY <1>4, <1>8 DEF Bin, Merged
  <2>3. QED
    BY <1>2, <2>1, <2>2
<1>9. QED
  BY <1>3, <1>5, <1>7, <1>8

\* The children whose small files are merged, and the files they go to.
Merging(w)  == {d \in Dirs : Cardinality(kids[w][d].files) >= MergeFiles}
MergeNew(w) == {Merged(kids[w][d].key) : d \in Merging(w)}

LEMMA MergedDiskIs ==
    ASSUME NEW w, Preparing(w)
    PROVE  /\ DOMAIN MergedDisk(w) = DOMAIN disk \cup MergeNew(w)
           /\ \A f \in DOMAIN disk \ MergeNew(w) : MergedDisk(w)[f] = disk[f]
           /\ \A d \in Merging(w) :
                MergedDisk(w)[Merged(kids[w][d].key)] = PointsIn(Small(kids[w][d]), disk)
<1> DEFINE os  == {kids[w][d] : d \in Dirs}
           big == {q \in os : Cardinality(q.files) >= MergeFiles}
           new == {Merged(o.key) : o \in big}
<1>1. big = {kids[w][d] : d \in Merging(w)}
  BY DEF Merging
<1>2. new = MergeNew(w)
  BY <1>1 DEF MergeNew
<1>3. MergedDisk(w) = [f \in DOMAIN disk \cup new |->
            IF f \in new
              THEN PointsIn(UNION {Small(o) : o \in {q \in os : q.key = f.key}}, disk)
              ELSE disk[f]]
  BY DEF MergedDisk, MergeDisk
<1>4. ASSUME NEW d \in Merging(w)
      PROVE  MergedDisk(w)[Merged(kids[w][d].key)] = PointsIn(Small(kids[w][d]), disk)
  <2> DEFINE f == Merged(kids[w][d].key)
  <2>1. f \in new /\ f.key = kids[w][d].key /\ d \in Dirs
    BY <1>2 DEF MergeNew, Merging, Merged
  <2>2. \A e \in Dirs : kids[w][e].key = kids[w][d].key => e = d
    <3> TAKE e \in Dirs
    <3>1. /\ kids[w][e].key = Child(octant[w].key, e) /\ kids[w][d].key = Child(octant[w].key, d)
          /\ octant[w].key \in VoxelKey
      BY <2>1, KidFacts, PreparingVoxel
    <3>2. QED
      BY <2>1, <3>1, ChildInjective
  <2> HIDE DEF f
  <2>3. {q \in os : q.key = f.key} = {kids[w][d]}
    BY <2>1, <2>2
  <2>4. UNION {Small(o) : o \in {q \in os : q.key = f.key}} = Small(kids[w][d])
    BY <2>3
  <2> HIDE DEF os, new, big
  <2>5. MergedDisk(w)[f] = PointsIn(UNION {Small(o) : o \in {q \in os : q.key = f.key}}, disk)
    BY <1>3, <2>1
  <2>6. QED
    BY <2>4, <2>5 DEF f
<1> HIDE DEF os, new, big
<1>5. QED
  BY <1>2, <1>3, <1>4

LEMMA MergedKidIs ==
    ASSUME NEW w, Preparing(w), NEW d \in Dirs
    PROVE  /\ MergedKid(w, d).files \subseteq DOMAIN MergedDisk(w)
           /\ MergedKid(w, d).files \subseteq kids[w][d].files \cup {Merged(kids[w][d].key)}
           /\ PointsIn(MergedKid(w, d).files, MergedDisk(w)) = PointsIn(kids[w][d].files, disk)
           /\ IsFiniteSet(MergedKid(w, d).files)
<1> DEFINE o  == kids[w][d]
           F  == MergedKid(w, d).files
           MD == MergedDisk(w)
           m  == Merged(o.key)
           S  == Small(o)
<1>1. /\ o \in Octants /\ o.files \subseteq DOMAIN disk /\ IsFiniteSet(o.files)
  BY KidFacts
<1>2. \A f \in o.files : f \notin MergeNew(w) /\ f # m
  BY KidFiles DEF MergeNew, Merging
<1>3. F = (o.files \ S) \cup (IF PointsIn(S, disk) = {} THEN {} ELSE {m})
  BY <1>1 DEF MergedKid, MergeOctant, Octants
<1>4. S \subseteq o.files /\ (d \notin Merging(w) => S = {})
  BY DEF Small, Merging
<1>5. /\ DOMAIN MD = DOMAIN disk \cup MergeNew(w)
      /\ \A f \in o.files : MD[f] = disk[f]
      /\ d \in Merging(w) => MD[m] = PointsIn(S, disk) /\ m \in MergeNew(w)
  <2>1. \A e \in Merging(w) : MergedDisk(w)[Merged(kids[w][e].key)] = PointsIn(Small(kids[w][e]), disk)
    BY MergedDiskIs
  <2>2. \A e \in Merging(w) : Merged(kids[w][e].key) \in MergeNew(w)
    BY DEF MergeNew
  <2>3. \A f \in o.files : MD[f] = disk[f]
    BY <1>1, <1>2, MergedDiskIs
  <2>4. QED
    BY <2>1, <2>2, <2>3, MergedDiskIs
<1> HIDE DEF o, F, MD, m, S
<1>6. F \subseteq DOMAIN MD /\ F \subseteq o.files \cup {m}
  <2>1. CASE d \in Merging(w)
    BY <1>1, <1>3, <1>5, <2>1
  <2>2. CASE d \notin Merging(w)
    <3>1. PointsIn(S, disk) = {}
      BY <1>4, <2>2 DEF PointsIn
    <3>2. QED
      BY <1>1, <1>3, <1>5, <3>1
  <2>3. QED
    BY <2>1, <2>2
<1>7. PointsIn(F, MD) = PointsIn(o.files, disk)
  <2>1. PointsIn(o.files \ S, MD) = PointsIn(o.files \ S, disk)
    BY <1>5 DEF PointsIn
  <2>2. PointsIn(o.files, disk) = PointsIn(o.files \ S, disk) \cup PointsIn(S, disk)
    BY <1>4 DEF PointsIn
  <2>3. CASE PointsIn(S, disk) = {}
    BY <1>3, <2>1, <2>2, <2>3
  <2>4. CASE PointsIn(S, disk) # {}
    <3>1. d \in Merging(w)
      BY <1>4, <2>4 DEF PointsIn
    <3>2. F = (o.files \ S) \cup {m} /\ MD[m] = PointsIn(S, disk)
      BY <1>3, <1>5, <2>4, <3>1
    <3>3. PointsIn(F, MD) = PointsIn(o.files \ S, MD) \cup MD[m]
      BY <3>2 DEF PointsIn
    <3>4. QED
      BY <2>1, <2>2, <3>2, <3>3
  <2>5. QED
    BY <2>3, <2>4
<1>8. IsFiniteSet(F)
  <2>1. IsFiniteSet(o.files \cup {m})
    BY <1>1, FS_AddElement
  <2>2. QED
    BY <1>6, <2>1, FS_Subset
<1>9. QED
  BY <1>6, <1>7, <1>8 DEF o, F, MD, m

LEMMA FinitePoints ==
    ASSUME NEW fs, IsFiniteSet(fs), NEW d, \A f \in fs : IsFiniteSet(d[f])
    PROVE  IsFiniteSet(PointsIn(fs, d))
BY FiniteUnion DEF PointsIn

LEMMA MergedDiskFinite ==
    ASSUME NEW w, Preparing(w)
    PROVE  /\ DOMAIN MergedDisk(w) \subseteq Files /\ IsFiniteSet(DOMAIN MergedDisk(w))
           /\ \A f \in DOMAIN MergedDisk(w) : IsFiniteSet(MergedDisk(w)[f])
<1> DEFINE m == [d \in Dirs |-> Merged(kids[w][d].key)]
<1>1. IsFiniteSet({m[d] : d \in Dirs})
  BY DirsFinite, FiniteImage
<1>2. MergeNew(w) \subseteq {m[d] : d \in Dirs}
  BY DEF MergeNew, Merging
<1>3. IsFiniteSet(MergeNew(w))
  BY <1>1, <1>2, FS_Subset
<1>4. MergeNew(w) \subseteq Files
  <2>1. \A d \in Dirs : kids[w][d].key \in VoxelKey
    BY KidFacts
  <2>2. \A d \in Dirs : Merged(kids[w][d].key) \in Files
    BY <2>1 DEF Merged, Files
  <2>3. QED
    BY <2>2 DEF MergeNew, Merging
<1>5. /\ IsFiniteSet(DOMAIN disk) /\ DOMAIN disk \subseteq Files
      /\ \A f \in DOMAIN disk : IsFiniteSet(disk[f])
  BY DEF Preparing, DiskInv
<1> HIDE DEF m
<1>6. IsFiniteSet(DOMAIN disk \cup MergeNew(w))
  BY <1>3, <1>5, FS_Union
<1>7. ASSUME NEW f \in DOMAIN MergedDisk(w)
      PROVE  IsFiniteSet(MergedDisk(w)[f])
  <2>1. CASE f \in MergeNew(w)
    <3>1. PICK d \in Merging(w) : f = Merged(kids[w][d].key)
      BY <2>1 DEF MergeNew
    <3>2. MergedDisk(w)[f] = PointsIn(Small(kids[w][d]), disk)
      BY <3>1, MergedDiskIs
    <3>3. d \in Dirs
      BY DEF Merging
    <3>4. kids[w][d].files \subseteq DOMAIN disk /\ IsFiniteSet(kids[w][d].files)
      BY <3>3, KidFacts
    <3>5. Small(kids[w][d]) \subseteq kids[w][d].files
      BY DEF Small
    <3>6. IsFiniteSet(Small(kids[w][d]))
      BY <3>4, <3>5, FS_Subset
    <3>7. QED
      BY <1>5, <3>2, <3>4, <3>5, <3>6, FinitePoints
  <2>2. CASE f \notin MergeNew(w)
    <3>1. f \in DOMAIN disk /\ MergedDisk(w)[f] = disk[f]
      BY <2>2, MergedDiskIs
    <3>2. QED
      BY <1>5, <3>1
  <2>3. QED
    BY <2>1, <2>2
<1>8. QED
  BY <1>4, <1>5, <1>6, <1>7, MergedDiskIs

\* The octants that are elsewhere have none of the files a worker writes.
LEMMA OthersFiles ==
    ASSUME NEW w, Preparing(w), NEW o \in SourcesBut(w), NEW f \in o.files
    PROVE  f \in DOMAIN disk /\ f \notin MergeNew(w) /\ f # Bin(octant[w].key)
<1> DEFINE k == octant[w].key
<1>1. Apart(o.key, k) /\ o.key \in VoxelKey
  BY OthersApart, PreparingVoxel DEF Preparing
<1>2. o \in Sources
  BY SourcesSplit DEF Preparing
<1>3. o.files \subseteq DOMAIN disk
  <2>1. SourcesBut(w) \subseteq AllOctants
    BY DEF SourcesBut, AllOctants, Busy
  <2>2. QED
    BY <2>1 DEF Preparing, DiskInv
<1>4. f = Bin(o.key) \/ o.key \in Ancestors(f.key)
  BY <1>2 DEF Preparing, OwnInv, Owns
<1>5. f # Bin(k)
  BY <1>1, <1>4 DEF Apart, Bin
<1>6. ASSUME NEW d \in Dirs, f = Merged(kids[w][d].key) PROVE FALSE
  <2>1. o.key \in Ancestors(kids[w][d].key)
    BY <1>4, <1>6 DEF Bin, Merged
  <2>2. Ancestors(kids[w][d].key) = {k} \cup Ancestors(k)
    BY KidFacts
  <2>3. QED
    BY <1>1, <2>1, <2>2 DEF Apart
<1>7. QED
  BY <1>3, <1>5, <1>6 DEF MergeNew, Merging

\* The points of a child; those of a child with its points hoisted or not.
KidPts(w, d)    == PointsIn(kids[w][d].files, disk)
RestOf(w, H, d) == IF d \in H THEN {} ELSE KidPts(w, d)

\* The children that get a chunk, the chunks, and what the voxel keeps.
ToWrite(w, H)       == {d \in Dirs : kids[w][d].mustWrite \/ RestOf(w, H, d) # {}}
Below(w, H, taken)  == {[key |-> kids[w][d].key, points |-> RestOf(w, H, d) \ taken] : d \in ToWrite(w, H)}
Here(w, H, taken)   == taken \cup UNION {KidPts(w, d) : d \in H}

Sampled(w, H, taken) ==
    /\ H \subseteq Dirs
    /\ taken \subseteq UNION {KidPts(w, d) : d \in Dirs \ H}
    /\ (\E d \in Dirs : RestOf(w, H, d) # {}) => taken # {}

LEMMA KidPtsFinite ==
    ASSUME NEW w, Preparing(w)
    PROVE  /\ \A d \in Dirs : IsFiniteSet(KidPts(w, d))
           /\ \A H \in SUBSET Dirs : IsFiniteSet(UNION {KidPts(w, d) : d \in H})
<1>1. ASSUME NEW d \in Dirs PROVE IsFiniteSet(KidPts(w, d))
  <2>1. kids[w][d].files \subseteq DOMAIN disk /\ IsFiniteSet(kids[w][d].files)
    BY KidFacts
  <2>2. \A f \in kids[w][d].files : IsFiniteSet(disk[f])
    BY <2>1 DEF Preparing, DiskInv
  <2>3. QED
    BY <2>1, <2>2, FinitePoints DEF KidPts
<1>2. ASSUME NEW H \in SUBSET Dirs PROVE IsFiniteSet(UNION {KidPts(w, d) : d \in H})
  <2> DEFINE g == [d \in Dirs |-> KidPts(w, d)]
  <2>1. \A d \in H : g[d] = KidPts(w, d) /\ IsFiniteSet(g[d])
    BY <1>1
  <2> HIDE DEF g
  <2>2. IsFiniteSet(H)
    BY DirsFinite, FS_Subset
  <2>3. IsFiniteSet(UNION {g[d] : d \in H})
    BY <2>1, <2>2, FiniteUnion
  <2>4. {g[d] : d \in H} = {KidPts(w, d) : d \in H}
    BY <2>1
  <2>5. QED
    BY <2>3, <2>4
<1>3. QED
  BY <1>1, <1>2

\* What is hoisted, what is sampled, and the chunks, by the children's points.
LEMMA HoistedPoints ==
    ASSUME NEW w, Preparing(w)
    PROVE  LET H == Hoisted(w) IN
           /\ H \subseteq Dirs
           /\ PointsIn(HoistedFiles(w), MergedDisk(w)) = UNION {KidPts(w, d) : d \in H}
           /\ PointsIn(RestFiles(w), MergedDisk(w)) = UNION {KidPts(w, d) : d \in Dirs \ H}
           /\ (\E d \in Dirs : RestOf(w, H, d) # {}) => RestFiles(w) # {}
           /\ \A taken : KidChunks(w, taken) = Below(w, H, taken)
<1> DEFINE H  == Hoisted(w)
           MD == MergedDisk(w)
           F  == [d \in Dirs |-> MergedKid(w, d).files]
<1>1. H \subseteq Dirs
  BY DEF Hoisted
<1>2. \A d \in Dirs : PointsIn(F[d], MD) = KidPts(w, d)
  BY MergedKidIs DEF KidPts
<1>3. HoistedFiles(w) = UNION {F[d] : d \in H} /\ RestFiles(w) = UNION {F[d] : d \in Dirs \ H}
  BY <1>1 DEF HoistedFiles, RestFiles
<1>4. \A d \in Dirs : /\ Rest(w)[d].key = kids[w][d].key /\ Rest(w)[d].mustWrite = kids[w][d].mustWrite
                      /\ Rest(w)[d].files = IF d \in H THEN {} ELSE F[d]
  <2> TAKE d \in Dirs
  <2>1. /\ MergedKid(w, d) \in Octants /\ MergedKid(w, d).key = kids[w][d].key
        /\ MergedKid(w, d).mustWrite = kids[w][d].mustWrite
    BY MergedKidType DEF Preparing, CutInv
  <2>2. QED
    BY <2>1 DEF Rest, Octants
<1> HIDE DEF H, MD, F
<1>5. \A G \in SUBSET Dirs : PointsIn(UNION {F[d] : d \in G}, MD) = UNION {KidPts(w, d) : d \in G}
  <2> TAKE G \in SUBSET Dirs
  <2>1. PointsIn(UNION {F[d] : d \in G}, MD) = UNION {PointsIn(F[d], MD) : d \in G}
    BY DEF PointsIn
  <2>2. QED
    BY <1>2, <2>1
<1>6. \A d \in Dirs : PointsIn(Rest(w)[d].files, MD) = RestOf(w, H, d)
  <2> TAKE d \in Dirs
  <2>1. PointsIn({}, MD) = {}
    BY DEF PointsIn
  <2>2. QED
    BY <1>2, <1>4, <2>1 DEF RestOf
<1>7. ASSUME NEW d \in Dirs, RestOf(w, H, d) # {}
      PROVE  RestFiles(w) # {}
  <2>1. d \notin H /\ PointsIn(F[d], MD) # {}
    BY <1>2, <1>7 DEF RestOf
  <2>2. F[d] # {}
    BY <2>1 DEF PointsIn
  <2>3. QED
    BY <1>3, <2>1, <2>2
<1>8. ASSUME NEW taken
      PROVE  KidChunks(w, taken) = Below(w, H, taken)
  <2> DEFINE chunkOf(o) == [key |-> o.key, points |-> PointsIn(o.files, MD) \ taken]
             R == {d \in Dirs : Rest(w)[d].mustWrite \/ PointsIn(Rest(w)[d].files, MD) # {}}
  <2>1. KidChunks(w, taken) = {chunkOf(o) : o \in {Rest(w)[d] : d \in R}}
    BY DEF KidChunks, MD
  <2>2. R = ToWrite(w, H)
    BY <1>4, <1>6 DEF ToWrite
  <2>3. \A d \in Dirs : chunkOf(Rest(w)[d]) = [key |-> kids[w][d].key, points |-> RestOf(w, H, d) \ taken]
    BY <1>4, <1>6
  <2>4. R \subseteq Dirs
    OBVIOUS
  <2> HIDE DEF chunkOf, R
  <2>5. KidChunks(w, taken) = {chunkOf(Rest(w)[d]) : d \in R}
    BY <2>1
  <2>6. {chunkOf(Rest(w)[d]) : d \in R}
          = {[key |-> kids[w][d].key, points |-> RestOf(w, H, d) \ taken] : d \in R}
    BY <2>3, <2>4
  <2>7. QED
    BY <2>2, <2>5, <2>6 DEF Below
<1>9. QED
  BY <1>1, <1>3, <1>5, <1>7, <1>8 DEF H, MD

\* What preparing does to the disk.
LEMMA PreparedDisk ==
    ASSUME NEW w, Preparing(w), Prepare(w)
    PROVE  /\ DOMAIN disk' \subseteq Files /\ IsFiniteSet(DOMAIN disk') /\ DOMAIN disk \subseteq DOMAIN disk'
           /\ \A f \in DOMAIN disk' : IsFiniteSet(disk'[f])
           /\ \A f \in DOMAIN disk : f \notin MergeNew(w) /\ f # Bin(octant[w].key) => disk'[f] = disk[f]
<1> DEFINE b  == Bin(octant[w].key)
           MD == MergedDisk(w)
<1>1. PICK taken \in SUBSET PointsIn(RestFiles(w), MD) : disk' = MD \/ disk' = Put(MD, b, taken)
  BY DEF Prepare
<1>2. IsFiniteSet(taken)
  <2>1. /\ PointsIn(RestFiles(w), MD) = UNION {KidPts(w, d) : d \in Dirs \ Hoisted(w)}
        /\ Dirs \ Hoisted(w) \in SUBSET Dirs
    BY HoistedPoints
  <2>2. PICK H \in SUBSET Dirs : PointsIn(RestFiles(w), MD) = UNION {KidPts(w, d) : d \in H}
    BY <2>1, Zenon
  <2>3. IsFiniteSet(UNION {KidPts(w, d) : d \in H})
    BY KidPtsFinite
  <2>4. QED
    BY <2>2, <2>3, FS_Subset
<1>3. b \in Files
  BY PreparingVoxel DEF Bin, Files
<1>4. /\ DOMAIN MD \subseteq Files /\ IsFiniteSet(DOMAIN MD) /\ DOMAIN disk \subseteq DOMAIN MD
      /\ \A f \in DOMAIN MD : IsFiniteSet(MD[f])
      /\ \A f \in DOMAIN disk : f \notin MergeNew(w) => MD[f] = disk[f]
  BY MergedDiskFinite, MergedDiskIs
<1>5. IsFiniteSet(DOMAIN MD \cup {b})
  BY <1>4, FS_AddElement
<1> HIDE DEF b, MD
<1>6. CASE disk' = MD
  BY <1>4, <1>6 DEF b
<1>7. CASE disk' = Put(MD, b, taken)
  <2>1. DOMAIN disk' = DOMAIN MD \cup {b} /\ \A f \in DOMAIN disk' : disk'[f] = IF f = b THEN taken ELSE MD[f]
    BY <1>7 DEF Put
  <2>2. QED
    BY <1>2, <1>3, <1>4, <1>5, <2>1 DEF b
<1>8. QED
  BY <1>1, <1>6, <1>7

\* What preparing does to the worker's octant and its chunks.
ToRoot(w, H, taken) ==
    IF octant[w].key = Root THEN {[key |-> octant[w].key, points |-> Here(w, H, taken)]} ELSE {}

PrepareGives(w, H, taken) ==
    /\ Sampled(w, H, taken)
    /\ todo' = [todo EXCEPT ![w] = Below(w, H, taken) \cup ToRoot(w, H, taken)]
    /\ octant'[w].key = octant[w].key
    /\ octant'[w].mustWrite = (ToWrite(w, H) # {})
    /\ octant'[w].files \subseteq DOMAIN disk' /\ Owns(octant'[w])
    /\ octant[w].key # Root => PointsIn(octant'[w].files, disk') = Here(w, H, taken)

LEMMA PreparedIs ==
    ASSUME NEW w, Preparing(w), Prepare(w)
    PROVE  \E H, taken : PrepareGives(w, H, taken)
<1> DEFINE k  == octant[w].key
           b  == Bin(k)
           MD == MergedDisk(w)
           H  == Hoisted(w)
           HF == HoistedFiles(w)
           keep(taken) == k # Root /\ taken # {}
           o(taken) == Octant(k, HF \cup (IF keep(taken) THEN {b} ELSE {}), KidChunks(w, taken) # {})
<1>1. PICK taken \in SUBSET PointsIn(RestFiles(w), MD) :
        /\ RestFiles(w) # {} => taken # {}
        /\ todo' = [todo EXCEPT ![w] = KidChunks(w, taken) \cup
                (IF k = Root THEN {[key |-> k, points |-> taken \cup PointsIn(HF, MD)]} ELSE {})]
        /\ disk' = IF keep(taken) THEN Put(MD, b, taken) ELSE MD
        /\ octant' = [octant EXCEPT ![w] = o(taken)]
  BY DEF Prepare
<1>2. /\ H \subseteq Dirs
      /\ PointsIn(HF, MD) = UNION {KidPts(w, d) : d \in H}
      /\ PointsIn(RestFiles(w), MD) = UNION {KidPts(w, d) : d \in Dirs \ H}
      /\ (\E d \in Dirs : RestOf(w, H, d) # {}) => RestFiles(w) # {}
      /\ KidChunks(w, taken) = Below(w, H, taken)
  BY HoistedPoints
<1>3. octant'[w] = o(taken)
  BY <1>1 DEF Preparing, CutInv, TypeInv
<1>4. \A f \in HF : f \in DOMAIN MD /\ f # b /\ k \in Ancestors(f.key)
  <2> TAKE f \in HF
  <2>1. PICK d \in Dirs : f \in MergedKid(w, d).files
    BY <1>2 DEF HoistedFiles
  <2>2. f \in DOMAIN MD /\ f \in kids[w][d].files \cup {Merged(kids[w][d].key)}
    BY <2>1, MergedKidIs
  <2>3. CASE f \in kids[w][d].files
    BY <2>2, <2>3, KidFiles
  <2>4. CASE f = Merged(kids[w][d].key)
    BY <2>2, <2>4, KidFacts DEF Merged, Bin
  <2>5. QED
    BY <2>2, <2>3, <2>4
<1> HIDE DEF MD, HF, H
<1>5. /\ octant'[w].key = k /\ octant'[w].mustWrite = (KidChunks(w, taken) # {})
      /\ octant'[w].files = HF \cup (IF keep(taken) THEN {b} ELSE {})
  BY <1>3 DEF Octant
<1>6. KidChunks(w, taken) # {} <=> ToWrite(w, H) # {}
  <2> DEFINE c(d) == [key |-> kids[w][d].key, points |-> RestOf(w, H, d) \ taken]
  <2>1. KidChunks(w, taken) = {c(d) : d \in ToWrite(w, H)}
    BY <1>2 DEF Below
  <2> HIDE DEF c
  <2>2. QED
    BY <2>1
<1>7. Sampled(w, H, taken)
  BY <1>1, <1>2 DEF Sampled
<1>8. todo' = [todo EXCEPT ![w] = Below(w, H, taken) \cup ToRoot(w, H, taken)]
  BY <1>1, <1>2 DEF ToRoot, Here
<1>9. Owns(octant'[w])
  <2>1. ASSUME NEW f \in octant'[w].files PROVE f = Bin(octant'[w].key) \/ octant'[w].key \in Ancestors(f.key)
    BY <1>4, <1>5
  <2>2. QED
    BY <2>1 DEF Owns
<1>10. octant'[w].files \subseteq DOMAIN disk' /\ (k # Root => PointsIn(octant'[w].files, disk') = Here(w, H, taken))
  <2> DEFINE fs == octant'[w].files
  <2>0. fs = octant'[w].files
    OBVIOUS
  <2> HIDE DEF fs, k
  <2>1. CASE keep(taken)
    <3>1. /\ DOMAIN disk' = DOMAIN MD \cup {b}
          /\ \A f \in DOMAIN disk' : disk'[f] = IF f = b THEN taken ELSE MD[f]
      BY <1>1, <2>1 DEF Put
    <3>2. fs = HF \cup {b}
      BY <1>5, <2>0, <2>1
    <3>3. \A f \in HF : disk'[f] = MD[f]
      BY <1>4, <3>1
    <3>4. disk'[b] = taken /\ fs \subseteq DOMAIN disk'
      BY <1>4, <3>1, <3>2
    <3>5. PointsIn(fs, disk') = PointsIn(HF, MD) \cup taken
      BY <3>2, <3>3, <3>4 DEF PointsIn
    <3>6. QED
      BY <1>2, <2>0, <3>4, <3>5 DEF Here
  <2>2. CASE ~keep(taken)
    <3>1. disk' = MD /\ fs = HF
      BY <1>1, <1>5, <2>0, <2>2
    <3>2. k # Root => taken = {}
      BY <2>2
    <3>3. QED
      BY <1>2, <1>4, <2>0, <3>1, <3>2 DEF Here
  <2>3. QED
    BY <2>1, <2>2
<1> QED
  BY <1>5, <1>6, <1>7, <1>8, <1>9, <1>10 DEF PrepareGives

\* Preparing leaves the other octants and their points alone.
LEMMA PreparedElsewhere ==
    ASSUME NEW w, Preparing(w), Prepare(w)
    PROVE  /\ wpc' = [wpc EXCEPT ![w] = "chunk"] /\ Busy' = Busy /\ Storing' = Storing
           /\ UNCHANGED <<queue, error, mainVars, tasks, chunk, failures, copcVars, data, written, found>>
           /\ \A v \in Workers \ {w} : octant'[v] = octant[v] /\ kids'[v] = kids[v]
           /\ kids'[w] = [d \in Dirs |-> NoOctant]
           /\ Sources' = SourcesBut(w) \cup {octant'[w]}
           /\ Sources = SourcesBut(w) \cup {kids[w][d] : d \in Dirs} \cup {octant[w]}
           /\ \A o \in SourcesBut(w) : PointsIn(o.files, disk') = PointsIn(o.files, disk)
           /\ \A o \in SourcesBut(w) : o.files \subseteq DOMAIN disk'
           /\ \A k \in found : disk'[Bin(k)] = disk[Bin(k)] /\ Bin(k) \in DOMAIN disk'
<1>1. /\ UNCHANGED <<queue, error, mainVars, tasks, chunk, failures, copcVars, data, written, found>>
      /\ wpc' = [wpc EXCEPT ![w] = "chunk"]
  BY DEF Prepare
<1>2. /\ w \in Workers /\ wpc[w] = "prepare" /\ DOMAIN wpc = Workers /\ DOMAIN octant = Workers
      /\ DOMAIN kids = Workers
  BY DEF Preparing, CutInv, TypeInv
<1>3. /\ \A v \in Workers \ {w} : wpc'[v] = wpc[v] /\ octant'[v] = octant[v] /\ kids'[v] = kids[v]
      /\ wpc'[w] = "chunk" /\ kids'[w] = [d \in Dirs |-> NoOctant]
  BY <1>2 DEF Prepare
<1>4. Busy' = Busy /\ Storing' = Storing /\ w \in Busy
  BY <1>2, <1>3 DEF Busy, Storing
<1>5. Sources' = SourcesBut(w) \cup {octant'[w]}
  <2>1. Queued' = Queued /\ InCompletes' = InCompletes /\ InMain' = InMain /\ TaskKids' = TaskKids
    BY <1>1 DEF mainVars, Queued, InCompletes, InMain, TaskKids, Waiting
  <2>2. WorkKids' = {kids[v][d] : v \in {u \in Workers \ {w} : wpc[u] = "prepare"}, d \in Dirs}
    <3>1. {u \in Workers : wpc'[u] = "prepare"} = {u \in Workers \ {w} : wpc[u] = "prepare"}
      BY <1>3
    <3>2. QED
      BY <1>3, <3>1 DEF WorkKids
  <2>3. InBusy' = {octant[v] : v \in Busy \ {w}} \cup {octant'[w]}
    BY <1>3, <1>4 DEF InBusy, Busy
  <2>4. SourcesBut(w) = Queued \cup InCompletes \cup InMain \cup TaskKids
          \cup {kids[v][d] : v \in {u \in Workers \ {w} : wpc[u] = "prepare"}, d \in Dirs}
          \cup {octant[v] : v \in Busy \ {w}}
    BY DEF SourcesBut, InCompletes, InMain, TaskKids
  <2>5. QED
    BY <2>1, <2>2, <2>3, <2>4, SourcesAre
<1>6. Sources = SourcesBut(w) \cup {kids[w][d] : d \in Dirs} \cup {octant[w]}
  BY <1>2, SourcesSplit
<1>7. ASSUME NEW o \in SourcesBut(w)
      PROVE  PointsIn(o.files, disk') = PointsIn(o.files, disk) /\ o.files \subseteq DOMAIN disk'
  <2>1. \A f \in o.files : f \in DOMAIN disk /\ disk'[f] = disk[f]
    BY OthersFiles, PreparedDisk
  <2>2. QED
    BY <2>1, PreparedDisk DEF PointsIn
<1>8. ASSUME NEW k \in found
      PROVE  disk'[Bin(k)] = disk[Bin(k)] /\ Bin(k) \in DOMAIN disk'
  <2>1. octant[w].key \in Parents(found)
    BY PreparingVoxel
  <2>2. k # octant[w].key
    BY <2>1 DEF Parents, Preparing, CutInv, FoundInv, Antichain
  <2>3. Bin(k) # Bin(octant[w].key) /\ Bin(k) \notin MergeNew(w)
    BY <2>2 DEF Bin, MergeNew, Merged
  <2>4. Bin(k) \in DOMAIN disk
    BY DEF Preparing, DiskInv
  <2>5. QED
    BY <2>3, <2>4, PreparedDisk
<1>9. QED
  BY <1>1, <1>3, <1>4, <1>5, <1>6, <1>7, <1>8

-----------------------------------------------------------------------------
(* The temporary files exist.                                              *)

Work(k) == Octant(k, IF k \in found THEN {Bin(k)} ELSE {}, FALSE)

LEMMA QueueWorkSources ==
    ASSUME CutInv, TypeInv', QueueWork
    PROVE  Sources = {} /\ Sources' = {Work(k) : k \in found \cup Needed(found)}
<1>1. Sources = {}
  BY SourcesAtStart DEF QueueWork
<1>2. /\ queue' \in Seq(Octants) /\ KeysOf(queue') = found \cup Needed(found)
      /\ \A i \in 1..Len(queue') : queue'[i] = Work(queue'[i].key)
  BY QueuedWork DEF CutInv, Work
<1>3. EntriesOf(queue') = {Work(k) : k \in KeysOf(queue')}
  BY <1>2 DEF EntriesOf, KeysOf
<1>4. Queued' = {Work(k) : k \in found \cup Needed(found)}
  BY <1>2, <1>3, EntriesAre
<1>5. InMain' = {}
  BY DEF InMain, QueueWork
<1>6. /\ InCompletes' = InCompletes /\ TaskKids' = TaskKids /\ WorkKids' = WorkKids
      /\ InBusy' = InBusy
  BY DEF QueueWork, poolVars, InCompletes, TaskKids, WorkKids, InBusy, Waiting, Busy
<1>7. QED
  BY <1>1, <1>4, <1>5, <1>6, SourcesAre

Held == {octant[w] : w \in Workers} \cup {kids[w][d] : w \in Workers, d \in Dirs}

LEMMA AllAre ==
    /\ AllOctants = Sources \cup {popped} \cup Held
    /\ AllOctants' = Sources' \cup {popped'} \cup Held'
BY DEF AllOctants, Sources, Held, Busy

\* What the steps but for preparing do to the octants and the disk.
LEMMA OctantsStep ==
    ASSUME CutInv, TypeInv', DiskInv, [Next]_vars, \A w \in Workers : ~Prepare(w)
    PROVE  /\ disk' = disk
           /\ \A o \in AllOctants' : o \in AllOctants \/ o.files \subseteq {Bin(k) : k \in found}
<1>1. CASE QueueWork
  <2>1. disk' = disk /\ popped' = popped /\ Held' = Held
    BY <1>1 DEF QueueWork, poolVars, Held
  <2>2. \A o \in Sources' : o.files \subseteq {Bin(k) : k \in found}
    BY <1>1, QueueWorkSources DEF Work, Octant
  <2>3. QED
    BY <2>1, <2>2, AllAre
<1>2. CASE PopOctant
  <2>1. disk' = disk /\ popped' = Head(queue) /\ Held' = Held
    BY <1>2 DEF PopOctant, poolVars, Held
  <2>2. Sources' \subseteq Sources /\ Head(queue) \in Queued
    BY <1>2, PopSources, QueuedTail DEF PopOctant, CutInv
  <2>3. QED
    BY <2>1, <2>2, AllAre, SourcesAre
<1>3. CASE Process
  <2>1. disk' = disk /\ popped' = popped /\ Held' = Held
    BY <1>3, ProcessKinds DEF poolVars, Held
  <2>2. \A o \in Sources' : o \in Sources \/ o.files = {}
    BY <1>3, ProcessSources DEF Octant
  <2>3. QED
    BY <2>1, <2>2, AllAre
<1>4. CASE JoinPool \/ Finish \/ Finished \/ UNCHANGED vars
  <2>1. disk' = disk /\ popped' = popped /\ Held' = Held
    BY <1>4 DEF JoinPool, Finish, Finished, vars, poolVars, Held
  <2>2. Sources' \subseteq Sources
    BY <1>4, MainSources
  <2>3. QED
    BY <2>1, <2>2, AllAre
<1>5. ASSUME NEW w \in Workers, TakeTask(w)
      PROVE  /\ disk' = disk
             /\ \A o \in AllOctants' : o \in AllOctants \/ o.files = {}
  <2>1. /\ disk' = disk /\ popped' = popped
        /\ octant' = [octant EXCEPT ![w] = Octant(Head(tasks).key, {}, FALSE)]
        /\ kids' = [kids EXCEPT ![w] = Head(tasks).kids]
    BY <1>5 DEF TakeTask, mainVars
  <2>2. Head(tasks) \in Waiting /\ \A o \in Sources' : o \in Sources \/ o.files = {}
    BY <1>5, TakeTaskSources DEF Octant
  <2>3. \A d \in Dirs : Head(tasks).kids[d] \in Sources
    BY <2>2 DEF Sources
  <2>4. \A v \in Workers : octant'[v] = octant[v] \/ octant'[v].files = {}
    BY <2>1 DEF CutInv, TypeInv, Octant
  <2>5. \A v \in Workers, d \in Dirs : kids'[v][d] = kids[v][d] \/ kids'[v][d] \in Sources
    BY <2>1, <2>3 DEF CutInv, TypeInv
  <2>6. \A o \in Held' : o \in Held \/ o \in Sources \/ o.files = {}
    BY <2>4, <2>5 DEF Held
  <2>7. QED
    BY <2>1, <2>2, <2>6, AllAre
<1>6. ASSUME NEW w \in Workers, NewChunk(w) \/ WriteChunk(w) \/ Throw(w)
      PROVE  disk' = disk /\ AllOctants' \subseteq AllOctants
  <2>1. disk' = disk /\ popped' = popped /\ octant' = octant /\ kids' = kids
    BY <1>6 DEF NewChunk, WriteChunk, Throw, mainVars
  <2>2. Sources' \subseteq Sources /\ Held' = Held
    BY <1>6, <2>1, OtherSources DEF Held
  <2>3. QED
    BY <2>1, <2>2, AllAre
<1>7. ASSUME NEW w \in Workers, EndTask(w)
      PROVE  /\ disk' = disk
             /\ \A o \in AllOctants' : o \in AllOctants \/ o.files = {}
  <2>1. /\ disk' = disk /\ popped' = popped
        /\ octant' = [octant EXCEPT ![w] = NoOctant]
        /\ kids' = [kids EXCEPT ![w] = [d \in Dirs |-> NoOctant]]
    BY <1>7 DEF EndTask, mainVars
  <2>2. Sources' = Sources
    BY <1>7, EndTaskSources
  <2>3. NoOctant.files = {}
    BY DEF NoOctant, Octant
  <2>4. \A v \in Workers : octant'[v] = octant[v] \/ octant'[v].files = {}
    BY <2>1, <2>3 DEF CutInv, TypeInv
  <2>5. \A v \in Workers, d \in Dirs : kids'[v][d] = kids[v][d] \/ kids'[v][d].files = {}
    BY <2>1, <2>3 DEF CutInv, TypeInv
  <2>6. \A o \in Held' : o \in Held \/ o.files = {}
    BY <2>4, <2>5 DEF Held
  <2>7. QED
    BY <2>1, <2>2, <2>6, AllAre
<1>8. QED
  BY <1>1, <1>2, <1>3, <1>4, <1>5, <1>6, <1>7 DEF Next, MainStep, WorkerStep

LEMMA DiskStep ==
    ASSUME CutInv, TypeInv', DiskInv, OwnInv, [Next]_vars
    PROVE  DiskInv'
<1>1. found' = found
  BY DEF Next, MainStep, WorkerStep, QueueWork, PopOctant, Process, JoinPool, Finish, TakeTask,
         Prepare, NewChunk, WriteChunk, Throw, EndTask, Finished, vars
<1>2. CASE \A w \in Workers : ~Prepare(w)
  <2>1. disk' = disk
    BY <1>2, OctantsStep
  <2>2. \A o \in AllOctants' : o.files \subseteq DOMAIN disk
    BY <1>2, OctantsStep DEF DiskInv
  <2>3. QED
    BY <1>1, <2>1, <2>2 DEF DiskInv
<1>3. ASSUME NEW w \in Workers, Prepare(w)
      PROVE  DiskInv'
  <2>1. Preparing(w)
    BY <1>3 DEF Preparing, Prepare
  <2>2. \A o \in Sources' : o.files \subseteq DOMAIN disk'
    BY <1>3, <2>1, PreparedElsewhere, PreparedIs DEF PrepareGives
  <2>3. DOMAIN disk \subseteq DOMAIN disk'
    BY <1>3, <2>1, PreparedDisk
  <2>4. popped' = popped /\ popped.files \subseteq DOMAIN disk
    BY <1>3, <2>1, PreparedElsewhere DEF mainVars, DiskInv, AllOctants
  <2>5. \A v \in Workers : octant'[v].files \subseteq DOMAIN disk'
    <3> TAKE v \in Workers
    <3>1. octant[v].files \subseteq DOMAIN disk
      BY DEF DiskInv, AllOctants
    <3>2. QED
      BY <1>3, <2>1, <2>3, <3>1, PreparedElsewhere, PreparedIs DEF PrepareGives
  <2>6. \A v \in Workers, d \in Dirs : kids'[v][d].files \subseteq DOMAIN disk'
    <3> TAKE v \in Workers, d \in Dirs
    <3>1. kids[v][d].files \subseteq DOMAIN disk
      BY DEF DiskInv, AllOctants
    <3>2. kids'[v][d] = kids[v][d] \/ kids'[v][d] = NoOctant
      BY <1>3, <2>1, PreparedElsewhere
    <3>3. NoOctant.files = {}
      BY DEF NoOctant, Octant
    <3>4. QED
      BY <2>3, <3>1, <3>2, <3>3
  <2>7. \A o \in AllOctants' : o.files \subseteq DOMAIN disk'
    BY <2>2, <2>3, <2>4, <2>5, <2>6, AllAre DEF Held
  <2>8. /\ DOMAIN disk' \subseteq Files /\ IsFiniteSet(DOMAIN disk')
        /\ \A f \in DOMAIN disk' : IsFiniteSet(disk'[f])
    BY <1>3, <2>1, PreparedDisk
  <2>9. \A k \in found' : Bin(k) \in DOMAIN disk'
    BY <1>1, <1>3, <2>1, PreparedElsewhere
  <2>10. QED
    BY <2>7, <2>8, <2>9 DEF DiskInv
<1>4. QED
  BY <1>2, <1>3

-----------------------------------------------------------------------------
(* The voxels that a step makes alive.                                     *)

\* queueWork() aside, only process() makes a voxel alive, and a task.
NewVoxel(k) ==
    /\ main = "process" /\ k = Parent(popped.key)
    /\ Children(k) \subseteq LiveKeys

LEMMA ProcessKeys ==
    ASSUME CutInv, TypeInv', Process
    PROVE  /\ \A k \in (InTasks \cup InWork)' : k \in InTasks \cup InWork \/ NewVoxel(k)
           /\ \A k \in Open' : k \in Open \/ NewVoxel(k)
           /\ \A k \in LiveKeys' : k \in LiveKeys \/ NewVoxel(k)
<1> DEFINE p == Parent(popped.key)
<1>1. /\ main = "process" /\ main' = "run"
      /\ popped.key \in LiveKeys
  BY ProcessKinds, HeldVoxel
<1>2. wpc' = wpc /\ octant' = octant
  BY ProcessKinds DEF poolVars
<1>3. DOMAIN All = DOMAIN completes \cup {popped.key} /\ DOMAIN All \subseteq LiveKeys
  BY <1>1, AliveKeys DEF All, Put, CutInv
<1>4. LiveKeys = InQueue \cup DOMAIN completes \cup InHands \cup InTasks \cup InWork
  BY AliveKeys DEF CutInv
<1>5. LiveKeys' = (InQueue \cup DOMAIN completes \cup InHands \cup InTasks \cup InWork)'
  BY AliveKeysNext
<1>6. InHands' = {} /\ InWork' = InWork
  BY <1>1, <1>2 DEF InHands, InWork, Busy
<1> DEFINE Old == /\ InQueue' = InQueue /\ InTasks' = InTasks /\ DOMAIN completes' \subseteq DOMAIN All
           New == /\ Children(p) \subseteq DOMAIN All
                  /\ InQueue' \subseteq InQueue \cup {p} /\ InTasks' \subseteq InTasks \cup {p}
                  /\ DOMAIN completes' \subseteq DOMAIN All
<1>7. Old \/ New
  <2>1. CASE completes' = All /\ queue' = queue /\ tasks' = tasks
    BY <2>1 DEF InQueue, InTasks, Queued, Waiting
  <2>2. CASE /\ Children(p) \subseteq DOMAIN All
             /\ completes' = [k \in DOMAIN All \ Children(p) |-> All[k]]
             /\ queue' = queue
             /\ tasks' = Append(tasks, [key |-> p, kids |-> Kids])
    <3>1. [key |-> p, kids |-> Kids] \in Tasks
      BY <1>1, <2>2, HeldVoxel, KidsType DEF Tasks
    <3>2. Waiting' = Waiting \cup {[key |-> p, kids |-> Kids]}
      BY <2>2, <3>1, WaitingAppend DEF CutInv
    <3>3. InTasks' = InTasks \cup {p} /\ InQueue' = InQueue
      BY <2>2, <3>2 DEF InTasks, InQueue, Queued
    <3>4. QED
      BY <2>2, <3>3
  <2>3. CASE /\ Children(p) \subseteq DOMAIN All
             /\ completes' = [k \in DOMAIN All \ Children(p) |-> All[k]]
             /\ queue' = Append(queue, Octant(p, {}, FALSE)) /\ tasks' = tasks
    <3> DEFINE o == Octant(p, {}, FALSE)
    <3>1. o \in Octants /\ o.key = p
      BY <1>1, HeldVoxel DEF Octant, Octants
    <3> HIDE DEF o
    <3>2. queue' = Append(queue, o) /\ TypeInv
      BY <2>3 DEF o, CutInv
    <3>3. Queued' = Queued \cup {o}
      BY <3>1, <3>2, QueuedAppend
    <3>4. InQueue' = InQueue \cup {p} /\ InTasks' = InTasks
      BY <2>3, <3>1, <3>3 DEF InQueue, InTasks, Waiting
    <3>5. QED
      BY <2>3, <3>4
  <2>4. QED
    BY <2>1, <2>2, <2>3, ProcessKinds
<1>8. ASSUME Old
      PROVE  LiveKeys' \subseteq LiveKeys /\ InTasks' \subseteq InTasks
  BY <1>3, <1>4, <1>5, <1>6, <1>8
<1>9. ASSUME New
      PROVE  LiveKeys' \subseteq LiveKeys \cup {p} /\ InTasks' \subseteq InTasks \cup {p} /\ NewVoxel(p)
  BY <1>1, <1>3, <1>4, <1>5, <1>6, <1>9 DEF NewVoxel
<1>10. \A k \in Open' : k \in InTasks' \/ k \in Open
  BY <1>2 DEF Open
<1> HIDE DEF Old, New
<1>11. InTasks \subseteq Open
  BY DEF Open
<1>12. QED
  BY <1>6, <1>7, <1>8, <1>9, <1>10, <1>11

LEMMA TakeTaskKeys ==
    ASSUME CutInv, TypeInv', NEW w \in Workers, TakeTask(w)
    PROVE  /\ (InTasks \cup InWork)' \subseteq InTasks \cup InWork
           /\ Open' \subseteq Open /\ LiveKeys' \subseteq LiveKeys
<1> DEFINE t == Head(tasks)
<1>1. Waiting = Waiting' \cup {t}
  BY WaitingTail DEF CutInv, TakeTask
<1>2. /\ octant'[w].key = t.key /\ wpc[w] = "idle" /\ wpc'[w] = "prepare"
      /\ \A v \in Workers \ {w} : octant'[v] = octant[v] /\ wpc'[v] = wpc[v]
  BY DEF TakeTask, CutInv, TypeInv, Octant
<1>3. Queued' = Queued /\ completes' = completes /\ InHands' = InHands
  BY DEF TakeTask, mainVars, Queued, InHands
<1>4. t.key \in InTasks /\ InTasks' \subseteq InTasks
  BY <1>1 DEF InTasks
<1> HIDE DEF t
<1>5. InWork' \subseteq InWork \cup {t.key}
  BY <1>2 DEF InWork, Busy
<1>6. Open' \subseteq Open
  BY <1>2, <1>4 DEF Open
<1>7. LiveKeys = InQueue \cup DOMAIN completes \cup InHands \cup InTasks \cup InWork
  BY AliveKeys DEF CutInv
<1>8. LiveKeys' = (InQueue \cup DOMAIN completes \cup InHands \cup InTasks \cup InWork)'
  BY AliveKeysNext
<1>9. InQueue' = InQueue
  BY <1>3 DEF InQueue
<1>10. QED
  BY <1>3, <1>4, <1>5, <1>6, <1>7, <1>8, <1>9

LEMMA EndTaskKeys ==
    ASSUME CutInv, TypeInv', NEW w \in Workers, EndTask(w)
    PROVE  /\ (InTasks \cup InWork)' \subseteq InTasks \cup InWork
           /\ Open' \subseteq Open /\ LiveKeys' \subseteq LiveKeys
<1>1. /\ wpc[w] # "idle" /\ wpc'[w] = "idle" /\ octant[w] \in Octants
      /\ \A v \in Workers \ {w} : octant'[v] = octant[v] /\ wpc'[v] = wpc[v]
      /\ TypeInv /\ queue' = Append(queue, octant[w])
  BY DEF EndTask, CutInv, TypeInv
<1>2. Queued' = Queued \cup {octant[w]}
  BY <1>1, QueuedAppend
<1>3. Waiting' = Waiting /\ completes' = completes /\ InHands' = InHands
  BY DEF EndTask, mainVars, Waiting, InHands
<1>4. octant[w].key \in InWork /\ InWork' \subseteq InWork
  BY <1>1 DEF InWork, Busy
<1>5. InTasks' = InTasks
  BY <1>3 DEF InTasks
<1>6. Open' \subseteq Open
  BY <1>1, <1>5 DEF Open
<1>7. LiveKeys = InQueue \cup DOMAIN completes \cup InHands \cup InTasks \cup InWork
  BY AliveKeys DEF CutInv
<1>8. LiveKeys' = (InQueue \cup DOMAIN completes \cup InHands \cup InTasks \cup InWork)'
  BY AliveKeysNext
<1>9. InQueue' = InQueue \cup {octant[w].key}
  BY <1>2 DEF InQueue
<1>10. QED
  BY <1>3, <1>4, <1>5, <1>6, <1>7, <1>8, <1>9

LEMMA PopKeys ==
    ASSUME CutInv, TypeInv', PopOctant
    PROVE  /\ (InTasks \cup InWork)' \subseteq InTasks \cup InWork
           /\ Open' \subseteq Open /\ LiveKeys' \subseteq LiveKeys
<1>1. Queued = Queued' \cup {Head(queue)} /\ popped' = Head(queue)
  BY QueuedTail DEF CutInv, PopOctant
<1>2. UNCHANGED <<tasks, poolVars, completes>>
  BY DEF PopOctant
<1>3. InTasks' = InTasks /\ InWork' = InWork /\ Open' = Open
  BY <1>2 DEF InTasks, InWork, Open, Waiting, Busy, poolVars
<1>4. InQueue = InQueue' \cup {Head(queue).key} /\ InHands' \subseteq {Head(queue).key}
  BY <1>1 DEF InQueue, InHands
<1>5. LiveKeys = InQueue \cup DOMAIN completes \cup InHands \cup InTasks \cup InWork
  BY AliveKeys DEF CutInv
<1>6. LiveKeys' = (InQueue \cup DOMAIN completes \cup InHands \cup InTasks \cup InWork)'
  BY AliveKeysNext
<1>7. QED
  BY <1>2, <1>3, <1>4, <1>5, <1>6

LEMMA OtherKeys ==
    ASSUME CutInv, TypeInv', Unmoved, \A w \in Workers : wpc'[w] = "prepare" => wpc[w] = "prepare"
    PROVE  /\ (InTasks \cup InWork)' \subseteq InTasks \cup InWork
           /\ Open' \subseteq Open /\ LiveKeys' \subseteq LiveKeys
<1>1. InTasks' = InTasks /\ InQueue' = InQueue /\ completes' = completes
  BY DEF Unmoved, InTasks, InQueue, Queued, Waiting
<1>2. InWork' = InWork
  BY DEF Unmoved, InWork, Busy
<1>3. InHands' \subseteq InHands
  BY DEF Unmoved, InHands
<1>4. Open' \subseteq Open
  BY <1>1 DEF Open, Unmoved
<1>5. LiveKeys = InQueue \cup DOMAIN completes \cup InHands \cup InTasks \cup InWork
  BY AliveKeys DEF CutInv
<1>6. LiveKeys' = (InQueue \cup DOMAIN completes \cup InHands \cup InTasks \cup InWork)'
  BY AliveKeysNext
<1>7. QED
  BY <1>1, <1>2, <1>3, <1>4, <1>5, <1>6

LEMMA KeysStep ==
    ASSUME CutInv, TypeInv', [Next]_vars
    PROVE  /\ \A k \in (InTasks \cup InWork)' : k \in InTasks \cup InWork \/ NewVoxel(k)
           /\ \A k \in Open' : k \in Open \/ NewVoxel(k)
           /\ QueueWork \/ \A k \in LiveKeys' : k \in LiveKeys \/ NewVoxel(k)
<1>1. CASE QueueWork
  <2>1. UNCHANGED <<tasks, poolVars>>
    BY <1>1 DEF QueueWork
  <2>2. InTasks' = InTasks /\ InWork' = InWork /\ Open' = Open
    BY <2>1 DEF InTasks, InWork, Open, Waiting, Busy, poolVars
  <2>3. QED
    BY <1>1, <2>2
<1>2. CASE JoinPool \/ Finish
  <2>1. Unmoved /\ wpc' = wpc
    BY <1>2 DEF JoinPool, Finish, poolVars, Busy, Unmoved
  <2>2. QED
    BY <2>1, OtherKeys
<1>3. CASE UNCHANGED vars
  <2>1. UNCHANGED <<queue, completes, popped, main, tasks, wpc, octant>>
    BY <1>3 DEF vars
  <2>2. InTasks' = InTasks /\ InWork' = InWork /\ Open' = Open /\ LiveKeys' = LiveKeys
    BY <2>1 DEF InTasks, InWork, Open, Waiting, Busy, LiveKeys, Queued
  <2>3. QED
    BY <2>2
<1>4. ASSUME NEW w \in Workers, Prepare(w) \/ NewChunk(w) \/ WriteChunk(w) \/ Throw(w)
      PROVE  Unmoved /\ \A v \in Workers : wpc'[v] = "prepare" => wpc[v] = "prepare"
  <2>1. w \in Busy /\ Busy' = Busy /\ \A v \in Workers : wpc'[v] = "prepare" => wpc[v] = "prepare"
    BY <1>4 DEF Busy, Prepare, NewChunk, WriteChunk, Throw, CutInv, TypeInv
  <2>2. UNCHANGED <<queue, completes, popped, tasks, found, error, main>>
    BY <1>4 DEF Prepare, NewChunk, WriteChunk, Throw, mainVars
  <2>3. \A v \in Workers : octant'[v].key = octant[v].key
    BY <1>4 DEF Prepare, NewChunk, WriteChunk, Throw, CutInv, TypeInv, Octant
  <2>4. main # "start"
    BY <2>1, AliveKeys DEF CutInv, Cut, InWork
  <2>5. QED
    BY <2>1, <2>2, <2>3, <2>4 DEF Unmoved
<1>5. QED
  BY <1>1, <1>2, <1>3, <1>4, OtherKeys, ProcessKeys, PopKeys, TakeTaskKeys, EndTaskKeys
     DEF Next, MainStep, WorkerStep, Finished

\* The parent of a voxel is an ancestor of a file's voxel, and so are the
\* children of one needed.
LEMMA RegionParent ==
    ASSUME FoundInv, NEW k \in Region, k # Root
    PROVE  k \in VoxelKey /\ InTree(k) /\ Parent(k) \in Parents(found)
<1>1. CASE k \in found
  <2>1. k \in VoxelKey /\ InTree(k)
    BY <1>1 DEF FoundInv, InTheTree
  <2>2. Parent(k) \in Ancestors(k)
    BY <2>1, TreeTop, LineageStep
  <2>3. QED
    BY <1>1, <2>1, <2>2 DEF Parents
<1>2. CASE k \in Needed(found)
  BY <1>2, NeededType DEF Parents
<1>3. CASE k \in Parents(found)
  <2>1. PICK j \in found : k \in Ancestors(j)
    BY <1>3 DEF Parents
  <2>2. j \in VoxelKey /\ InTree(j)
    BY DEF FoundInv, InTheTree
  <2>3. k \in VoxelKey /\ InTree(k) /\ Ancestors(k) \subseteq Ancestors(j)
    BY <2>1, <2>2, AncestorType, TreeAncestors, AncestorsNest
  <2>4. Parent(k) \in Ancestors(k)
    BY <2>3, TreeTop, LineageStep
  <2>5. QED
    BY <2>3, <2>4 DEF Parents
<1>4. QED
  BY <1>1, <1>2, <1>3 DEF Region

LEMMA RegionChildren ==
    ASSUME FoundInv, NEW p \in Parents(found), NEW c \in Children(p)
    PROVE  c \in Region
<1>1. CASE c \in UNION {Lineage(k) : k \in found}
  <2>1. PICK k \in found : c \in Lineage(k)
    BY <1>1
  <2>2. c \in {k} \cup Ancestors(k)
    BY <2>1, TreeLineage DEF FoundInv, InTheTree
  <2>3. QED
    BY <2>2 DEF Region, Parents
<1>2. CASE c \notin UNION {Lineage(k) : k \in found}
  BY <1>2 DEF Region, Needed
<1>3. QED
  BY <1>1, <1>2

\* Of the octants that matter one is new at most, and has no file but where
\* the worker prepared it.
LEMMA OwnStep ==
    ASSUME CutInv, CutInv', DiskInv, OwnInv, [Next]_vars
    PROVE  OwnInv'
<1>0. TypeInv' /\ FoundInv
  BY DEF CutInv
<1>1. found' = found /\ Region' = Region /\ Parents(found') = Parents(found)
  <2>1. found' = found
    BY DEF Next, MainStep, WorkerStep, QueueWork, PopOctant, Process, JoinPool, Finish, TakeTask,
           Prepare, NewChunk, WriteChunk, Throw, EndTask, Finished, vars
  <2>2. QED
    BY <2>1 DEF Region
<1>2. ASSUME NEW k, NewVoxel(k)
      PROVE  k \in Parents(found)
  <2>1. popped \in Sources /\ popped.key # Root
    BY <1>2 DEF NewVoxel, Sources, CutInv, MainInv
  <2>2. popped.key \in Region
    BY <2>1 DEF OwnInv
  <2>3. QED
    BY <1>0, <1>2, <2>1, <2>2, RegionParent DEF NewVoxel
<1>3. (InTasks \cup InWork)' \subseteq Parents(found)
  BY <1>0, <1>2, KeysStep DEF OwnInv
<1>4. ASSUME NEW o \in Sources' PROVE Owns(o) /\ o.key \in Region
  <2>1. CASE QueueWork
    <3>1. PICK k \in found \cup Needed(found) : o = Work(k)
      BY <1>0, <2>1, QueueWorkSources
    <3>2. QED
      BY <3>1 DEF Work, Octant, Owns, Region
  <2>2. CASE o \in Sources
    BY <2>2 DEF OwnInv
  <2>3. ASSUME o.files = {}, o.key \in Parents(found)
        PROVE  Owns(o) /\ o.key \in Region
    BY <2>3 DEF Owns, Region
  <2>4. CASE Process
    <3>1. CASE o \notin Sources
      <4>1. o = Octant(Parent(popped.key), {}, FALSE) /\ Children(Parent(popped.key)) \subseteq DOMAIN All
        BY <1>0, <2>4, <3>1, ProcessSources
      <4>2. popped \in Sources /\ popped.key # Root
        BY <2>4, HeldVoxel, ProcessKinds DEF Sources
      <4>3. o.key \in Parents(found)
        BY <1>0, <4>1, <4>2, RegionParent DEF OwnInv, Octant
      <4>4. QED
        BY <2>3, <4>1, <4>3 DEF Octant
    <3>2. QED
      BY <2>2, <3>1
  <2>5. ASSUME NEW w \in Workers, TakeTask(w)
        PROVE  o \in Sources \/ (o.files = {} /\ o.key \in Parents(found))
    <3>1. PICK n \in Octants : /\ n = Octant(Head(tasks).key, {}, FALSE) /\ n.key \in InTasks
                               /\ Sources' = Sources \cup {n}
      BY <1>0, <2>5, TakeTaskSources
    <3>2. n.files = {} /\ n.key \in Parents(found)
      BY <3>1 DEF Octant, OwnInv
    <3>3. QED
      BY <3>1, <3>2
  <2>6. ASSUME NEW w \in Workers, Prepare(w)
        PROVE  Owns(o) /\ o.key \in Region
    <3>1. Preparing(w)
      BY <2>6 DEF Preparing, Prepare
    <3>2. o \in Sources \/ o = octant'[w]
      BY <2>6, <3>1, PreparedElsewhere
    <3>3. Owns(octant'[w]) /\ octant'[w].key = octant[w].key
      BY <2>6, <3>1, PreparedIs DEF PrepareGives
    <3>4. octant[w].key \in Parents(found)
      BY <3>1, PreparingVoxel
    <3>5. QED
      BY <2>2, <3>2, <3>3, <3>4 DEF Region
  <2>7. CASE PopOctant \/ JoinPool \/ Finish \/ Finished \/ UNCHANGED vars
             \/ \E w \in Workers : EndTask(w) \/ NewChunk(w) \/ WriteChunk(w) \/ Throw(w)
    <3>1. o \in Sources
      BY <1>0, <2>7, PopSources, MainSources, EndTaskSources, OtherSources
    <3>2. QED
      BY <2>2, <3>1
  <2>8. QED
    BY <2>1, <2>2, <2>3, <2>4, <2>5, <2>6, <2>7 DEF Next, MainStep, WorkerStep
<1>5. ASSUME NEW w \in Workers, wpc'[w] = "prepare"
      PROVE  octant'[w].files = {} /\ ~octant'[w].mustWrite
  <2>1. CASE octant'[w] = octant[w] /\ wpc[w] = "prepare"
    BY <2>1 DEF OwnInv
  <2>2. CASE TakeTask(w)
    BY <2>2 DEF TakeTask, CutInv, TypeInv, Octant
  <2>3. TakeTask(w) \/ (octant'[w] = octant[w] /\ wpc[w] = "prepare")
    <3>1. CASE UNCHANGED <<wpc, octant>>
      BY <1>5, <3>1
    <3>2. ASSUME NEW v \in Workers, WorkerStep(v), ~TakeTask(w)
          PROVE  octant'[w] = octant[w] /\ wpc[w] = "prepare"
      <4>1. wpc' = [wpc EXCEPT ![v] = wpc'[v]] /\ octant' = [octant EXCEPT ![v] = octant'[v]]
        BY <3>2 DEF WorkerStep, TakeTask, Prepare, NewChunk, WriteChunk, Throw, EndTask, CutInv, TypeInv
      <4>2. CASE v # w
        BY <1>5, <4>1, <4>2 DEF CutInv, TypeInv
      <4>3. CASE v = w
        <5>1. wpc'[w] # "prepare"
          BY <3>2, <4>3 DEF WorkerStep, Prepare, NewChunk, WriteChunk, Throw, EndTask, CutInv, TypeInv
        <5>2. QED
          BY <1>5, <5>1
      <4>4. QED
        BY <4>2, <4>3
    <3>3. MainStep \/ Finished \/ UNCHANGED vars => UNCHANGED <<wpc, octant>>
      BY DEF MainStep, QueueWork, PopOctant, Process, JoinPool, Finish, Finished, vars, poolVars
    <3>4. QED
      BY <3>1, <3>2, <3>3 DEF Next
  <2>4. QED
    BY <2>1, <2>2, <2>3
<1>6. main' = "failed" => tasks' = <<>> /\ Busy' = {}
  <2>1. SUFFICES ASSUME main' = "failed" PROVE tasks' = <<>> /\ Busy' = {}
    OBVIOUS
  <2>2. CASE main = "failed" \/ main = "start" \/ main = "finish" \/ JoinPool
    <3>1. tasks = <<>> /\ Busy = {}
      BY <2>2, NothingAtStart, RootIsLast DEF OwnInv, NoTaskAtFinish, JoinPool, Busy
    <3>2. \A w \in Workers : ~WorkerStep(w)
      BY <3>1 DEF Busy, WorkerStep, TakeTask, Prepare, NewChunk, WriteChunk, Throw, EndTask
    <3>3. UNCHANGED <<tasks, wpc>>
      BY <2>1, <3>2 DEF Next, MainStep, QueueWork, PopOctant, Process, JoinPool, Finish, Finished, vars, poolVars
    <3>4. QED
      BY <3>1, <3>3 DEF Busy
  <2>3. main = "failed" \/ main = "start" \/ main = "finish" \/ JoinPool
    BY <2>1 DEF Next, MainStep, WorkerStep, QueueWork, PopOctant, Process, Finish, TakeTask,
         Prepare, NewChunk, WriteChunk, Throw, EndTask, Finished, vars, mainVars
  <2>4. QED
    BY <2>2, <2>3
<1>7. error' \/ (\E w \in Workers : wpc'[w] = "threw") => failures' > 0
  <2>1. failures \in Nat
    BY DEF CutInv, TypeInv
  <2>2. ASSUME NEW w \in Workers, Throw(w) PROVE failures' > 0
    BY <2>1, <2>2 DEF Throw
  <2>3. ASSUME NEW w \in Workers, EndTask(w)
        PROVE  /\ failures' = failures /\ error' = (error \/ wpc[w] = "threw")
               /\ \A v \in Workers : wpc'[v] = "threw" => wpc[v] = "threw"
    BY <2>3 DEF EndTask, CutInv, TypeInv
  <2>4. ASSUME NEW w \in Workers, TakeTask(w) \/ Prepare(w) \/ NewChunk(w) \/ WriteChunk(w)
        PROVE  /\ failures' = failures /\ error' = error
               /\ \A v \in Workers : wpc'[v] = "threw" => wpc[v] = "threw"
    <3>1. wpc \in [Workers -> {"idle", "prepare", "chunk", "write", "threw"}]
      BY DEF CutInv, TypeInv
    <3>2. /\ failures' = failures /\ error' = error
          /\ \/ wpc' = [wpc EXCEPT ![w] = "prepare"]
             \/ wpc' = [wpc EXCEPT ![w] = "chunk"]
             \/ wpc' = [wpc EXCEPT ![w] = "write"]
      BY <2>4 DEF TakeTask, Prepare, NewChunk, WriteChunk
    <3>3. QED
      BY <3>1, <3>2
  <2>5. MainStep \/ Finished \/ UNCHANGED vars => UNCHANGED <<failures, error, wpc>>
    BY DEF MainStep, QueueWork, PopOctant, Process, JoinPool, Finish, Finished, vars, poolVars
  <2>6. QED
    BY <2>2, <2>3, <2>4, <2>5 DEF OwnInv, Next, WorkerStep
<1>8. QED
  BY <1>1, <1>3, <1>4, <1>5, <1>6, <1>7 DEF OwnInv

-----------------------------------------------------------------------------
(* The voxels that have a chunk.                                           *)

NewKeys(w, H) ==
    {kids[w][d].key : d \in ToWrite(w, H)} \cup (IF octant[w].key = Root THEN {Root} ELSE {})

\* No voxel gets a chunk a second time.
LEMMA NewKeysAreNew ==
    ASSUME NEW w, Preparing(w), Settled, NEW H
    PROVE  NewKeys(w, H) \cap ChunkKeys = {} /\ NewKeys(w, H) \subseteq Region
<1>1. octant[w].key \in Open /\ octant[w].key \in Parents(found) /\ octant[w].key \in VoxelKey
  BY PreparingVoxel
<1>2. ASSUME NEW d \in Dirs
      PROVE  kids[w][d].key \notin ChunkKeys /\ kids[w][d].key \in Region
  <2>1. /\ Parent(kids[w][d].key) = octant[w].key /\ kids[w][d].key # Root
        /\ kids[w][d].key = Child(octant[w].key, d)
    BY KidFacts
  <2>2. kids[w][d].key \in Region
    BY <1>1, <2>1, RegionChildren DEF Children, Preparing, CutInv
  <2>3. QED
    BY <1>1, <2>1, <2>2 DEF Settled
<1>3. octant[w].key = Root => Root \notin ChunkKeys /\ Root \in Region
  BY <1>1 DEF Settled, Region
<1>4. QED
  BY <1>2, <1>3 DEF NewKeys, ToWrite

LEMMA PreparedChunks ==
    ASSUME NEW w, Preparing(w), Prepare(w), TodoInv, NEW H, NEW taken, PrepareGives(w, H, taken)
    PROVE  /\ todo[w] = {} /\ todo'[w] = Below(w, H, taken) \cup ToRoot(w, H, taken)
           /\ \A v \in Workers \ {w} : todo'[v] = todo[v]
           /\ TodoKeys(w)' = NewKeys(w, H)
           /\ ChunkKeys' = ChunkKeys \cup NewKeys(w, H)
           /\ todo' = [v \in Workers |-> todo'[v]]
<1>1. todo[w] = {} /\ w \in Workers
  BY DEF TodoInv, Preparing
<1>2. /\ todo'[w] = Below(w, H, taken) \cup ToRoot(w, H, taken)
      /\ \A v \in Workers \ {w} : todo'[v] = todo[v]
      /\ todo' = [v \in Workers |-> todo'[v]]
  <2> DEFINE new == Below(w, H, taken) \cup ToRoot(w, H, taken)
  <2>1. todo' = [todo EXCEPT ![w] = new] /\ todo = [v \in Workers |-> todo[v]]
    BY DEF PrepareGives, TodoInv
  <2> HIDE DEF new
  <2>2. DOMAIN todo = Workers
    BY <2>1
  <2>3. todo'[w] = new /\ (\A v \in Workers \ {w} : todo'[v] = todo[v]) /\ todo' = [v \in Workers |-> todo'[v]]
    BY <1>1, <2>1, <2>2
  <2>4. QED
    BY <2>3 DEF new
<1>3. TodoKeys(w)' = NewKeys(w, H)
  <2>1. {c.key : c \in Below(w, H, taken)} = {kids[w][d].key : d \in ToWrite(w, H)}
    <3> DEFINE c(d) == [key |-> kids[w][d].key, points |-> RestOf(w, H, d) \ taken]
    <3>1. Below(w, H, taken) = {c(d) : d \in ToWrite(w, H)}
      BY DEF Below
    <3>2. \A d : c(d).key = kids[w][d].key
      OBVIOUS
    <3> HIDE DEF c
    <3>3. QED
      BY <3>1, <3>2
  <2>2. {c.key : c \in ToRoot(w, H, taken)} = IF octant[w].key = Root THEN {Root} ELSE {}
    <3>1. CASE octant[w].key = Root
      <4> DEFINE c == [key |-> octant[w].key, points |-> Here(w, H, taken)]
      <4>1. ToRoot(w, H, taken) = {c} /\ c.key = Root
        BY <3>1 DEF ToRoot
      <4> HIDE DEF c
      <4>2. QED
        BY <3>1, <4>1
    <3>2. CASE octant[w].key # Root
      BY <3>2 DEF ToRoot
    <3>3. QED
      BY <3>1, <3>2
  <2>3. TodoKeys(w)' = {c.key : c \in Below(w, H, taken)} \cup {c.key : c \in ToRoot(w, H, taken)}
    BY <1>2 DEF TodoKeys
  <2>4. QED
    BY <2>1, <2>2, <2>3 DEF NewKeys
<1>4. ChunkKeys' = ChunkKeys \cup NewKeys(w, H)
  <2>1. hierarchy' = hierarchy
    BY PreparedElsewhere DEF copcVars
  <2>2. \A v \in Workers \ {w} : TodoKeys(v)' = TodoKeys(v)
    BY <1>2 DEF TodoKeys
  <2>3. TodoKeys(w) = {}
    BY <1>1 DEF TodoKeys
  <2>4. QED
    BY <1>1, <1>3, <2>1, <2>2, <2>3 DEF ChunkKeys
<1>5. QED
  BY <1>1, <1>2, <1>3, <1>4

\* The place of a chunk is reserved: its voxel had one to come.
LEMMA NewChunkKeys ==
    ASSUME TodoInv, NEW w \in Workers, NEW c \in todo[w],
           hierarchy' = Put(hierarchy, c.key, hierarchy'[c.key]), todo' = [todo EXCEPT ![w] = @ \ {c}]
    PROVE  /\ todo'[w] = todo[w] \ {c} /\ \A v \in Workers \ {w} : todo'[v] = todo[v]
           /\ todo' = [v \in Workers |-> todo'[v]]
           /\ DOMAIN hierarchy' = DOMAIN hierarchy \cup {c.key}
           /\ \A k \in DOMAIN hierarchy : hierarchy'[k] = hierarchy[k]
           /\ TodoKeys(w)' = TodoKeys(w) \ {c.key} /\ \A v \in Workers \ {w} : TodoKeys(v)' = TodoKeys(v)
           /\ ChunkKeys' = ChunkKeys
<1>1. /\ todo'[w] = todo[w] \ {c} /\ \A v \in Workers \ {w} : todo'[v] = todo[v]
      /\ todo' = [v \in Workers |-> todo'[v]]
  <2>1. todo = [v \in Workers |-> todo[v]]
    BY DEF TodoInv
  <2>2. QED
    BY <2>1
<1>2. c.key \notin DOMAIN hierarchy
  BY DEF TodoInv
<1>3. DOMAIN hierarchy' = DOMAIN hierarchy \cup {c.key} /\ \A k \in DOMAIN hierarchy : hierarchy'[k] = hierarchy[k]
  BY <1>2 DEF Put
<1>4. TodoKeys(w)' = TodoKeys(w) \ {c.key}
  <2>1. \A b \in todo[w] : b.key = c.key => b = c
    BY DEF TodoInv
  <2>2. QED
    BY <1>1, <2>1 DEF TodoKeys
<1>5. c.key \in TodoKeys(w) /\ \A v \in Workers \ {w} : TodoKeys(v)' = TodoKeys(v)
  BY <1>1 DEF TodoKeys
<1>6. ChunkKeys' = ChunkKeys
  BY <1>3, <1>4, <1>5 DEF ChunkKeys
<1>7. QED
  BY <1>1, <1>3, <1>4, <1>5, <1>6

\* NewChunk, as the lemma wants it.
LEMMA NewChunkIs ==
    ASSUME NEW w \in Workers, TodoInv, CutInv, NewChunk(w)
    PROVE  \E c \in todo[w] : LET n == Cardinality(c.points)
                                  at == IF n = 0 THEN 0 ELSE pointPos IN
             /\ hierarchy' = Put(hierarchy, c.key, hierarchy'[c.key])
             /\ hierarchy'[c.key] = [offset |-> at, count |-> n]
             /\ pointPos' = pointPos + n
             /\ chunkTable' = IF n = 0 THEN chunkTable ELSE Append(chunkTable, n)
             /\ chunk' = [v \in Workers |-> chunk'[v]]
             /\ chunk'[w] = [key |-> c.key, points |-> c.points, at |-> at]
             /\ chunk'[w].key = c.key /\ chunk'[w].points = c.points
             /\ \A v \in Workers \ {w} : chunk'[v] = chunk[v]
             /\ todo' = [todo EXCEPT ![w] = @ \ {c}]
             /\ Storing' = Storing \cup {w} /\ w \notin Storing
<1>1. PICK c \in todo[w] : LET n == Cardinality(c.points)
                               at == IF n = 0 THEN 0 ELSE pointPos IN
        /\ hierarchy' = Put(hierarchy, c.key, [offset |-> at, count |-> n])
        /\ pointPos' = pointPos + n
        /\ chunkTable' = IF n = 0 THEN chunkTable ELSE Append(chunkTable, n)
        /\ chunk' = [chunk EXCEPT ![w] = [key |-> c.key, points |-> c.points, at |-> at]]
        /\ todo' = [todo EXCEPT ![w] = @ \ {c}]
  BY DEF NewChunk
<1> DEFINE n == Cardinality(c.points)
           at == IF n = 0 THEN 0 ELSE pointPos
           x == [offset |-> at, count |-> n]
           y == [key |-> c.key, points |-> c.points, at |-> at]
<1>2. hierarchy' = Put(hierarchy, c.key, x) /\ chunk' = [chunk EXCEPT ![w] = y]
  BY <1>1
<1>3. chunk = [v \in Workers |-> chunk[v]]
  BY DEF TodoInv
<1> HIDE DEF x, y
<1>4. hierarchy'[c.key] = x
  BY <1>2 DEF Put
<1>5. hierarchy' = Put(hierarchy, c.key, hierarchy'[c.key])
  BY <1>2, <1>4
<1>6. chunk'[w] = y /\ (\A v \in Workers \ {w} : chunk'[v] = chunk[v]) /\ chunk' = [v \in Workers |-> chunk'[v]]
  BY <1>2, <1>3
<1>7. Storing' = Storing \cup {w} /\ w \notin Storing
  BY DEF NewChunk, Storing, CutInv, TypeInv
<1>8. QED
  BY <1>1, <1>4, <1>5, <1>6, <1>7 DEF x, y

LEMMA ChunkKeysStep ==
    ASSUME CutInv, TodoInv, [Next]_vars, \A w \in Workers : ~Prepare(w)
    PROVE  /\ ChunkKeys' \subseteq ChunkKeys
           /\ (\A w \in Workers : ~Throw(w)) => ChunkKeys' = ChunkKeys
<1>1. CASE UNCHANGED <<hierarchy, todo>>
  BY <1>1 DEF ChunkKeys, TodoKeys
<1>2. ASSUME NEW w \in Workers, NewChunk(w)
      PROVE  ChunkKeys' = ChunkKeys
  BY <1>2, NewChunkIs, NewChunkKeys
<1>3. ASSUME NEW w \in Workers, Throw(w)
      PROVE  ChunkKeys' \subseteq ChunkKeys
  <2>1. todo = [v \in Workers |-> todo[v]] /\ todo' = [todo EXCEPT ![w] = {}] /\ hierarchy' = hierarchy
    BY <1>3 DEF TodoInv, Throw, copcVars
  <2>2. \A v \in Workers : todo'[v] \subseteq todo[v]
    BY <2>1
  <2>3. \A v \in Workers : TodoKeys(v)' \subseteq TodoKeys(v)
    BY <2>2 DEF TodoKeys
  <2>4. QED
    BY <2>1, <2>3 DEF ChunkKeys
<1>4. UNCHANGED <<hierarchy, todo>> \/ \E w \in Workers : NewChunk(w) \/ Throw(w)
  BY DEF Next, MainStep, WorkerStep, QueueWork, PopOctant, Process, JoinPool, Finish, TakeTask,
         WriteChunk, EndTask, Finished, vars, poolVars, copcVars
<1>5. QED
  BY <1>1, <1>2, <1>3, <1>4

\* Not above a voxel that is alive.
NotAbove(h) == \A j \in LiveKeys : h \notin Ancestors(j)

LEMMA NewVoxelBelow ==
    ASSUME CutInv, NEW k, NewVoxel(k), NEW h, NotAbove(h)
    PROVE  h # k /\ h \notin Ancestors(k)
<1>1. popped.key \in LiveKeys /\ Ancestors(popped.key) = {k} \cup Ancestors(k)
  BY HeldVoxel DEF NewVoxel
<1>2. QED
  BY <1>1 DEF NotAbove

LEMMA SettledStep ==
    ASSUME CutInv, CutInv', DiskInv, OwnInv, TodoInv, Settled, [Next]_vars
    PROVE  Settled'
<1>0. TypeInv' /\ FoundInv
  BY DEF CutInv
<1>1. Region' = Region
  <2>1. found' = found
    BY DEF Next, MainStep, WorkerStep, QueueWork, PopOctant, Process, JoinPool, Finish, TakeTask,
           Prepare, NewChunk, WriteChunk, Throw, EndTask, Finished, vars
  <2>2. QED
    BY <2>1 DEF Region
<1>2. CASE QueueWork
  <2>1. \A w \in Workers : ~Prepare(w)
    BY <1>2, NothingAtStart DEF QueueWork, Busy, Prepare
  <2>2. ChunkKeys' = {}
    BY <1>2, <2>1, ChunkKeysStep DEF Settled, QueueWork
  <2>3. QED
    BY <2>2 DEF Settled
<1>3. main' = "start" => main = "start" /\ \A w \in Workers : ~Prepare(w)
  <2>1. main' = "start" => main = "start"
    BY DEF Next, MainStep, WorkerStep, QueueWork, PopOctant, Process, JoinPool, Finish, TakeTask,
           Prepare, NewChunk, WriteChunk, Throw, EndTask, Finished, vars, mainVars
  <2>2. QED
    BY <2>1, NothingAtStart DEF Busy, Prepare
<1>4. CASE ~QueueWork /\ \A w \in Workers : ~Prepare(w)
  <2>1. ChunkKeys' \subseteq ChunkKeys
    BY <1>4, ChunkKeysStep
  <2>2. \A h \in ChunkKeys : NotAbove(h)
    BY DEF Settled, NotAbove
  <2>3. \A k \in LiveKeys' : k \in LiveKeys \/ NewVoxel(k)
    BY <1>0, <1>4, KeysStep
  <2>4. \A k \in Open' : k \in Open \/ NewVoxel(k)
    BY <1>0, KeysStep
  <2>5. \A h \in ChunkKeys : \A k : NewVoxel(k) => h # k /\ h \notin Ancestors(k)
    BY <2>2, NewVoxelBelow
  <2>6. \A h \in ChunkKeys \ {Root} : ~NewVoxel(Parent(h))
    <3> SUFFICES ASSUME NEW h \in ChunkKeys \ {Root}, NewVoxel(Parent(h)) PROVE FALSE
      OBVIOUS
    <3>1. h \in VoxelKey /\ InTree(h)
      BY <1>0, RegionParent DEF Settled
    <3>2. h \in Children(Parent(h))
      BY <3>1, TreeTop, ChildOfParent
    <3>3. h \in LiveKeys
      BY <3>2 DEF NewVoxel
    <3>4. QED
      BY <3>3 DEF Settled
  <2>7. \A h \in ChunkKeys' : \A j \in LiveKeys' : h \notin Ancestors(j)
    BY <2>1, <2>3, <2>5 DEF Settled
  <2>8. \A h \in ChunkKeys' \ {Root} : h \notin LiveKeys' /\ Parent(h) \notin Open'
    BY <2>1, <2>3, <2>4, <2>5, <2>6 DEF Settled
  <2>9. Root \in ChunkKeys' => Root \notin Open'
    BY <2>1, <2>4, <2>5 DEF Settled
  <2>10. main' = "start" => ChunkKeys' = {}
    BY <1>3, <2>1 DEF Settled
  <2>11. ChunkKeys' \subseteq Region'
    BY <1>1, <2>1 DEF Settled
  <2>12. QED
    BY <2>7, <2>8, <2>9, <2>10, <2>11 DEF Settled
<1>5. ASSUME NEW w \in Workers, Prepare(w)
      PROVE  Settled'
  <2> DEFINE k == octant[w].key
  <2>1. Preparing(w)
    BY <1>5 DEF Preparing, Prepare
  <2>2. PICK H, taken : PrepareGives(w, H, taken)
    BY <1>5, <2>1, PreparedIs
  <2>3. ChunkKeys' = ChunkKeys \cup NewKeys(w, H)
    BY <1>5, <2>1, <2>2, PreparedChunks
  <2>4. k \in VoxelKey /\ InTree(k) /\ k \in LiveKeys /\ w \in Busy
    BY <2>1, PreparingVoxel
  <2>5. LiveKeys' \subseteq LiveKeys
    <3>1. Busy' = Busy /\ InWork' = InWork
      <4>1. Busy' = Busy /\ \A v \in Busy : octant'[v].key = octant[v].key
        BY <1>5, <2>1, <2>2, PreparedElsewhere DEF PrepareGives, Busy
      <4>2. QED
        BY <4>1 DEF InWork
    <3>2. UNCHANGED <<queue, completes, popped, main, tasks>>
      BY <1>5, <2>1, PreparedElsewhere DEF mainVars
    <3>3. InQueue' = InQueue /\ InTasks' = InTasks /\ InHands' = InHands
      BY <3>2 DEF InQueue, InTasks, InHands, Queued, Waiting
    <3>4. QED
      BY <1>0, <3>1, <3>2, <3>3, AliveKeys, AliveKeysNext DEF CutInv
  <2>6. k \notin Open' /\ Open' \subseteq Open
    <3>1. InTasks' = InTasks
      <4>1. tasks' = tasks
        BY <1>5, <2>1, PreparedElsewhere
      <4>2. QED
        BY <4>1 DEF InTasks, Waiting
    <3>2. \A v \in Workers : wpc'[v] = "prepare" => v # w /\ wpc[v] = "prepare" /\ octant'[v] = octant[v]
      BY <1>5, <2>1, PreparedElsewhere DEF CutInv, TypeInv
    <3>3. k \in InWork /\ OnePlace
      BY <2>4 DEF InWork, CutInv, Cut
    <3>4. k \notin InTasks /\ \A v \in Busy : octant[v].key = k => v = w
      BY <2>4, <3>3 DEF OnePlace
    <3>5. QED
      BY <3>1, <3>2, <3>4 DEF Open, Busy
  <2>7. ASSUME NEW h \in NewKeys(w, H)
        PROVE  /\ \/ h = Root /\ k = Root
                  \/ h \in VoxelKey /\ h # Root /\ Parent(h) = k /\ k \in Ancestors(h)
               /\ \A j \in LiveKeys : h \notin Ancestors(j)
               /\ h # Root => h \notin LiveKeys
    <3>1. \/ h = Root /\ k = Root
          \/ h \in VoxelKey /\ h # Root /\ Parent(h) = k /\ k \in Ancestors(h)
      BY <2>1, KidFacts DEF NewKeys, ToWrite
    <3>2. InTheTree(LiveKeys) /\ Antichain(LiveKeys)
      BY DEF CutInv, Cut
    <3>3. \A j \in LiveKeys : h \notin Ancestors(j)
      <4> SUFFICES ASSUME NEW j \in LiveKeys, h \in Ancestors(j) PROVE FALSE
        OBVIOUS
      <4>1. k \in Ancestors(j)
        BY <3>1, <3>2, AncestorsNest DEF InTheTree
      <4>2. QED
        BY <2>4, <3>2, <4>1 DEF Antichain
    <3>4. h # Root => h \notin LiveKeys
      BY <2>4, <3>1, <3>2 DEF Antichain
    <3>5. QED
      BY <3>1, <3>3, <3>4
  <2>8. \A h \in ChunkKeys' : \A j \in LiveKeys' : h \notin Ancestors(j)
    BY <2>3, <2>5, <2>7 DEF Settled
  <2>9. \A h \in ChunkKeys' \ {Root} : h \notin LiveKeys' /\ Parent(h) \notin Open'
    BY <2>3, <2>5, <2>6, <2>7 DEF Settled
  <2>10. Root \in ChunkKeys' => Root \notin Open'
    BY <2>3, <2>6, <2>7 DEF Settled
  <2>11. main' # "start"
    BY <1>3, <1>5
  <2>12. ChunkKeys' \subseteq Region'
    BY <1>1, <2>1, <2>3, NewKeysAreNew DEF Settled
  <2>13. QED
    BY <2>8, <2>9, <2>10, <2>11, <2>12 DEF Settled
<1>6. QED
  BY <1>2, <1>4, <1>5

-----------------------------------------------------------------------------
(* Each chunk is written once.                                             *)

\* The steps that neither reserve a place nor make chunks.
LEMMA TodoUnchanged ==
    ASSUME TodoInv, todo' = todo, hierarchy' = hierarchy, chunk' = [w \in Workers |-> chunk'[w]],
           \A w \in Workers : todo[w] # {} => wpc'[w] \in {"chunk", "write"}
    PROVE  TodoInv'
BY DEF TodoInv, TodoKeys

LEMMA TodoStep ==
    ASSUME CutInv, CutInv', DiskInv, OwnInv, Settled, TodoInv, [Next]_vars
    PROVE  TodoInv'
<1>0. wpc \in [Workers -> {"idle", "prepare", "chunk", "write", "threw"}]
  BY DEF CutInv, TypeInv
<1>1. CASE MainStep \/ Finished \/ UNCHANGED vars
  <2>1. UNCHANGED <<todo, hierarchy, chunk, wpc>>
    BY <1>1 DEF MainStep, QueueWork, PopOctant, Process, JoinPool, Finish, Finished, vars, poolVars, copcVars
  <2>2. chunk' = [w \in Workers |-> chunk'[w]]
    BY <2>1 DEF TodoInv
  <2>3. \A w \in Workers : todo[w] # {} => wpc'[w] \in {"chunk", "write"}
    BY <2>1 DEF TodoInv
  <2>4. QED
    BY <2>1, <2>2, <2>3, TodoUnchanged
<1>2. ASSUME NEW w \in Workers, TakeTask(w) \/ EndTask(w) \/ WriteChunk(w)
      PROVE  TodoInv'
  <2>1. UNCHANGED <<todo, hierarchy>>
    BY <1>2 DEF TakeTask, EndTask, WriteChunk, copcVars
  <2>2. chunk' = [v \in Workers |-> chunk'[v]]
    <3>1. chunk = [v \in Workers |-> chunk[v]]
      BY DEF TodoInv
    <3>2. chunk' = chunk \/ chunk' = [chunk EXCEPT ![w] = NoChunk]
      BY <1>2 DEF TakeTask, EndTask, WriteChunk
    <3>3. QED
      BY <3>1, <3>2
  <2>3. \A v \in Workers : todo[v] # {} => wpc[v] \in {"chunk", "write"}
    BY DEF TodoInv
  <2>4. \A v \in Workers \ {w} : wpc'[v] = wpc[v]
    BY <1>0, <1>2 DEF TakeTask, EndTask, WriteChunk
  <2>5. todo[w] # {} => wpc'[w] \in {"chunk", "write"}
    BY <1>0, <1>2, <2>3 DEF TakeTask, EndTask, WriteChunk
  <2>6. QED
    BY <2>1, <2>2, <2>3, <2>4, <2>5, TodoUnchanged
<1>3. ASSUME NEW w \in Workers, Throw(w)
      PROVE  TodoInv'
  <2>1. /\ todo = [v \in Workers |-> todo[v]] /\ todo' = [todo EXCEPT ![w] = {}]
        /\ chunk = [v \in Workers |-> chunk[v]] /\ chunk' = [chunk EXCEPT ![w] = NoChunk]
        /\ hierarchy' = hierarchy /\ wpc' = [wpc EXCEPT ![w] = "threw"]
    BY <1>3 DEF TodoInv, Throw, copcVars
  <2>2. /\ todo' = [v \in Workers |-> todo'[v]] /\ chunk' = [v \in Workers |-> chunk'[v]]
        /\ todo'[w] = {} /\ \A v \in Workers \ {w} : todo'[v] = todo[v] /\ wpc'[v] = wpc[v]
    BY <1>0, <2>1
  <2>3. TodoKeys(w)' = {} /\ \A v \in Workers \ {w} : TodoKeys(v)' = TodoKeys(v)
    BY <2>2 DEF TodoKeys
  <2>4. \A v \in Workers : \A c \in todo'[v] : IsChunk(c) /\ c.key \notin DOMAIN hierarchy'
    BY <2>1, <2>2 DEF TodoInv
  <2>5. \A v \in Workers : todo'[v] # {} => wpc'[v] \in {"chunk", "write"}
    BY <2>2 DEF TodoInv
  <2>6. \A v \in Workers : \A b, c \in todo'[v] : b.key = c.key => b = c
    BY <2>2 DEF TodoInv
  <2>7. \A u, v \in Workers : u # v => TodoKeys(u)' \cap TodoKeys(v)' = {}
    BY <2>3 DEF TodoInv
  <2>8. QED
    BY <2>2, <2>4, <2>5, <2>6, <2>7 DEF TodoInv
<1>4. ASSUME NEW w \in Workers, NewChunk(w)
      PROVE  TodoInv'
  <2>1. PICK c \in todo[w] :
             /\ hierarchy' = Put(hierarchy, c.key, hierarchy'[c.key])
             /\ chunk' = [v \in Workers |-> chunk'[v]]
             /\ todo' = [todo EXCEPT ![w] = @ \ {c}]
    BY <1>4, NewChunkIs
  <2>2. /\ todo'[w] = todo[w] \ {c} /\ \A v \in Workers \ {w} : todo'[v] = todo[v]
        /\ todo' = [v \in Workers |-> todo'[v]]
        /\ DOMAIN hierarchy' = DOMAIN hierarchy \cup {c.key}
        /\ TodoKeys(w)' = TodoKeys(w) \ {c.key} /\ \A v \in Workers \ {w} : TodoKeys(v)' = TodoKeys(v)
    BY <2>1, NewChunkKeys
  <2>3. \A v \in Workers : TodoKeys(v)' \subseteq TodoKeys(v) /\ todo'[v] \subseteq todo[v]
    BY <2>2
  <2>4. \A v \in Workers : \A b \in todo'[v] : IsChunk(b) /\ b.key \notin DOMAIN hierarchy'
    <3> TAKE v \in Workers
    <3> TAKE b \in todo'[v]
    <3>1. IsChunk(b) /\ b.key \notin DOMAIN hierarchy
      BY <2>3 DEF TodoInv
    <3>2. b.key # c.key
      <4>1. CASE v = w
        BY <2>2, <4>1 DEF TodoInv
      <4>2. CASE v # w
        <5>1. b.key \in TodoKeys(v) /\ c.key \in TodoKeys(w)
          BY <2>3 DEF TodoKeys
        <5>2. QED
          BY <4>2, <5>1 DEF TodoInv
      <4>3. QED
        BY <4>1, <4>2
    <3>3. QED
      BY <2>2, <3>1, <3>2
  <2>5. \A v \in Workers : todo'[v] # {} => wpc'[v] \in {"chunk", "write"}
    <3>1. wpc' = [wpc EXCEPT ![w] = "write"]
      BY <1>4 DEF NewChunk
    <3>2. QED
      BY <1>0, <2>3, <3>1 DEF TodoInv
  <2>6. \A v \in Workers : \A b, d \in todo'[v] : b.key = d.key => b = d
    BY <2>3 DEF TodoInv
  <2>7. \A u, v \in Workers : u # v => TodoKeys(u)' \cap TodoKeys(v)' = {}
    BY <2>3 DEF TodoInv
  <2>8. QED
    BY <2>1, <2>2, <2>4, <2>5, <2>6, <2>7 DEF TodoInv
<1>5. ASSUME NEW w \in Workers, Prepare(w)
      PROVE  TodoInv'
  <2>1. Preparing(w)
    BY <1>5 DEF Preparing, Prepare
  <2>2. PICK H, taken : PrepareGives(w, H, taken)
    BY <1>5, <2>1, PreparedIs
  <2>3. /\ todo'[w] = Below(w, H, taken) \cup ToRoot(w, H, taken)
        /\ \A v \in Workers \ {w} : todo'[v] = todo[v]
        /\ TodoKeys(w)' = NewKeys(w, H)
        /\ todo' = [v \in Workers |-> todo'[v]]
    BY <1>5, <2>1, <2>2, PreparedChunks
  <2>4. \A v \in Workers \ {w} : TodoKeys(v)' = TodoKeys(v)
    BY <2>3 DEF TodoKeys
  <2>5. NewKeys(w, H) \cap ChunkKeys = {}
    BY <2>1, NewKeysAreNew
  <2>6. /\ hierarchy' = hierarchy /\ chunk' = chunk /\ wpc' = [wpc EXCEPT ![w] = "chunk"]
    BY <1>5, <2>1, PreparedElsewhere DEF copcVars
  <2>7. IsFiniteSet(taken) /\ H \subseteq Dirs /\ \A d \in Dirs : IsFiniteSet(RestOf(w, H, d))
    <3>1. H \subseteq Dirs /\ taken \subseteq UNION {KidPts(w, d) : d \in Dirs \ H} /\ Dirs \ H \in SUBSET Dirs
      BY <2>2 DEF PrepareGives, Sampled
    <3>2. IsFiniteSet(UNION {KidPts(w, d) : d \in Dirs \ H})
      BY <2>1, <3>1, KidPtsFinite
    <3>3. QED
      BY <2>1, <3>1, <3>2, KidPtsFinite, FS_Subset, FS_EmptySet DEF RestOf
  <2>8. ASSUME NEW c \in todo'[w] PROVE IsChunk(c)
    <3>1. CASE c \in Below(w, H, taken)
      <4>1. PICK d \in Dirs : c = [key |-> kids[w][d].key, points |-> RestOf(w, H, d) \ taken]
        BY <3>1 DEF Below, ToWrite
      <4>2. IsFiniteSet(RestOf(w, H, d) \ taken)
        BY <2>7, FS_Difference
      <4>3. QED
        BY <4>1, <4>2 DEF IsChunk
    <3>2. CASE c \in ToRoot(w, H, taken)
      <4>1. c = [key |-> octant[w].key, points |-> Here(w, H, taken)]
        BY <3>2 DEF ToRoot
      <4>2. IsFiniteSet(Here(w, H, taken))
        <5>1. IsFiniteSet(UNION {KidPts(w, d) : d \in H})
          BY <2>1, <2>7, KidPtsFinite
        <5>2. QED
          BY <2>7, <5>1, FS_Union DEF Here
      <4>3. QED
        BY <4>1, <4>2 DEF IsChunk
    <3>3. QED
      BY <2>3, <3>1, <3>2
  <2>9. ASSUME NEW b \in todo'[w], NEW c \in todo'[w], b.key = c.key
        PROVE  b = c
    <3> DEFINE new(d) == [key |-> kids[w][d].key, points |-> RestOf(w, H, d) \ taken]
               top == [key |-> octant[w].key, points |-> Here(w, H, taken)]
    <3>1. \A d \in Dirs : new(d).key = Child(octant[w].key, d) /\ new(d).key # Root
      BY <2>1, KidFacts
    <3>2. \A d, e \in Dirs : new(d).key = new(e).key => d = e
      BY <2>1, <3>1, PreparingVoxel, ChildInjective
    <3>3. \A x \in todo'[w] : (\E d \in Dirs : x = new(d)) \/ (x = top /\ x.key = Root)
      BY <2>3 DEF Below, ToRoot, ToWrite
    <3> HIDE DEF new, top
    <3>4. QED
      BY <2>9, <3>1, <3>2, <3>3
  <2>10. \A v \in Workers : \A c \in todo'[v] : IsChunk(c) /\ c.key \notin DOMAIN hierarchy'
    <3> TAKE v \in Workers
    <3> TAKE c \in todo'[v]
    <3>1. CASE v = w
      <4>1. c.key \in NewKeys(w, H)
        BY <2>3, <3>1 DEF TodoKeys
      <4>2. QED
        BY <2>5, <2>6, <2>8, <3>1, <4>1 DEF ChunkKeys
    <3>2. CASE v # w
      BY <2>3, <2>6, <3>2 DEF TodoInv
    <3>3. QED
      BY <3>1, <3>2
  <2>11. \A v \in Workers : todo'[v] # {} => wpc'[v] \in {"chunk", "write"}
    <3>1. \A v \in Workers \ {w} : wpc'[v] = wpc[v]
      BY <1>0, <2>6
    <3>2. wpc'[w] = "chunk"
      BY <1>0, <2>6
    <3>3. QED
      BY <2>3, <3>1, <3>2 DEF TodoInv
  <2>12. \A v \in Workers : \A b, c \in todo'[v] : b.key = c.key => b = c
    BY <2>3, <2>9 DEF TodoInv
  <2>13. \A u, v \in Workers : u # v => TodoKeys(u)' \cap TodoKeys(v)' = {}
    <3>1. \A v \in Workers : TodoKeys(v) \subseteq ChunkKeys
      BY DEF ChunkKeys
    <3>2. QED
      BY <2>3, <2>4, <2>5, <3>1 DEF TodoInv
  <2>14. chunk' = [v \in Workers |-> chunk'[v]]
    BY <2>6 DEF TodoInv
  <2>15. QED
    BY <2>3, <2>10, <2>11, <2>12, <2>13, <2>14 DEF TodoInv
<1>6. QED
  BY <1>1, <1>2, <1>3, <1>4, <1>5 DEF Next, WorkerStep

-----------------------------------------------------------------------------
(* The hierarchy.                                                          *)

\* The steps that neither reserve a place nor write there.
LEMMA HierarchyUnchanged ==
    ASSUME HierarchyInv, UNCHANGED <<hierarchy, pointPos, chunkTable, written, data>>,
           \A w \in Workers : wpc'[w] = "write" => wpc[w] = "write" /\ chunk'[w] = chunk[w],
           \/ failures' # 0
           \/ failures' = failures /\ \A w \in Workers : wpc[w] = "write" => wpc'[w] = "write"
    PROVE  HierarchyInv'
<1>1. Storing' \subseteq Storing /\ \A w \in Storing' : chunk'[w] = chunk[w]
  BY DEF Storing
<1>2. \A w \in Storing' : /\ chunk'[w].key \in DOMAIN hierarchy' \ DOMAIN written'
                          /\ IsFiniteSet(chunk'[w].points)
                          /\ hierarchy'[chunk'[w].key].offset = chunk'[w].at
                          /\ hierarchy'[chunk'[w].key].count = Cardinality(chunk'[w].points)
  BY <1>1 DEF HierarchyInv, StoringInv
<1>3. \A v, w \in Storing' : chunk'[v].key = chunk'[w].key => v = w
  BY <1>1 DEF HierarchyInv, StoringInv
<1>4. failures' = 0 => \A k \in DOMAIN hierarchy' \ DOMAIN written' : \E w \in Storing' : chunk'[w].key = k
  <2>1. failures' = 0 => failures = 0 /\ Storing' = Storing
    BY <1>1 DEF Storing
  <2>2. QED
    BY <1>1, <2>1 DEF HierarchyInv, StoringInv
<1>5. StoringInv'
  BY <1>2, <1>3, <1>4 DEF StoringInv
<1>6. QED
  BY <1>5 DEF HierarchyInv, OffsetsInv, WrittenInv

LEMMA NewChunkHierarchy ==
    ASSUME CutInv, TodoInv, HierarchyInv, NEW w \in Workers, NewChunk(w)
    PROVE  HierarchyInv'
<1>1. PICK c \in todo[w] : LET n == Cardinality(c.points)
                               at == IF n = 0 THEN 0 ELSE pointPos IN
        /\ hierarchy' = Put(hierarchy, c.key, hierarchy'[c.key])
        /\ hierarchy'[c.key] = [offset |-> at, count |-> n]
        /\ pointPos' = pointPos + n
        /\ chunkTable' = IF n = 0 THEN chunkTable ELSE Append(chunkTable, n)
        /\ chunk' = [v \in Workers |-> chunk'[v]]
        /\ chunk'[w] = [key |-> c.key, points |-> c.points, at |-> at]
        /\ \A v \in Workers \ {w} : chunk'[v] = chunk[v]
        /\ todo' = [todo EXCEPT ![w] = @ \ {c}]
        /\ Storing' = Storing \cup {w} /\ w \notin Storing
  BY NewChunkIs
<1> DEFINE n == Cardinality(c.points)
           k == c.key
           at == IF n = 0 THEN 0 ELSE pointPos
<1>2. /\ DOMAIN hierarchy' = DOMAIN hierarchy \cup {k} /\ k \notin DOMAIN hierarchy
      /\ \A j \in DOMAIN hierarchy : hierarchy'[j] = hierarchy[j]
      /\ IsFiniteSet(c.points)
  BY <1>1, NewChunkKeys DEF TodoInv, IsChunk
<1>3. n \in Nat
  BY <1>2, FS_CardinalityType
<1>4. UNCHANGED <<written, data, failures>>
  BY DEF NewChunk
<1>5. /\ hierarchy'[k].offset = at /\ hierarchy'[k].count = n /\ hierarchy'[k] = [offset |-> at, count |-> n]
      /\ pointPos' = pointPos + n /\ chunkTable' = IF n = 0 THEN chunkTable ELSE Append(chunkTable, n)
      /\ chunk'[w].key = k /\ chunk'[w].points = c.points /\ chunk'[w].at = at
      /\ \A v \in Workers \ {w} : chunk'[v] = chunk[v]
      /\ Storing' = Storing \cup {w} /\ w \notin Storing
  BY <1>1
<1>6. Storing \subseteq Workers \ {w}
  BY <1>5 DEF Storing
<1> HIDE DEF n, k, at
<1>7. /\ pointPos' \in Nat \ {0}
      /\ chunkTable' \in Seq(Nat \ {0})
  <2>1. CASE n = 0
    BY <1>3, <1>5, <2>1 DEF HierarchyInv, OffsetsInv
  <2>2. CASE n # 0
    BY <1>3, <1>5, <2>2, AppendProperties DEF HierarchyInv, OffsetsInv
  <2>3. QED
    BY <2>1, <2>2
<1>8. /\ pointPos \in Nat
      /\ \A j \in DOMAIN hierarchy : hierarchy[j].count \in Nat /\ hierarchy[j].offset \in Nat
      /\ \A j \in DOMAIN hierarchy : hierarchy[j].count > 0 => hierarchy[j].offset < pointPos
  BY DEF HierarchyInv, OffsetsInv
<1>9. at \in Nat /\ (n > 0 => at = pointPos /\ at < pointPos') /\ pointPos' \in Nat /\ pointPos <= pointPos'
  BY <1>3, <1>5, <1>8 DEF at
<1>10. OffsetsInv'
  <2>1. \A j \in DOMAIN hierarchy' : hierarchy'[j].count \in Nat /\ hierarchy'[j].offset \in Nat
    BY <1>2, <1>3, <1>5, <1>8, <1>9
  <2>2. \A j \in DOMAIN hierarchy : hierarchy[j].count > 0 => hierarchy[j].offset < pointPos'
    BY <1>8, <1>9
  <2>3. \A j \in DOMAIN hierarchy' : hierarchy'[j].count > 0 => hierarchy'[j].offset < pointPos'
    BY <1>2, <1>5, <1>9, <2>2
  <2>4. \A j \in DOMAIN hierarchy : hierarchy[j].count > 0 /\ n > 0 => hierarchy[j].offset # at
    BY <1>8, <1>9
  <2>5. \A i, j \in DOMAIN hierarchy' :
          hierarchy'[i].count > 0 /\ hierarchy'[j].count > 0 /\ hierarchy'[i].offset = hierarchy'[j].offset
              => i = j
    BY <1>2, <1>5, <2>4 DEF HierarchyInv, OffsetsInv
  <2>6. QED
    BY <1>7, <2>1, <2>3, <2>5 DEF OffsetsInv
<1>11. StoringInv'
  <2>1. k \notin DOMAIN written
    BY <1>2 DEF HierarchyInv, WrittenInv
  <2>2. \A v \in Storing' : /\ chunk'[v].key \in DOMAIN hierarchy' \ DOMAIN written'
                            /\ IsFiniteSet(chunk'[v].points)
                            /\ hierarchy'[chunk'[v].key].offset = chunk'[v].at
                            /\ hierarchy'[chunk'[v].key].count = Cardinality(chunk'[v].points)
    <3> TAKE v \in Storing'
    <3>1. CASE v = w
      BY <1>2, <1>4, <1>5, <2>1, <3>1 DEF n
    <3>2. CASE v # w
      BY <1>2, <1>4, <1>5, <1>6, <3>2 DEF HierarchyInv, StoringInv
    <3>3. QED
      BY <3>1, <3>2
  <2>3. \A v \in Storing : chunk'[v] = chunk[v] /\ chunk[v].key # k
    BY <1>2, <1>5, <1>6 DEF HierarchyInv, StoringInv
  <2>4. \A u, v \in Storing' : chunk'[u].key = chunk'[v].key => u = v
    BY <1>5, <2>3 DEF HierarchyInv, StoringInv
  <2>5. failures' = 0 => \A j \in DOMAIN hierarchy' \ DOMAIN written' : \E v \in Storing' : chunk'[v].key = j
    BY <1>2, <1>4, <1>5, <2>3 DEF HierarchyInv, StoringInv
  <2>6. QED
    BY <2>2, <2>4, <2>5 DEF StoringInv
<1>12. WrittenInv'
  BY <1>2, <1>4 DEF HierarchyInv, WrittenInv
<1>13. QED
  BY <1>10, <1>11, <1>12 DEF HierarchyInv

\* Writing a chunk: it is noted, and its points are where it says.
LEMMA WriteChunkIs ==
    ASSUME CutInv, HierarchyInv, NEW w \in Workers, WriteChunk(w)
    PROVE  LET c == chunk[w] IN
           /\ w \in Storing /\ Storing' = Storing \ {w} /\ \A v \in Storing' : chunk'[v] = chunk[v]
           /\ hierarchy' = hierarchy /\ c.key \notin DOMAIN written /\ IsFiniteSet(c.points)
           /\ DOMAIN written' = DOMAIN written \cup {c.key}
           /\ \A k \in DOMAIN written : written'[k] = written[k]
           /\ written'[c.key] = Cardinality(c.points) /\ Cardinality(c.points) \in Nat
           /\ written'[c.key] > 0 <=> c.points # {}
           /\ c.points # {} => /\ hierarchy[c.key].offset = c.at /\ c.at \in DOMAIN data'
                               /\ data'[c.at] = c.points
           /\ \A k \in DOMAIN written : written[k] > 0 =>
                /\ hierarchy[k].offset \in DOMAIN data'
                /\ data'[hierarchy[k].offset] = data[hierarchy[k].offset]
<1> DEFINE c == chunk[w]
<1>1. /\ c.key \in DOMAIN hierarchy \ DOMAIN written /\ IsFiniteSet(c.points)
      /\ hierarchy[c.key].offset = c.at /\ hierarchy[c.key].count = Cardinality(c.points)
      /\ w \in Storing
  BY DEF HierarchyInv, StoringInv, WriteChunk, Storing
<1>2. Cardinality(c.points) \in Nat /\ (Cardinality(c.points) > 0 <=> c.points # {})
  BY <1>1, FS_CardinalityType, FS_EmptySet
<1>3. /\ hierarchy' = hierarchy /\ written' = Put(written, c.key, Cardinality(c.points))
      /\ data' = IF c.points = {} THEN data ELSE Put(data, c.at, c.points)
      /\ chunk' = [chunk EXCEPT ![w] = NoChunk] /\ wpc' = [wpc EXCEPT ![w] = "chunk"]
  BY <1>1 DEF WriteChunk, copcVars
<1>4. Storing' = Storing \ {w} /\ \A v \in Storing' : v # w
  BY <1>3 DEF Storing, CutInv, TypeInv
<1>5. \A v \in Storing' : chunk'[v] = chunk[v]
  BY <1>3, <1>4
<1> HIDE DEF c
<1>6. /\ DOMAIN written' = DOMAIN written \cup {c.key}
      /\ \A k \in DOMAIN written : written'[k] = written[k]
      /\ written'[c.key] = Cardinality(c.points)
  BY <1>1, <1>3 DEF Put
<1>7. ASSUME c.points # {}
      PROVE  /\ hierarchy[c.key].offset = c.at /\ DOMAIN data' = DOMAIN data \cup {c.at}
             /\ data'[c.at] = c.points /\ \A y \in DOMAIN data : y # c.at => data'[y] = data[y]
  BY <1>1, <1>3, <1>7 DEF Put
<1>8. ASSUME NEW k \in DOMAIN written, written[k] > 0
      PROVE  hierarchy[k].offset \in DOMAIN data' /\ data'[hierarchy[k].offset] = data[hierarchy[k].offset]
  <2>1. hierarchy[k].offset \in DOMAIN data /\ hierarchy[k].count > 0 /\ k \in DOMAIN hierarchy /\ k # c.key
    BY <1>1, <1>8 DEF HierarchyInv, WrittenInv
  <2>2. CASE c.points = {}
    BY <1>3, <2>1, <2>2
  <2>3. CASE c.points # {}
    <3>1. hierarchy[c.key].count > 0
      BY <1>1, <1>2, <2>3
    <3>2. hierarchy[k].offset # hierarchy[c.key].offset
      BY <1>1, <2>1, <3>1 DEF HierarchyInv, OffsetsInv
    <3>3. QED
      BY <1>7, <2>1, <2>3, <3>2
  <2>4. QED
    BY <2>2, <2>3
<1>9. QED
  BY <1>1, <1>2, <1>3, <1>4, <1>5, <1>6, <1>7, <1>8 DEF c

LEMMA WriteChunkHierarchy ==
    ASSUME CutInv, HierarchyInv, NEW w \in Workers, WriteChunk(w)
    PROVE  HierarchyInv'
<1> DEFINE c == chunk[w]
<1>1. UNCHANGED <<hierarchy, pointPos, chunkTable, failures>>
  BY DEF WriteChunk, copcVars
<1>2. /\ w \in Storing /\ Storing' = Storing \ {w} /\ \A v \in Storing' : chunk'[v] = chunk[v]
      /\ c.key \notin DOMAIN written
      /\ DOMAIN written' = DOMAIN written \cup {c.key}
      /\ \A k \in DOMAIN written : written'[k] = written[k]
      /\ written'[c.key] = Cardinality(c.points)
      /\ written'[c.key] > 0 <=> c.points # {}
      /\ c.points # {} => hierarchy[c.key].offset = c.at /\ c.at \in DOMAIN data'
      /\ \A k \in DOMAIN written : written[k] > 0 => hierarchy[k].offset \in DOMAIN data'
  BY WriteChunkIs
<1>3. /\ c.key \in DOMAIN hierarchy /\ hierarchy[c.key].count = Cardinality(c.points)
      /\ \A v \in Storing : chunk[v].key = c.key => v = w
  BY <1>2 DEF HierarchyInv, StoringInv
<1> HIDE DEF c
<1>4. StoringInv'
  <2>1. \A v \in Storing' : v \in Storing /\ chunk'[v] = chunk[v] /\ chunk[v].key # c.key
    BY <1>2, <1>3
  <2>2. \A v \in Storing' : /\ chunk'[v].key \in DOMAIN hierarchy' \ DOMAIN written'
                            /\ IsFiniteSet(chunk'[v].points)
                            /\ hierarchy'[chunk'[v].key].offset = chunk'[v].at
                            /\ hierarchy'[chunk'[v].key].count = Cardinality(chunk'[v].points)
    BY <1>1, <1>2, <2>1 DEF HierarchyInv, StoringInv
  <2>3. \A u, v \in Storing' : chunk'[u].key = chunk'[v].key => u = v
    BY <2>1 DEF HierarchyInv, StoringInv
  <2>4. ASSUME failures' = 0, NEW k \in DOMAIN hierarchy' \ DOMAIN written'
        PROVE  \E v \in Storing' : chunk'[v].key = k
    <3>1. k \in DOMAIN hierarchy \ DOMAIN written /\ k # c.key /\ failures = 0
      BY <1>1, <1>2, <2>4
    <3>2. PICK v \in Storing : chunk[v].key = k
      BY <3>1 DEF HierarchyInv, StoringInv
    <3>3. v # w
      BY <3>1, <3>2 DEF c
    <3>4. QED
      BY <1>2, <3>2, <3>3
  <2>5. QED
    BY <2>2, <2>3, <2>4 DEF StoringInv
<1>5. WrittenInv'
  <2>1. DOMAIN written' \subseteq DOMAIN hierarchy'
    BY <1>1, <1>2, <1>3 DEF HierarchyInv, WrittenInv
  <2>2. \A k \in DOMAIN written' : written'[k] = hierarchy'[k].count
    BY <1>1, <1>2, <1>3 DEF HierarchyInv, WrittenInv
  <2>3. \A k \in DOMAIN written' : written'[k] > 0 => hierarchy'[k].offset \in DOMAIN data'
    BY <1>1, <1>2
  <2>4. QED
    BY <2>1, <2>2, <2>3 DEF WrittenInv
<1>6. QED
  BY <1>1, <1>4, <1>5 DEF HierarchyInv, OffsetsInv

LEMMA HierarchyStep ==
    ASSUME CutInv, TodoInv, HierarchyInv, [Next]_vars
    PROVE  HierarchyInv'
<1>0. /\ wpc \in [Workers -> {"idle", "prepare", "chunk", "write", "threw"}] /\ failures \in Nat
  BY DEF CutInv, TypeInv
<1>1. CASE MainStep \/ Finished \/ UNCHANGED vars
  <2>1. UNCHANGED <<hierarchy, pointPos, chunkTable, written, data, failures, wpc, chunk>>
    BY <1>1 DEF MainStep, QueueWork, PopOctant, Process, JoinPool, Finish, Finished, vars, poolVars, copcVars
  <2>2. QED
    BY <2>1, HierarchyUnchanged
<1>2. ASSUME NEW w \in Workers, TakeTask(w) \/ EndTask(w) \/ Prepare(w)
      PROVE  HierarchyInv'
  <2>1. UNCHANGED <<hierarchy, pointPos, chunkTable, written, data, failures, chunk>>
    BY <1>2 DEF TakeTask, EndTask, Prepare, copcVars
  <2>2. \A v \in Workers : wpc'[v] = "write" <=> wpc[v] = "write"
    BY <1>0, <1>2 DEF TakeTask, EndTask, Prepare
  <2>3. QED
    BY <2>1, <2>2, HierarchyUnchanged
<1>3. ASSUME NEW w \in Workers, Throw(w)
      PROVE  HierarchyInv'
  <2>1. UNCHANGED <<hierarchy, pointPos, chunkTable, written, data>> /\ failures' # 0
    BY <1>0, <1>3 DEF Throw, copcVars
  <2>2. \A v \in Workers : wpc'[v] = "write" => v # w /\ wpc[v] = "write"
    BY <1>0, <1>3 DEF Throw
  <2>3. \A v \in Workers \ {w} : chunk'[v] = chunk[v]
    BY <1>3 DEF Throw
  <2>4. QED
    BY <2>1, <2>2, <2>3, HierarchyUnchanged
<1>4. QED
  BY <1>1, <1>2, <1>3, NewChunkHierarchy, WriteChunkHierarchy DEF Next, WorkerStep

-----------------------------------------------------------------------------
(* The points.                                                             *)

TodoPlaces    == {<<c.key, c.points>> : c \in UNION {todo[w] : w \in Workers}}
StoringPlaces == {<<chunk[w].key, chunk[w].points>> : w \in Storing}
WrittenPlaces == {<<k, data[hierarchy[k].offset]>> : k \in {j \in DOMAIN written : written[j] > 0}}

LEMMA PlacesAre ==
    /\ ChunkPlaces = TodoPlaces \cup StoringPlaces \cup WrittenPlaces
    /\ ChunkPlaces' = TodoPlaces' \cup StoringPlaces' \cup WrittenPlaces'
BY DEF ChunkPlaces, TodoPlaces, StoringPlaces, WrittenPlaces

LEMMA NewChunkPlaces ==
    ASSUME CutInv, TodoInv, HierarchyInv, NEW w \in Workers, NewChunk(w)
    PROVE  ChunkPlaces' = ChunkPlaces
<1>1. PICK c \in todo[w] :
        /\ hierarchy' = Put(hierarchy, c.key, hierarchy'[c.key])
        /\ chunk'[w].key = c.key /\ chunk'[w].points = c.points
        /\ \A v \in Workers \ {w} : chunk'[v] = chunk[v]
        /\ todo' = [todo EXCEPT ![w] = @ \ {c}]
        /\ Storing' = Storing \cup {w} /\ w \notin Storing
  BY NewChunkIs
<1>2. /\ todo'[w] = todo[w] \ {c} /\ \A v \in Workers \ {w} : todo'[v] = todo[v]
      /\ \A k \in DOMAIN hierarchy : hierarchy'[k] = hierarchy[k]
  BY <1>1, NewChunkKeys
<1> DEFINE p == <<c.key, c.points>>
           U == UNION {todo[v] : v \in Workers}
<1>3. U = U' \cup {c}
  BY <1>2
<1>4. TodoPlaces = {<<b.key, b.points>> : b \in U} /\ TodoPlaces' = {<<b.key, b.points>> : b \in U'}
  BY DEF TodoPlaces
<1> HIDE DEF U
<1>5. TodoPlaces = TodoPlaces' \cup {p}
  BY <1>3, <1>4
<1>6. StoringPlaces' = StoringPlaces \cup {p}
  <2>1. Storing \subseteq Workers \ {w}
    BY <1>1 DEF Storing
  <2>2. \A v \in Storing : <<chunk'[v].key, chunk'[v].points>> = <<chunk[v].key, chunk[v].points>>
    BY <1>1, <2>1
  <2>3. <<chunk'[w].key, chunk'[w].points>> = p
    BY <1>1
  <2> HIDE DEF p
  <2>4. QED
    BY <1>1, <2>2, <2>3 DEF StoringPlaces
<1>7. WrittenPlaces' = WrittenPlaces
  <2>1. written' = written /\ data' = data
    BY DEF NewChunk
  <2>2. \A k \in DOMAIN written : hierarchy'[k] = hierarchy[k]
    BY <1>2 DEF HierarchyInv, WrittenInv
  <2>3. QED
    BY <2>1, <2>2 DEF WrittenPlaces
<1> HIDE DEF p
<1>8. QED
  BY <1>5, <1>6, <1>7, PlacesAre

LEMMA WriteChunkPlaces ==
    ASSUME CutInv, TodoInv, HierarchyInv, NEW w \in Workers, WriteChunk(w)
    PROVE  ChunkPlaces' \subseteq ChunkPlaces /\ \A p \in ChunkPlaces : p \in ChunkPlaces' \/ p[2] = {}
<1> DEFINE c == chunk[w]
           p == <<c.key, c.points>>
<1>1. /\ w \in Storing /\ Storing' = Storing \ {w} /\ \A v \in Storing' : chunk'[v] = chunk[v]
      /\ hierarchy' = hierarchy /\ c.key \notin DOMAIN written
      /\ DOMAIN written' = DOMAIN written \cup {c.key}
      /\ \A k \in DOMAIN written : written'[k] = written[k]
      /\ written'[c.key] > 0 <=> c.points # {}
      /\ c.points # {} => hierarchy[c.key].offset = c.at /\ data'[c.at] = c.points
      /\ \A k \in DOMAIN written : written[k] > 0 =>
           data'[hierarchy[k].offset] = data[hierarchy[k].offset]
  BY WriteChunkIs
<1> DEFINE big(k) == written[k] > 0
           bigger(k) == written'[k] > 0
           at(k) == <<k, data[hierarchy[k].offset]>>
           then(k) == <<k, data'[hierarchy'[k].offset]>>
<1>2. TodoPlaces' = TodoPlaces
  BY DEF TodoPlaces, WriteChunk
<1>3. StoringPlaces = StoringPlaces' \cup {p}
  BY <1>1 DEF StoringPlaces
<1>4. WrittenPlaces = {at(k) : k \in {j \in DOMAIN written : big(j)}}
  BY DEF WrittenPlaces
<1>5. WrittenPlaces' = {then(k) : k \in {j \in DOMAIN written' : bigger(j)}}
  BY DEF WrittenPlaces
<1>6. \A k \in DOMAIN written : (bigger(k) <=> big(k)) /\ (big(k) => then(k) = at(k))
  BY <1>1
<1>7. (bigger(c.key) <=> c.points # {}) /\ (c.points # {} => then(c.key) = p)
  BY <1>1
<1>8. p[2] = c.points
  OBVIOUS
<1>9. DOMAIN written' = DOMAIN written \cup {c.key} /\ c.key \notin DOMAIN written
  BY <1>1
<1> HIDE DEF c, p, big, bigger, at, then
<1>10. WrittenPlaces' \subseteq WrittenPlaces \cup {p} /\ WrittenPlaces \subseteq WrittenPlaces'
  BY <1>4, <1>5, <1>6, <1>7, <1>9
<1>11. c.points # {} => p \in WrittenPlaces'
  BY <1>5, <1>7, <1>9
<1>12. QED
  BY <1>2, <1>3, <1>8, <1>10, <1>11, PlacesAre

LEMMA ThrowPlaces ==
    ASSUME CutInv, TodoInv, NEW w \in Workers, Throw(w)
    PROVE  ChunkPlaces' \subseteq ChunkPlaces
<1>1. /\ todo = [v \in Workers |-> todo[v]] /\ todo' = [todo EXCEPT ![w] = {}]
      /\ chunk' = [chunk EXCEPT ![w] = NoChunk] /\ wpc' = [wpc EXCEPT ![w] = "threw"]
      /\ wpc \in [Workers -> {"idle", "prepare", "chunk", "write", "threw"}]
  BY DEF TodoInv, Throw, CutInv, TypeInv
<1>2. \A v \in Workers : todo'[v] \subseteq todo[v]
  BY <1>1
<1>3. TodoPlaces' \subseteq TodoPlaces
  BY <1>2 DEF TodoPlaces
<1>4. Storing' \subseteq Storing /\ \A v \in Storing' : chunk'[v] = chunk[v]
  BY <1>1 DEF Storing
<1>5. StoringPlaces' \subseteq StoringPlaces
  BY <1>4 DEF StoringPlaces
<1>6. WrittenPlaces' = WrittenPlaces
  BY DEF Throw, copcVars, WrittenPlaces
<1>7. QED
  BY <1>3, <1>5, <1>6, PlacesAre

LEMMA SamePlaces ==
    ASSUME UNCHANGED <<todo, chunk, hierarchy, written, data>>, Storing' = Storing
    PROVE  ChunkPlaces' = ChunkPlaces
BY DEF ChunkPlaces

\* A step that moves octants and chunks and makes no points.
LEMMA PointsStay ==
    ASSUME PointsInv, disk' = disk, found' = found,
           \A o \in Sources' : o \in Sources \/ PointsOf(o, disk) = {},
           ChunkPlaces' \subseteq ChunkPlaces,
           main' \notin {"start", "failed"} /\ failures' = 0 =>
              /\ main \notin {"start", "failed"} /\ failures = 0
              /\ \A o \in Sources : o \in Sources' \/ PointsOf(o, disk) = {}
              /\ \A c \in ChunkPlaces : c \in ChunkPlaces' \/ c[2] = {}
    PROVE  PointsInv'
<1>1. Input' = Input /\ disk' = disk
  BY DEF Input
<1>2. \A j, k \in found' : j # k => disk'[Bin(j)] \cap disk'[Bin(k)] = {}
  BY DEF PointsInv
<1>3. \A o, q \in Sources' : o # q => PointsOf(o, disk') \cap PointsOf(q, disk') = {}
  BY <1>1 DEF PointsInv
<1>4. \A b, c \in ChunkPlaces' : b # c => b[2] \cap c[2] = {}
  BY DEF PointsInv
<1>5. \A o \in Sources', c \in ChunkPlaces' : PointsOf(o, disk') \cap c[2] = {}
  BY <1>1 DEF PointsInv
<1>6. \A o \in Sources' : PointsOf(o, disk') \subseteq Input'
  BY <1>1 DEF PointsInv
<1>7. \A c \in ChunkPlaces' : c[2] \subseteq Input'
  BY <1>1 DEF PointsInv
<1>8. ASSUME main' \notin {"start", "failed"} /\ failures' = 0, NEW x \in Input'
      PROVE  (\E o \in Sources' : x \in PointsOf(o, disk')) \/ (\E c \in ChunkPlaces' : x \in c[2])
  <2>1. \/ \E o \in Sources : x \in PointsOf(o, disk)
        \/ \E c \in ChunkPlaces : x \in c[2]
    BY <1>1, <1>8 DEF PointsInv
  <2>2. QED
    BY <1>1, <1>8, <2>1
<1>9. QED
  BY <1>2, <1>3, <1>4, <1>5, <1>6, <1>7, <1>8 DEF PointsInv

LEMMA QueueWorkPoints ==
    ASSUME CutInv, TypeInv', TodoInv, HierarchyInv, Settled, PointsInv, QueueWork
    PROVE  PointsInv'
<1>1. Sources' = {Work(k) : k \in found \cup Needed(found)}
  BY QueueWorkSources
<1>2. /\ disk' = disk /\ found' = found /\ UNCHANGED <<poolVars, copcVars, data, written>>
      /\ main = "start" /\ main' = IF Parents(found) = {} THEN "failed" ELSE "run"
  BY DEF QueueWork
<1>3. ChunkPlaces' = {}
  <2>1. ChunkKeys = {} /\ Storing = {}
    BY <1>2, NothingAtStart DEF Settled, Busy, Storing
  <2>2. DOMAIN hierarchy = {} /\ DOMAIN written = {}
    BY <2>1 DEF ChunkKeys, HierarchyInv, WrittenInv
  <2>3. \A w \in Workers : todo[w] = {}
    BY <1>2, NothingAtStart DEF TodoInv, Busy
  <2>4. ChunkPlaces = {}
    BY <2>1, <2>2, <2>3 DEF ChunkPlaces
  <2>5. Storing' = Storing
    BY <1>2 DEF Storing, poolVars
  <2>6. QED
    BY <1>2, <2>4, <2>5, SamePlaces DEF poolVars, copcVars
<1>4. \A k \in found \cup Needed(found) :
         PointsOf(Work(k), disk') = IF k \in found /\ k # Root THEN disk[Bin(k)] ELSE {}
  <2> TAKE k \in found \cup Needed(found)
  <2>1. Work(k).key = k /\ Work(k).files = IF k \in found THEN {Bin(k)} ELSE {}
    BY DEF Work, Octant
  <2>2. PointsIn({Bin(k)}, disk) = disk[Bin(k)] /\ PointsIn({}, disk) = {}
    BY DEF PointsIn
  <2>3. PointsOf(Work(k), disk') = IF k = Root THEN {} ELSE PointsIn(Work(k).files, disk)
    BY <1>2, <2>1 DEF PointsOf, PointsIn
  <2>4. QED
    BY <2>1, <2>2, <2>3
<1>5. Input' = Input
  BY <1>2 DEF Input
<1>6. \A j, k \in found : j # k => disk[Bin(j)] \cap disk[Bin(k)] = {}
  BY DEF PointsInv
<1>7. \A o, q \in Sources' : o # q => PointsOf(o, disk') \cap PointsOf(q, disk') = {}
  <2> TAKE o \in Sources', q \in Sources'
  <2>1. PICK j \in found \cup Needed(found), k \in found \cup Needed(found) : o = Work(j) /\ q = Work(k)
    BY <1>1
  <2>2. QED
    BY <1>4, <1>6, <2>1
<1>8. \A o \in Sources' : PointsOf(o, disk') \subseteq Input'
  BY <1>1, <1>4, <1>5 DEF Input
<1>9. ASSUME main' # "failed", NEW x \in Input
      PROVE  \E o \in Sources' : x \in PointsOf(o, disk')
  <2>1. PICK k \in found : x \in disk[Bin(k)]
    BY DEF Input
  <2>2. k # Root
    <3> SUFFICES ASSUME k = Root PROVE FALSE
      OBVIOUS
    <3>1. PICK j \in found : Ancestors(j) # {}
      BY <1>2, <1>9 DEF Parents
    <3>2. j \in VoxelKey /\ InTree(j) /\ Root \notin Ancestors(j)
      BY DEF CutInv, FoundInv, InTheTree, Antichain
    <3>3. j = Root
      BY <3>2, TreeTop
    <3>4. QED
      BY <3>1, <3>3, RootType, NoLineageAtTop
  <2>3. Work(k) \in Sources' /\ PointsOf(Work(k), disk') = disk[Bin(k)]
    BY <1>1, <1>4, <2>2
  <2>4. QED
    BY <2>1, <2>3
<1>10. QED
  BY <1>2, <1>3, <1>5, <1>6, <1>7, <1>8, <1>9 DEF PointsInv

\* What preparing does to the points of the children: each goes to one place.
NewPlaces(w, H, taken) == {<<c.key, c.points>> : c \in Below(w, H, taken) \cup ToRoot(w, H, taken)}

LEMMA NewPlacesAre ==
    ASSUME NEW w, NEW H, NEW taken
    PROVE  /\ \A p \in NewPlaces(w, H, taken) :
                \/ \E d \in ToWrite(w, H) : p = <<kids[w][d].key, RestOf(w, H, d) \ taken>>
                \/ octant[w].key = Root /\ p = <<Root, Here(w, H, taken)>>
           /\ \A d \in ToWrite(w, H) : <<kids[w][d].key, RestOf(w, H, d) \ taken>> \in NewPlaces(w, H, taken)
           /\ octant[w].key = Root => <<Root, Here(w, H, taken)>> \in NewPlaces(w, H, taken)
<1> DEFINE new(d) == [key |-> kids[w][d].key, points |-> RestOf(w, H, d) \ taken]
           top == [key |-> octant[w].key, points |-> Here(w, H, taken)]
           at(c) == <<c.key, c.points>>
<1>1. NewPlaces(w, H, taken) = {at(c) : c \in {new(d) : d \in ToWrite(w, H)} \cup ToRoot(w, H, taken)}
  BY DEF NewPlaces, Below
<1>2. ToRoot(w, H, taken) = IF octant[w].key = Root THEN {top} ELSE {}
  BY DEF ToRoot
<1>3. \A d : at(new(d)) = <<kids[w][d].key, RestOf(w, H, d) \ taken>>
  OBVIOUS
<1>4. at(top) = <<octant[w].key, Here(w, H, taken)>>
  OBVIOUS
<1> HIDE DEF new, top, at
<1>5. \A p \in NewPlaces(w, H, taken) : (\E d \in ToWrite(w, H) : p = at(new(d))) \/ (octant[w].key = Root /\ p = at(top))
  BY <1>1, <1>2
<1>6. \A d \in ToWrite(w, H) : at(new(d)) \in NewPlaces(w, H, taken)
  BY <1>1
<1>7. octant[w].key = Root => at(top) \in NewPlaces(w, H, taken)
  BY <1>1, <1>2
<1>8. QED
  BY <1>3, <1>4, <1>5, <1>6, <1>7

LEMMA PreparedPoints ==
    ASSUME NEW w, Preparing(w), Prepare(w), TodoInv, HierarchyInv, PointsInv, Settled
    PROVE  PointsInv'
<1>1. PICK H, taken : PrepareGives(w, H, taken)
  BY PreparedIs
<1> DEFINE k  == octant[w].key
           o0 == octant'[w]
           KP(d) == KidPts(w, d)
           N  == NewPlaces(w, H, taken)
           S  == SourcesBut(w)
           here == Here(w, H, taken)
<1>2. /\ H \subseteq Dirs /\ taken \subseteq UNION {KP(d) : d \in Dirs \ H}
      /\ o0.key = k /\ (k # Root => PointsIn(o0.files, disk') = here)
  BY <1>1 DEF PrepareGives, Sampled
<1>3. /\ Sources' = S \cup {o0} /\ Sources = S \cup {kids[w][d] : d \in Dirs} \cup {octant[w]}
      /\ \A o \in S : PointsIn(o.files, disk') = PointsIn(o.files, disk)
      /\ \A j \in found : disk'[Bin(j)] = disk[Bin(j)]
      /\ found' = found /\ main' = main /\ failures' = failures
  BY PreparedElsewhere DEF mainVars
<1>4. ChunkPlaces' = ChunkPlaces \cup N
  <2>1. /\ todo[w] = {} /\ todo'[w] = Below(w, H, taken) \cup ToRoot(w, H, taken)
        /\ \A v \in Workers \ {w} : todo'[v] = todo[v]
    BY <1>1, PreparedChunks
  <2>2. w \in Workers /\ UNCHANGED <<chunk, hierarchy, data, written>> /\ Storing' = Storing
    BY PreparedElsewhere DEF Preparing, copcVars
  <2>3. StoringPlaces' = StoringPlaces /\ WrittenPlaces' = WrittenPlaces
    BY <2>2 DEF StoringPlaces, WrittenPlaces
  <2> DEFINE U == UNION {todo[v] : v \in Workers}
             B == Below(w, H, taken) \cup ToRoot(w, H, taken)
  <2>4. U' = U \cup B
    BY <2>1, <2>2
  <2>5. TodoPlaces = {<<c.key, c.points>> : c \in U} /\ TodoPlaces' = {<<c.key, c.points>> : c \in U'}
        /\ N = {<<c.key, c.points>> : c \in B}
    BY DEF TodoPlaces, NewPlaces
  <2> HIDE DEF U, B, N
  <2>6. TodoPlaces' = TodoPlaces \cup N
    BY <2>4, <2>5
  <2>7. QED
    BY <2>3, <2>6, PlacesAre
<1>5. \A d \in Dirs : /\ kids[w][d] \in Sources /\ PointsOf(kids[w][d], disk) = KP(d)
                      /\ kids[w][d].key # Root /\ kids[w][d].key = Child(k, d) /\ k \in Ancestors(kids[w][d].key)
  BY KidFacts DEF PointsOf, KidPts
<1>6. k \in VoxelKey
  BY PreparingVoxel
<1>7. PointsOf(octant[w], disk) = {}
  BY DEF Preparing, OwnInv, PointsOf, PointsIn
<1>8. \A d \in Dirs, o \in S : o # kids[w][d] /\ o \in Sources
  <2> TAKE d \in Dirs, o \in S
  <2>1. Apart(o.key, k)
    BY OthersApart, PreparingVoxel DEF Preparing
  <2>2. QED
    BY <1>3, <1>5, <2>1 DEF Apart
<1> HIDE DEF KP, N, S
\* The children's points are disjoint from each other and from the rest.
<1>9. \A d, e \in Dirs : d # e => KP(d) \cap KP(e) = {}
  <2> TAKE d \in Dirs, e \in Dirs
  <2> HAVE d # e
  <2>1. kids[w][d] # kids[w][e]
    BY <1>5, <1>6, ChildInjective
  <2>2. QED
    BY <1>5, <2>1 DEF PointsInv
<1>10. \A d \in Dirs, o \in S : KP(d) \cap PointsOf(o, disk) = {}
  BY <1>5, <1>8 DEF PointsInv
<1>11. \A d \in Dirs, c \in ChunkPlaces : KP(d) \cap c[2] = {}
  BY <1>5 DEF PointsInv
<1>12. \A d \in Dirs : KP(d) \subseteq Input
  BY <1>5 DEF PointsInv
\* What becomes of them.
<1>13. \A x \in here : \/ x \in taken /\ \E d \in Dirs \ H : x \in KP(d)
                       \/ \E d \in H : x \in KP(d)
  BY <1>2 DEF Here, KP
<1>14. \A p \in N : \/ \E d \in Dirs : d \notin H /\ p = <<kids[w][d].key, KP(d) \ taken>>
                    \/ \E d \in Dirs : p = <<kids[w][d].key, {}>>
                    \/ k = Root /\ p = <<Root, here>>
  <2> TAKE p \in N
  <2>1. CASE \E d \in ToWrite(w, H) : p = <<kids[w][d].key, RestOf(w, H, d) \ taken>>
    <3>1. PICK d \in Dirs : p = <<kids[w][d].key, RestOf(w, H, d) \ taken>>
      BY <2>1 DEF ToWrite
    <3>2. CASE d \in H
      <4>1. RestOf(w, H, d) \ taken = {}
        BY <3>2 DEF RestOf
      <4>2. QED
        BY <3>1, <4>1
    <3>3. CASE d \notin H
      <4>1. RestOf(w, H, d) = KP(d)
        BY <3>3 DEF RestOf, KP
      <4>2. QED
        BY <3>1, <3>3, <4>1
    <3>4. QED
      BY <3>2, <3>3
  <2>2. CASE k = Root /\ p = <<Root, here>>
    BY <2>2
  <2>3. \A q \in N : \/ \E d \in ToWrite(w, H) : q = <<kids[w][d].key, RestOf(w, H, d) \ taken>>
                     \/ k = Root /\ q = <<Root, here>>
    <3> HIDE DEF here, k
    <3>0. N = NewPlaces(w, H, taken)
      BY DEF N
    <3>1. \A q \in N : \/ \E d \in ToWrite(w, H) : q = <<kids[w][d].key, RestOf(w, H, d) \ taken>>
                       \/ octant[w].key = Root /\ q = <<Root, Here(w, H, taken)>>
      <4>1. \A q \in NewPlaces(w, H, taken) :
                 \/ \E d \in ToWrite(w, H) : q = <<kids[w][d].key, RestOf(w, H, d) \ taken>>
                 \/ octant[w].key = Root /\ q = <<Root, Here(w, H, taken)>>
        BY NewPlacesAre
      <4>2. QED
        BY <3>0, <4>1
    <3>2. QED
      BY <3>1 DEF here, k
  <2>4. QED
    BY <2>1, <2>2, <2>3
<1>15. \A d \in Dirs \ H : KP(d) # {} => <<kids[w][d].key, KP(d) \ taken>> \in N
  <2> TAKE d \in Dirs \ H
  <2> HAVE KP(d) # {}
  <2>1. RestOf(w, H, d) = KP(d)
    BY DEF RestOf, KP
  <2>2. d \in ToWrite(w, H)
    BY <2>1 DEF ToWrite
  <2>3. <<kids[w][d].key, RestOf(w, H, d) \ taken>> \in N
    BY <2>2, NewPlacesAre DEF N
  <2>4. QED
    BY <2>1, <2>3
<1>16. k = Root => <<Root, here>> \in N
  BY NewPlacesAre DEF N
<1> HIDE DEF here
<1>17. \A p \in N : \A x \in p[2] : \E d \in Dirs : x \in KP(d)
  <2> TAKE p \in N
  <2> TAKE x \in p[2]
  <2>1. \A d \in Dirs : p = <<kids[w][d].key, KP(d) \ taken>> => x \in KP(d)
    OBVIOUS
  <2>2. \A d \in Dirs : p # <<kids[w][d].key, {}>>
    OBVIOUS
  <2>3. p = <<Root, here>> => x \in here
    OBVIOUS
  <2>4. QED
    BY <1>2, <1>13, <1>14, <2>1, <2>2, <2>3
<1>18. \A p, q \in N : p # q => p[2] \cap q[2] = {}
  <2> SUFFICES ASSUME NEW p \in N, NEW q \in N, NEW x, x \in p[2], x \in q[2]
               PROVE  p = q
    OBVIOUS
  <2>1. ASSUME NEW r \in N, x \in r[2]
        PROVE  \/ \E d \in Dirs \ H : r = <<kids[w][d].key, KP(d) \ taken>> /\ x \in KP(d) /\ x \notin taken
               \/ r = <<Root, here>> /\ x \in here
    <3>1. \A d \in Dirs : r = <<kids[w][d].key, KP(d) \ taken>> => x \in KP(d) /\ x \notin taken
      BY <2>1
    <3>2. \A d \in Dirs : r # <<kids[w][d].key, {}>>
      BY <2>1
    <3>3. r = <<Root, here>> => x \in here
      BY <2>1
    <3>4. QED
      BY <1>14, <3>1, <3>2, <3>3
  <2>2. \A d \in Dirs \ H : x \in KP(d) /\ x \notin taken => x \notin here
    BY <1>2, <1>9, <1>13
  <2>3. \A d, e \in Dirs : x \in KP(d) /\ x \in KP(e) => d = e
    BY <1>9
  <2>4. QED
    BY <2>1, <2>2, <2>3
\* The parts of the invariant.
<1>19. Input' = Input
  BY <1>3 DEF Input
<1>20. \A o \in S : PointsOf(o, disk') = PointsOf(o, disk)
  BY <1>3 DEF PointsOf
<1>21. PointsOf(o0, disk') = IF k = Root THEN {} ELSE here
  <2>1. PointsOf(o0, disk') = IF o0.key = Root THEN {} ELSE PointsIn(o0.files, disk')
    BY DEF PointsOf, PointsIn
  <2>2. QED
    BY <1>2, <2>1
<1> HIDE DEF o0, k
<1>22. \A x \in PointsOf(o0, disk') : \E d \in Dirs : x \in KP(d)
  BY <1>2, <1>13, <1>21
<1>23. \A j, i \in found' : j # i => disk'[Bin(j)] \cap disk'[Bin(i)] = {}
  BY <1>3 DEF PointsInv
<1>24. \A o, q \in Sources' : o # q => PointsOf(o, disk') \cap PointsOf(q, disk') = {}
  <2>1. \A o, q \in S : o # q => PointsOf(o, disk') \cap PointsOf(q, disk') = {}
    BY <1>8, <1>20, <1>3 DEF PointsInv
  <2>2. \A o \in S : PointsOf(o, disk') \cap PointsOf(o0, disk') = {}
    BY <1>10, <1>20, <1>22
  <2>3. QED
    BY <1>3, <2>1, <2>2
<1>25. \A b, c \in ChunkPlaces' : b # c => b[2] \cap c[2] = {}
  <2>1. \A b, c \in ChunkPlaces : b # c => b[2] \cap c[2] = {}
    BY DEF PointsInv
  <2>2. \A b \in ChunkPlaces, c \in N : b[2] \cap c[2] = {}
    BY <1>11, <1>17
  <2>3. QED
    BY <1>4, <1>18, <2>1, <2>2
<1>26. \A o \in Sources', c \in ChunkPlaces' : PointsOf(o, disk') \cap c[2] = {}
  <2>1. \A o \in S, c \in ChunkPlaces : PointsOf(o, disk') \cap c[2] = {}
    BY <1>3, <1>20 DEF PointsInv
  <2>2. \A o \in S, c \in N : PointsOf(o, disk') \cap c[2] = {}
    BY <1>10, <1>17, <1>20
  <2>3. \A c \in ChunkPlaces : PointsOf(o0, disk') \cap c[2] = {}
    BY <1>11, <1>22
  <2>4. \A c \in N : PointsOf(o0, disk') \cap c[2] = {}
    <3> SUFFICES ASSUME NEW c \in N, NEW x, x \in c[2], x \in PointsOf(o0, disk') PROVE FALSE
      OBVIOUS
    <3>1. k # Root /\ x \in here
      BY <1>21
    <3>2. \A d \in Dirs : c = <<kids[w][d].key, KP(d) \ taken>> => x \in KP(d) /\ x \notin taken
      OBVIOUS
    <3>3. \A d \in Dirs : c # <<kids[w][d].key, {}>>
      OBVIOUS
    <3>4. PICK d \in Dirs \ H : x \in KP(d) /\ x \notin taken
      BY <1>14, <3>1, <3>2, <3>3
    <3>5. QED
      BY <1>2, <1>9, <1>13, <3>1, <3>4
  <2>5. QED
    BY <1>3, <1>4, <2>1, <2>2, <2>3, <2>4
<1>27. \A o \in Sources' : PointsOf(o, disk') \subseteq Input'
  <2>1. \A o \in S : PointsOf(o, disk') \subseteq Input'
    BY <1>3, <1>19, <1>20 DEF PointsInv
  <2>2. PointsOf(o0, disk') \subseteq Input'
    BY <1>12, <1>19, <1>22
  <2>3. QED
    BY <1>3, <2>1, <2>2
<1>28. \A c \in ChunkPlaces' : c[2] \subseteq Input'
  <2>1. \A c \in ChunkPlaces : c[2] \subseteq Input'
    BY <1>19 DEF PointsInv
  <2>2. \A c \in N : c[2] \subseteq Input'
    BY <1>12, <1>17, <1>19
  <2>3. QED
    BY <1>4, <2>1, <2>2
<1>29. ASSUME main' \notin {"start", "failed"} /\ failures' = 0, NEW x \in Input'
       PROVE  (\E o \in Sources' : x \in PointsOf(o, disk')) \/ (\E c \in ChunkPlaces' : x \in c[2])
  <2>1. (\E o \in Sources : x \in PointsOf(o, disk)) \/ (\E c \in ChunkPlaces : x \in c[2])
    BY <1>3, <1>19, <1>29 DEF PointsInv
  <2>2. CASE \E c \in ChunkPlaces : x \in c[2]
    BY <1>4, <2>2
  <2>3. CASE \E o \in S : x \in PointsOf(o, disk)
    BY <1>3, <1>20, <2>3
  <2>4. ASSUME x \in here
        PROVE  (\E o \in Sources' : x \in PointsOf(o, disk')) \/ (\E c \in ChunkPlaces' : x \in c[2])
    <3>1. CASE k = Root
      <4>1. <<Root, here>> \in ChunkPlaces'
        BY <1>4, <1>16, <3>1
      <4>2. <<Root, here>>[2] = here
        OBVIOUS
      <4>3. QED
        BY <2>4, <4>1, <4>2
    <3>2. CASE k # Root
      BY <1>3, <1>21, <2>4, <3>2
    <3>3. QED
      BY <3>1, <3>2
  <2>5. ASSUME NEW d \in Dirs, x \in KP(d)
        PROVE  (\E o \in Sources' : x \in PointsOf(o, disk')) \/ (\E c \in ChunkPlaces' : x \in c[2])
    <3>1. CASE d \in H \/ x \in taken
      <4>1. x \in here
        BY <2>5, <3>1 DEF here, Here, KP
      <4>2. QED
        BY <2>4, <4>1
    <3>2. CASE d \notin H /\ x \notin taken
      <4> DEFINE p == <<kids[w][d].key, KP(d) \ taken>>
      <4>1. p \in ChunkPlaces' /\ p[2] = KP(d) \ taken
        BY <1>4, <1>15, <2>5, <3>2
      <4>2. QED
        BY <2>5, <3>2, <4>1
    <3>3. QED
      BY <3>1, <3>2
  <2>6. QED
    BY <1>3, <1>5, <1>7, <2>1, <2>2, <2>3, <2>5
<1>30. QED
  BY <1>23, <1>24, <1>25, <1>26, <1>27, <1>28, <1>29 DEF PointsInv

LEMMA PointsStep ==
    ASSUME CutInv, CutInv', DiskInv, OwnInv, OwnInv', TodoInv, HierarchyInv, Settled, PointsInv, [Next]_vars
    PROVE  PointsInv'
<1>0. TypeInv' /\ failures \in Nat /\ failures' \in Nat
  BY DEF CutInv, TypeInv
<1>1. CASE QueueWork
  BY <1>0, <1>1, QueueWorkPoints
<1>2. CASE PopOctant
  <2>1. /\ UNCHANGED <<disk, found, todo, chunk, hierarchy, written, data, failures>> /\ Storing' = Storing
        /\ main = "run"
    BY <1>2 DEF PopOctant, poolVars, copcVars, Storing
  <2>2. ChunkPlaces' = ChunkPlaces
    BY <2>1, SamePlaces
  <2>3. Sources' \subseteq Sources /\ (~error => Sources' = Sources)
    BY <1>0, <1>2, PopSources
  <2>4. failures' = 0 => ~error
    BY <1>0, <2>1 DEF OwnInv
  <2>5. QED
    BY <2>1, <2>2, <2>3, <2>4, PointsStay
<1>3. CASE Process
  <2>1. /\ UNCHANGED <<disk, found, todo, chunk, hierarchy, written, data, failures>> /\ Storing' = Storing
        /\ main = "process"
    BY <1>3, ProcessKinds DEF poolVars, copcVars, Storing
  <2>2. ChunkPlaces' = ChunkPlaces
    BY <2>1, SamePlaces
  <2>3. CASE Sources' = Sources
    BY <2>1, <2>2, <2>3, PointsStay
  <2>4. ASSUME NEW o \in Octants, o = Octant(Parent(popped.key), {}, FALSE),
               \A d \in Dirs : NumPoints(Kids[d], disk) = 0 /\ Kids[d] \in Sources,
               Sources' \subseteq Sources \cup {o},
               Sources \subseteq Sources' \cup {Kids[d] : d \in Dirs}
        PROVE  PointsInv'
    <3>1. PointsOf(o, disk) = {}
      BY <2>4 DEF PointsOf, PointsIn, Octant
    <3>2. \A d \in Dirs : PointsOf(Kids[d], disk) = {}
      <4> TAKE d \in Dirs
      <4> DEFINE q == Kids[d]
      <4>1. q \in Sources /\ Cardinality(PointsIn(q.files, disk)) = 0
        BY <2>4 DEF NumPoints
      <4> HIDE DEF q
      <4>2. q \in AllOctants
        BY <4>1, AllAre
      <4>3. IsFiniteSet(q.files) /\ \A f \in q.files : IsFiniteSet(disk[f])
        BY <4>2, FS_Subset DEF DiskInv
      <4>4. IsFiniteSet(PointsIn(q.files, disk))
        BY <4>3, FinitePoints
      <4>5. PointsIn(q.files, disk) = {}
        BY <4>1, <4>4, FS_EmptySet
      <4>6. QED
        BY <4>5 DEF PointsOf, q
    <3>3. \A q \in Sources : q \in Sources' \/ PointsOf(q, disk) = {}
      BY <2>4, <3>2
    <3>4. \A q \in Sources' : q \in Sources \/ PointsOf(q, disk) = {}
      BY <2>4, <3>1
    <3>5. QED
      BY <2>1, <2>2, <3>3, <3>4, PointsStay
  <2>5. QED
    BY <1>0, <1>3, <2>3, <2>4, ProcessSources
<1>4. CASE JoinPool \/ Finish \/ Finished \/ UNCHANGED vars
  <2>1. /\ UNCHANGED <<disk, found, todo, chunk, hierarchy, written, data, failures>> /\ Storing' = Storing
        /\ main' \notin {"start", "failed"} => main \notin {"start", "failed"}
    BY <1>4 DEF JoinPool, Finish, Finished, vars, poolVars, copcVars, Storing
  <2>2. ChunkPlaces' = ChunkPlaces
    BY <2>1, SamePlaces
  <2>3. Sources' \subseteq Sources /\ (main' # "failed" => Sources' = Sources)
    BY <1>4, MainSources
  <2>4. QED
    BY <2>1, <2>2, <2>3, PointsStay
<1>5. ASSUME NEW w \in Workers, TakeTask(w)
      PROVE  PointsInv'
  <2>1. /\ UNCHANGED <<disk, found, todo, chunk, hierarchy, written, data, failures, main>>
        /\ Storing' = Storing
    BY <1>5 DEF TakeTask, mainVars, copcVars, Storing, CutInv, TypeInv
  <2>2. ChunkPlaces' = ChunkPlaces
    BY <2>1, SamePlaces
  <2>3. PICK o \in Octants : o = Octant(Head(tasks).key, {}, FALSE) /\ Sources' = Sources \cup {o}
    BY <1>0, <1>5, TakeTaskSources
  <2>4. PointsOf(o, disk) = {}
    BY <2>3 DEF PointsOf, PointsIn, Octant
  <2>5. QED
    BY <2>1, <2>2, <2>3, <2>4, PointsStay
<1>6. ASSUME NEW w \in Workers, Prepare(w)
      PROVE  PointsInv'
  <2>1. Preparing(w)
    BY <1>6 DEF Preparing, Prepare
  <2>2. QED
    BY <1>6, <2>1, PreparedPoints
<1>7. ASSUME NEW w \in Workers, NewChunk(w)
      PROVE  PointsInv'
  <2>1. UNCHANGED <<disk, found, failures, main>>
    BY <1>7 DEF NewChunk, mainVars
  <2>2. ChunkPlaces' = ChunkPlaces /\ Sources' = Sources
    <3>1. ~Throw(w)
      BY <1>0, <1>7 DEF NewChunk, Throw
    <3>2. QED
      BY <1>0, <1>7, <3>1, NewChunkPlaces, OtherSources
  <2>3. QED
    BY <2>1, <2>2, PointsStay
<1>8. ASSUME NEW w \in Workers, WriteChunk(w)
      PROVE  PointsInv'
  <2>1. UNCHANGED <<disk, found, failures, main>>
    BY <1>8 DEF WriteChunk, mainVars
  <2>2. Sources' = Sources
    <3>1. ~Throw(w)
      BY <1>0, <1>8 DEF WriteChunk, Throw
    <3>2. QED
      BY <1>0, <1>8, <3>1, OtherSources
  <2>3. ChunkPlaces' \subseteq ChunkPlaces /\ \A p \in ChunkPlaces : p \in ChunkPlaces' \/ p[2] = {}
    BY <1>8, WriteChunkPlaces
  <2>4. QED
    BY <2>1, <2>2, <2>3, PointsStay
<1>9. ASSUME NEW w \in Workers, Throw(w)
      PROVE  PointsInv'
  <2>1. UNCHANGED <<disk, found, main>> /\ failures' # 0
    BY <1>0, <1>9 DEF Throw, mainVars
  <2>2. Sources' \subseteq Sources /\ ChunkPlaces' \subseteq ChunkPlaces
    BY <1>0, <1>9, OtherSources, ThrowPlaces
  <2>3. QED
    BY <2>1, <2>2, PointsStay
<1>10. ASSUME NEW w \in Workers, EndTask(w)
       PROVE  PointsInv'
  <2>1. /\ UNCHANGED <<disk, found, todo, chunk, hierarchy, written, data, failures, main>>
        /\ Storing' = Storing
    BY <1>10 DEF EndTask, mainVars, copcVars, Storing, CutInv, TypeInv
  <2>2. ChunkPlaces' = ChunkPlaces
    BY <2>1, SamePlaces
  <2>3. Sources' = Sources
    BY <1>0, <1>10, EndTaskSources
  <2>4. QED
    BY <2>1, <2>2, <2>3, PointsStay
<1>11. QED
  BY <1>1, <1>2, <1>3, <1>4, <1>5, <1>6, <1>7, <1>8, <1>9, <1>10 DEF Next, MainStep, WorkerStep

-----------------------------------------------------------------------------
(* The parents of the voxels that have a chunk.                            *)

\* A step that moves octants, and lets go of none that must be written.
LEMMA IndexStay ==
    ASSUME IndexInv,
           failures' = 0 /\ main' # "failed" =>
              /\ failures = 0 /\ main # "failed"
              /\ disk' = disk /\ ChunkKeys' = ChunkKeys
              /\ \A o \in Sources' : o \in Sources \/ ~o.mustWrite
              /\ \A o \in Sources : o.mustWrite => o \in Sources'
    PROVE  IndexInv'
<1>1. SUFFICES ASSUME failures' = 0, main' # "failed"
               PROVE  /\ \A h \in ChunkKeys' \ {Root} :
                          Parent(h) \in ChunkKeys' \/ \E o \in Sources' : o.key = Parent(h) /\ o.mustWrite
                      /\ \A o \in Sources' : o.mustWrite =>
                          IF o.key = Root THEN Root \in ChunkKeys' ELSE PointsIn(o.files, disk') # {}
  BY DEF IndexInv
<1>2. ASSUME NEW h \in ChunkKeys \ {Root}
      PROVE  Parent(h) \in ChunkKeys \/ \E o \in Sources' : o.key = Parent(h) /\ o.mustWrite
  BY <1>1, <1>2 DEF IndexInv
<1>3. ASSUME NEW o \in Sources, o.mustWrite
      PROVE  IF o.key = Root THEN Root \in ChunkKeys ELSE PointsIn(o.files, disk) # {}
  BY <1>1, <1>3 DEF IndexInv
<1>4. QED
  BY <1>1, <1>2, <1>3

LEMMA PreparedIndex ==
    ASSUME NEW w, Preparing(w), Prepare(w), TodoInv, IndexInv
    PROVE  IndexInv'
<1>1. PICK H, taken : PrepareGives(w, H, taken)
  BY PreparedIs
<1> DEFINE k == octant[w].key
           o0 == octant'[w]
           S == SourcesBut(w)
           N == NewKeys(w, H)
<1>2. /\ o0.key = k /\ o0.mustWrite = (ToWrite(w, H) # {})
      /\ k # Root => PointsIn(o0.files, disk') = Here(w, H, taken)
      /\ Sampled(w, H, taken)
  BY <1>1 DEF PrepareGives
<1>3. /\ Sources' = S \cup {o0} /\ Sources = S \cup {kids[w][d] : d \in Dirs} \cup {octant[w]}
      /\ \A o \in S : PointsIn(o.files, disk') = PointsIn(o.files, disk)
      /\ main' = main /\ failures' = failures
  BY PreparedElsewhere DEF mainVars
<1>4. ChunkKeys' = ChunkKeys \cup N
  BY <1>1, PreparedChunks
<1>5. \A d \in Dirs : /\ kids[w][d] \in Sources /\ kids[w][d].key # Root
                      /\ Parent(kids[w][d].key) = k
  BY KidFacts
<1>6. ~octant[w].mustWrite
  BY DEF Preparing, OwnInv
<1>7. SUFFICES ASSUME failures' = 0, main' # "failed"
               PROVE  /\ \A h \in ChunkKeys' \ {Root} :
                          Parent(h) \in ChunkKeys' \/ \E o \in Sources' : o.key = Parent(h) /\ o.mustWrite
                      /\ \A o \in Sources' : o.mustWrite =>
                          IF o.key = Root THEN Root \in ChunkKeys' ELSE PointsIn(o.files, disk') # {}
  BY DEF IndexInv
<1>8. /\ \A h \in ChunkKeys \ {Root} :
            Parent(h) \in ChunkKeys \/ \E o \in Sources : o.key = Parent(h) /\ o.mustWrite
      /\ \A o \in Sources : o.mustWrite =>
            IF o.key = Root THEN Root \in ChunkKeys ELSE PointsIn(o.files, disk) # {}
  BY <1>3, <1>7 DEF IndexInv
<1>9. /\ \A d \in ToWrite(w, H) : d \in Dirs /\ kids[w][d].key \in N
      /\ \A d \in Dirs : kids[w][d].mustWrite => d \in ToWrite(w, H)
      /\ \A h \in N : h = Root \/ \E d \in ToWrite(w, H) : h = kids[w][d].key
      /\ k = Root => Root \in N
  BY DEF NewKeys, ToWrite
<1> HIDE DEF k, o0, S, N
<1>10. ASSUME NEW h \in ChunkKeys' \ {Root}
       PROVE  Parent(h) \in ChunkKeys' \/ \E o \in Sources' : o.key = Parent(h) /\ o.mustWrite
  <2>1. CASE h \in N
    <3>1. PICK d \in ToWrite(w, H) : h = kids[w][d].key
      BY <1>9, <1>10, <2>1
    <3>2. Parent(h) = k /\ o0.mustWrite /\ o0 \in Sources'
      BY <1>2, <1>3, <1>5, <1>9, <3>1
    <3>3. QED
      BY <1>2, <3>2
  <2>2. CASE h \in ChunkKeys
    <3>1. CASE Parent(h) \in ChunkKeys
      BY <1>4, <3>1
    <3>2. ASSUME NEW o \in Sources, o.key = Parent(h), o.mustWrite
          PROVE  Parent(h) \in ChunkKeys' \/ o \in Sources'
      <4>1. CASE o \in S
        BY <1>3, <4>1
      <4>2. ASSUME NEW d \in Dirs, o = kids[w][d]
            PROVE  Parent(h) \in ChunkKeys'
        BY <1>4, <1>9, <3>2, <4>2
      <4>3. QED
        BY <1>3, <1>6, <3>2, <4>1, <4>2
    <3>3. QED
      BY <1>8, <1>10, <2>2, <3>1, <3>2
  <2>3. QED
    BY <1>4, <1>10, <2>1, <2>2
<1>11. ASSUME NEW o \in Sources', o.mustWrite
       PROVE  IF o.key = Root THEN Root \in ChunkKeys' ELSE PointsIn(o.files, disk') # {}
  <2>1. CASE o \in S
    BY <1>3, <1>4, <1>8, <1>11, <2>1
  <2>2. CASE o = o0
    <3>1. PICK d \in ToWrite(w, H) : TRUE
      BY <1>2, <1>11, <2>2
    <3>2. ASSUME k # Root PROVE Here(w, H, taken) # {}
      <4>1. CASE RestOf(w, H, d) # {}
        <5>1. taken # {}
          BY <1>2, <1>9, <4>1 DEF Sampled
        <5>2. QED
          BY <5>1 DEF Here
      <4>2. CASE RestOf(w, H, d) = {}
        <5>1. kids[w][d].mustWrite /\ d \in Dirs
          BY <4>2 DEF ToWrite
        <5>2. KidPts(w, d) # {}
          BY <1>5, <1>8, <5>1 DEF KidPts
        <5>3. d \in H
          BY <4>2, <5>2 DEF RestOf
        <5>4. QED
          BY <5>2, <5>3 DEF Here
      <4>3. QED
        BY <4>1, <4>2
    <3>3. QED
      BY <1>2, <1>4, <1>9, <2>2, <3>2
  <2>3. QED
    BY <1>3, <2>1, <2>2
<1>12. QED
  BY <1>10, <1>11

LEMMA IndexStep ==
    ASSUME CutInv, CutInv', DiskInv, OwnInv, TodoInv, HierarchyInv, IndexInv, [Next]_vars
    PROVE  IndexInv'
<1>0. TypeInv' /\ failures \in Nat /\ failures' \in Nat
  BY DEF CutInv, TypeInv
<1>1. CASE QueueWork
  <2>1. Sources = {} /\ \A o \in Sources' : ~o.mustWrite
    BY <1>0, <1>1, QueueWorkSources DEF Work, Octant
  <2>2. disk' = disk /\ failures' = failures /\ main # "failed"
    BY <1>1 DEF QueueWork, poolVars
  <2>3. ChunkKeys' = ChunkKeys
    BY <1>1 DEF QueueWork, poolVars, copcVars, ChunkKeys, TodoKeys
  <2>4. QED
    BY <2>1, <2>2, <2>3, IndexStay
<1>2. CASE PopOctant
  <2>1. disk' = disk /\ failures' = failures /\ main # "failed"
    BY <1>2 DEF PopOctant, poolVars
  <2>2. ChunkKeys' = ChunkKeys
    BY <1>2 DEF PopOctant, poolVars, copcVars, ChunkKeys, TodoKeys
  <2>3. failures' = 0 => Sources' = Sources
    BY <1>0, <1>2, <2>1, PopSources DEF OwnInv
  <2>4. QED
    BY <2>1, <2>2, <2>3, IndexStay
<1>3. CASE Process
  <2>1. disk' = disk /\ failures' = failures /\ main # "failed"
    BY <1>3, ProcessKinds DEF poolVars
  <2>2. ChunkKeys' = ChunkKeys
    BY <1>3, ProcessKinds DEF poolVars, copcVars, ChunkKeys, TodoKeys
  <2>3. CASE Sources' = Sources
    BY <2>1, <2>2, <2>3, IndexStay
  <2>4. ASSUME NEW o \in Octants, o = Octant(Parent(popped.key), {}, FALSE),
               Children(Parent(popped.key)) \subseteq DOMAIN All,
               \A d \in Dirs : NumPoints(Kids[d], disk) = 0 /\ Kids[d] \in Sources,
               Sources' \subseteq Sources \cup {o},
               Sources \subseteq Sources' \cup {Kids[d] : d \in Dirs}
        PROVE  IndexInv'
    <3>1. ~o.mustWrite
      BY <2>4 DEF Octant
    <3>2. ASSUME NEW d \in Dirs, failures = 0, Kids[d].mustWrite
          PROVE  FALSE
      <4> DEFINE q == Kids[d]
      <4>1. q.key = Child(Parent(popped.key), d)
        BY <1>3, <2>4, KidsType, ProcessKinds DEF KidsOf
      <4>2. q.key # Root
        <5>1. Parent(popped.key) \in VoxelKey /\ InTree(Parent(popped.key))
          BY <1>3, HeldVoxel, ProcessKinds
        <5>2. QED
          BY <4>1, <5>1, ChildrenType, TreeChildren DEF Children
      <4>3. q \in Sources /\ Cardinality(PointsIn(q.files, disk)) = 0 /\ q.mustWrite
        BY <2>4, <3>2 DEF NumPoints
      <4> HIDE DEF q
      <4>4. PointsIn(q.files, disk) # {}
        BY <2>1, <3>2, <4>2, <4>3 DEF IndexInv
      <4>5. q \in AllOctants
        BY <4>3, AllAre
      <4>6. IsFiniteSet(q.files) /\ \A f \in q.files : IsFiniteSet(disk[f])
        BY <4>5, FS_Subset DEF DiskInv
      <4>7. IsFiniteSet(PointsIn(q.files, disk))
        BY <4>6, FinitePoints
      <4>8. QED
        BY <4>3, <4>4, <4>7, FS_EmptySet
    <3>3. failures = 0 => \A q \in Sources : q.mustWrite => q \in Sources'
      BY <2>4, <3>2
    <3>4. \A q \in Sources' : q \in Sources \/ ~q.mustWrite
      BY <2>4, <3>1
    <3>5. QED
      BY <2>1, <2>2, <3>3, <3>4, IndexStay
  <2>5. QED
    BY <1>0, <1>3, <2>3, <2>4, ProcessSources
<1>4. CASE JoinPool \/ Finish \/ Finished \/ UNCHANGED vars
  <2>1. disk' = disk /\ failures' = failures /\ (main' # "failed" => main # "failed")
    BY <1>4 DEF JoinPool, Finish, Finished, vars, poolVars
  <2>2. ChunkKeys' = ChunkKeys
    BY <1>4 DEF JoinPool, Finish, Finished, vars, poolVars, copcVars, ChunkKeys, TodoKeys
  <2>3. main' # "failed" => Sources' = Sources
    BY <1>4, MainSources
  <2>4. QED
    BY <2>1, <2>2, <2>3, IndexStay
<1>5. ASSUME NEW w \in Workers, TakeTask(w)
      PROVE  IndexInv'
  <2>1. disk' = disk /\ failures' = failures /\ main' = main
    BY <1>5 DEF TakeTask, mainVars
  <2>2. ChunkKeys' = ChunkKeys
    BY <1>5 DEF TakeTask, copcVars, ChunkKeys, TodoKeys
  <2>3. PICK o \in Octants : o = Octant(Head(tasks).key, {}, FALSE) /\ Sources' = Sources \cup {o}
    BY <1>0, <1>5, TakeTaskSources
  <2>4. ~o.mustWrite
    BY <2>3 DEF Octant
  <2>5. QED
    BY <2>1, <2>2, <2>3, <2>4, IndexStay
<1>6. ASSUME NEW w \in Workers, Prepare(w)
      PROVE  IndexInv'
  <2>1. Preparing(w)
    BY <1>6 DEF Preparing, Prepare
  <2>2. QED
    BY <1>6, <2>1, PreparedIndex
<1>7. ASSUME NEW w \in Workers, NewChunk(w)
      PROVE  IndexInv'
  <2>1. UNCHANGED <<disk, failures, main>> /\ ~Throw(w)
    BY <1>0, <1>7 DEF NewChunk, mainVars, Throw
  <2>2. ChunkKeys' = ChunkKeys
    BY <1>7, NewChunkIs, NewChunkKeys
  <2>3. Sources' = Sources
    BY <1>0, <1>7, <2>1, OtherSources
  <2>4. QED
    BY <2>1, <2>2, <2>3, IndexStay
<1>8. ASSUME NEW w \in Workers, WriteChunk(w)
      PROVE  IndexInv'
  <2>1. UNCHANGED <<disk, failures, main>> /\ ~Throw(w)
    BY <1>0, <1>8 DEF WriteChunk, mainVars, Throw
  <2>2. ChunkKeys' = ChunkKeys
    BY <1>8 DEF WriteChunk, copcVars, ChunkKeys, TodoKeys
  <2>3. Sources' = Sources
    BY <1>0, <1>8, <2>1, OtherSources
  <2>4. QED
    BY <2>1, <2>2, <2>3, IndexStay
<1>9. ASSUME NEW w \in Workers, Throw(w)
      PROVE  IndexInv'
  <2>1. failures' # 0
    BY <1>0, <1>9 DEF Throw
  <2>2. QED
    BY <2>1 DEF IndexInv
<1>10. ASSUME NEW w \in Workers, EndTask(w)
       PROVE  IndexInv'
  <2>1. disk' = disk /\ failures' = failures /\ main' = main
    BY <1>10 DEF EndTask, mainVars
  <2>2. ChunkKeys' = ChunkKeys
    BY <1>10 DEF EndTask, copcVars, ChunkKeys, TodoKeys
  <2>3. Sources' = Sources
    BY <1>0, <1>10, EndTaskSources
  <2>4. QED
    BY <2>1, <2>2, <2>3, IndexStay
<1>11. QED
  BY <1>1, <1>2, <1>3, <1>4, <1>5, <1>6, <1>7, <1>8, <1>9, <1>10 DEF Next, MainStep, WorkerStep

-----------------------------------------------------------------------------
(* The invariant.                                                          *)

StoreInv ==
    DiskInv /\ OwnInv /\ TodoInv /\ Settled /\ HierarchyInv /\ IndexInv /\ PointsInv

LEMMA SourcesInit ==
    ASSUME Init
    PROVE  /\ Sources = {} /\ ChunkKeys = {} /\ ChunkPlaces = {}
           /\ Queued = {} /\ Waiting = {} /\ Busy = {} /\ Storing = {}
<1>1. Queued = {} /\ Waiting = {} /\ DOMAIN completes = {} /\ DOMAIN hierarchy = {} /\ DOMAIN written = {}
  BY DEF Init, Queued, Waiting
<1>2. \A w \in Workers : wpc[w] = "idle" /\ todo[w] = {}
  BY DEF Init
<1>3. Busy = {} /\ Storing = {} /\ {u \in Workers : wpc[u] = "prepare"} = {}
  BY <1>2 DEF Busy, Storing
<1>4. main = "start"
  BY DEF Init
<1>5. Sources = {}
  BY <1>1, <1>3, <1>4 DEF Sources
<1>6. ChunkKeys = {}
  BY <1>1, <1>2 DEF ChunkKeys, TodoKeys
<1>7. ChunkPlaces = {}
  BY <1>1, <1>2, <1>3 DEF ChunkPlaces
<1>8. QED
  BY <1>1, <1>3, <1>5, <1>6, <1>7

LEMMA DiskInit ==
    ASSUME Init
    PROVE  /\ DiskInv
           /\ \A j, k \in found : j # k => disk[Bin(j)] \cap disk[Bin(k)] = {}
<1>1. PICK in \in Inputs : found = Kept(in) /\ disk = [f \in {Bin(k) : k \in DOMAIN in} |-> in[f.key]]
  BY DEF Init
<1>2. /\ DOMAIN in \subseteq VoxelKey /\ IsFiniteSet(DOMAIN in)
      /\ \A k \in DOMAIN in : IsFiniteSet(in[k])
      /\ \A j, k \in DOMAIN in : j # k => in[j] \cap in[k] = {}
  BY PyramidAssumption
<1>3. DOMAIN disk = {Bin(k) : k \in DOMAIN in}
  BY <1>1
<1>4. \A k \in DOMAIN in : Bin(k) \in Files /\ Bin(k).key = k
  BY <1>2 DEF Bin, Files
<1>5. \A k \in DOMAIN in : disk[Bin(k)] = in[k]
  BY <1>1, <1>4
<1>6. IsFiniteSet(DOMAIN disk)
  <2> DEFINE g == [k \in DOMAIN in |-> Bin(k)]
  <2>1. {g[k] : k \in DOMAIN in} = {Bin(k) : k \in DOMAIN in}
    OBVIOUS
  <2> HIDE DEF g
  <2>2. IsFiniteSet({g[k] : k \in DOMAIN in})
    BY <1>2, FiniteImage
  <2>3. QED
    BY <1>3, <2>1, <2>2
<1>7. found \subseteq DOMAIN in
  BY <1>1 DEF Kept
<1>8. \A o \in AllOctants : o.files = {}
  <2>1. NoOctant.files = {}
    BY DEF NoOctant, Octant
  <2>2. popped = NoOctant /\ (\A w \in Workers : octant[w] = NoOctant)
        /\ \A w \in Workers, d \in Dirs : kids[w][d] = NoOctant
    BY DEF Init
  <2>3. \A o \in Held : o = NoOctant
    BY <2>2 DEF Held
  <2>4. QED
    BY <2>1, <2>2, <2>3, SourcesInit, AllAre
<1>9. DiskInv
  BY <1>2, <1>3, <1>4, <1>5, <1>6, <1>7, <1>8 DEF DiskInv
<1>10. QED
  BY <1>2, <1>5, <1>7, <1>9

LEMMA StoreInit == Init => StoreInv
<1> SUFFICES ASSUME Init PROVE StoreInv
  OBVIOUS
<1>1. /\ Sources = {} /\ ChunkKeys = {} /\ ChunkPlaces = {}
      /\ Queued = {} /\ Waiting = {} /\ Busy = {} /\ Storing = {}
  BY SourcesInit
<1>2. DiskInv /\ \A j, k \in found : j # k => disk[Bin(j)] \cap disk[Bin(k)] = {}
  BY DiskInit
<1>3. main = "start" /\ error = FALSE /\ failures = 0 /\ \A w \in Workers : wpc[w] = "idle"
  BY DEF Init
<1>4. OwnInv
  BY <1>1, <1>3 DEF OwnInv, InTasks, InWork
<1>5. TodoInv
  <2>1. /\ todo = [w \in Workers |-> {}] /\ chunk = [w \in Workers |-> NoChunk]
    BY DEF Init
  <2>2. todo = [w \in Workers |-> todo[w]] /\ chunk = [w \in Workers |-> chunk[w]]
        /\ \A w \in Workers : todo[w] = {}
    BY <2>1
  <2>3. QED
    BY <2>2 DEF TodoInv, TodoKeys
<1>6. Settled
  BY <1>1 DEF Settled
<1>7. HierarchyInv
  <2>1. DOMAIN hierarchy = {} /\ DOMAIN written = {} /\ pointPos = 1 /\ chunkTable = <<>>
    BY DEF Init, FirstPos
  <2>2. chunkTable \in Seq(Nat \ {0})
    BY <2>1, EmptySeq
  <2>3. OffsetsInv
    BY <2>1, <2>2 DEF OffsetsInv
  <2>4. StoringInv
    BY <1>1, <2>1 DEF StoringInv
  <2>5. WrittenInv
    BY <2>1 DEF WrittenInv
  <2>6. QED
    BY <2>3, <2>4, <2>5 DEF HierarchyInv
<1>8. IndexInv
  BY <1>1 DEF IndexInv
<1>9. PointsInv
  BY <1>1, <1>2, <1>3 DEF PointsInv
<1>10. QED
  BY <1>2, <1>4, <1>5, <1>6, <1>7, <1>8, <1>9 DEF StoreInv

\* Each point is in one place, each chunk has its own place and will be in the
\* hierarchy, in every state of every run.
THEOREM StoreInvariance == Spec => [](CutInv /\ StoreInv)
<1>1. Init => StoreInv
  BY StoreInit
<1>2. CutInv /\ CutInv' /\ StoreInv /\ [Next]_vars => StoreInv'
  <2>1. SUFFICES ASSUME CutInv, CutInv', StoreInv, [Next]_vars PROVE StoreInv'
    OBVIOUS
  <2>2. DiskInv' /\ OwnInv'
    BY <2>1, DiskStep, OwnStep DEF StoreInv, CutInv
  <2>3. Settled' /\ TodoInv' /\ HierarchyInv'
    BY <2>1, SettledStep, TodoStep, HierarchyStep DEF StoreInv
  <2>4. IndexInv' /\ PointsInv'
    BY <2>1, <2>2, IndexStep, PointsStep DEF StoreInv
  <2>5. QED
    BY <2>2, <2>3, <2>4 DEF StoreInv
<1>3. QED
  BY <1>1, <1>2, CutInvariance, PTL DEF Spec

-----------------------------------------------------------------------------
(* The theorems.                                                           *)

\* Every variable keeps its type, and octants name files that exist.
THEOREM PyramidTypeCorrect == Spec => []TypeOK
<1>1. CutInv /\ StoreInv => TypeOK
  <2>1. SUFFICES ASSUME CutInv, StoreInv PROVE TypeOK
    OBVIOUS
  <2>2. ASSUME NEW o \in AllOctants, o \in Octants
        PROVE  IsOctant(o)
    BY <2>1, <2>2 DEF StoreInv, DiskInv, IsOctant, Octants
  <2>3. ASSUME NEW o \in Queued \cup {popped} \cup {octant[w] : w \in Workers}
        PROVE  IsOctant(o)
    <3>1. o \in AllOctants
      BY <2>3 DEF AllOctants
    <3>2. \A q \in Queued : q \in Octants
      <4>1. queue \in Seq(Octants) /\ Queued = EntriesOf(queue)
        BY <2>1, EntriesAre DEF CutInv, TypeInv
      <4>2. QED
        BY <4>1, ElementOfSeq DEF EntriesOf
    <3>3. o \in Octants
      BY <2>1, <2>3, <3>2 DEF CutInv, TypeInv
    <3>4. QED
      BY <2>2, <3>1, <3>3
  <2>4. ASSUME NEW k \in DOMAIN completes
        PROVE  IsOctant(completes[k]) /\ completes[k].key = k
    <3>1. completes[k] \in AllOctants /\ completes[k] \in Octants /\ completes[k].key = k
      BY <2>1 DEF AllOctants, CutInv, TypeInv
    <3>2. QED
      BY <2>2, <3>1
  <2>5. ASSUME NEW t \in Waiting, NEW d \in Dirs
        PROVE  IsOctant(t.kids[d]) /\ t.kids[d].key = Child(t.key, d)
    <3>1. t.kids[d].key = Child(t.key, d) /\ t.kids[d] \in AllOctants
      BY <2>1 DEF CutInv, TypeInv, KidsOf, AllOctants
    <3>2. t \in Tasks
      <4>1. tasks \in Seq(Tasks) /\ Waiting = EntriesOf(tasks)
        BY <2>1, EntriesAre DEF CutInv, TypeInv
      <4>2. QED
        BY <4>1, ElementOfSeq DEF EntriesOf
    <3>3. t.kids[d] \in Octants
      BY <3>2 DEF Tasks
    <3>4. QED
      BY <2>2, <3>1, <3>3
  <2>6. /\ error \in BOOLEAN /\ failures \in Nat
        /\ main \in {"start", "run", "process", "join", "finish", "done", "failed"}
        /\ wpc \in [Workers -> {"idle", "prepare", "chunk", "write", "threw"}]
    BY <2>1 DEF CutInv, TypeInv
  <2>7. pointPos \in Nat /\ chunkTable \in Seq(Nat \ {0}) /\ DOMAIN written \subseteq DOMAIN hierarchy
    BY <2>1 DEF StoreInv, HierarchyInv, OffsetsInv, WrittenInv
  <2>8. QED
    BY <2>3, <2>4, <2>5, <2>6, <2>7 DEF TypeOK
<1>2. QED
  BY <1>1, StoreInvariance, PTL

\* The places that PointsConserved names, by the octants and the chunks.
OctantPlaces  == {<<o.key, PointsOf(o, disk)>> : o \in Sources}
ChunkTriples  == {<<"chunk", c[1], c[2]>> : c \in ChunkPlaces}

LEMMA LastOfPlace ==
    /\ \A a, b : <<a, b>>[Len(<<a, b>>)] = b
    /\ \A a, b, c : <<a, b, c>>[Len(<<a, b, c>>)] = c
OBVIOUS

LEMMA PlacesByOctants ==
    ASSUME CutInv, main \notin {"start", "failed"}
    PROVE  /\ Places \subseteq OctantPlaces \cup ChunkTriples
           /\ ChunkTriples \subseteq Places
           /\ \A o \in Sources : <<o.key, PointsOf(o, disk)>> \in Places \/ PointsOf(o, disk) = {}
<1> DEFINE at(o) == <<o.key, PointsOf(o, disk)>>
           of(c) == <<"chunk", c[1], c[2]>>
           M == IF main = "process" THEN {popped} ELSE {}
           O == Queued \cup InCompletes \cup M \cup TaskKids \cup WorkKids \cup InBusy
           T == {<<"chunk", c.key, c.points>> : c \in UNION {todo[w] : w \in Workers}}
           S == {<<"chunk", chunk[w].key, chunk[w].points>> : w \in {v \in Workers : wpc[v] = "write"}}
           W == {<<"chunk", k, data[hierarchy[k].offset]>> : k \in {j \in DOMAIN written : written[j] > 0}}
<1>1. \A o : OctantPoints(o) = PointsOf(o, disk)
  BY DEF OctantPoints, PointsOf
<1>2. T = {of(c) : c \in TodoPlaces}
  <2> DEFINE U == UNION {todo[w] : w \in Workers}
             pair(c) == <<c.key, c.points>>
             triple(c) == <<"chunk", c.key, c.points>>
  <2>1. T = {triple(c) : c \in U} /\ TodoPlaces = {pair(c) : c \in U}
    BY DEF TodoPlaces
  <2>2. \A c : of(pair(c)) = triple(c)
    OBVIOUS
  <2> HIDE DEF T, U, pair, triple, of
  <2>3. QED
    BY <2>1, <2>2
<1>3. S = {of(c) : c \in StoringPlaces}
  <2> DEFINE pair(w) == <<chunk[w].key, chunk[w].points>>
             triple(w) == <<"chunk", chunk[w].key, chunk[w].points>>
  <2>1. S = {triple(w) : w \in Storing} /\ StoringPlaces = {pair(w) : w \in Storing}
    BY DEF StoringPlaces, Storing
  <2>2. \A w : of(pair(w)) = triple(w)
    OBVIOUS
  <2> HIDE DEF S, pair, triple, of
  <2>3. QED
    BY <2>1, <2>2
<1>4. W = {of(c) : c \in WrittenPlaces}
  <2> DEFINE K == {j \in DOMAIN written : written[j] > 0}
             pair(k) == <<k, data[hierarchy[k].offset]>>
             triple(k) == <<"chunk", k, data[hierarchy[k].offset]>>
  <2>1. W = {triple(k) : k \in K} /\ WrittenPlaces = {pair(k) : k \in K}
    BY DEF WrittenPlaces
  <2>2. \A k : of(pair(k)) = triple(k)
    OBVIOUS
  <2> HIDE DEF W, K, pair, triple, of
  <2>3. QED
    BY <2>1, <2>2
<1>5. {at(o) : o \in InCompletes} = {<<k, OctantPoints(completes[k])>> : k \in DOMAIN completes}
  <2>1. \A k \in DOMAIN completes : completes[k].key = k
    BY DEF CutInv, TypeInv
  <2>2. {at(o) : o \in InCompletes} = {at(completes[k]) : k \in DOMAIN completes}
    BY DEF InCompletes
  <2>3. \A k \in DOMAIN completes : at(completes[k]) = <<k, OctantPoints(completes[k])>>
    BY <1>1, <2>1
  <2> HIDE DEF at
  <2>4. QED
    BY <2>2, <2>3
<1>6. {at(o) : o \in M} = IF main = "process" THEN {<<popped.key, OctantPoints(popped)>>} ELSE {}
  BY <1>1
<1>7. {at(o) : o \in Queued} = {<<o.key, OctantPoints(o)>> : o \in Queued}
  BY <1>1
<1>8. {at(o) : o \in TaskKids} = {<<t.kids[d].key, OctantPoints(t.kids[d])>> : t \in Waiting, d \in Dirs}
  BY <1>1 DEF TaskKids
<1>9. {at(o) : o \in WorkKids} = {<<kids[w][d].key, OctantPoints(kids[w][d])>> :
                w \in {v \in Workers : wpc[v] = "prepare"}, d \in Dirs}
  BY <1>1 DEF WorkKids
<1>10. {at(o) : o \in InBusy} = {<<octant[w].key, OctantPoints(octant[w])>> : w \in Busy}
  BY <1>1 DEF InBusy
<1>11. Places = {at(o) : o \in Queued} \cup {at(o) : o \in InCompletes} \cup {at(o) : o \in M}
          \cup {at(o) : o \in TaskKids} \cup {at(o) : o \in WorkKids} \cup {at(o) : o \in InBusy}
          \cup T \cup S \cup W
  <2> HIDE DEF at, M
  <2>1. QED
    BY <1>5, <1>6, <1>7, <1>8, <1>9, <1>10 DEF Places
<1>12. OctantPlaces = {at(o) : o \in Sources} /\ ChunkTriples = {of(c) : c \in ChunkPlaces}
  BY DEF OctantPlaces, ChunkTriples
<1>13. O \subseteq Sources /\ \A o \in Sources : o \in O \/ PointsOf(o, disk) = {}
  <2>1. M \subseteq InMain /\ \A o \in InMain : o \in M \/ PointsOf(o, disk) = {}
    BY DEF InMain, PointsOf, CutInv, MainInv
  <2> HIDE DEF M
  <2>2. QED
    BY <2>1, SourcesAre
<1> HIDE DEF at, of, M, T, S, W
<1>14. Places = {at(o) : o \in O} \cup ChunkTriples
  BY <1>2, <1>3, <1>4, <1>11, <1>12, PlacesAre
<1> HIDE DEF O
<1>15. \A o \in Sources : at(o) \in Places \/ PointsOf(o, disk) = {}
  BY <1>13, <1>14
<1>16. QED
  BY <1>12, <1>13, <1>14, <1>15 DEF at

\* No point is lost, none is in two places, and no file is written over while
\* an octant still names it, whatever the sampling takes and however the
\* Processors interleave.
THEOREM PointsAreConserved == Spec => []PointsConserved
<1>1. CutInv /\ StoreInv => PointsConserved
  <2>1. SUFFICES ASSUME CutInv, StoreInv, main # "start", failures = 0, main # "failed"
                 PROVE  /\ UNION {p[Len(p)] : p \in Places} = Input
                        /\ \A p, q \in Places : p # q => p[Len(p)] \cap q[Len(q)] = {}
    BY DEF PointsConserved
  <2>2. PointsInv
    BY <2>1 DEF StoreInv
  <2>3. ASSUME NEW p \in Places
        PROVE  \/ \E o \in Sources : p = <<o.key, PointsOf(o, disk)>> /\ p[Len(p)] = PointsOf(o, disk)
               \/ \E c \in ChunkPlaces : p = <<"chunk", c[1], c[2]>> /\ p[Len(p)] = c[2]
    <3>1. p \in OctantPlaces \/ p \in ChunkTriples
      BY <2>1, PlacesByOctants
    <3>2. CASE p \in OctantPlaces
      <4>1. PICK o \in Sources : p = <<o.key, PointsOf(o, disk)>>
        BY <3>2 DEF OctantPlaces
      <4>2. p[Len(p)] = PointsOf(o, disk)
        BY <4>1, LastOfPlace, Zenon
      <4>3. QED
        BY <4>1, <4>2
    <3>3. CASE p \in ChunkTriples
      <4>1. PICK c \in ChunkPlaces : p = <<"chunk", c[1], c[2]>>
        BY <3>3 DEF ChunkTriples
      <4>2. p[Len(p)] = c[2]
        BY <4>1, LastOfPlace, Zenon
      <4>3. QED
        BY <4>1, <4>2
    <3>4. QED
      BY <3>1, <3>2, <3>3
  <2> DEFINE last(p) == p[Len(p)]
  <2>4. \A o \in Sources : PointsOf(o, disk) = {} \/
            \E p \in Places : last(p) = PointsOf(o, disk)
    <3> TAKE o \in Sources
    <3>1. <<o.key, PointsOf(o, disk)>> \in Places \/ PointsOf(o, disk) = {}
      BY <2>1, PlacesByOctants
    <3>2. last(<<o.key, PointsOf(o, disk)>>) = PointsOf(o, disk)
      BY LastOfPlace, Zenon
    <3> HIDE DEF last
    <3>3. QED
      BY <3>1, <3>2
  <2>5. \A c \in ChunkPlaces : \E p \in Places : last(p) = c[2]
    <3> TAKE c \in ChunkPlaces
    <3>1. <<"chunk", c[1], c[2]>> \in Places
      BY <2>1, PlacesByOctants DEF ChunkTriples
    <3>2. last(<<"chunk", c[1], c[2]>>) = c[2]
      BY LastOfPlace, Zenon
    <3> HIDE DEF last
    <3>3. QED
      BY <3>1, <3>2
  <2>6. \A p \in Places :
           \/ \E o \in Sources : p = <<o.key, PointsOf(o, disk)>> /\ last(p) = PointsOf(o, disk)
           \/ \E c \in ChunkPlaces : p = <<"chunk", c[1], c[2]>> /\ last(p) = c[2]
    BY <2>3
  <2> HIDE DEF last
  <2>7. \A p \in Places : last(p) \subseteq Input
    BY <2>2, <2>6 DEF PointsInv
  <2>8. \A x \in Input : \E p \in Places : x \in last(p)
    <3> TAKE x \in Input
    <3>1. (\E o \in Sources : x \in PointsOf(o, disk)) \/ (\E c \in ChunkPlaces : x \in c[2])
      BY <2>1, <2>2 DEF PointsInv
    <3>2. QED
      BY <2>4, <2>5, <3>1
  <2>9. ASSUME NEW p \in Places, NEW q \in Places, p # q
        PROVE  last(p) \cap last(q) = {}
    <3>1. ASSUME NEW o \in Sources, p = <<o.key, PointsOf(o, disk)>>, last(p) = PointsOf(o, disk)
          PROVE  last(p) \cap last(q) = {}
      <4>1. ASSUME NEW r \in Sources, q = <<r.key, PointsOf(r, disk)>>, last(q) = PointsOf(r, disk)
            PROVE  last(p) \cap last(q) = {}
        BY <2>2, <2>9, <3>1, <4>1 DEF PointsInv
      <4>2. ASSUME NEW c \in ChunkPlaces, last(q) = c[2]
            PROVE  last(p) \cap last(q) = {}
        BY <2>2, <3>1, <4>2 DEF PointsInv
      <4>3. QED
        BY <2>6, <4>1, <4>2
    <3>2. ASSUME NEW c \in ChunkPlaces, p = <<"chunk", c[1], c[2]>>, last(p) = c[2]
          PROVE  last(p) \cap last(q) = {}
      <4>1. ASSUME NEW r \in Sources, last(q) = PointsOf(r, disk)
            PROVE  last(p) \cap last(q) = {}
        BY <2>2, <3>2, <4>1 DEF PointsInv
      <4>2. ASSUME NEW b \in ChunkPlaces, q = <<"chunk", b[1], b[2]>>, last(q) = b[2]
            PROVE  last(p) \cap last(q) = {}
        BY <2>2, <2>9, <3>2, <4>2 DEF PointsInv
      <4>3. QED
        BY <2>6, <4>1, <4>2
    <3>3. QED
      BY <2>6, <3>1, <3>2
  <2>10. QED
    BY <2>7, <2>8, <2>9 DEF last
<1>2. QED
  BY <1>1, StoreInvariance, PTL

-----------------------------------------------------------------------------
(* The hierarchy of a run that succeeds.                                   *)

\* With a voxel and its parent it has all that is above the voxel.
LEMMA ClosedUpwards ==
    ASSUME NEW S, \A k \in S : k \in VoxelKey /\ InTree(k),
           \A k \in S \ {Root} : Parent(k) \in S
    PROVE  \A k \in S : Root \in S /\ Ancestors(k) \subseteq S
<1> DEFINE G == {k \in VoxelKey : k \in S => Root \in S /\ Ancestors(k) \subseteq S}
<1>1. ASSUME NEW k \in VoxelKey, k.level = 0
      PROVE  k \in G
  <2>1. k \in S => k = Root /\ Ancestors(k) = {}
    BY <1>1, TreeTop, NoLineageAtTop
  <2>2. QED
    BY <2>1
<1>2. ASSUME NEW k \in VoxelKey, k.level > 0, Parent(k) \in G
      PROVE  k \in G
  <2>1. k # Root
    BY <1>2, RootType
  <2>2. k \in S => Parent(k) \in S
    BY <2>1
  <2>3. Ancestors(k) = {Parent(k)} \cup Ancestors(Parent(k))
    BY <1>2, LineageStep
  <2>4. QED
    BY <1>2, <2>2, <2>3
<1> HIDE DEF G
<1>3. \A k \in VoxelKey : k \in G
  BY <1>1, <1>2, InductionOnLevels
<1>4. QED
  BY <1>3 DEF G

\* What is true of the chunks when the main thread comes to write the hierarchy.
LEMMA ChunksAtFinish ==
    ASSUME CutInv, StoreInv, main \in {"finish", "done"}
    PROVE  /\ Storing = {} /\ failures = 0 /\ ChunkKeys = DOMAIN hierarchy
           /\ DOMAIN written = DOMAIN hierarchy
           /\ \A k \in DOMAIN hierarchy : written[k] = hierarchy[k].count
           /\ \A k \in DOMAIN hierarchy : k \in VoxelKey /\ InTree(k)
           /\ \A k \in DOMAIN hierarchy \ {Root} : Parent(k) \in DOMAIN hierarchy
<1> USE DEF StoreInv
<1>1. Busy = {} /\ tasks = <<>> /\ completes = <<>> /\ InQueue = {}
  BY RootIsLast DEF NoTaskAtFinish
<1>2. failures = 0
  BY <1>1 DEF CutInv, MainInv, TypeInv, Busy
<1>3. Storing = {} /\ \A w \in Workers : todo[w] = {}
  BY <1>1 DEF Busy, Storing, TodoInv
<1>4. ChunkKeys = DOMAIN hierarchy
  BY <1>3 DEF ChunkKeys, TodoKeys
<1>5. DOMAIN written = DOMAIN hierarchy
  BY <1>2, <1>3 DEF HierarchyInv, StoringInv, WrittenInv
<1>6. \A k \in DOMAIN hierarchy : written[k] = hierarchy[k].count
  BY <1>5 DEF HierarchyInv, WrittenInv
<1>7. Sources = {popped} /\ popped.key = Root
  <2>1. DOMAIN completes = {} /\ Waiting = {} /\ {u \in Workers : wpc[u] = "prepare"} = {}
    BY <1>1 DEF Waiting, Busy
  <2>2. Queued = {} /\ InCompletes = {} /\ TaskKids = {} /\ WorkKids = {} /\ InBusy = {}
    <3>1. Queued = {} /\ InBusy = {}
      BY <1>1 DEF InQueue, InBusy
    <3>2. InCompletes = {} /\ TaskKids = {} /\ WorkKids = {}
      BY <2>1 DEF InCompletes, TaskKids, WorkKids
    <3>3. QED
      BY <3>1, <3>2
  <2>3. InMain = {popped}
    BY DEF InMain
  <2>4. QED
    BY <2>2, <2>3, SourcesAre DEF CutInv, MainInv
<1>8. ASSUME NEW k \in DOMAIN hierarchy
      PROVE  k \in VoxelKey /\ InTree(k)
  <2>1. k \in Region /\ FoundInv
    BY <1>4 DEF Settled, CutInv
  <2>2. QED
    BY <2>1, RegionParent, RootType
<1>9. \A k \in DOMAIN hierarchy \ {Root} : Parent(k) \in DOMAIN hierarchy
  <2>1. IndexInv /\ main # "failed"
    OBVIOUS
  <2>2. QED
    BY <1>2, <1>4, <1>7, <2>1 DEF IndexInv
<1>10. QED
  BY <1>2, <1>3, <1>4, <1>5, <1>6, <1>8, <1>9

DoneInv == main = "done" => DOMAIN childCounts = DOMAIN hierarchy

LEMMA DoneStep ==
    ASSUME CutInv, StoreInv, DoneInv, [Next]_vars
    PROVE  DoneInv'
<1>1. SUFFICES ASSUME main' = "done" PROVE DOMAIN childCounts' = DOMAIN hierarchy'
  BY DEF DoneInv
<1>2. CASE Finish
  <2> DEFINE reached == {Root} \cup {k \in DOMAIN written : Lineage(k) \subseteq DOMAIN written}
             H == DOMAIN hierarchy
  <2>1. /\ main = "finish" /\ DOMAIN written # {} /\ DOMAIN childCounts' = reached
        /\ hierarchy' = hierarchy
    BY <1>1, <1>2 DEF Finish, copcVars
  <2>2. /\ DOMAIN written = H
        /\ \A k \in H : k \in VoxelKey /\ InTree(k)
        /\ \A k \in H \ {Root} : Parent(k) \in H
    BY <2>1, ChunksAtFinish
  <2> HIDE DEF H
  <2>3. \A k \in H : Root \in H /\ Ancestors(k) \subseteq H
    BY <2>2, ClosedUpwards
  <2>4. \A k \in H : Lineage(k) \subseteq H
    BY <2>2, <2>3, TreeLineage
  <2>5. reached = H
    BY <2>1, <2>2, <2>3, <2>4
  <2>6. QED
    BY <2>1, <2>5 DEF H
<1>3. CASE main = "done"
  <2>1. tasks = <<>> /\ Busy = {}
    BY <1>3, RootIsLast DEF NoTaskAtFinish
  <2>2. \A w \in Workers : ~WorkerStep(w)
    BY <2>1 DEF Busy, WorkerStep, TakeTask, Prepare, NewChunk, WriteChunk, Throw, EndTask
  <2>3. UNCHANGED <<childCounts, hierarchy>>
    BY <1>3, <2>2 DEF Next, MainStep, QueueWork, PopOctant, Process, JoinPool, Finish, Finished, vars
  <2>4. QED
    BY <1>3, <2>3 DEF DoneInv
<1>4. Finish \/ main = "done"
  <2>1. CASE main' = main
    BY <1>1, <2>1
  <2>2. CASE main' # main
    BY <1>1, <2>2 DEF Next, MainStep, WorkerStep, QueueWork, PopOctant, Process, JoinPool, TakeTask,
         Prepare, NewChunk, WriteChunk, Throw, EndTask, Finished, vars, mainVars
  <2>3. QED
    BY <2>1, <2>2
<1>5. QED
  BY <1>2, <1>3, <1>4

\* When the run succeeds the hierarchy in the file leads to every chunk, with
\* the number of its points (PyramidManager::createHierarchy).
THEOREM IndexLeadsToChunks == Spec => []IndexIsComplete
<1>1. Init => DoneInv
  BY DEF Init, DoneInv
<1>2. CutInv /\ StoreInv /\ DoneInv /\ [Next]_vars => DoneInv'
  BY DoneStep
<1>3. CutInv /\ StoreInv /\ DoneInv => IndexIsComplete
  BY ChunksAtFinish DEF DoneInv, IndexIsComplete
<1>4. QED
  BY <1>1, <1>2, <1>3, StoreInvariance, PTL DEF Spec

-----------------------------------------------------------------------------
(* The refinement of ChunkStore.                                           *)

\* The files of a run are among those of some input.
FromInput == \E in \in Inputs : found \subseteq DOMAIN in

Outcome == IF main \in {"done", "failed"} THEN main ELSE "running"
Pending == Input \ UNION {Chunks[k] : k \in DOMAIN Chunks}
StoreVoxels == UNION {UNION {{k} \cup Ancestors(k) \cup Needed({k}) : k \in DOMAIN in} : in \in Inputs}

LEMMA RegionVoxels ==
    ASSUME FoundInv, FromInput, NEW h \in Region
    PROVE  h \in StoreVoxels
<1>1. PICK in \in Inputs : found \subseteq DOMAIN in
  BY DEF FromInput
<1>2. ASSUME NEW k \in found, h \in {k} \cup Ancestors(k) \cup Needed({k})
      PROVE  h \in StoreVoxels
  <2> DEFINE of(i) == UNION {{j} \cup Ancestors(j) \cup Needed({j}) : j \in DOMAIN i}
  <2>1. h \in of(in)
    BY <1>1, <1>2
  <2>2. StoreVoxels = UNION {of(i) : i \in Inputs}
    BY DEF StoreVoxels
  <2> HIDE DEF of
  <2>3. QED
    BY <2>1, <2>2
<1>3. CASE h \in found \/ h \in Parents(found)
  BY <1>2, <1>3 DEF Parents
<1>4. CASE h \in Needed(found)
  <2>1. PICK k \in found : \E p \in Ancestors(k) : h \in Children(p)
    BY <1>4 DEF Needed, Parents
  <2>2. h \notin Lineage(k)
    BY <1>4 DEF Needed
  <2>3. h \in Needed({k})
    BY <2>1, <2>2 DEF Needed, Parents
  <2>4. QED
    BY <1>2, <2>3
<1>5. QED
  BY <1>3, <1>4 DEF Region

LEMMA InputStays ==
    ASSUME CutInv, TypeInv', DiskInv, OwnInv, [Next]_vars
    PROVE  Input' = Input /\ found' = found
<1>1. found' = found
  BY DEF Next, MainStep, WorkerStep, QueueWork, PopOctant, Process, JoinPool, Finish, TakeTask,
         Prepare, NewChunk, WriteChunk, Throw, EndTask, Finished, vars
<1>2. CASE \A w \in Workers : ~Prepare(w)
  BY <1>1, <1>2, OctantsStep DEF Input
<1>3. ASSUME NEW w \in Workers, Prepare(w)
      PROVE  Input' = Input
  <2>1. Preparing(w)
    BY <1>3 DEF Preparing, Prepare
  <2>2. \A k \in found : disk'[Bin(k)] = disk[Bin(k)]
    BY <1>3, <2>1, PreparedElsewhere
  <2>3. QED
    BY <1>1, <2>2 DEF Input
<1>4. QED
  BY <1>1, <1>2, <1>3

\* The chunks are the places written to.
LEMMA ChunksAre ==
    ASSUME HierarchyInv
    PROVE  /\ DOMAIN Chunks = DOMAIN written
           /\ \A k \in DOMAIN written :
                \/ Chunks[k] = {} /\ written[k] = 0
                \/ <<k, Chunks[k]>> \in WrittenPlaces /\ written[k] > 0
           /\ \A c \in WrittenPlaces : c[1] \in DOMAIN written /\ c[2] = Chunks[c[1]]
<1>1. DOMAIN Chunks = DOMAIN written
  BY DEF Chunks
<1>2. \A k \in DOMAIN written : /\ written[k] = 0 => Chunks[k] = {}
                                /\ written[k] > 0 => Chunks[k] = data[hierarchy[k].offset]
  BY DEF Chunks
<1>3. \A k \in DOMAIN written : written[k] = 0 \/ written[k] > 0
  BY DEF HierarchyInv, WrittenInv, OffsetsInv
<1>4. \A k \in DOMAIN written : written[k] > 0 => <<k, Chunks[k]>> \in WrittenPlaces
  BY <1>2 DEF WrittenPlaces
<1>5. ASSUME NEW c \in WrittenPlaces
      PROVE  c[1] \in DOMAIN written /\ c[2] = Chunks[c[1]]
  <2>1. PICK k \in DOMAIN written : written[k] > 0 /\ c = <<k, data[hierarchy[k].offset]>>
    BY <1>5 DEF WrittenPlaces
  <2>2. c[1] = k /\ c[2] = data[hierarchy[k].offset]
    BY <2>1
  <2>3. QED
    BY <1>2, <2>1, <2>2
<1>6. \A k \in DOMAIN written :
         \/ Chunks[k] = {} /\ written[k] = 0
         \/ <<k, Chunks[k]>> \in WrittenPlaces /\ written[k] > 0
  BY <1>2, <1>3, <1>4
<1>7. QED
  BY <1>1, <1>5, <1>6

LEMMA ChunksStay ==
    ASSUME CutInv, TodoInv, HierarchyInv, [Next]_vars, \A w \in Workers : ~WriteChunk(w)
    PROVE  Chunks' = Chunks
<1>1. written' = written /\ data' = data
  BY DEF Next, MainStep, WorkerStep, QueueWork, PopOctant, Process, JoinPool, Finish, TakeTask,
         Prepare, NewChunk, Throw, EndTask, Finished, vars
<1>2. \A k \in DOMAIN written : hierarchy'[k] = hierarchy[k]
  <2>1. ASSUME NEW w \in Workers, NewChunk(w)
        PROVE  \A k \in DOMAIN written : hierarchy'[k] = hierarchy[k]
    BY <2>1, NewChunkIs, NewChunkKeys DEF HierarchyInv, WrittenInv
  <2>2. CASE \A w \in Workers : ~NewChunk(w)
    BY <2>2 DEF Next, MainStep, WorkerStep, QueueWork, PopOctant, Process, JoinPool, Finish, TakeTask,
         Prepare, Throw, EndTask, Finished, vars, copcVars
  <2>3. QED
    BY <2>1, <2>2
<1>3. QED
  BY <1>1, <1>2 DEF Chunks

\* A chunk that is written takes points that were in none, to a voxel that had
\* none.
LEMMA WriteChunkStores ==
    ASSUME CutInv, StoreInv, FromInput, NEW w \in Workers, WriteChunk(w), Input' = Input
    PROVE  \E k \in StoreVoxels, S \in SUBSET Pending :
             /\ Outcome = "running" /\ Outcome' = Outcome /\ k \notin DOMAIN Chunks
             /\ Chunks' = [j \in DOMAIN Chunks \cup {k} |-> IF j = k THEN S ELSE Chunks[j]]
             /\ Pending' = Pending \ S
<1> USE DEF StoreInv
<1> DEFINE k == chunk[w].key
           S == chunk[w].points
<1>1. /\ w \in Storing /\ hierarchy' = hierarchy /\ k \notin DOMAIN written /\ IsFiniteSet(S)
      /\ DOMAIN written' = DOMAIN written \cup {k}
      /\ \A j \in DOMAIN written : written'[j] = written[j]
      /\ written'[k] > 0 <=> S # {}
      /\ S # {} => data'[hierarchy[k].offset] = S
      /\ \A j \in DOMAIN written : written[j] > 0 => data'[hierarchy[j].offset] = data[hierarchy[j].offset]
      /\ written'[k] = Cardinality(S)
  BY WriteChunkIs
<1>2. main \notin {"done", "failed"} /\ main' = main
  <2>1. Busy # {}
    BY DEF WriteChunk, Busy
  <2>2. main \notin {"done", "failed"}
    BY <2>1, RootIsLast DEF NoTaskAtFinish, OwnInv
  <2>3. main' = main
    BY DEF WriteChunk, mainVars
  <2>4. QED
    BY <2>2, <2>3
<1>3. k \in StoreVoxels
  <2>1. k \in DOMAIN hierarchy
    BY <1>1 DEF HierarchyInv, StoringInv
  <2>2. k \in Region
    BY <2>1 DEF ChunkKeys, Settled
  <2>3. QED
    BY <2>2, RegionVoxels DEF CutInv
<1>4. DOMAIN Chunks = DOMAIN written
  BY ChunksAre
<1>5. DOMAIN Chunks' = DOMAIN Chunks \cup {k}
  BY <1>1, <1>4 DEF Chunks
<1>6. \A j \in DOMAIN Chunks : Chunks'[j] = Chunks[j]
  <2> TAKE j \in DOMAIN Chunks
  <2>1. j \in DOMAIN written /\ j \in DOMAIN written'
    BY <1>1, <1>4
  <2>2. Chunks'[j] = IF written'[j] = 0 THEN {} ELSE data'[hierarchy'[j].offset]
    BY <2>1 DEF Chunks
  <2>3. Chunks[j] = IF written[j] = 0 THEN {} ELSE data[hierarchy[j].offset]
    BY <2>1 DEF Chunks
  <2>4. written[j] = 0 \/ written[j] > 0
    BY <2>1, ChunksAre
  <2>5. QED
    BY <1>1, <2>1, <2>2, <2>3, <2>4
<1>7. Chunks'[k] = S
  <2>1. Chunks'[k] = IF written'[k] = 0 THEN {} ELSE data'[hierarchy'[k].offset]
    BY <1>1 DEF Chunks
  <2>2. written'[k] = 0 <=> S = {}
    BY <1>1, FS_EmptySet
  <2>3. QED
    BY <1>1, <2>1, <2>2
<1>8. <<k, S>> \in ChunkPlaces
  BY <1>1, PlacesAre DEF StoringPlaces
<1>9. S \subseteq Input
  <2>1. <<k, S>>[2] = S
    OBVIOUS
  <2>2. QED
    BY <1>8, <2>1 DEF PointsInv
<1>10. \A j \in DOMAIN Chunks : S \cap Chunks[j] = {}
  <2> TAKE j \in DOMAIN Chunks
  <2>1. CASE Chunks[j] = {}
    BY <2>1
  <2>2. CASE <<j, Chunks[j]>> \in WrittenPlaces
    <3>1. <<j, Chunks[j]>> \in ChunkPlaces /\ <<j, Chunks[j]>> # <<k, S>>
      BY <1>1, <1>4, <2>2, PlacesAre
    <3>2. <<j, Chunks[j]>>[2] \cap <<k, S>>[2] = {}
      BY <1>8, <3>1 DEF PointsInv
    <3>3. QED
      BY <3>2
  <2>3. QED
    BY <1>4, <2>1, <2>2, ChunksAre
<1> HIDE DEF k, S
<1>11. S \in SUBSET Pending
  BY <1>9, <1>10 DEF Pending
<1>12. Chunks' = [j \in DOMAIN Chunks \cup {k} |-> IF j = k THEN S ELSE Chunks[j]]
  <2>1. Chunks' = [j \in DOMAIN Chunks' |-> Chunks'[j]]
    BY DEF Chunks
  <2>2. QED
    BY <1>1, <1>4, <1>5, <1>6, <1>7, <2>1
<1>13. Pending' = Pending \ S
  <2> DEFINE A == UNION {Chunks[j] : j \in DOMAIN Chunks}
             B == UNION {Chunks'[j] : j \in DOMAIN Chunks'}
  <2>1. B = A \cup S
    BY <1>1, <1>4, <1>5, <1>6, <1>7
  <2>2. Pending = Input \ A /\ Pending' = Input \ B
    BY DEF Pending
  <2> HIDE DEF A, B
  <2>3. QED
    BY <2>1, <2>2
<1>14. QED
  BY <1>1, <1>2, <1>3, <1>4, <1>11, <1>12, <1>13 DEF Outcome

\* The main thread succeeds when no point is left in a temporary file.
LEMMA FinishStores ==
    ASSUME CutInv, StoreInv, main = "finish", DOMAIN written # {}
    PROVE  /\ Pending = {} /\ Root \in DOMAIN Chunks
           /\ \A k \in DOMAIN Chunks : Parent(k) \in DOMAIN Chunks
<1> USE DEF StoreInv
<1>1. /\ Storing = {} /\ failures = 0 /\ DOMAIN written = DOMAIN hierarchy
      /\ \A k \in DOMAIN hierarchy : k \in VoxelKey /\ InTree(k)
      /\ \A k \in DOMAIN hierarchy \ {Root} : Parent(k) \in DOMAIN hierarchy
  BY ChunksAtFinish
<1>2. Busy = {} /\ tasks = <<>> /\ completes = <<>> /\ InQueue = {}
  BY RootIsLast DEF NoTaskAtFinish
<1>3. \A o \in Sources : PointsOf(o, disk) = {}
  <2>1. DOMAIN completes = {} /\ Waiting = {} /\ {u \in Workers : wpc[u] = "prepare"} = {}
    BY <1>2 DEF Waiting, Busy
  <2>2. Queued = {} /\ InCompletes = {} /\ TaskKids = {} /\ WorkKids = {} /\ InBusy = {}
    <3>1. Queued = {}
      BY <1>2 DEF InQueue
    <3>2. QED
      BY <1>2, <2>1, <3>1 DEF InCompletes, TaskKids, WorkKids, InBusy
  <2>3. \A o \in InMain : o.key = Root
    BY DEF InMain, CutInv, MainInv
  <2>4. QED
    BY <2>2, <2>3, SourcesAre DEF PointsOf
<1>4. ChunkPlaces = WrittenPlaces
  <2>1. \A w \in Workers : todo[w] = {}
    BY <1>2 DEF TodoInv, Busy
  <2>2. TodoPlaces = {} /\ StoringPlaces = {}
    BY <1>1, <2>1 DEF TodoPlaces, StoringPlaces
  <2>3. QED
    BY <2>2, PlacesAre
<1>5. ASSUME NEW x \in Input
      PROVE  \E k \in DOMAIN Chunks : x \in Chunks[k]
  <2>1. PICK c \in WrittenPlaces : x \in c[2]
    BY <1>1, <1>3, <1>4 DEF PointsInv
  <2>2. QED
    BY <2>1, ChunksAre
<1>6. Pending = {}
  BY <1>5 DEF Pending
<1>7. DOMAIN Chunks = DOMAIN hierarchy /\ DOMAIN hierarchy # {}
  BY <1>1, ChunksAre
<1>8. Root \in DOMAIN hierarchy
  BY <1>1, <1>7, ClosedUpwards
<1>9. Parent(Root) = Root
  BY DEF Parent, Root
<1>10. QED
  BY <1>1, <1>6, <1>7, <1>8, <1>9

LEMMA ChunkStoreInit ==
    ASSUME Init
    PROVE  Output!Init /\ FromInput
<1>1. PICK in \in Inputs : found = Kept(in) /\ disk = [f \in {Bin(k) : k \in DOMAIN in} |-> in[f.key]]
  BY DEF Init
<1>2. found \subseteq DOMAIN in
  BY <1>1 DEF Kept
<1>3. \A k \in found : disk[Bin(k)] = in[k]
  BY <1>1, <1>2 DEF Bin
<1>4. Input \subseteq UNION {in[k] : k \in DOMAIN in}
  BY <1>2, <1>3 DEF Input
<1>5. Input \subseteq UNION {UNION {i[k] : k \in DOMAIN i} : i \in Inputs}
  <2> DEFINE of(i) == UNION {i[k] : k \in DOMAIN i}
  <2>1. Input \subseteq of(in)
    BY <1>4
  <2> HIDE DEF of
  <2>2. Input \subseteq UNION {of(i) : i \in Inputs}
    BY <2>1
  <2>3. QED
    BY <2>2 DEF of
<1>6. Chunks = <<>>
  <2>1. DOMAIN written = {}
    BY DEF Init
  <2>2. QED
    BY <2>1 DEF Chunks
<1>7. main \notin {"done", "failed"}
  BY DEF Init
<1>8. QED
  BY <1>1, <1>2, <1>5, <1>6, <1>7 DEF Output!Init, FromInput

LEMMA ChunkStoreStep ==
    ASSUME CutInv, CutInv', StoreInv, FromInput, [Next]_vars
    PROVE  [Output!Next]_<<Pending, Chunks, Outcome>>
<1>1. Input' = Input
  BY InputStays DEF StoreInv, CutInv
<1>2. ASSUME NEW w \in Workers, WriteChunk(w)
      PROVE  Output!Next
  <2>1. PICK k \in StoreVoxels, S \in SUBSET Pending :
          /\ Outcome = "running" /\ Outcome' = Outcome /\ k \notin DOMAIN Chunks
          /\ Chunks' = [j \in DOMAIN Chunks \cup {k} |-> IF j = k THEN S ELSE Chunks[j]]
          /\ Pending' = Pending \ S
    BY <1>1, <1>2, WriteChunkStores
  <2>2. Output!Put(k, S)
    BY <2>1 DEF Output!Put, Pending, Outcome
  <2>3. QED
    BY <2>1, <2>2 DEF Output!Next, Pending, StoreVoxels
<1>3. CASE \A w \in Workers : ~WriteChunk(w)
  <2>1. Chunks' = Chunks /\ Pending' = Pending
    BY <1>1, <1>3, ChunksStay DEF Pending, StoreInv
  <2>2. CASE Outcome' = Outcome
    BY <2>1, <2>2
  <2>3. CASE Outcome' = "failed" /\ Outcome = "running"
    BY <2>1, <2>3 DEF Output!Next, Output!Fail, Pending, Outcome
  <2>4. CASE Finish /\ main' = "done"
    <3>1. /\ main = "finish" /\ DOMAIN written # {}
      BY <2>4 DEF Finish
    <3>2. /\ Pending = {} /\ Root \in DOMAIN Chunks
          /\ \A k \in DOMAIN Chunks : Parent(k) \in DOMAIN Chunks
      BY <3>1, FinishStores
    <3>3. Output!Succeed
      BY <2>1, <2>4, <3>1, <3>2
         DEF Output!Succeed, Pending, Output!Root, Output!Parent, Root, Parent
    <3>4. QED
      BY <3>3 DEF Output!Next
  <2>5. \/ Outcome' = Outcome
        \/ Outcome' = "failed" /\ Outcome = "running"
        \/ Finish /\ main' = "done"
    <3>1. (\E w \in Workers : WorkerStep(w)) => main' = main
      BY DEF WorkerStep, TakeTask, Prepare, NewChunk, WriteChunk, Throw, EndTask, mainVars
    <3>2. Finished \/ UNCHANGED vars => main' = main
      BY DEF Finished, vars
    <3>3. QueueWork \/ PopOctant \/ Process \/ JoinPool => main \notin {"done", "failed"} /\ main' # "done"
      BY DEF QueueWork, PopOctant, Process, JoinPool
    <3>4. Finish => main \notin {"done", "failed"} /\ main' \in {"done", "failed"}
      BY DEF Finish
    <3>5. QED
      BY <3>1, <3>2, <3>3, <3>4 DEF Next, MainStep, Outcome
  <2>6. QED
    BY <2>2, <2>3, <2>4, <2>5
<1>4. QED
  BY <1>2, <1>3

\* bu implements ChunkStore: whatever the order in which its threads work and
\* whatever the samples are, each point goes to one chunk, a voxel gets one at
\* most, and a run that succeeds has left no point behind.
THEOREM PyramidImplementsChunkStore == Spec => ImplementsChunkStore
<1>1. Init => Output!Init /\ FromInput
  BY ChunkStoreInit
<1>2. FromInput /\ [Next]_vars => FromInput'
  <2>1. [Next]_vars => found' = found
    BY DEF Next, MainStep, WorkerStep, QueueWork, PopOctant, Process, JoinPool, Finish, TakeTask,
           Prepare, NewChunk, WriteChunk, Throw, EndTask, Finished, vars
  <2>2. QED
    BY <2>1 DEF FromInput
<1>3. CutInv /\ CutInv' /\ StoreInv /\ FromInput /\ [Next]_vars
        => [Output!Next]_<<Pending, Chunks, Outcome>>
  BY ChunkStoreStep
<1>4. QED
  BY <1>1, <1>2, <1>3, StoreInvariance, PTL
     DEF Spec, ImplementsChunkStore, Output!Spec, Pending, Outcome
-----------------------------------------------------------------------------
(* The chunks abut.                                                        *)

LEMMA SumsAre ==
    ASSUME NEW t \in Seq(Nat)
    PROVE  /\ SumsOf(t) \in [0..Len(t) -> Nat] /\ SumsOf(t)[0] = 0
           /\ \A i \in 1..Len(t) : SumsOf(t)[i] = SumsOf(t)[i - 1] + t[i]
<1> DEFINE N == Len(t)
           step == [n \in Nat |-> [s \in Nat |-> IF n \in 1..N THEN s + t[n] ELSE s]]
           Sums(f) == f = [i \in 0..N |-> IF i = 0 THEN 0 ELSE f[i - 1] + t[i]]
<1>1. N \in Nat /\ \A n \in 1..N : t[n] \in Nat
  OBVIOUS
<1> HIDE DEF N
<1>2. step \in [Nat -> [Nat -> Nat]]
  BY <1>1
<1>3. \A n \in 1..N : \A s \in Nat : step[n][s] = s + t[n]
  BY <1>1
<1> HIDE DEF step
<1>4. PICK f \in [Nat -> Nat] : f = [n \in Nat |-> IF n = 0 THEN 0 ELSE step[n][f[n - 1]]]
  <2>1. \A S : \A x \in S : \A u \in [Nat -> [S -> S]] :
          \E f \in [Nat -> S] : f = [n \in Nat |-> IF n = 0 THEN x ELSE u[n][f[n - 1]]]
    BY RecursionOnNat
  <2>2. \A x \in Nat : \A u \in [Nat -> [Nat -> Nat]] :
          \E f \in [Nat -> Nat] : f = [n \in Nat |-> IF n = 0 THEN x ELSE u[n][f[n - 1]]]
    BY <2>1, Zenon
  <2>3. \A x \in Nat :
          \E f \in [Nat -> Nat] : f = [n \in Nat |-> IF n = 0 THEN x ELSE step[n][f[n - 1]]]
    BY <1>2, <2>2, Zenon
  <2>4. QED
    BY <2>3, Zenon
<1> DEFINE g == [i \in 0..N |-> f[i]]
<1>5. \A i \in 0..N : g[i] = IF i = 0 THEN 0 ELSE g[i - 1] + t[i]
  <2>1. ASSUME NEW i \in 0..N, i # 0
        PROVE  g[i] = g[i - 1] + t[i]
    <3>1. i \in 1..N /\ i \in Nat /\ i - 1 \in 0..N /\ i - 1 \in Nat
      BY <1>1, <2>1
    <3>2. f[i] = step[i][f[i - 1]] /\ f[i - 1] \in Nat
      BY <1>4, <2>1, <3>1
    <3>3. QED
      BY <1>3, <3>1, <3>2
  <2>2. g[0] = 0
    BY <1>1, <1>4
  <2>3. QED
    BY <2>1, <2>2
<1> HIDE DEF g
<1>6. Sums(g)
  BY <1>5 DEF g
<1>7. SumsOf(t) = CHOOSE h : Sums(h)
  BY DEF SumsOf, N
<1>8. Sums(SumsOf(t))
  BY <1>6, <1>7
<1> DEFINE F == SumsOf(t)
<1> HIDE DEF F
<1>9. DOMAIN F = 0..N /\ F[0] = 0 /\ \A i \in 1..N : F[i] = F[i - 1] + t[i]
  <2>1. F = [i \in 0..N |-> IF i = 0 THEN 0 ELSE F[i - 1] + t[i]]
    BY <1>8 DEF F
  <2>2. \A i \in 0..N : F[i] = IF i = 0 THEN 0 ELSE F[i - 1] + t[i]
    BY <2>1
  <2>3. 0 \in 0..N /\ \A i \in 1..N : i \in 0..N /\ i # 0
    BY <1>1
  <2>4. QED
    BY <2>1, <2>2, <2>3
<1> DEFINE G == {i \in Nat : i \in 0..N => F[i] \in Nat}
<1>10. 0 \in G
  BY <1>9
<1>11. ASSUME NEW i \in Nat, i \in G
       PROVE  i + 1 \in G
  <2>1. SUFFICES ASSUME i + 1 \in 0..N PROVE F[i + 1] \in Nat
    OBVIOUS
  <2>2. i \in 0..N /\ i + 1 \in 1..N /\ (i + 1) - 1 = i
    BY <1>1, <2>1
  <2>3. F[i] \in Nat /\ t[i + 1] \in Nat
    BY <1>1, <1>11, <2>2
  <2>4. F[i + 1] = F[i] + t[i + 1]
    BY <1>9, <2>2
  <2>5. PICK a \in Nat, b \in Nat : a = F[i] /\ b = t[i + 1]
    BY <2>3
  <2>6. a + b \in Nat
    OBVIOUS
  <2>7. QED
    BY <2>4, <2>5, <2>6, Zenon
<1> HIDE DEF G
<1>12. \A i \in Nat : i \in G
  BY <1>10, <1>11, InductionOnNat
<1>13. \A i \in 0..N : F[i] \in Nat
  BY <1>1, <1>12 DEF G
<1>14. F = [i \in 0..N |-> F[i]]
  BY <1>8 DEF F
<1>15. F \in [0..N -> Nat]
  BY <1>13, <1>14
<1>16. QED
  BY <1>9, <1>15 DEF F, N

LEMMA SumsAppend ==
    ASSUME NEW t \in Seq(Nat), NEW n \in Nat
    PROVE  /\ \A i \in 0..Len(t) : SumsOf(Append(t, n))[i] = SumsOf(t)[i]
           /\ SumsOf(Append(t, n))[Len(t) + 1] = SumsOf(t)[Len(t)] + n
<1> DEFINE N == Len(t)
           u == Append(t, n)
           F == SumsOf(t)
           H == SumsOf(u)
           G == {i \in Nat : i \in 0..N => H[i] = F[i]}
<1>1. u \in Seq(Nat) /\ Len(u) = N + 1 /\ u[N + 1] = n /\ \A i \in 1..N : u[i] = t[i]
  BY AppendProperties
<1>2. N \in Nat
  OBVIOUS
<1> HIDE DEF u, N
<1>3. F[0] = 0 /\ \A i \in 1..N : F[i] = F[i - 1] + t[i]
  BY SumsAre DEF N
<1>4. H[0] = 0 /\ \A i \in 1..(N + 1) : H[i] = H[i - 1] + u[i]
  BY <1>1, SumsAre
<1> HIDE DEF F, H
<1>5. 0 \in G
  BY <1>3, <1>4
<1>6. ASSUME NEW i \in Nat, i \in G
      PROVE  i + 1 \in G
  <2>1. SUFFICES ASSUME i + 1 \in 0..N PROVE H[i + 1] = F[i + 1]
    OBVIOUS
  <2>2. i \in 0..N /\ i + 1 \in 1..N /\ i + 1 \in 1..(N + 1) /\ (i + 1) - 1 = i
    BY <1>2, <2>1
  <2>3. QED
    BY <1>1, <1>3, <1>4, <1>6, <2>2
<1> HIDE DEF G
<1>7. \A i \in Nat : i \in G
  BY <1>5, <1>6, InductionOnNat
<1>8. \A i \in 0..N : H[i] = F[i]
  BY <1>2, <1>7 DEF G
<1>9. H[N + 1] = F[N] + n
  <2>1. N + 1 \in 1..(N + 1) /\ (N + 1) - 1 = N /\ N \in 0..N
    BY <1>2
  <2>2. QED
    BY <1>1, <1>4, <1>8, <2>1
<1>10. QED
  BY <1>8, <1>9 DEF F, H, u, N
Filled == {k \in DOMAIN hierarchy : hierarchy[k].count > 0}
AbutInv == ChunksAbut /\ IsFiniteSet(Filled)

\* The place that is reserved for a chunk is the end of the one before it.
LEMMA NewChunkAbuts ==
    ASSUME CutInv, StoreInv, AbutInv, NEW w \in Workers, NewChunk(w)
    PROVE  AbutInv'
<1>1. PICK c \in todo[w] : LET n == Cardinality(c.points)
                               at == IF n = 0 THEN 0 ELSE pointPos IN
        /\ hierarchy' = Put(hierarchy, c.key, hierarchy'[c.key])
        /\ hierarchy'[c.key] = [offset |-> at, count |-> n]
        /\ pointPos' = pointPos + n
        /\ chunkTable' = IF n = 0 THEN chunkTable ELSE Append(chunkTable, n)
  <2>1. TodoInv
    BY DEF StoreInv
  <2>2. QED
    BY <2>1, NewChunkIs
<1> DEFINE n == Cardinality(c.points)
           k == c.key
           at == IF n = 0 THEN 0 ELSE pointPos
           L == Len(chunkTable)
<1>2. /\ DOMAIN hierarchy' = DOMAIN hierarchy \cup {k} /\ k \notin DOMAIN hierarchy
      /\ \A j \in DOMAIN hierarchy : hierarchy'[j] = hierarchy[j]
      /\ IsFiniteSet(c.points)
  <2>1. TodoInv
    BY DEF StoreInv
  <2>2. c.key \notin DOMAIN hierarchy /\ IsFiniteSet(c.points)
    BY <2>1 DEF TodoInv, IsChunk
  <2>3. QED
    BY <1>1, <2>2 DEF Put
<1>3. n \in Nat
  BY <1>2, FS_CardinalityType
<1>4. /\ hierarchy'[k] = [offset |-> at, count |-> n]
      /\ pointPos' = pointPos + n /\ chunkTable' = IF n = 0 THEN chunkTable ELSE Append(chunkTable, n)
  BY <1>1
<1>5. chunkTable \in Seq(Nat) /\ pointPos \in Nat
  BY DEF StoreInv, HierarchyInv, OffsetsInv
<1>6. /\ pointPos = FirstPos + SumsOf(chunkTable)[L] /\ L \in Nat
      /\ \A i \in 1..L : \E j \in DOMAIN hierarchy :
            hierarchy[j] = [offset |-> FirstPos + SumsOf(chunkTable)[i - 1], count |-> chunkTable[i]]
      /\ Cardinality(Filled) = L /\ IsFiniteSet(Filled)
  BY <1>5, LenProperties DEF AbutInv, ChunksAbut, SumTo, Filled
<1> HIDE DEF n, k, at, L
<1>7. CASE n = 0
  <2>1. UNCHANGED <<pointPos, chunkTable>>
    BY <1>3, <1>4, <1>5, <1>7
  <2>2. Filled' = Filled
    BY <1>2, <1>4, <1>7 DEF Filled
  <2>3. \A i \in DOMAIN chunkTable :
          \E j \in DOMAIN hierarchy' :
            hierarchy'[j] = [offset |-> FirstPos + SumTo(i - 1), count |-> chunkTable[i]]
    BY <1>2 DEF AbutInv, ChunksAbut
  <2>4. QED
    BY <2>1, <2>2, <2>3 DEF AbutInv, ChunksAbut, SumTo, Filled
<1>8. CASE n # 0
  <2> DEFINE u == chunkTable'
  <2>1. /\ u = Append(chunkTable, n) /\ Len(u) = L + 1 /\ u[L + 1] = n
        /\ \A i \in 1..L : u[i] = chunkTable[i]
    BY <1>3, <1>4, <1>5, <1>8, AppendProperties DEF L
  <2>2. /\ \A i \in 0..L : SumsOf(u)[i] = SumsOf(chunkTable)[i]
        /\ SumsOf(u)[L + 1] = SumsOf(chunkTable)[L] + n
    BY <1>3, <1>5, <2>1, SumsAppend DEF L
  <2>3. SumsOf(chunkTable)[L] \in Nat
    <3>1. SumsOf(chunkTable) \in [0..L -> Nat] /\ L \in 0..L
      BY <1>5, <1>6, SumsAre DEF L
    <3>2. QED
      BY <3>1
  <2> HIDE DEF u
  <2>4. pointPos' = FirstPos + SumsOf(u)[L + 1]
    <3>1. PICK s \in Nat : s = SumsOf(chunkTable)[L]
      BY <2>3
    <3>2. (FirstPos + s) + n = FirstPos + (s + n)
      BY <1>3 DEF FirstPos
    <3>3. QED
      BY <1>4, <1>6, <2>2, <3>1, <3>2
  <2>5. ASSUME NEW i \in 1..(L + 1)
        PROVE  \E j \in DOMAIN hierarchy' :
                 hierarchy'[j] = [offset |-> FirstPos + SumsOf(u)[i - 1], count |-> u[i]]
    <3>1. CASE i = L + 1
      <4>1. i - 1 = L /\ L \in 0..L
        BY <1>6, <3>1
      <4>2. hierarchy'[k] = [offset |-> FirstPos + SumsOf(u)[i - 1], count |-> u[i]]
        BY <1>4, <1>6, <1>8, <2>1, <2>2, <3>1, <4>1 DEF at
      <4>3. QED
        BY <1>2, <4>2
    <3>2. CASE i # L + 1
      <4>1. i \in 1..L /\ i - 1 \in 0..L
        BY <1>6, <3>2
      <4>2. PICK j \in DOMAIN hierarchy :
              hierarchy[j] = [offset |-> FirstPos + SumsOf(chunkTable)[i - 1], count |-> chunkTable[i]]
        BY <1>6, <4>1
      <4>3. SumsOf(u)[i - 1] = SumsOf(chunkTable)[i - 1] /\ u[i] = chunkTable[i]
        BY <2>1, <2>2, <4>1
      <4>4. QED
        BY <1>2, <4>2, <4>3
    <3>3. QED
      BY <3>1, <3>2
  <2>6. Filled' = Filled \cup {k} /\ k \notin Filled
    <3>1. hierarchy'[k].count = n /\ n > 0
      BY <1>3, <1>4, <1>8
    <3>2. QED
      BY <1>2, <3>1 DEF Filled
  <2>7. IsFiniteSet(Filled') /\ Cardinality(Filled') = L + 1
    BY <1>6, <2>6, FS_AddElement
  <2>8. DOMAIN u = 1..(L + 1)
    BY <1>3, <1>5, <2>1, LenProperties, AppendProperties
  <2>9. QED
    BY <2>1, <2>4, <2>5, <2>7, <2>8 DEF AbutInv, ChunksAbut, SumTo, Filled, u
<1>9. QED
  BY <1>7, <1>8

\* The chunks that are read through the hierarchy lie one after the other, in
\* the order of the chunk table (CopcSupport::newChunk), however the workers'
\* calls interleave.
THEOREM ChunksHaveNoGaps == Spec => []ChunksAbut
<1>1. Init => AbutInv
  <2>1. SUFFICES ASSUME Init PROVE AbutInv
    OBVIOUS
  <2>2. chunkTable = <<>> /\ hierarchy = <<>> /\ pointPos = FirstPos
    BY <2>1 DEF Init
  <2>3. /\ Len(chunkTable) = 0 /\ DOMAIN chunkTable = {} /\ chunkTable \in Seq(Nat)
        /\ {k \in DOMAIN hierarchy : hierarchy[k].count > 0} = {}
    <3>1. DOMAIN hierarchy = {} /\ DOMAIN chunkTable = {} /\ Len(chunkTable) = 0
      BY <2>2
    <3>2. chunkTable \in Seq(Nat)
      BY <2>2, EmptySeq
    <3>3. QED
      BY <3>1, <3>2
  <2>4. SumTo(Len(chunkTable)) = 0
    BY <2>3, SumsAre DEF SumTo
  <2>5. pointPos = FirstPos + 0
    BY <2>2 DEF FirstPos
  <2>6. QED
    BY <2>3, <2>4, <2>5, FS_EmptySet DEF AbutInv, ChunksAbut, Filled
<1>2. CutInv /\ StoreInv /\ AbutInv /\ [Next]_vars => AbutInv'
  <2>1. SUFFICES ASSUME CutInv, StoreInv, AbutInv, [Next]_vars PROVE AbutInv'
    OBVIOUS
  <2>2. CASE \E w \in Workers : NewChunk(w)
    BY <2>1, <2>2, NewChunkAbuts
  <2>3. CASE UNCHANGED <<hierarchy, pointPos, chunkTable>>
    BY <2>1, <2>3 DEF AbutInv, ChunksAbut, SumTo, Filled
  <2>4. QED
    BY <2>1, <2>2, <2>3 DEF Next, MainStep, WorkerStep, QueueWork, PopOctant, Process, JoinPool,
         Finish, TakeTask, Prepare, WriteChunk, Throw, EndTask, Finished, vars, copcVars
<1>3. AbutInv => ChunksAbut
  BY DEF AbutInv
<1>4. QED
  BY <1>1, <1>2, <1>3, StoreInvariance, PTL DEF Spec

=============================================================================
