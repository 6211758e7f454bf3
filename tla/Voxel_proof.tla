----------------------------- MODULE Voxel_proof -----------------------------
(***************************************************************************)
(* The tree of voxels: what its paths, children and ancestors have to do   *)
(* with one another.                                                       *)
(***************************************************************************)
EXTENDS Voxel, Lemmas

LEMMA ParentType == \A k \in VoxelKey : Parent(k) \in VoxelKey
<1> SUFFICES ASSUME NEW k \in VoxelKey PROVE Parent(k) \in VoxelKey
  OBVIOUS
<1>1. k.level \in Nat /\ k.pos \in [Axes -> Nat]
  BY DEF VoxelKey
<1>2. \A a \in Axes : k.pos[a] \div 2 \in Nat
  BY <1>1
<1>3. (IF k.level = 0 THEN 0 ELSE k.level - 1) \in Nat
  BY <1>1
<1>4. QED
  BY <1>2, <1>3 DEF VoxelKey, Parent

\* The recursive definition of the way up from a voxel is one.
LEMMA UpExists ==
    ASSUME NEW k \in VoxelKey
    PROVE  Up(k) = [n \in Nat |-> IF n = 0 THEN k ELSE Parent(Up(k)[n - 1])]
<1> DEFINE step == [n \in Nat |-> [j \in VoxelKey |-> Parent(j)]]
<1>1. step \in [Nat -> [VoxelKey -> VoxelKey]]
  BY ParentType
<1> HIDE DEF step
<1>2. PICK f \in [Nat -> VoxelKey] : f = [n \in Nat |-> IF n = 0 THEN k ELSE step[n][f[n - 1]]]
  BY <1>1, RecursionOnNat
<1>3. \A n \in Nat : n # 0 => f[n - 1] \in VoxelKey
  BY <1>2
<1>4. \A n \in Nat : n # 0 => step[n][f[n - 1]] = Parent(f[n - 1])
  BY <1>3 DEF step
<1>5. f = [n \in Nat |-> IF n = 0 THEN k ELSE Parent(f[n - 1])]
  BY <1>2, <1>4
<1>6. \E g : g = [n \in Nat |-> IF n = 0 THEN k ELSE Parent(g[n - 1])]
  BY <1>5
<1> DEFINE IsUp(g) == g = [n \in Nat |-> IF n = 0 THEN k ELSE Parent(g[n - 1])]
<1>7. Up(k) = CHOOSE g : IsUp(g)
  BY DEF Up
<1>8. \E g : IsUp(g)
  BY <1>6
<1> HIDE DEF IsUp
<1>9. IsUp(CHOOSE g : IsUp(g))
  BY <1>8, Zenon
<1>10. IsUp(Up(k))
  BY <1>7, <1>9, Zenon
<1>11. QED
  BY <1>10 DEF IsUp

LEMMA UpType ==
    ASSUME NEW k \in VoxelKey
    PROVE  /\ Up(k)[0] = k
           /\ \A n \in Nat : Up(k)[n + 1] = Parent(Up(k)[n]) /\ Up(k)[n] \in VoxelKey
<1> DEFINE G == {n \in Nat : Up(k)[n] \in VoxelKey}
<1>1. Up(k)[0] = k
  BY UpExists
<1>2. \A n \in Nat : Up(k)[n + 1] = Parent(Up(k)[n])
  BY UpExists
<1>3. 0 \in G
  BY <1>1
<1>4. \A n \in Nat : n \in G => n + 1 \in G
  BY <1>2, ParentType
<1> HIDE DEF G
<1>5. \A n \in Nat : n \in G
  BY <1>3, <1>4, InductionOnNat
<1>6. QED
  BY <1>1, <1>2, <1>5 DEF G

\* What holds at level 0, and for a voxel when it holds for its parent, holds
\* for every voxel.
LEMMA InductionOnLevels ==
    ASSUME NEW G, \A k \in VoxelKey : k.level = 0 => k \in G,
           \A k \in VoxelKey : k.level > 0 /\ Parent(k) \in G => k \in G
    PROVE  \A k \in VoxelKey : k \in G
<1> DEFINE H == {n \in Nat : \A k \in VoxelKey : k.level = n => k \in G}
<1>1. 0 \in H
  OBVIOUS
<1>2. ASSUME NEW n \in Nat, n \in H
      PROVE  n + 1 \in H
  <2>1. ASSUME NEW k \in VoxelKey, k.level = n + 1
        PROVE  k \in G
    <3>1. Parent(k).level = n /\ k.level > 0
      BY <2>1 DEF Parent
    <3>2. Parent(k) \in G
      BY <1>2, <3>1, ParentType
    <3>3. QED
      BY <3>1, <3>2
  <2>2. QED
    BY <2>1
<1> HIDE DEF H
<1>3. \A n \in Nat : n \in H
  BY <1>1, <1>2, InductionOnNat
<1>4. QED
  BY <1>3 DEF H, VoxelKey

-----------------------------------------------------------------------------
(* Ancestors.                                                              *)

LEMMA LevelType == \A k \in VoxelKey : k.level \in Nat
BY DEF VoxelKey

LEMMA NoLineageAtTop ==
    ASSUME NEW k \in VoxelKey, k.level = 0
    PROVE  Lineage(k) = {} /\ Ancestors(k) = {}
BY DEF Lineage, Ancestors

\* The lineage of a voxel is its own and its parent's.
LEMMA LineageStep ==
    ASSUME NEW k \in VoxelKey, k.level > 0
    PROVE  /\ Lineage(k) = {k} \cup Lineage(Parent(k))
           /\ Ancestors(k) = {Parent(k)} \cup Ancestors(Parent(k))
<1> DEFINE p == Parent(k)
           G == {n \in Nat : Up(p)[n] = Up(k)[n + 1]}
<1>1. p \in VoxelKey /\ p.level = k.level - 1 /\ k.level \in Nat
  BY ParentType DEF Parent, VoxelKey
<1>2. 0 \in G
  BY <1>1, UpType
<1>3. ASSUME NEW n \in Nat, n \in G
      PROVE  n + 1 \in G
  <2>1. Up(p)[n + 1] = Parent(Up(p)[n]) /\ Up(k)[(n + 1) + 1] = Parent(Up(k)[n + 1])
    BY <1>1, UpType
  <2>2. QED
    BY <1>3, <2>1
<1> HIDE DEF G
<1>4. \A n \in Nat : n \in G
  BY <1>2, <1>3, InductionOnNat
<1>5. \A n \in Nat : Up(p)[n] = Up(k)[n + 1]
  BY <1>4 DEF G
<1>6. Up(k)[0] = k
  BY UpType
<1> HIDE DEF p
<1>7. ASSUME NEW j
      PROVE  j \in Lineage(k) <=> j = k \/ j \in Lineage(p)
  <2>1. ASSUME j \in Lineage(k), j # k
        PROVE  j \in Lineage(p)
    <3>1. PICK n \in 0..(k.level - 1) : j = Up(k)[n]
      BY <2>1 DEF Lineage
    <3>2. n # 0
      BY <1>6, <2>1, <3>1
    <3>3. n - 1 \in 0..(p.level - 1) /\ j = Up(p)[n - 1]
      BY <1>1, <1>5, <3>1, <3>2
    <3>4. QED
      BY <3>3 DEF Lineage
  <2>2. ASSUME j \in Lineage(p)
        PROVE  j \in Lineage(k)
    <3>1. PICK n \in 0..(p.level - 1) : j = Up(p)[n]
      BY <2>2 DEF Lineage
    <3>2. n + 1 \in 0..(k.level - 1) /\ j = Up(k)[n + 1]
      BY <1>1, <1>5, <3>1
    <3>3. QED
      BY <3>2 DEF Lineage
  <2>3. k \in Lineage(k)
    <3>1. 0 \in 0..(k.level - 1)
      BY <1>1
    <3>2. QED
      BY <1>6, <3>1 DEF Lineage
  <2>4. QED
    BY <2>1, <2>2, <2>3
<1>8. Lineage(k) = {k} \cup Lineage(p)
  BY <1>7
<1>9. QED
  BY <1>8 DEF Ancestors, p

\* Every voxel of a lineage is below the root level, and not below the voxel.
LEMMA LineageType ==
    \A k \in VoxelKey : \A j \in Lineage(k) : j \in VoxelKey /\ 0 < j.level /\ j.level <= k.level
<1> DEFINE G == {k \in VoxelKey : \A j \in Lineage(k) :
                    j \in VoxelKey /\ 0 < j.level /\ j.level <= k.level}
<1>1. \A k \in VoxelKey : k.level = 0 => k \in G
  BY NoLineageAtTop
<1>2. ASSUME NEW k \in VoxelKey, k.level > 0, Parent(k) \in G
      PROVE  k \in G
  <2>1. Lineage(k) = {k} \cup Lineage(Parent(k)) /\ Parent(k).level = k.level - 1 /\ k.level \in Nat
    BY <1>2, LineageStep, LevelType DEF Parent
  <2>2. QED
    BY <1>2, <2>1, LevelType
<1> HIDE DEF G
<1>3. \A k \in VoxelKey : k \in G
  BY <1>1, <1>2, InductionOnLevels
<1>4. QED
  BY <1>3 DEF G

LEMMA AncestorType ==
    ASSUME NEW k \in VoxelKey, NEW j \in Ancestors(k)
    PROVE  j \in VoxelKey /\ j.level < k.level
<1>1. PICK i \in Lineage(k) : j = Parent(i)
  BY DEF Ancestors
<1>2. i \in VoxelKey /\ 0 < i.level /\ i.level <= k.level /\ i.level \in Nat /\ k.level \in Nat
  BY LineageType, LevelType
<1>3. QED
  BY <1>1, <1>2, ParentType DEF Parent

\* The ancestors of an ancestor are ancestors.
LEMMA AncestorsNest ==
    \A k \in VoxelKey : \A j \in Ancestors(k) : Ancestors(j) \subseteq Ancestors(k)
<1> DEFINE G == {k \in VoxelKey : \A j \in Ancestors(k) : Ancestors(j) \subseteq Ancestors(k)}
<1>1. \A k \in VoxelKey : k.level = 0 => k \in G
  BY NoLineageAtTop
<1>2. \A k \in VoxelKey : k.level > 0 /\ Parent(k) \in G => k \in G
  BY LineageStep
<1> HIDE DEF G
<1>3. \A k \in VoxelKey : k \in G
  BY <1>1, <1>2, InductionOnLevels
<1>4. QED
  BY <1>3 DEF G

\* Of two ancestors of a voxel one is the other's.
LEMMA AncestorsAreAChain ==
    \A k \in VoxelKey : \A i, j \in {k} \cup Ancestors(k) :
        i = j \/ i \in Ancestors(j) \/ j \in Ancestors(i)
<1> DEFINE G == {k \in VoxelKey : \A i, j \in {k} \cup Ancestors(k) :
                    i = j \/ i \in Ancestors(j) \/ j \in Ancestors(i)}
<1>1. \A k \in VoxelKey : k.level = 0 => k \in G
  BY NoLineageAtTop
<1>2. \A k \in VoxelKey : k.level > 0 /\ Parent(k) \in G => k \in G
  BY LineageStep
<1> HIDE DEF G
<1>3. \A k \in VoxelKey : k \in G
  BY <1>1, <1>2, InductionOnLevels
<1>4. QED
  BY <1>3 DEF G

-----------------------------------------------------------------------------
(* Children.                                                               *)

LEMMA ChildType ==
    ASSUME NEW p \in VoxelKey, NEW d \in Dirs
    PROVE  /\ Child(p, d) \in VoxelKey /\ Child(p, d).level = p.level + 1
           /\ Parent(Child(p, d)) = p
<1>1. p.level \in Nat /\ p.pos \in [Axes -> Nat] /\ p = [level |-> p.level, pos |-> p.pos]
  BY DEF VoxelKey
<1>2. \A a \in Axes : d[a] \in {0, 1} /\ p.pos[a] \in Nat
  BY <1>1 DEF Dirs
<1>3. \A a \in Axes : 2 * p.pos[a] + d[a] \in Nat /\ (2 * p.pos[a] + d[a]) \div 2 = p.pos[a]
  BY <1>2
<1>4. Child(p, d) \in VoxelKey /\ Child(p, d).level = p.level + 1
  BY <1>1, <1>3 DEF Child, VoxelKey
<1>5. Parent(Child(p, d)) = [level |-> p.level, pos |-> [a \in Axes |-> p.pos[a]]]
  BY <1>1, <1>3 DEF Child, Parent
<1>6. p.pos = [a \in Axes |-> p.pos[a]]
  BY <1>1
<1>7. QED
  BY <1>1, <1>4, <1>5, <1>6

LEMMA ChildrenType ==
    ASSUME NEW p \in VoxelKey, NEW c \in Children(p)
    PROVE  c \in VoxelKey /\ c.level = p.level + 1 /\ Parent(c) = p
BY ChildType DEF Children

\* Different halves make different children.
LEMMA ChildInjective ==
    ASSUME NEW p \in VoxelKey, NEW d \in Dirs, NEW e \in Dirs, Child(p, d) = Child(p, e)
    PROVE  d = e
<1>1. p.pos \in [Axes -> Nat] /\ d \in [Axes -> {0, 1}] /\ e \in [Axes -> {0, 1}]
  BY DEF VoxelKey, Dirs
<1>2. Child(p, d).pos = Child(p, e).pos
  OBVIOUS
<1>3. \A a \in Axes : 2 * p.pos[a] + d[a] = 2 * p.pos[a] + e[a]
  BY <1>2 DEF Child
<1>4. \A a \in Axes : d[a] = e[a]
  BY <1>1, <1>3
<1>5. QED
  BY <1>1, <1>4

\* A voxel is one of its parent's children.
LEMMA ChildOfParent ==
    ASSUME NEW k \in VoxelKey, k.level > 0
    PROVE  k \in Children(Parent(k))
<1>1. k.level \in Nat /\ k.pos \in [Axes -> Nat] /\ k = [level |-> k.level, pos |-> k.pos]
  BY DEF VoxelKey
<1> DEFINE d == [a \in Axes |-> k.pos[a] % 2]
<1>2. \A a \in Axes : k.pos[a] % 2 \in {0, 1} /\ 2 * (k.pos[a] \div 2) + (k.pos[a] % 2) = k.pos[a]
  BY <1>1
<1>3. d \in Dirs
  BY <1>2 DEF Dirs
<1>4. Child(Parent(k), d) = [level |-> k.level, pos |-> [a \in Axes |-> k.pos[a]]]
  BY <1>1, <1>2 DEF Child, Parent
<1>5. k = Child(Parent(k), d)
  BY <1>1, <1>4
<1>6. QED
  BY <1>3, <1>5 DEF Children

\* The way down from an ancestor goes through one of its children.
LEMMA ChildOnTheWay ==
    \A k \in VoxelKey : \A p \in Ancestors(k) : \E c \in Children(p) : c = k \/ c \in Ancestors(k)
<1> DEFINE G == {k \in VoxelKey :
                    \A p \in Ancestors(k) : \E c \in Children(p) : c = k \/ c \in Ancestors(k)}
<1>1. \A k \in VoxelKey : k.level = 0 => k \in G
  BY NoLineageAtTop
<1>2. ASSUME NEW k \in VoxelKey, k.level > 0, Parent(k) \in G
      PROVE  k \in G
  <2>1. Ancestors(k) = {Parent(k)} \cup Ancestors(Parent(k)) /\ k \in Children(Parent(k))
    BY <1>2, LineageStep, ChildOfParent
  <2>2. QED
    BY <1>2, <2>1
<1> HIDE DEF G
<1>3. \A k \in VoxelKey : k \in G
  BY <1>1, <1>2, InductionOnLevels
<1>4. QED
  BY <1>3 DEF G

-----------------------------------------------------------------------------
(* The voxels of the tree that hangs from the root.                        *)

LEMMA RootType == Root \in VoxelKey /\ InTree(Root) /\ Root.level = 0
BY DEF VoxelKey, Root, InTree

\* A voxel of the tree is the root or below it.
LEMMA TreeTop ==
    ASSUME NEW k \in VoxelKey, InTree(k), k # Root
    PROVE  k.level > 0 /\ Root \in Ancestors(k)
<1>1. Root \in Ancestors(k)
  BY DEF InTree
<1>2. k.level # 0
  BY <1>1, NoLineageAtTop
<1>3. QED
  BY <1>1, <1>2, LevelType

LEMMA TreeParent ==
    ASSUME NEW k \in VoxelKey, InTree(k), k # Root
    PROVE  InTree(Parent(k))
BY TreeTop, LineageStep DEF InTree

LEMMA TreeChildren ==
    ASSUME NEW p \in VoxelKey, InTree(p), NEW c \in Children(p)
    PROVE  InTree(c) /\ Ancestors(c) = {p} \cup Ancestors(p) /\ c # Root
<1>1. c \in VoxelKey /\ c.level = p.level + 1 /\ Parent(c) = p /\ p.level \in Nat
  BY ChildrenType, LevelType
<1>2. c.level > 0
  BY <1>1
<1>3. Ancestors(c) = {p} \cup Ancestors(p)
  BY <1>1, <1>2, LineageStep
<1>4. c # Root
  BY <1>2, RootType
<1>5. QED
  BY <1>3, <1>4 DEF InTree

LEMMA TreeAncestors ==
    ASSUME NEW k \in VoxelKey, InTree(k), NEW j \in Ancestors(k)
    PROVE  InTree(j)
<1>1. Root = j \/ Root \in Ancestors(j) \/ j \in Ancestors(Root)
  BY AncestorsAreAChain DEF InTree
<1>2. Ancestors(Root) = {}
  BY RootType, NoLineageAtTop
<1>3. QED
  BY <1>1, <1>2 DEF InTree

\* What the code walks up from a voxel of the tree: its ancestors and itself,
\* the root left out.
LEMMA TreeLineage ==
    ASSUME NEW k \in VoxelKey, InTree(k)
    PROVE  {k} \cup Ancestors(k) = Lineage(k) \cup {Root}
<1> DEFINE G == {i \in VoxelKey :
                    InTree(i) => {i} \cup Ancestors(i) = Lineage(i) \cup {Root}}
<1>1. \A i \in VoxelKey : i.level = 0 => i \in G
  BY NoLineageAtTop DEF InTree
<1>2. ASSUME NEW i \in VoxelKey, i.level > 0, Parent(i) \in G
      PROVE  i \in G
  <2>1. /\ Lineage(i) = {i} \cup Lineage(Parent(i))
        /\ Ancestors(i) = {Parent(i)} \cup Ancestors(Parent(i))
    BY <1>2, LineageStep
  <2>2. i # Root
    BY <1>2, RootType
  <2>3. InTree(i) => InTree(Parent(i))
    BY <2>2, TreeParent
  <2>4. QED
    BY <1>2, <2>1, <2>3
<1> HIDE DEF G
<1>3. k \in G
  BY <1>1, <1>2, InductionOnLevels
<1>4. QED
  BY <1>3 DEF G

\* Two voxels are apart when neither is the other or above it.
Apart(j, k) == j # k /\ j \notin Ancestors(k) /\ k \notin Ancestors(j)

\* What is apart from all of a voxel's children is apart from it.
LEMMA ApartFromParent ==
    ASSUME NEW p \in VoxelKey, NEW k \in VoxelKey, \A c \in Children(p) : Apart(k, c)
    PROVE  Apart(k, p)
<1>1. PICK c \in Children(p) : TRUE
  <2>1. [a \in Axes |-> 0] \in Dirs
    BY DEF Dirs
  <2>2. QED
    BY <2>1 DEF Children
<1>2. c \in VoxelKey /\ Ancestors(c) = {p} \cup Ancestors(p)
  <2>1. c \in VoxelKey /\ c.level = p.level + 1 /\ Parent(c) = p /\ p.level \in Nat
    BY ChildrenType, LevelType
  <2>2. QED
    BY <2>1, LineageStep
<1>3. k # p /\ k \notin Ancestors(p)
  BY <1>2 DEF Apart
<1>4. p \notin Ancestors(k)
  BY ChildOnTheWay DEF Apart
<1>5. QED
  BY <1>3, <1>4 DEF Apart

-----------------------------------------------------------------------------
(* There are finitely many children and ancestors.                         *)

LEMMA DirsFinite == IsFiniteSet(Dirs)
<1> DEFINE ones == [d \in Dirs |-> {a \in Axes : d[a] = 1}]
<1>1. IsFiniteSet(SUBSET Axes)
  BY AxesAssumption, FS_SUBSET
<1>2. ones \in [Dirs -> SUBSET Axes]
  OBVIOUS
<1>3. ASSUME NEW d \in Dirs, NEW e \in Dirs, ones[d] = ones[e]
      PROVE  d = e
  <2>1. d \in [Axes -> {0, 1}] /\ e \in [Axes -> {0, 1}]
    BY DEF Dirs
  <2>2. \A a \in Axes : d[a] = 1 <=> e[a] = 1
    BY <1>3
  <2>3. \A a \in Axes : d[a] = e[a]
    BY <2>1, <2>2
  <2>4. QED
    BY <2>1, <2>3
<1>4. ones \in Injection(Dirs, SUBSET Axes)
  BY <1>2, <1>3 DEF Injection, IsInjective
<1>5. QED
  BY <1>1, <1>4, FS_Injection

LEMMA ChildrenFinite ==
    ASSUME NEW p
    PROVE  IsFiniteSet(Children(p))
<1> DEFINE f == [d \in Dirs |-> Child(p, d)]
<1>1. IsFiniteSet({f[d] : d \in Dirs})
  BY DirsFinite, FiniteImage
<1>2. QED
  BY <1>1 DEF Children

LEMMA AncestorsFinite == \A k \in VoxelKey : IsFiniteSet(Ancestors(k)) /\ IsFiniteSet(Lineage(k))
<1> DEFINE G == {k \in VoxelKey : IsFiniteSet(Ancestors(k)) /\ IsFiniteSet(Lineage(k))}
<1>1. \A k \in VoxelKey : k.level = 0 => k \in G
  BY NoLineageAtTop, FS_EmptySet
<1>2. ASSUME NEW k \in VoxelKey, k.level > 0, Parent(k) \in G
      PROVE  k \in G
  <2>1. IsFiniteSet({k}) /\ IsFiniteSet({Parent(k)})
    BY FS_Singleton
  <2>2. IsFiniteSet({k} \cup Lineage(Parent(k)))
    BY <1>2, <2>1, FS_Union
  <2>3. IsFiniteSet({Parent(k)} \cup Ancestors(Parent(k)))
    BY <1>2, <2>1, FS_Union
  <2>4. QED
    BY <1>2, <2>2, <2>3, LineageStep
<1> HIDE DEF G
<1>3. \A k \in VoxelKey : k \in G
  BY <1>1, <1>2, InductionOnLevels
<1>4. QED
  BY <1>3 DEF G
=============================================================================
