---------------------------- MODULE Output_proof ----------------------------
(***************************************************************************)
(* Proofs about Output: whatever the input files, the tree of voxels and   *)
(* the orders in which chunks and pages are written, the places of the     *)
(* records, chunks and pages in the output file do not overlap, and every  *)
(* point is in the chunk of a voxel that it lies in.                       *)
(***************************************************************************)
EXTENDS Output, Voxel_proof, SequenceTheorems

-----------------------------------------------------------------------------
(* Folds.                                                                  *)

\* How the fold of + goes through a set of indices.
SumIs(s, it) ==
    it = [T \in SUBSET DOMAIN s |->
            IF T = {} THEN 0
            ELSE s[CHOOSE x \in T : TRUE] + it[T \ {CHOOSE x \in T : TRUE}]]

LEMMA FoldOfSum ==
    ASSUME NEW s
    PROVE  FoldSeq(+, 0, s) = (CHOOSE it : SumIs(s, it))[DOMAIN s]
BY DEF FoldSeq, FoldFunction, FoldFunctionOnSet, MapThenFoldSet, SumIs

\* A function at some of its arguments.
PartOf(s, T) == [i \in T |-> s[i]]

\* One summand is put to the others.
LEMMA PartTotal ==
    ASSUME NEW s, NEW T, IsFiniteSet(T), \A i \in T : s[i] \in Nat, NEW x \in T
    PROVE  Total(PartOf(s, T)) = s[x] + Total(PartOf(s, T \ {x}))
<1> DEFINE U == T \ {x}
           f == PartOf(s, U)
           h == PartOf(s, T)
<1> USE DEF PartOf
<1>1. IsFiniteSet(U) /\ f \in [U -> Nat] /\ x \notin U
  BY FS_Subset
<1>2. T = U \cup {x} /\ h \in [T -> Nat]
  OBVIOUS
<1>3. (\A y \in U : h[y] = f[y]) /\ h[x] = s[x] /\ s[x] \in Nat
  OBVIOUS
<1>4. U \cup {x} = T
  BY <1>2
<1> HIDE DEF f, h, U, PartOf
<1>5. Total(h) = Total(f) + h[x]
  BY <1>1, <1>2, <1>3, TotalExtended
<1>6. Total(f) \in Nat
  BY <1>1, TotalType
<1>7. Total(h) = s[x] + Total(f)
  BY <1>3, <1>5, <1>6
<1>8. QED
  BY <1>7 DEF f, h, U

\* The sum over finitely many indices.
LEMMA FoldIsTotal ==
    ASSUME NEW D, IsFiniteSet(D), NEW s \in [D -> Nat]
    PROVE  FoldSeq(+, 0, s) = Total(s)
<1> DEFINE part(T) == PartOf(s, T)
           g == [T \in SUBSET D |-> Total(part(T))]
           one(T) == CHOOSE x \in T : TRUE
<1>1. \A T \in SUBSET D : IsFiniteSet(T) /\ part(T) \in [T -> Nat]
  BY FS_Subset DEF PartOf
<1>2. Total(part({})) = 0
  <2> DEFINE f == part({})
  <2>1. f \in [{} -> Nat]
    BY <1>1
  <2> HIDE DEF f
  <2>2. Total(f) = 0
    BY <2>1, TotalZero
  <2>3. QED
    BY <2>2 DEF f
<1>3. \A T \in SUBSET D : \A x \in T : Total(part(T)) = s[x] + Total(part(T \ {x}))
  <2> TAKE T \in SUBSET D
  <2> TAKE x \in T
  <2> HIDE DEF g, one
  <2>1. Total(PartOf(s, T)) = s[x] + Total(PartOf(s, T \ {x}))
    BY <1>1, PartTotal, SMT
  <2>2. QED
    BY <2>1
<1>4. \A T \in SUBSET D : T # {} => one(T) \in T
  OBVIOUS
<1>5. DOMAIN s = D
  OBVIOUS
<1>6. part(D) = s
  BY DEF PartOf
<1> HIDE DEF part, one
<1>7. SumIs(s, g)
  <2>1. \A T \in SUBSET D : g[T] = IF T = {} THEN 0 ELSE s[one(T)] + g[T \ {one(T)}]
    <3> TAKE T \in SUBSET D
    <3>1. CASE T = {}
      BY <1>2, <3>1
    <3>2. CASE T # {}
      BY <1>3, <1>4, <3>2
    <3>3. QED
      BY <3>1, <3>2
  <2>2. g = [T \in SUBSET D |-> IF T = {} THEN 0 ELSE s[one(T)] + g[T \ {one(T)}]]
    BY <2>1
  <2>3. QED
    BY <1>5, <2>2, Zenon DEF SumIs, one
<1> DEFINE it == CHOOSE h : SumIs(s, h)
<1>8. SumIs(s, it)
  BY <1>7
<1> HIDE DEF g, it
<1>9. \A T \in SUBSET D : it[T] = IF T = {} THEN 0 ELSE s[one(T)] + it[T \ {one(T)}]
  <2>1. it = [T \in SUBSET D |-> IF T = {} THEN 0 ELSE s[one(T)] + it[T \ {one(T)}]]
    BY <1>5, <1>8, Zenon DEF SumIs, one
  <2> DEFINE F(T) == IF T = {} THEN 0 ELSE s[one(T)] + it[T \ {one(T)}]
  <2> HIDE DEF F
  <2>2. it = [T \in SUBSET D |-> F(T)]
    BY <2>1 DEF F
  <2>3. \A T \in SUBSET D : it[T] = F(T)
    BY <2>2
  <2>4. QED
    BY <2>3 DEF F
<1> DEFINE G == {n \in Nat : \A T \in SUBSET D : Cardinality(T) = n => it[T] = Total(part(T))}
<1>10. \A T \in SUBSET D : Cardinality(T) \in Nat /\ (Cardinality(T) = 0 <=> T = {})
  BY <1>1, FS_CardinalityType, FS_EmptySet
<1>11. 0 \in G
  BY <1>2, <1>9, <1>10
<1>12. ASSUME NEW n \in Nat, n \in G
       PROVE  n + 1 \in G
  <2> SUFFICES ASSUME NEW T \in SUBSET D, Cardinality(T) = n + 1
               PROVE  it[T] = Total(part(T))
    OBVIOUS
  <2>1. T # {} /\ one(T) \in T
    BY <1>4, <1>10
  <2>2. Cardinality(T \ {one(T)}) = n /\ T \ {one(T)} \in SUBSET D
    <3>1. IsFiniteSet(T) /\ one(T) \in T
      BY <1>1, <2>1
    <3>2. Cardinality(T \ {one(T)}) = Cardinality(T) - 1
      BY <3>1, FS_RemoveElement
    <3>3. QED
      BY <3>2
  <2>3. it[T \ {one(T)}] = Total(part(T \ {one(T)}))
    BY <1>12, <2>2
  <2>4. QED
    BY <1>3, <1>9, <2>1, <2>3
<1> HIDE DEF G
<1>13. \A n \in Nat : n \in G
  BY <1>11, <1>12, InductionOnNat
<1>14. it[D] = Total(part(D))
  BY <1>10, <1>13 DEF G
<1>15. QED
  BY <1>5, <1>6, <1>14, FoldOfSum DEF it

\* The sums of the first elements of a sequence.
SumTo(w, i) == FoldSeq(+, 0, [j \in 1..(i - 1) |-> w[j]])

LEMMA SumToNext ==
    ASSUME NEW n \in Nat, NEW w \in [1..n -> Nat]
    PROVE  /\ SumTo(w, 1) = 0
           /\ \A i \in 1..n : SumTo(w, i) \in Nat /\ SumTo(w, i + 1) = SumTo(w, i) + w[i]
           /\ SumTo(w, n + 1) = FoldSeq(+, 0, w) /\ SumTo(w, n + 1) \in Nat
<1> DEFINE part(i) == PartOf(w, 1..(i - 1))
<1>1. \A i \in 1..(n + 1) : IsFiniteSet(1..(i - 1)) /\ part(i) \in [1..(i - 1) -> Nat]
  <2> TAKE i \in 1..(n + 1)
  <2>1. 1 \in Int /\ i - 1 \in Int /\ \A j \in 1..(i - 1) : j \in 1..n
    OBVIOUS
  <2>2. IsFiniteSet(1..(i - 1))
    BY <2>1, FS_Interval
  <2>3. part(i) \in [1..(i - 1) -> Nat]
    BY <2>1 DEF PartOf
  <2>4. QED
    BY <2>2, <2>3
<1>2. \A i \in 1..(n + 1) : SumTo(w, i) = Total(part(i)) /\ SumTo(w, i) \in Nat
  <2> TAKE i \in 1..(n + 1)
  <2>1. IsFiniteSet(1..(i - 1)) /\ part(i) \in [1..(i - 1) -> Nat]
    BY <1>1
  <2>2. SumTo(w, i) = FoldSeq(+, 0, part(i))
    BY DEF SumTo, PartOf
  <2> HIDE DEF part
  <2>3. QED
    BY <2>1, <2>2, FoldIsTotal, TotalType
<1>3. SumTo(w, 1) = 0
  <2> DEFINE e == part(1)
  <2>1. e \in [1..0 -> Nat] /\ 1 \in 1..(n + 1) /\ \A j \in 1..0 : e[j] = 0
    BY DEF PartOf
  <2>2. SumTo(w, 1) = Total(e)
    BY <1>2, <2>1
  <2> HIDE DEF e
  <2>3. Total(e) = 0
    BY <2>1, TotalZero
  <2>4. QED
    BY <2>2, <2>3
<1>4. ASSUME NEW i \in 1..n
      PROVE  SumTo(w, i + 1) = SumTo(w, i) + w[i]
  <2>1. i \in 1..(n + 1) /\ i + 1 \in 1..(n + 1) /\ (i + 1) - 1 = i /\ (1..i) \ {i} = 1..(i - 1)
    OBVIOUS
  <2>2. SumTo(w, i) = Total(part(i)) /\ SumTo(w, i) \in Nat /\ SumTo(w, i + 1) = Total(part(i + 1))
    BY <1>2, <2>1
  <2> DEFINE T == 1..i
             v == w
             x == i
  <2>3. part(i + 1) = PartOf(v, T) /\ part(i) = PartOf(v, T \ {x})
    BY <2>1
  <2>4. IsFiniteSet(T) /\ (\A j \in T : v[j] \in Nat) /\ x \in T /\ v[x] = w[i]
    BY <2>1, FS_Interval
  <2> HIDE DEF part, T, v, x
  <2>5. Total(PartOf(v, T)) = v[x] + Total(PartOf(v, T \ {x}))
    BY <2>4, PartTotal, SMT
  <2>6. w[i] \in Nat
    OBVIOUS
  <2>7. QED
    BY <2>2, <2>3, <2>4, <2>5, <2>6
<1>5. SumTo(w, n + 1) = FoldSeq(+, 0, w)
  <2>1. part(n + 1) = w
    BY DEF PartOf
  <2>2. SumTo(w, n + 1) = FoldSeq(+, 0, part(n + 1))
    BY DEF SumTo, PartOf
  <2> HIDE DEF part
  <2>3. QED
    BY <2>1, <2>2
<1>6. n + 1 \in 1..(n + 1) /\ \A i \in 1..n : i \in 1..(n + 1)
  OBVIOUS
<1>7. QED
  BY <1>2, <1>3, <1>4, <1>5, <1>6

\* Intervals of these lengths, one behind the other, do not overlap.
LEMMA SumsApart ==
    ASSUME NEW n \in Nat, NEW w \in [1..n -> Nat]
    PROVE  \A i \in 1..n : \A k \in 1..(n + 1) : i < k => SumTo(w, i) + w[i] <= SumTo(w, k)
<1> DEFINE G == {k \in Nat : k \in 1..(n + 1) => \A i \in 1..n : i < k => SumTo(w, i) + w[i] <= SumTo(w, k)}
<1>1. 0 \in G
  OBVIOUS
<1>2. ASSUME NEW k \in Nat, k \in G
      PROVE  k + 1 \in G
  <2> SUFFICES ASSUME k + 1 \in 1..(n + 1), NEW i \in 1..n, i < k + 1
               PROVE  SumTo(w, i) + w[i] <= SumTo(w, k + 1)
    OBVIOUS
  <2>0. k \in 1..n /\ w[k] \in Nat /\ w[i] \in Nat
    OBVIOUS
  <2>1. /\ SumTo(w, k + 1) = SumTo(w, k) + w[k] /\ SumTo(w, k) \in Nat /\ SumTo(w, i) \in Nat
        /\ k \in 1..n /\ w[k] \in Nat /\ w[i] \in Nat
    BY <2>0, SumToNext
  <2>2. CASE i = k
    BY <2>1, <2>2
  <2>3. CASE i < k
    <3>1. SumTo(w, i) + w[i] <= SumTo(w, k)
      BY <1>2, <2>1, <2>3
    <3>2. QED
      BY <2>1, <3>1
  <2>4. QED
    BY <2>1, <2>2, <2>3
<1> HIDE DEF G
<1>3. \A k \in Nat : k \in G
  BY <1>1, <1>2, InductionOnNat
<1>4. QED
  BY <1>3 DEF G

-----------------------------------------------------------------------------
(* Regions.                                                                *)

\* Two regions have no byte in common.
NoOverlap(r, s) == r.at + r.len <= s.at \/ s.at + s.len <= r.at

\* How PutAll goes through a sequence of regions.
PutIs(f, s, it) ==
    it = [T \in SUBSET DOMAIN s |->
            IF T = {} THEN f
            ELSE Put(it[T \ {CHOOSE x \in T : TRUE}], s[CHOOSE x \in T : TRUE])]

LEMMA FoldOfPut ==
    ASSUME NEW f, NEW s
    PROVE  PutAll(f, s) = (CHOOSE it : PutIs(f, s, it))[DOMAIN s]
BY DEF PutAll, FoldSeq, FoldFunction, FoldFunctionOnSet, MapThenFoldSet, PutIs

\* Regions that are apart from each other and from all that is there are just added.
LEMMA PutAllAdds ==
    ASSUME NEW f, NEW s, IsFiniteSet(DOMAIN s),
           \A i \in DOMAIN s : \A r \in f : NoOverlap(r, s[i]),
           \A i, j \in DOMAIN s : i # j => NoOverlap(s[i], s[j])
    PROVE  PutAll(f, s) = f \cup {s[i] : i \in DOMAIN s}
<1> DEFINE D == DOMAIN s
           all(T) == f \cup {s[i] : i \in T}
           g == [T \in SUBSET D |-> all(T)]
           one(T) == CHOOSE x \in T : TRUE
<1>1. \A T \in SUBSET D : \A x \in T : all(T) = Put(all(T \ {x}), s[x])
  <2> TAKE T \in SUBSET D
  <2> TAKE x \in T
  <2>1. \A r \in all(T \ {x}) : NoOverlap(r, s[x])
    OBVIOUS
  <2>2. all(T) = all(T \ {x}) \cup {s[x]}
    OBVIOUS
  <2> HIDE DEF all
  <2>3. Put(all(T \ {x}), s[x]) = all(T \ {x}) \cup {s[x]}
    BY <2>1 DEF Put, NoOverlap
  <2>4. QED
    BY <2>2, <2>3
<1>2. all({}) = f /\ \A T \in SUBSET D : T # {} => one(T) \in T
  OBVIOUS
<1> HIDE DEF all, one
<1>3. PutIs(f, s, g)
  <2>1. g = [T \in SUBSET D |-> IF T = {} THEN f ELSE Put(g[T \ {one(T)}], s[one(T)])]
    <3>1. \A T \in SUBSET D : all(T) = IF T = {} THEN f ELSE Put(g[T \ {one(T)}], s[one(T)])
      BY <1>1, <1>2
    <3>2. QED
      BY <3>1
  <2>2. QED
    BY <2>1, Zenon DEF PutIs, one
<1> DEFINE it == CHOOSE h : PutIs(f, s, h)
<1>4. PutIs(f, s, it)
  BY <1>3
<1> HIDE DEF g, it
<1>5. \A T \in SUBSET D : it[T] = IF T = {} THEN f ELSE Put(it[T \ {one(T)}], s[one(T)])
  <2> DEFINE F(T) == IF T = {} THEN f ELSE Put(it[T \ {one(T)}], s[one(T)])
  <2>1. it = [T \in SUBSET D |-> F(T)]
    BY <1>4, Zenon DEF PutIs, one
  <2> HIDE DEF F
  <2>2. \A T \in SUBSET D : it[T] = F(T)
    BY <2>1
  <2>3. QED
    BY <2>2 DEF F
<1> DEFINE G == {n \in Nat : \A T \in SUBSET D : Cardinality(T) = n => it[T] = all(T)}
<1>6. \A T \in SUBSET D : IsFiniteSet(T) /\ Cardinality(T) \in Nat /\ (Cardinality(T) = 0 <=> T = {})
  BY FS_Subset, FS_CardinalityType, FS_EmptySet
<1>7. 0 \in G
  BY <1>2, <1>5, <1>6
<1>8. ASSUME NEW n \in Nat, n \in G
      PROVE  n + 1 \in G
  <2> SUFFICES ASSUME NEW T \in SUBSET D, Cardinality(T) = n + 1
               PROVE  it[T] = all(T)
    OBVIOUS
  <2>1. T # {} /\ one(T) \in T
    BY <1>2, <1>6
  <2>2. Cardinality(T \ {one(T)}) = n /\ T \ {one(T)} \in SUBSET D
    <3>1. Cardinality(T \ {one(T)}) = Cardinality(T) - 1
      BY <1>6, <2>1, FS_RemoveElement
    <3>2. QED
      BY <3>1
  <2>3. it[T \ {one(T)}] = all(T \ {one(T)})
    BY <1>8, <2>2
  <2>4. QED
    BY <1>1, <1>5, <2>1, <2>3
<1> HIDE DEF G
<1>9. \A n \in Nat : n \in G
  BY <1>7, <1>8, InductionOnNat
<1>10. it[D] = all(D)
  BY <1>6, <1>9 DEF G
<1>11. QED
  BY <1>10, FoldOfPut DEF it, all

-----------------------------------------------------------------------------
(* A fold in some order.                                                   *)

\* What is folded is e at first, and changed by op for the element that c chooses.
FoldIs(D, e, c, op, it) ==
    it = [T \in SUBSET D |-> IF T = {} THEN e ELSE op[c[T]][it[T \ {c[T]}]]]

\* A set's size, and that of what is left without one of its elements.
LEMMA OneByOne ==
    ASSUME NEW D, IsFiniteSet(D), NEW c, \A T \in SUBSET D : T # {} => c[T] \in T
    PROVE  \A T \in SUBSET D :
                /\ Cardinality(T) \in Nat
                /\ T # {} => /\ T \ {c[T]} \in SUBSET D
                             /\ Cardinality(T) > 0
                             /\ Cardinality(T \ {c[T]}) = Cardinality(T) - 1
<1> TAKE T \in SUBSET D
<1>1. IsFiniteSet(T) /\ Cardinality(T) \in Nat /\ (Cardinality(T) = 0 <=> T = {})
  BY FS_Subset, FS_CardinalityType, FS_EmptySet
<1> DEFINE x == c[T]
<1>2. T # {} => x \in T
  OBVIOUS
<1> HIDE DEF x
<1>3. T # {} => Cardinality(T \ {x}) = Cardinality(T) - 1
  BY <1>1, <1>2, FS_RemoveElement
<1>4. QED
  BY <1>1, <1>3 DEF x

\* One step after another.
LEMMA Iterates ==
    ASSUME NEW Z, NEW e \in Z, NEW next \in [Nat -> [Z -> Z]]
    PROVE  \E f \in [Nat -> Z] : f[0] = e /\ \A n \in Nat : n > 0 => f[n] = next[n][f[n - 1]]
<1>1. PICK f \in [Nat -> Z] : f = [n \in Nat |-> IF n = 0 THEN e ELSE next[n][f[n - 1]]]
  BY RecursionOnNat
<1>2. f[0] = e
  BY <1>1
<1>3. \A n \in Nat : n > 0 => f[n] = next[n][f[n - 1]]
  BY <1>1
<1>4. QED
  BY <1>2, <1>3

\* There is such a fold.
LEMMA FoldExists ==
    ASSUME NEW D, IsFiniteSet(D), NEW X, NEW e \in X, NEW c, NEW op, \A x \in D : \A y \in X : op[x][y] \in X,
           \A T \in SUBSET D : T # {} => c[T] \in T
    PROVE  \E it : FoldIs(D, e, c, op, it)
<1> DEFINE S == [SUBSET D -> X]
           one(g) == [T \in SUBSET D |-> IF T = {} THEN e ELSE op[c[T]][g[T \ {c[T]}]]]
           start == [T \in SUBSET D |-> e]
           step == [n \in Nat |-> [g \in S |-> one(g)]]
<1>0. \A T \in SUBSET D :
        /\ Cardinality(T) \in Nat
        /\ T # {} => /\ T \ {c[T]} \in SUBSET D
                     /\ Cardinality(T) > 0
                     /\ Cardinality(T \ {c[T]}) = Cardinality(T) - 1
  BY OneByOne, Zenon
<1>1. \A g \in S : one(g) \in S
  OBVIOUS
<1>2. start \in S /\ step \in [Nat -> [S -> S]]
  BY <1>1
<1> HIDE DEF S, start, step
<1>3. PICK f \in [Nat -> S] : f[0] = start /\ \A n \in Nat : n > 0 => f[n] = step[n][f[n - 1]]
  BY <1>2, Iterates
<1>4. \A n \in Nat : n > 0 => f[n] = one(f[n - 1])
  <2> TAKE n \in Nat
  <2> HAVE n > 0
  <2>1. n - 1 \in Nat
    OBVIOUS
  <2>2. f[n - 1] \in S
    BY <2>1
  <2>3. f[n] = step[n][f[n - 1]]
    BY <1>3
  <2>4. QED
    BY <2>2, <2>3 DEF step
<1> DEFINE it == [T \in SUBSET D |-> f[Cardinality(T)][T]]
<1>5. \A T \in SUBSET D : f[Cardinality(T)][T] = IF T = {} THEN e ELSE op[c[T]][it[T \ {c[T]}]]
  <2> TAKE T \in SUBSET D
  <2>1. CASE T = {}
    <3>1. f[0] = start /\ Cardinality(T) = 0
      BY <1>3, <2>1, FS_EmptySet
    <3>2. QED
      BY <2>1, <3>1 DEF start
  <2>2. CASE T # {}
    <3> DEFINE U == T \ {c[T]}
    <3>1. /\ Cardinality(T) \in Nat /\ Cardinality(T) > 0
          /\ U \in SUBSET D /\ Cardinality(U) = Cardinality(T) - 1
      BY <1>0, <2>2
    <3>2. f[Cardinality(T)] = one(f[Cardinality(T) - 1])
      BY <1>4, <3>1
    <3>5. f[Cardinality(T)][T] = op[c[T]][f[Cardinality(T) - 1][U]]
      BY <2>2, <3>2
    <3>3. it[U] = f[Cardinality(U)][U]
      BY <3>1
    <3>4. QED
      BY <2>2, <3>1, <3>5, <3>3
  <2>3. QED
    BY <2>1, <2>2
<1>6. FoldIs(D, e, c, op, it)
  <2> DEFINE F(T) == IF T = {} THEN e ELSE op[c[T]][it[T \ {c[T]}]]
             d(T) == f[Cardinality(T)][T]
  <2>1. \A T \in SUBSET D : d(T) = F(T)
    BY <1>5
  <2> HIDE DEF F, d
  <2>2. [T \in SUBSET D |-> d(T)] = [T \in SUBSET D |-> F(T)]
    BY <2>1
  <2>3. QED
    BY <2>2, Zenon DEF FoldIs, F, d
<1> HIDE DEF it
<1>7. QED
  BY <1>6

\* What begins in a set and stays there from one subset to the next is in it.
LEMMA FoldStays ==
    ASSUME NEW D, IsFiniteSet(D), NEW X, NEW c, \A T \in SUBSET D : T # {} => c[T] \in T,
           NEW it, it[{}] \in X,
           \A T \in SUBSET D : T # {} /\ it[T \ {c[T]}] \in X => it[T] \in X
    PROVE  \A T \in SUBSET D : it[T] \in X
<1> DEFINE G == {n \in Nat : \A T \in SUBSET D : Cardinality(T) = n => it[T] \in X}
<1>1. \A T \in SUBSET D :
        /\ Cardinality(T) \in Nat
        /\ T # {} => /\ T \ {c[T]} \in SUBSET D
                     /\ Cardinality(T) > 0
                     /\ Cardinality(T \ {c[T]}) = Cardinality(T) - 1
  BY OneByOne, Zenon
<1>2. 0 \in G
  <2> SUFFICES ASSUME NEW T \in SUBSET D, Cardinality(T) = 0
               PROVE  it[T] \in X
    OBVIOUS
  <2>1. T # {} => Cardinality(T) > 0
    BY <1>1
  <2>2. T = {}
    BY <2>1
  <2>3. QED
    BY <2>2
<1>3. ASSUME NEW n \in Nat, n \in G
      PROVE  n + 1 \in G
  <2> SUFFICES ASSUME NEW T \in SUBSET D, Cardinality(T) = n + 1
               PROVE  it[T] \in X
    OBVIOUS
  <2>1. T # {}
    <3>1. T = {} => Cardinality(T) = 0
      BY FS_EmptySet
    <3>2. QED
      BY <3>1
  <2>2. T \ {c[T]} \in SUBSET D /\ Cardinality(T \ {c[T]}) = n
    BY <1>1, <2>1
  <2>3. it[T \ {c[T]}] \in X
    BY <1>3, <2>2
  <2>4. QED
    BY <2>1, <2>3
<1> HIDE DEF G
<1>4. \A n \in Nat : n \in G
  BY <1>2, <1>3, InductionOnNat
<1>5. QED
  BY <1>1, <1>4 DEF G

-----------------------------------------------------------------------------
(* FilePrep: what the later phases know of the files is finite.            *)

IsList(s) == s \in Seq(Range(s))

\* A point with coordinates that a scale reaches.
Reached(p) == InReach(p) /\ \A a \in Axes : p[a] \in Int

\* What is kept of a file: its points and its dimensions, in lists.
IsFile(f) ==
    /\ f = [x \in DOMAIN f |-> f[x]] /\ {"points", "dims", "scale", "offset"} \subseteq DOMAIN f
    /\ IsList(f.points) /\ IsList(f.dims)
    /\ \A p \in Range(f.points) : Reached(p)
    /\ f.scale \in [Axes -> Nat] /\ f.offset \in [Axes -> Int] /\ Axes \subseteq Range(f.dims)
IsFiles(infos) == IsList(infos) /\ \A i \in DOMAIN infos : IsFile(infos[i])

LEMMA ListOfAny ==
    ASSUME NEW S, NEW s \in Seq(S)
    PROVE  IsList(s)
BY LenProperties DEF IsList, Range

LEMMA ElementsOf ==
    ASSUME NEW S, NEW s \in Seq(S)
    PROVE  Range(s) \subseteq S
BY LenProperties DEF Range

LEMMA ListByIndex ==
    ASSUME NEW n \in Nat, NEW f, DOMAIN f = 1..n, f = [i \in 1..n |-> f[i]]
    PROVE  IsList(f) /\ Len(f) = n
BY DEF IsList, Range

LEMMA ListDomain ==
    ASSUME NEW s, IsList(s)
    PROVE  Len(s) \in Nat /\ DOMAIN s = 1..Len(s) /\ IsFiniteSet(DOMAIN s) /\ IsFiniteSet(Range(s))
<1>1. Len(s) \in Nat /\ DOMAIN s = 1..Len(s)
  BY DEF IsList
<1>2. IsFiniteSet(DOMAIN s)
  BY <1>1, FS_Interval
<1>3. QED
  BY <1>1, <1>2, FiniteImage DEF Range

LEMMA QuotientType ==
    ASSUME NEW a \in Nat, NEW b \in Nat \ {0}
    PROVE  a \div b \in Nat
OBVIOUS

\* The parts of a LAS file are files.
LEMMA PartsAreFiles ==
    ASSUME NEW f, IsFile(f)
    PROVE  IsFiles(LasParts(f))
<1> DEFINE n == (Len(f.points) + LasChunk - 1) \div LasChunk
           upto(i) == IF LasChunk * i < Len(f.points) THEN LasChunk * i ELSE Len(f.points)
           part(i) == SubSeq(f.points, LasChunk * (i - 1) + 1, upto(i))
<1>1. Len(f.points) \in Nat /\ LasChunk \in Nat \ {0}
  BY ListDomain, PrepAssumption DEF IsFile
<1>2. n \in Nat
  <2>1. Len(f.points) + LasChunk - 1 \in Nat
    BY <1>1
  <2>2. QED
    BY <1>1, <2>1, QuotientType
<1>3. ASSUME NEW i \in 1..n
      PROVE  IsFile([f EXCEPT !.points = part(i)])
  <2> DEFINE a == LasChunk * (i - 1) + 1
             b == upto(i)
             S == {f.points[x] : x \in a..b}
  <2>1. a \in Int /\ b \in Int
    BY <1>1, <1>2
  <2> HIDE DEF a, b
  <2>2. SubSeq(f.points, a, b) \in Seq(S)
    BY <2>1, SubSeqProperties
  <2>3. IsList(SubSeq(f.points, a, b))
    BY <2>2, ListOfAny
  <2>4. ASSUME NEW x \in a..b
        PROVE  Reached(f.points[x])
    <3>1. LasChunk * (i - 1) \in Nat
      BY <1>1, <1>2
    <3>2. x \in 1..Len(f.points)
      BY <1>1, <3>1 DEF a, b
    <3>3. f.points[x] \in Range(f.points)
      BY <3>2, ListDomain DEF IsFile, Range
    <3>4. QED
      BY <3>3 DEF IsFile
  <2>5. \A p \in Range(SubSeq(f.points, a, b)) : Reached(p)
    <3>1. Range(SubSeq(f.points, a, b)) \subseteq S
      BY <2>2, ElementsOf
    <3>2. QED
      BY <2>4, <3>1
  <2>6. IsList(part(i)) /\ \A p \in Range(part(i)) : Reached(p)
    BY <2>3, <2>5 DEF a, b
  <2> HIDE DEF part
  <2>7. QED
    BY <2>6 DEF IsFile
<1>4. LasParts(f) = [i \in 1..n |-> [f EXCEPT !.points = part(i)]]
  BY DEF LasParts
<1> HIDE DEF n, part
<1>5. IsList(LasParts(f))
  BY <1>2, <1>4, ListByIndex
<1>6. QED
  BY <1>3, <1>4, <1>5 DEF IsFiles

\* What is marked when nothing behind a mark is.
LEMMA MarksExist ==
    ASSUME NEW P
    PROVE  \E f : \A i \in Nat : f[i] = 1 <=> i > 0 /\ i \in P /\ f[i - 1] # 1
<1> DEFINE B == {0, 1}
           step == [i \in Nat |-> [b \in B |-> IF i \in P /\ b = 0 THEN 1 ELSE 0]]
<1>1. step \in [Nat -> [B -> B]]
  OBVIOUS
<1>2. PICK no \in B : no = 0
  OBVIOUS
<1> HIDE DEF step, B
<1>3. PICK f \in [Nat -> B] : f = [i \in Nat |-> IF i = 0 THEN no ELSE step[i][f[i - 1]]]
  BY <1>1, RecursionOnNat
<1>4. ASSUME NEW i \in Nat
      PROVE  f[i] = 1 <=> i > 0 /\ i \in P /\ f[i - 1] # 1
  <2>1. CASE i = 0
    <3>1. f[i] = 0
      BY <1>2, <1>3, <2>1
    <3>2. QED
      BY <2>1, <3>1
  <2>2. CASE i # 0
    <3>1. i - 1 \in Nat /\ i > 0
      BY <2>2
    <3>2. f[i - 1] \in B /\ f[i] = step[i][f[i - 1]]
      BY <1>3, <2>2, <3>1
    <3>3. step[i][f[i - 1]] = 1 <=> i \in P /\ f[i - 1] # 1
      BY <3>2 DEF step, B
    <3>4. QED
      BY <3>1, <3>2, <3>3
  <2>3. QED
    BY <2>1, <2>2
<1>5. QED
  BY <1>4

\* What filterDims() erases, name by name.
LEMMA ErasedStep ==
    ASSUME NEW dims, Len(dims) \in Nat, NEW A
    PROVE  \A i \in 0..Len(dims) :
             Erased(dims, A)[i] = (i > 0 /\ dims[i] \notin A /\ ~Erased(dims, A)[i - 1])
<1> DEFINE n == Len(dims)
<1> DEFINE P == {j \in Nat : dims[j] \notin A}
<1>1. PICK f : \A i \in Nat : f[i] = 1 <=> i > 0 /\ i \in P /\ f[i - 1] # 1
  BY MarksExist
<1>2. \A i \in 0..n : f[i] = 1 <=> i > 0 /\ dims[i] \notin A /\ f[i - 1] # 1
  BY <1>1
<1> DEFINE IsErased(e) == e = [i \in 0..n |-> i > 0 /\ dims[i] \notin A /\ ~e[i - 1]]
           g == [i \in 0..n |-> f[i] = 1]
<1>3. \A i \in 0..n : g[i] = (i > 0 /\ dims[i] \notin A /\ ~g[i - 1])
  <2> TAKE i \in 0..n
  <2>1. i > 0 => i - 1 \in 0..n
    OBVIOUS
  <2>2. QED
    BY <1>2, <2>1
<1>4. g = [i \in 0..n |-> g[i]]
  OBVIOUS
<1> HIDE DEF g
<1>5. IsErased(g)
  BY <1>3, <1>4
<1>6. Erased(dims, A) = CHOOSE e : IsErased(e)
  BY DEF Erased
<1> HIDE DEF IsErased
<1>7. IsErased(Erased(dims, A))
  BY <1>5, <1>6, Zenon
<1>8. QED
  BY <1>7 DEF IsErased

\* The element of a set of numbers that has r of them up to it is found by that.
LEMMA ByRank ==
    ASSUME NEW n \in Nat, NEW K \in SUBSET (1..n), NEW j \in K
    PROVE  LET rank(i) == Cardinality({h \in K : h <= i}) IN
             /\ rank(j) \in 1..Cardinality(K)
             /\ (CHOOSE i \in K : rank(i) = rank(j)) = j
<1> DEFINE upto(i) == {h \in K : h <= i}
           rank(i) == Cardinality(upto(i))
<1>1. IsFiniteSet(K)
  <2>1. 1 \in Int /\ n \in Int
    OBVIOUS
  <2>2. IsFiniteSet(1..n)
    BY <2>1, FS_Interval
  <2>3. QED
    BY <2>2, FS_Subset
<1>2. \A i \in K : upto(i) \subseteq K /\ IsFiniteSet(upto(i)) /\ i \in upto(i)
  <2> TAKE i \in K
  <2>1. upto(i) \in SUBSET K /\ i <= i
    OBVIOUS
  <2>2. i \in upto(i)
    BY <2>1
  <2> HIDE DEF upto
  <2>3. IsFiniteSet(upto(i))
    BY <1>1, <2>1, FS_Subset
  <2>4. QED
    BY <2>1, <2>2, <2>3
<1>3. ASSUME NEW i \in K, NEW h \in K, i < h
      PROVE  rank(i) < rank(h)
  <2>1. i \in 1..n /\ h \in 1..n /\ \A x \in K : x \in 1..n
    OBVIOUS
  <2>6. upto(i) \in SUBSET upto(h) /\ h \notin upto(i) /\ h \in upto(h)
    <3>1. i < h /\ ~(h <= i) /\ h <= h
      BY <1>3, <2>1
    <3>2. \A x \in K : x <= i => x <= h
      BY <2>1, <3>1
    <3>3. QED
      BY <3>1, <3>2
  <2>2. IsFiniteSet(upto(h)) /\ IsFiniteSet(upto(i))
    BY <1>2
  <2> HIDE DEF upto
  <2>3. Cardinality(upto(i)) <= Cardinality(upto(h)) /\ Cardinality(upto(i)) # Cardinality(upto(h))
    BY <2>2, <2>6, FS_Subset
  <2>4. Cardinality(upto(i)) \in Nat /\ Cardinality(upto(h)) \in Nat
    BY <2>2, FS_CardinalityType
  <2>5. QED
    BY <2>3, <2>4
<1>4. rank(j) \in 1..Cardinality(K)
  <2>1. Cardinality(upto(j)) \in Nat /\ Cardinality(K) \in Nat /\ upto(j) # {}
    BY <1>1, <1>2, FS_CardinalityType
  <2>2. upto(j) \in SUBSET K /\ IsFiniteSet(upto(j))
    BY <1>2
  <2> HIDE DEF upto
  <2>3. Cardinality(upto(j)) <= Cardinality(K)
    BY <1>1, <2>2, FS_Subset
  <2>4. Cardinality(upto(j)) # 0
    BY <2>1, <2>2, FS_EmptySet
  <2>5. QED
    BY <2>1, <2>3, <2>4
<1>5. \A i \in K : rank(i) = rank(j) => i = j
  <2> TAKE i \in K
  <2> DEFINE ri == rank(i)
             rj == rank(j)
  <2>1. ri \in Nat /\ rj \in Nat
    BY <1>2, FS_CardinalityType
  <2>2. (i < j => ri < rj) /\ (j < i => rj < ri)
    BY <1>3
  <2> HIDE DEF ri, rj
  <2>3. ri = rj => i = j
    BY <2>1, <2>2
  <2>4. QED
    BY <2>3 DEF ri, rj
<1> HIDE DEF rank
<1>6. (CHOOSE i \in K : rank(i) = rank(j)) = j
  BY <1>5
<1>7. QED
  BY <1>4, <1>6 DEF rank

\* So is a file whose dimensions were filtered.
LEMMA FilteredIsFile ==
    ASSUME NEW f, NEW names, IsFile(f)
    PROVE  IsFile(FilterDims(f, names))
<1> DEFINE e == Erased(f.dims, Allowed(names))
           K == {j \in 1..Len(f.dims) : ~e[j]}
           d == [i \in 1..Cardinality(K) |-> f.dims[CHOOSE j \in K : Cardinality({h \in K : h <= j}) = i]]
<1>1. FilterDims(f, names) = IF names = {} THEN f ELSE [f EXCEPT !.dims = d]
  BY DEF FilterDims
<1>2. IsFiniteSet(K)
  <2>1. IsFiniteSet(1..Len(f.dims))
    BY ListDomain DEF IsFile
  <2> HIDE DEF e
  <2>2. QED
    BY <2>1, FS_Subset
<1> HIDE DEF K
<1>3. Cardinality(K) \in Nat
  BY <1>2, FS_CardinalityType
<1>4. IsList(d)
  BY <1>3, ListByIndex
<1>5. ASSUME NEW a \in Axes
      PROVE  a \in Range(d)
  <2>1. a \in Allowed(names)
    BY PrepAssumption DEF Allowed
  <2>2. Len(f.dims) \in Nat /\ DOMAIN f.dims = 1..Len(f.dims) /\ a \in Range(f.dims)
    BY ListDomain DEF IsFile
  <2>3. PICK j \in 1..Len(f.dims) : f.dims[j] = a
    BY <2>2 DEF Range
  <2>4. ~e[j]
    <3>1. e[j] = (j > 0 /\ f.dims[j] \notin Allowed(names) /\ ~e[j - 1])
      BY <2>2, ErasedStep
    <3>2. QED
      BY <2>1, <2>3, <3>1
  <2>5. j \in K /\ K \in SUBSET (1..Len(f.dims))
    BY <2>4 DEF K
  <2> DEFINE rank(i) == Cardinality({h \in K : h <= i})
  <2>6. rank(j) \in 1..Cardinality(K) /\ (CHOOSE i \in K : rank(i) = rank(j)) = j
    BY <2>2, <2>5, ByRank
  <2>7. d = [i \in 1..Cardinality(K) |-> f.dims[CHOOSE h \in K : rank(h) = i]]
    OBVIOUS
  <2> HIDE DEF rank, d
  <2>8. d[rank(j)] = a /\ rank(j) \in DOMAIN d
    BY <2>3, <2>6, <2>7
  <2>9. QED
    BY <2>8 DEF Range
<1> HIDE DEF d
<1>6. QED
  BY <1>1, <1>4, <1>5 DEF IsFile

LEMMA GreatestIndex ==
    ASSUME NEW n \in Nat, NEW T, T \subseteq 1..n, T # {}
    PROVE  Max(T) \in T
<1> DEFINE S == {n - x : x \in T}
<1>1. S \subseteq Nat /\ S # {}
  <2>1. \A x \in T : x \in 1..n /\ n - x \in Nat
    OBVIOUS
  <2>2. QED
    BY <2>1
<1>2. PICK m \in S : \A k \in S : m <= k
  BY <1>1, LeastNatural
<1>3. PICK x \in T : m = n - x
  BY <1>2
<1>4. \A y \in T : x >= y
  <2> TAKE y \in T
  <2>1. n - y \in S /\ x \in 1..n /\ y \in 1..n
    OBVIOUS
  <2>2. n - x <= n - y
    BY <1>2, <1>3, <2>1
  <2>3. QED
    BY <2>1, <2>2
<1>5. QED
  BY <1>4 DEF Max

\* How FileInfos goes through the input files.
FilesIs(s, it) ==
    it = [T \in SUBSET DOMAIN s |->
            IF T = {} THEN <<>>
            ELSE IF s[Max(T)].las THEN LasParts(s[Max(T)]) \o it[T \ {Max(T)}]
            ELSE Append(it[T \ {Max(T)}], s[Max(T)])]

LEMMA FoldOfFiles ==
    ASSUME NEW s
    PROVE  FileInfos(s) = (CHOOSE it : FilesIs(s, it))[DOMAIN s]
BY DEF FileInfos, FoldLeft, MapThenFoldSet, FilesIs

\* The files that are worked on are files, whole or in parts.
LEMMA InfosAreFiles ==
    ASSUME NEW s, IsFiles(s)
    PROVE  IsFiles(FileInfos(s))
<1> DEFINE D == DOMAIN s
           F == Range(s) \cup UNION {Range(LasParts(s[i])) : i \in D}
           X == Seq(F)
           c == [T \in SUBSET D |-> Max(T)]
           Next1(i, y) == IF s[i].las THEN LasParts(s[i]) \o y ELSE Append(y, s[i])
           op == [i \in D |-> [y \in X |-> Next1(i, y)]]
<1>1. IsFiniteSet(D) /\ Len(s) \in Nat /\ D = 1..Len(s)
  BY ListDomain DEF IsFiles
<1>2. \A T \in SUBSET D : T # {} => c[T] \in T
  BY <1>1, GreatestIndex
<1>3. \A i \in D : s[i] \in F /\ LasParts(s[i]) \in X
  <2> TAKE i \in D
  <2>1. IsFiles(LasParts(s[i]))
    BY PartsAreFiles DEF IsFiles
  <2>2. LasParts(s[i]) \in Seq(Range(LasParts(s[i])))
    BY <2>1 DEF IsFiles, IsList
  <2>3. Range(LasParts(s[i])) \subseteq F
    OBVIOUS
  <2>4. LasParts(s[i]) \in Seq(F)
    BY <2>2, <2>3, SeqMonotonic
  <2>5. s[i] \in F
    BY DEF Range
  <2>6. QED
    BY <2>4, <2>5
<1>4. \A f \in F : IsFile(f)
  <2> TAKE f \in F
  <2>1. CASE f \in Range(s)
    BY <2>1 DEF IsFiles, Range
  <2>2. CASE \E i \in D : f \in Range(LasParts(s[i]))
    <3>1. PICK i \in D : f \in Range(LasParts(s[i]))
      BY <2>2
    <3>2. IsFiles(LasParts(s[i]))
      BY PartsAreFiles DEF IsFiles
    <3>3. QED
      BY <3>1, <3>2 DEF IsFiles, Range
  <2>3. QED
    BY <2>1, <2>2
<1> HIDE DEF F
<1>5. \A i \in D : \A y \in X : Next1(i, y) \in X
  <2> TAKE i \in D
  <2> TAKE y \in X
  <2>1. s[i] \in F /\ LasParts(s[i]) \in Seq(F) /\ y \in Seq(F)
    BY <1>3
  <2>2. LasParts(s[i]) \o y \in Seq(F) /\ Append(y, s[i]) \in Seq(F)
    BY <2>1
  <2>3. QED
    BY <2>2
<1>6. <<>> \in X
  OBVIOUS
<1> HIDE DEF X, Next1, c
<1>7. \E it : FilesIs(s, it)
  <2>1. \A i \in D : \A y \in X : op[i][y] \in X
    BY <1>5
  <2> HIDE DEF op, D
  <2>2. PICK it : FoldIs(D, <<>>, c, op, it)
    BY <1>1, <1>2, <1>6, <2>1, FoldExists
  <2>3. \A T \in SUBSET D : it[T] = IF T = {} THEN <<>> ELSE op[c[T]][it[T \ {c[T]}]]
    <3> DEFINE H(T) == IF T = {} THEN <<>> ELSE op[c[T]][it[T \ {c[T]}]]
    <3>1. it = [T \in SUBSET D |-> H(T)]
      BY <2>2, Zenon DEF FoldIs
    <3> HIDE DEF H
    <3>2. \A T \in SUBSET D : it[T] = H(T)
      BY <3>1
    <3>3. QED
      BY <3>2 DEF H
  <2>4. \A T \in SUBSET D : it[T] \in X
    <3>1. it[{}] \in X
      BY <1>6, <2>3
    <3>2. \A T \in SUBSET D : T # {} /\ it[T \ {c[T]}] \in X => it[T] \in X
      <4> TAKE T \in SUBSET D
      <4> HAVE T # {} /\ it[T \ {c[T]}] \in X
      <4> DEFINE i == c[T]
                 y == it[T \ {i}]
      <4>1. i \in D /\ y \in X
        BY <1>2
      <4>2. it[T] = op[i][y]
        BY <2>3, Zenon
      <4> HIDE DEF i, y
      <4>3. QED
        BY <2>1, <4>1, <4>2
    <3>3. QED
      BY <1>1, <1>2, <3>1, <3>2, FoldStays
  <2>5. \A T \in SUBSET D :
            it[T] = IF T = {} THEN <<>> ELSE Next1(Max(T), it[T \ {Max(T)}])
    <3> TAKE T \in SUBSET D
    <3>1. CASE T = {}
      BY <2>3, <3>1
    <3>2. CASE T # {}
      <4> DEFINE i == Max(T)
                 U == T \ {i}
      <4>1. c[T] = i /\ i \in D
        BY <1>2, <3>2 DEF c
      <4>2. it[U] \in X
        BY <2>4
      <4>3. it[T] = op[i][it[U]]
        BY <2>3, <3>2, <4>1
      <4> HIDE DEF i, U
      <4>4. op[i][it[U]] = Next1(i, it[U])
        BY <4>1, <4>2 DEF op
      <4>5. QED
        BY <3>2, <4>3, <4>4 DEF i, U
    <3>3. QED
      BY <3>1, <3>2
  <2>6. it = [T \in SUBSET D |-> it[T]]
    BY <2>2 DEF FoldIs
  <2> DEFINE H(T) == IF T = {} THEN <<>> ELSE Next1(Max(T), it[T \ {Max(T)}])
  <2>7. \A T \in SUBSET D : it[T] = H(T)
    BY <2>5
  <2> HIDE DEF H
  <2>8. it = [T \in SUBSET D |-> H(T)]
    BY <2>6, <2>7
  <2>9. FilesIs(s, it)
    BY <2>8, Zenon DEF FilesIs, H, Next1, D
  <2>10. QED
    BY <2>9
<1> DEFINE it == CHOOSE h : FilesIs(s, h)
<1>8. FilesIs(s, it)
  BY <1>7
<1> HIDE DEF it
<1>9. \A T \in SUBSET D : it[T] = IF T = {} THEN <<>> ELSE Next1(Max(T), it[T \ {Max(T)}])
  <2> DEFINE H(T) == IF T = {} THEN <<>> ELSE Next1(Max(T), it[T \ {Max(T)}])
  <2>1. it = [T \in SUBSET D |-> H(T)]
    BY <1>8, Zenon DEF FilesIs, Next1
  <2> HIDE DEF H
  <2>2. \A T \in SUBSET D : it[T] = H(T)
    BY <2>1
  <2>3. QED
    BY <2>2 DEF H
<1>10. it[D] \in Seq(F)
  <2>1. it[{}] \in X
    BY <1>6, <1>9
  <2>2. \A T \in SUBSET D : T # {} /\ it[T \ {c[T]}] \in X => it[T] \in X
    <3> TAKE T \in SUBSET D
    <3> HAVE T # {} /\ it[T \ {c[T]}] \in X
    <3> DEFINE i == Max(T)
               y == it[T \ {i}]
    <3>1. c[T] = i /\ i \in D /\ y \in X
      BY <1>2 DEF c
    <3>2. it[T] = Next1(i, y)
      BY <1>9
    <3> HIDE DEF i, y
    <3>3. QED
      BY <1>5, <3>1, <3>2
  <2>3. it[D] \in X
    <3> HIDE DEF D
    <3>1. \A T \in SUBSET D : it[T] \in X
      BY <1>1, <1>2, <2>1, <2>2, FoldStays
    <3>2. QED
      BY <3>1
  <2>4. QED
    BY <2>3 DEF X
<1>11. FileInfos(s) \in Seq(F)
  BY <1>10, FoldOfFiles, Zenon DEF it, D
<1> DEFINE all == FileInfos(s)
<1> HIDE DEF all
<1>12. all \in Seq(F)
  BY <1>11 DEF all
<1>13. IsList(all) /\ \A i \in DOMAIN all : all[i] \in F
  BY <1>12, ListOfAny
<1>14. QED
  BY <1>4, <1>13 DEF IsFiles, all

LEMMA JobFiles ==
    ASSUME NEW j \in Jobs
    PROVE  IsFiles(j.inputs) /\ j.fileLimit \in Nat
<1>1. IsList(j.inputs) /\ j.fileLimit \in Nat
  BY OutputAssumption DEF IsList
<1>2. ASSUME NEW f \in Range(j.inputs)
      PROVE  IsFile(f)
  <2>1. f \in [las : BOOLEAN, version : Nat, dims : Seq(STRING), scale : [Axes -> Nat],
               offset : [Axes -> Int], points : Seq([Range(f.dims) -> Int])]
    BY OutputAssumption
  <2>2. f.dims \in Seq(STRING) /\ f.points \in Seq([Range(f.dims) -> Int])
    BY <2>1
  <2>3. IsList(f.dims) /\ IsList(f.points)
    BY <2>2, ListOfAny
  <2>4. f = [x \in DOMAIN f |-> f[x]] /\ {"points", "dims", "scale", "offset"} \subseteq DOMAIN f
    BY <2>1
  <2>5. f.scale \in [Axes -> Nat] /\ f.offset \in [Axes -> Int]
    BY <2>1
  <2>6. /\ Axes \subseteq Range(f.dims)
        /\ \A p \in Range(f.points) : InReach(p)
    BY OutputAssumption
  <2>7. \A p \in Range(f.points) : Reached(p)
    <3> TAKE p \in Range(f.points)
    <3>1. p \in [Range(f.dims) -> Int]
      BY <2>2, ElementsOf
    <3>2. \A a \in Axes : p[a] \in Int
      BY <2>6, <3>1
    <3>3. QED
      BY <2>6, <3>2 DEF Reached
  <2>8. QED
    BY <2>3, <2>4, <2>5, <2>6, <2>7 DEF IsFile
<1>3. \A i \in DOMAIN j.inputs : j.inputs[i] \in Range(j.inputs)
  BY DEF Range
<1>4. QED
  BY <1>1, <1>2, <1>3 DEF IsFiles

\* The files that FilePrep looks at, before it cuts their number.
Filtered(j) ==
    LET all == FileInfos(j.inputs) IN [i \in DOMAIN all |-> FilterDims(all[i], j.dimNames)]

LEMMA FilteredAreFiles ==
    ASSUME NEW j \in Jobs
    PROVE  IsFiles(Filtered(j))
<1> DEFINE all == FileInfos(j.inputs)
           infos == [i \in DOMAIN all |-> FilterDims(all[i], j.dimNames)]
<1>1. IsFiles(all)
  BY JobFiles, InfosAreFiles
<1>2. Filtered(j) = infos
  BY DEF Filtered
<1> HIDE DEF all
<1>3. Len(all) \in Nat /\ DOMAIN all = 1..Len(all) /\ \A i \in DOMAIN all : IsFile(all[i])
  BY <1>1, ListDomain DEF IsFiles
<1>4. \A i \in DOMAIN all : IsFile(FilterDims(all[i], j.dimNames))
  BY <1>3, FilteredIsFile
<1>5. DOMAIN infos = 1..Len(all) /\ infos = [i \in 1..Len(all) |-> infos[i]]
  BY <1>3
<1> HIDE DEF infos
<1>6. IsList(infos)
  BY <1>3, <1>5, ListByIndex
<1>7. QED
  BY <1>2, <1>3, <1>4, <1>6 DEF IsFiles, infos

LEMMA BaseInfoOf ==
    ASSUME NEW j \in Jobs
    PROVE  LET infos == Filtered(j)
               base  == BaseInfo(j)
           IN  /\ base.dims = OutputDims(infos) /\ base.scale = Scale(infos)
               /\ base.bounds = Bounds(infos, j.doCube, base.scale)
               /\ base.offset = Offset(infos, base.scale)
               /\ \A i \in DOMAIN base.infos : i \in DOMAIN infos /\ base.infos[i] = infos[i]
<1> DEFINE infos == Filtered(j)
           base == BaseInfo(j)
           limit == IF Len(infos) < j.fileLimit THEN Len(infos) ELSE j.fileLimit
<1>1. /\ base.infos = SubSeq(infos, 1, limit)
      /\ base.dims = OutputDims(infos) /\ base.scale = Scale(infos)
      /\ base.bounds = Bounds(infos, j.doCube, base.scale)
      /\ base.offset = Offset(infos, base.scale)
  BY DEF BaseInfo, Filtered
<1> HIDE DEF infos, base
<1>2. IsFiles(infos) /\ j.fileLimit \in Nat
  BY FilteredAreFiles, JobFiles DEF infos
<1>3. limit \in Nat /\ limit <= Len(infos) /\ DOMAIN infos = 1..Len(infos) /\ Len(infos) \in Nat
  BY <1>2, ListDomain DEF IsFiles
<1> HIDE DEF limit
<1>4. SubSeq(infos, 1, limit) = [i \in 1..limit |-> infos[i]]
  <2>1. /\ Len(SubSeq(infos, 1, limit)) = limit
        /\ \A i \in 1..limit : SubSeq(infos, 1, limit)[i] = infos[i]
    BY <1>3, SubSeqProperties
  <2>2. QED
    BY <1>3, <2>1
<1>5. \A i \in DOMAIN base.infos : i \in DOMAIN infos /\ base.infos[i] = infos[i]
  BY <1>1, <1>3, <1>4
<1>6. QED
  BY <1>1, <1>5 DEF infos, base

\* What the phases after FilePrep count on.
InfoOK(i) == IsFiles(i.infos) /\ IsFiniteSet(i.dims) /\ i.format \in {6, 7, 8}

LEMMA BaseInfoIsOK ==
    ASSUME NEW j \in Jobs
    PROVE  InfoOK(BaseInfo(j))
<1> DEFINE infos == Filtered(j)
           dims == OutputDims(infos)
           limit == IF Len(infos) < j.fileLimit THEN Len(infos) ELSE j.fileLimit
           base == BaseInfo(j)
<1>1. base.infos = SubSeq(infos, 1, limit) /\ base.dims = dims /\ base.format = PointFormat(dims)
  BY DEF BaseInfo, Filtered
<1> HIDE DEF base
<1>2. IsFiles(infos)
  BY FilteredAreFiles
<1> HIDE DEF infos, dims
<1>3. IsFiles(base.infos)
  <2>1. limit \in Nat /\ limit <= Len(infos) /\ DOMAIN infos = 1..Len(infos)
    BY <1>2, ListDomain, JobFiles DEF IsFiles
  <2> DEFINE S == {infos[x] : x \in 1..limit}
             part == SubSeq(infos, 1, limit)
  <2> HIDE DEF limit
  <2>2. part \in Seq(S)
    BY <2>1, SubSeqProperties
  <2>3. \A f \in S : IsFile(f)
    BY <1>2, <2>1 DEF IsFiles
  <2> HIDE DEF S, part
  <2>4. IsList(part) /\ \A i \in DOMAIN part : part[i] \in S
    BY <2>2, ListOfAny
  <2>5. IsFiles(part)
    BY <2>3, <2>4 DEF IsFiles
  <2>6. QED
    BY <1>1, <2>5 DEF part, limit
<1>4. IsFiniteSet(base.dims)
  <2> DEFINE names == [i \in DOMAIN infos |-> Range(infos[i].dims)]
             U == UNION {names[i] : i \in DOMAIN infos}
             image == [d \in U |-> OutputDim(d)]
  <2>1. IsFiniteSet(DOMAIN infos) /\ \A i \in DOMAIN infos : IsFiniteSet(names[i])
    BY <1>2, ListDomain DEF IsFiles, IsFile
  <2> HIDE DEF names
  <2>2. IsFiniteSet(U)
    BY <2>1, FiniteUnion
  <2>3. U = UNION {Range(infos[i].dims) : i \in DOMAIN infos}
    BY DEF names
  <2> HIDE DEF U, image
  <2>4. IsFiniteSet({image[d] : d \in U})
    BY <2>2, FiniteImage
  <2>5. dims = {OutputDim(d) : d \in U}
    BY <2>3 DEF dims, OutputDims
  <2>6. {image[d] : d \in U} = {OutputDim(d) : d \in U}
    BY DEF image
  <2>7. QED
    BY <1>1, <2>4, <2>5, <2>6
<1>5. base.format \in {6, 7, 8}
  BY <1>1 DEF PointFormat
<1>6. QED
  BY <1>3, <1>4, <1>5 DEF InfoOK, base

\* So there are finitely many points.
LEMMA SourcesFinite ==
    ASSUME IsFiles(info.infos)
    PROVE  IsFiniteSet(Sources)
<1> DEFINE D == DOMAIN info.infos
           of == [i \in D |-> {<<i, j>> : j \in DOMAIN info.infos[i].points}]
<1>1. IsFiniteSet(D)
  BY ListDomain DEF IsFiles
<1>2. \A i \in D : IsFiniteSet(of[i])
  <2> TAKE i \in D
  <2> DEFINE P == DOMAIN info.infos[i].points
             pair == [j \in P |-> <<i, j>>]
  <2>1. IsFiniteSet(P)
    BY ListDomain DEF IsFiles, IsFile
  <2> HIDE DEF P, pair
  <2>2. IsFiniteSet({pair[j] : j \in P})
    BY <2>1, FiniteImage
  <2>3. of[i] = {pair[j] : j \in P}
    BY DEF pair, P
  <2>4. QED
    BY <2>2, <2>3
<1>3. Sources = UNION {of[i] : i \in D}
  BY DEF Sources
<1> HIDE DEF D, of
<1>4. QED
  BY <1>1, <1>2, <1>3, FiniteUnion

-----------------------------------------------------------------------------
(* The arithmetic of scale, offset and grid.                               *)

LEMMA Extremes ==
    ASSUME NEW S, IsFiniteSet(S), S \subseteq Int, S # {}
    PROVE  /\ Least(S) \in S /\ \A x \in S : Least(S) <= x
           /\ Greatest(S) \in S /\ \A x \in S : x <= Greatest(S)
<1> DEFINE Bounded(T) == \E l \in T, h \in T : \A x \in T : l <= x /\ x <= h
           G == {T \in SUBSET S : T # {} => Bounded(T)}
<1>1. {} \in G
  OBVIOUS
<1>2. ASSUME NEW T \in SUBSET S, NEW y \in S \ T, T \in G
      PROVE  T \cup {y} \in G
  <2>1. CASE T = {}
    <3>1. y <= y
      OBVIOUS
    <3>2. QED
      BY <2>1, <3>1
  <2>2. CASE T # {}
    <3>1. PICK l \in T, h \in T : \A x \in T : l <= x /\ x <= h
      BY <1>2, <2>2
    <3>2. \A x \in T : x \in Int
      OBVIOUS
    <3>3. y \in Int /\ l \in Int /\ h \in Int
      BY <3>2
    <3> DEFINE m == IF y < l THEN y ELSE l
               n == IF h < y THEN y ELSE h
    <3>4. m \in T \cup {y} /\ n \in T \cup {y}
      OBVIOUS
    <3>5. \A x \in T \cup {y} : m <= x /\ x <= n
      BY <3>1, <3>2, <3>3
    <3> HIDE DEF m, n
    <3>6. Bounded(T \cup {y})
      BY <3>4, <3>5
    <3>7. QED
      BY <3>6
  <2>3. QED
    BY <2>1, <2>2
<1> HIDE DEF G
<1>3. S \in G
  BY <1>1, <1>2, InductionOnSets
<1>4. PICK l \in S, h \in S : \A x \in S : l <= x /\ x <= h
  BY <1>3 DEF G
<1>5. Least(S) \in S /\ \A x \in S : Least(S) <= x
  BY <1>4 DEF Least
<1>6. Greatest(S) \in S /\ \A x \in S : x <= Greatest(S)
  BY <1>4 DEF Greatest
<1>7. QED
  BY <1>5, <1>6

LEMMA DivisionOf ==
    ASSUME NEW a \in Int, NEW b \in Nat \ {0}
    PROVE  a \div b \in Int /\ b * (a \div b) <= a /\ a < b * (a \div b) + b
OBVIOUS

\* What is rounded is no more than half a step away.
LEMMA RoundIsNear ==
    ASSUME NEW n \in Int, NEW d \in Nat \ {0}
    PROVE  Round(n, d) \in Int /\ 2 * (Round(n, d) * d - n) <= d /\ 2 * (n - Round(n, d) * d) <= d
<1>1. 2 * d \in Nat \ {0} /\ 2 * n + d \in Int /\ d - 2 * n \in Int
  OBVIOUS
<1>2. CASE n >= 0
  <2> DEFINE q == (2 * n + d) \div (2 * d)
  <2>1. q \in Int /\ (2 * d) * q <= 2 * n + d /\ 2 * n + d < (2 * d) * q + 2 * d
    BY <1>1, DivisionOf
  <2>2. Round(n, d) = q
    BY <1>2 DEF Round
  <2> HIDE DEF q
  <2>3. (2 * d) * q = 2 * (q * d) /\ q * d \in Int
    BY <2>1
  <2> DEFINE m == q * d
  <2> HIDE DEF m
  <2>4. m \in Int /\ 2 * m <= 2 * n + d /\ 2 * n + d < 2 * m + 2 * d
    BY <2>1, <2>3 DEF m
  <2>5. 2 * (m - n) <= d /\ 2 * (n - m) <= d
    BY <2>4
  <2>6. QED
    BY <2>1, <2>2, <2>5 DEF m
<1>3. CASE ~(n >= 0)
  <2> DEFINE q == (d - 2 * n) \div (2 * d)
  <2>1. q \in Int /\ (2 * d) * q <= d - 2 * n /\ d - 2 * n < (2 * d) * q + 2 * d
    BY <1>1, DivisionOf
  <2>2. Round(n, d) = -q
    BY <1>3 DEF Round
  <2> HIDE DEF q
  <2>3. (2 * d) * q = -(2 * ((-q) * d)) /\ (-q) * d \in Int
    BY <2>1
  <2> DEFINE m == (-q) * d
  <2> HIDE DEF m
  <2>4. m \in Int /\ -(2 * m) <= d - 2 * n /\ d - 2 * n < -(2 * m) + 2 * d
    BY <2>1, <2>3 DEF m
  <2>5. 2 * (m - n) <= d /\ 2 * (n - m) <= d
    BY <2>4
  <2>6. -q \in Int
    BY <2>1
  <2>7. QED
    BY <2>2, <2>5, <2>6 DEF m
<1>4. QED
  BY <1>2, <1>3

\* A quantized coordinate is near, and is what a reader makes of its steps.
LEMMA QuantizeIsNear ==
    ASSUME NEW x \in Int, NEW s \in Nat \ {0}, NEW o \in Int
    PROVE  LET v == Quantize(x, s, o) IN
             /\ v \in Int /\ v - s <= x /\ x <= v + s
             /\ ((v - o) \div s) * s + o = v
<1> DEFINE r == Round(x - o, s)
           m == r * s
<1>1. x - o \in Int
  OBVIOUS
<1>2. r \in Int /\ 2 * (r * s - (x - o)) <= s /\ 2 * ((x - o) - r * s) <= s
  BY <1>1, RoundIsNear
<1> HIDE DEF r
<1>3. m \in Int /\ 2 * (m - (x - o)) <= s /\ 2 * ((x - o) - m) <= s
  BY <1>2
<1>4. Quantize(x, s, o) = m + o
  BY DEF Quantize, r
<1>5. ((m + o) - o) \div s = r
  <2>1. (m + o) - o = m
    BY <1>3
  <2>2. m \div s = r
    BY <1>2
  <2>3. QED
    BY <2>1, <2>2
<1> DEFINE v == Quantize(x, s, o)
<1>6. ((v - o) \div s) * s + o = v
  BY <1>4, <1>5
<1> HIDE DEF m, v
<1>7. v = m + o /\ v \in Int
  BY <1>3, <1>4 DEF v
<1>8. v - s <= x /\ x <= v + s
  BY <1>3, <1>7
<1>9. QED
  BY <1>6, <1>7, <1>8 DEF v

LEMMA CellsType == \A l \in Nat : Cells[l] \in Nat \ {0}
<1> DEFINE S == Nat \ {0}
           step == [n \in Nat |-> [c \in S |-> 2 * c]]
           IsCells(f) == f = [l \in Nat |-> IF l = 0 THEN 1 ELSE 2 * f[l - 1]]
<1>1. step \in [Nat -> [S -> S]]
  OBVIOUS
<1>2. PICK one \in S : one = 1
  OBVIOUS
<1> HIDE DEF step, S
<1>3. PICK f \in [Nat -> S] : f = [n \in Nat |-> IF n = 0 THEN one ELSE step[n][f[n - 1]]]
  BY <1>1, RecursionOnNat
<1>4. \A l \in Nat : f[l] = IF l = 0 THEN 1 ELSE 2 * f[l - 1]
  <2> TAKE l \in Nat
  <2>1. CASE l = 0
    BY <1>2, <1>3, <2>1
  <2>2. CASE l # 0
    <3>1. l - 1 \in Nat
      BY <2>2
    <3>2. f[l - 1] \in S /\ f[l] = step[l][f[l - 1]]
      BY <1>3, <2>2, <3>1
    <3>3. QED
      BY <2>2, <3>2 DEF step
  <2>3. QED
    BY <2>1, <2>2
<1>5. f = [l \in Nat |-> f[l]]
  BY <1>3
<1>6. IsCells(f)
  BY <1>4, <1>5
<1>7. Cells = CHOOSE g : IsCells(g)
  BY DEF Cells
<1> HIDE DEF IsCells
<1>8. IsCells(Cells)
  BY <1>6, <1>7, Zenon
<1> DEFINE G == {l \in Nat : Cells[l] \in S}
<1>9. 0 \in G
  BY <1>8 DEF IsCells, S
<1>10. ASSUME NEW l \in Nat, l \in G
       PROVE  l + 1 \in G
  <2>1. Cells[l + 1] = 2 * Cells[l]
    BY <1>8 DEF IsCells
  <2>2. QED
    BY <1>10, <2>1 DEF S
<1> HIDE DEF G
<1>11. \A l \in Nat : l \in G
  BY <1>9, <1>10, InductionOnNat
<1>12. QED
  BY <1>11 DEF G, S

\* A position inside of the bounds lies in the cell of its key, at every level: also
\* one on the upper end, which is put in the last cell.
LEMMA InCell ==
    ASSUME NEW b, NEW a \in Axes, b[a].min \in Int, b[a].max \in Int, b[a].min < b[a].max,
           NEW p, p[a] \in Int, b[a].min <= p[a], p[a] <= b[a].max, NEW l \in Nat
    PROVE  LET k == Key(b, p, l) IN
             /\ k.pos[a] \in Nat
             /\ Side(b, a) * k.pos[a] <= (p[a] - b[a].min) * Cells[l]
             /\ (p[a] - b[a].min) * Cells[l] <= Side(b, a) * (k.pos[a] + 1)
<1> DEFINE c == Cells[l]
           z == Side(b, a)
           e == p[a] - b[a].min
           y == e * c
           i == y \div z
           j == IF i < 0 THEN 0 ELSE IF i >= c THEN c - 1 ELSE i
<1>1. c \in Nat \ {0} /\ z \in Nat \ {0} /\ e \in Nat /\ e <= z
  BY CellsType DEF Side
<1>2. Key(b, p, l).pos[a] = j
  BY DEF Key, Position
<1> HIDE DEF c, z, e
<1>3. y \in Nat /\ y <= z * c
  BY <1>1
<1> HIDE DEF y
<1>4. i \in Int /\ z * i <= y /\ y < z * i + z
  <2>1. y \in Int /\ z \in Nat \ {0}
    BY <1>1, <1>3
  <2>2. QED
    BY <2>1, DivisionOf, Zenon
<1> HIDE DEF i
<1>5. i >= 0
  <2>1. SUFFICES ASSUME i <= -1 PROVE FALSE
    BY <1>4
  <2>2. z * i <= -z
    BY <1>1, <1>4, <2>1
  <2>3. z * i \in Int
    BY <1>1, <1>4
  <2> DEFINE m == z * i
  <2> HIDE DEF m
  <2>4. m \in Int /\ m <= -z /\ y < m + z
    BY <1>4, <2>2, <2>3 DEF m
  <2>5. QED
    BY <1>1, <1>3, <2>4
<1>6. CASE i >= c
  <2>1. j = c - 1
    BY <1>1, <1>4, <1>5, <1>6
  <2>2. z * (c - 1) <= z * i
    BY <1>1, <1>4, <1>6
  <2>3. z * (c - 1) \in Int /\ z * i \in Int /\ z * ((c - 1) + 1) = z * c
    BY <1>1, <1>4
  <2>4. z * (c - 1) <= y
    BY <1>3, <1>4, <2>2, <2>3
  <2>5. c - 1 \in Nat /\ z * (c - 1) <= y /\ y <= z * ((c - 1) + 1)
    BY <1>1, <1>3, <2>3, <2>4
  <2>6. QED
    BY <1>2, <2>1, <2>5 DEF y, z, e, c
<1>7. CASE i < c
  <2>1. j = i /\ i \in Nat
    BY <1>1, <1>4, <1>5, <1>7
  <2>2. z * (i + 1) = z * i + z /\ z * i \in Int
    BY <1>1, <1>4
  <2>3. z * i <= y /\ y <= z * (i + 1)
    BY <1>1, <1>3, <1>4, <2>2
  <2>4. QED
    BY <1>2, <2>1, <2>3 DEF y, z, e, c
<1>8. QED
  BY <1>1, <1>4, <1>6, <1>7

\* A list of numbers has a median, which is one of them.
LEMMA MedianType ==
    ASSUME NEW s, IsList(s), Len(s) > 0, \A i \in DOMAIN s : s[i] \in Int
    PROVE  Median(s) \in Int
<1> DEFINE D == DOMAIN s
           half == Len(s) \div 2
           upto(x) == {i \in D : s[i] <= x}
           under(x) == {i \in D : s[i] < x}
           V == Range(s)
           good == {x \in V : Cardinality(upto(x)) > half}
<1>1. /\ Len(s) \in Nat /\ D = 1..Len(s) /\ IsFiniteSet(D) /\ IsFiniteSet(V)
      /\ V \subseteq Int /\ V # {} /\ \A i \in D : s[i] \in V
  <2>1. Len(s) \in Nat /\ D = 1..Len(s) /\ IsFiniteSet(D) /\ IsFiniteSet(V)
    BY ListDomain
  <2>2. 1 \in D
    BY <2>1
  <2>3. QED
    BY <2>1, <2>2 DEF Range
<1>2. half \in Nat /\ half < Len(s) /\ Cardinality(D) = Len(s)
  <2>1. half \in Nat /\ half < Len(s)
    BY <1>1
  <2>2. 1 \in Int /\ Len(s) \in Int
    BY <1>1
  <2>3. Cardinality(1..Len(s)) = Len(s)
    BY <1>1, <2>2, FS_Interval
  <2>4. QED
    BY <1>1, <2>1, <2>3
<1> HIDE DEF half
<1>3. \A x : IsFiniteSet(upto(x)) /\ Cardinality(upto(x)) \in Nat
  <2> TAKE x
  <2>1. upto(x) \in SUBSET D
    OBVIOUS
  <2>2. IsFiniteSet(upto(x))
    BY <1>1, <2>1, FS_Subset
  <2>3. QED
    BY <2>2, FS_CardinalityType
<1>4. good # {}
  <2> DEFINE g == Greatest(V)
  <2>1. g \in V /\ \A x \in V : x <= g
    BY <1>1, Extremes
  <2> HIDE DEF g
  <2>2. upto(g) = D
    BY <1>1, <2>1
  <2>3. QED
    BY <1>2, <2>1, <2>2
<1>5. IsFiniteSet(good) /\ good \subseteq Int
  <2>1. good \in SUBSET V
    OBVIOUS
  <2> HIDE DEF good, V
  <2>2. QED
    BY <1>1, <2>1, FS_Subset
<1> DEFINE x == Least(good)
<1>6. x \in good /\ \A y \in good : x <= y
  <2> HIDE DEF good
  <2>1. QED
    BY <1>4, <1>5, Extremes
<1> HIDE DEF x
<1>7. x \in V /\ x \in Int /\ Cardinality(upto(x)) > half
  BY <1>1, <1>6
<1>8. Cardinality(under(x)) <= half
  <2>1. CASE under(x) = {}
    BY <1>2, <2>1, FS_EmptySet
  <2>2. CASE under(x) # {}
    <3> DEFINE W == {s[i] : i \in under(x)}
               y == Greatest(W)
    <3>1. under(x) \in SUBSET D
      OBVIOUS
    <3>2. IsFiniteSet(under(x))
      BY <1>1, <3>1, FS_Subset
    <3>3. IsFiniteSet(W)
      BY <3>2, FiniteImage
    <3>4. W \subseteq Int /\ W # {} /\ W \subseteq V /\ \A w \in W : w < x
      BY <1>1, <2>2
    <3>5. y \in W /\ \A w \in W : w <= y
      <4> HIDE DEF W
      <4>1. QED
        BY <3>3, <3>4, Extremes
    <3> HIDE DEF y
    <3>6. y \in V /\ y \in Int /\ y < x
      BY <3>4, <3>5
    <3>7. upto(y) = under(x)
      <4>1. ASSUME NEW i \in D
            PROVE  s[i] <= y <=> s[i] < x
        <5>1. s[i] \in Int /\ s[i] < x => s[i] \in W
          BY <1>1
        <5>2. QED
          BY <1>7, <3>5, <3>6, <5>1
      <4>2. QED
        BY <4>1
    <3>8. y \notin good
      BY <1>6, <1>7, <3>6
    <3>9. ~(Cardinality(upto(y)) > half) /\ Cardinality(upto(y)) \in Nat
      BY <1>3, <3>6, <3>8
    <3> DEFINE n == Cardinality(upto(y))
    <3>10. n = Cardinality(under(x))
      BY <3>7
    <3>11. n \in Nat /\ ~(n > half)
      BY <3>9
    <3> HIDE DEF n
    <3>12. n <= half
      BY <1>2, <3>11
    <3>13. QED
      BY <3>10, <3>12
  <2>3. QED
    BY <2>1, <2>2
<1> DEFINE Is(z) == Cardinality(under(z)) <= half /\ Cardinality(upto(z)) > half
<1>9. Median(s) = CHOOSE z \in V : Is(z)
  BY DEF Median, half
<1>10. \E z \in V : Is(z)
  BY <1>7, <1>8
<1> HIDE DEF Is
<1>11. Median(s) \in V
  BY <1>9, <1>10
<1>12. QED
  BY <1>1, <1>11

\* The coordinates of the points lie between the lowest and the highest, and those
\* are no farther apart than a scale reaches.
LEMMA Spread ==
    ASSUME NEW infos, IsFiles(infos), NEW i \in DOMAIN infos, NEW p \in Range(infos[i].points),
           NEW a \in Axes
    PROVE  /\ p[a] \in Int /\ Low(infos, a) \in Int /\ High(infos, a) \in Int
           /\ Low(infos, a) <= p[a] /\ p[a] <= High(infos, a)
           /\ High(infos, a) - Low(infos, a) <= 2 * Coarsest * ScaleLimit
<1> DEFINE D == DOMAIN infos
           of == [k \in D |-> {q[a] : q \in Range(infos[k].points)}]
           U == UNION {of[k] : k \in D}
           reach == Coarsest * ScaleLimit
<1>1. reach \in Nat
  BY PrepAssumption DEF Coarsest
<1>2. IsFiniteSet(D) /\ \A k \in D : IsFile(infos[k])
  BY ListDomain DEF IsFiles
<1>3. \A k \in D : IsFiniteSet(of[k])
  <2> TAKE k \in D
  <2> DEFINE P == Range(infos[k].points)
             at == [q \in P |-> q[a]]
  <2>1. IsFiniteSet(P)
    BY <1>2, ListDomain DEF IsFile
  <2> HIDE DEF P, at
  <2>2. IsFiniteSet({at[q] : q \in P})
    BY <2>1, FiniteImage
  <2>3. of[k] = {at[q] : q \in P}
    BY DEF at, P
  <2>4. QED
    BY <2>2, <2>3
<1>4. ASSUME NEW k \in D, NEW q \in Range(infos[k].points)
      PROVE  q[a] \in Int /\ -reach <= q[a] /\ q[a] <= reach
  <2>1. Reached(q)
    BY <1>2 DEF IsFile
  <2>2. q[a] \in Int /\ Abs(q[a]) <= reach
    BY <2>1 DEF Reached, InReach
  <2> HIDE DEF reach
  <2>3. QED
    BY <1>1, <2>2 DEF Abs
<1>5. \A x \in U : x \in Int /\ -reach <= x /\ x <= reach
  <2> TAKE x \in U
  <2>1. PICK k \in D : x \in of[k]
    OBVIOUS
  <2>2. PICK q \in Range(infos[k].points) : x = q[a]
    BY <2>1
  <2>3. QED
    BY <1>4, <2>2
<1>6. U = UNION {{q[a] : q \in Range(infos[k].points)} : k \in DOMAIN infos}
  OBVIOUS
<1>7. p[a] \in U
  BY <1>6
<1>8. Low(infos, a) = Least(U) /\ High(infos, a) = Greatest(U)
  BY <1>6 DEF Low, High
<1>9. IsFiniteSet(U)
  <2> HIDE DEF of, D
  <2>1. QED
    BY <1>2, <1>3, FiniteUnion
<1> HIDE DEF U
<1>10. U \subseteq Int /\ U # {}
  BY <1>5, <1>7
<1> DEFINE l == Least(U)
           h == Greatest(U)
<1>11. l \in U /\ h \in U /\ \A x \in U : l <= x /\ x <= h
  BY <1>9, <1>10, Extremes
<1> HIDE DEF l, h, reach
<1>12. l \in Int /\ h \in Int /\ -reach <= l /\ h <= reach
  BY <1>5, <1>11
<1>13. h - l <= 2 * reach
  BY <1>1, <1>12
<1>14. 2 * reach = 2 * Coarsest * ScaleLimit
  BY PrepAssumption DEF reach, Coarsest
<1>15. QED
  BY <1>5, <1>7, <1>8, <1>11, <1>12, <1>13, <1>14 DEF l, h

LEMMA LeastOfSome ==
    ASSUME NEW T, IsFiniteSet(T), T \subseteq Nat \ {0}, NEW S \in SUBSET T, S # {}
    PROVE  Least(S) \in Nat \ {0}
<1>1. IsFiniteSet(S)
  BY FS_Subset
<1>2. S \subseteq Int
  OBVIOUS
<1>3. Least(S) \in S
  BY <1>1, <1>2, Extremes
<1>4. QED
  BY <1>3

LEMMA FourAreFinite ==
    ASSUME NEW a, NEW b, NEW c, NEW d
    PROVE  IsFiniteSet({a, b, c, d})
<1>1. IsFiniteSet({a})
  BY FS_Singleton
<1>2. IsFiniteSet({a} \cup {b})
  BY <1>1, FS_AddElement
<1>3. IsFiniteSet(({a} \cup {b}) \cup {c})
  BY <1>2, FS_AddElement
<1>4. IsFiniteSet((({a} \cup {b}) \cup {c}) \cup {d})
  BY <1>3, FS_AddElement
<1>5. {a, b, c, d} = (({a} \cup {b}) \cup {c}) \cup {d}
  OBVIOUS
<1>6. QED
  BY <1>4, <1>5

LEMMA ScaleType ==
    ASSUME NEW infos, IsFiles(infos), NEW i \in DOMAIN infos, NEW p \in Range(infos[i].points)
    PROVE  \A a \in Axes : Scale(infos)[a] \in Nat \ {0}
<1> DEFINE of(a) == {infos[k].scale[a] : k \in DOMAIN infos}
           coarse == [a \in Axes |-> Greatest({0} \cup of(a))]
<1>1. \A a \in Axes : coarse[a] \in Nat
  <2> TAKE a \in Axes
  <2> DEFINE S == {0} \cup of(a)
             at == [k \in DOMAIN infos |-> infos[k].scale[a]]
  <2>1. \A k \in DOMAIN infos : infos[k].scale[a] \in Nat
    BY DEF IsFiles, IsFile
  <2>2. IsFiniteSet(DOMAIN infos)
    BY ListDomain DEF IsFiles
  <2>3. IsFiniteSet({at[k] : k \in DOMAIN infos})
    <3> HIDE DEF at
    <3>1. QED
      BY <2>2, FiniteImage
  <2>4. of(a) = {at[k] : k \in DOMAIN infos}
    OBVIOUS
  <2> HIDE DEF at
  <2>5. IsFiniteSet(of(a))
    BY <2>3, <2>4
  <2>6. S = of(a) \cup {0} /\ S \subseteq Nat /\ S # {}
    BY <2>1
  <2> HIDE DEF of
  <2>7. IsFiniteSet(S)
    BY <2>5, <2>6, FS_AddElement
  <2> HIDE DEF S
  <2>8. S \subseteq Int
    BY <2>6
  <2>9. Greatest(S) \in S
    BY <2>6, <2>7, <2>8, Extremes
  <2>10. coarse[a] = Greatest(S)
    BY DEF S
  <2>11. QED
    BY <2>6, <2>9, <2>10
<1>2. ASSUME NEW a \in Axes
      PROVE  ScaleFromBounds(Low(infos, a), High(infos, a)) \in Nat \ {0}
  <2> DEFINE T == {1, 10, 100, Coarsest}
             S == {s \in T : High(infos, a) - Low(infos, a) <= 2 * s * ScaleLimit}
  <2>1. High(infos, a) - Low(infos, a) <= 2 * Coarsest * ScaleLimit
    BY Spread
  <2>2. Coarsest \in S
    BY <2>1
  <2>3. T \subseteq Nat \ {0}
    BY DEF Coarsest
  <2>4. IsFiniteSet(T)
    BY FourAreFinite
  <2>5. S \in SUBSET T /\ S # {}
    BY <2>2
  <2>6. ScaleFromBounds(Low(infos, a), High(infos, a)) = Least(S)
    BY DEF ScaleFromBounds
  <2> HIDE DEF S, T
  <2>7. QED
    BY <2>3, <2>4, <2>5, <2>6, LeastOfSome
<1> HIDE DEF of
<1>3. CASE \A a \in Axes : coarse[a] # 0
  <2>1. Scale(infos) = coarse
    BY <1>3 DEF Scale, of
  <2> HIDE DEF coarse
  <2>2. QED
    BY <1>1, <1>3, <2>1
<1>4. CASE ~(\A a \in Axes : coarse[a] # 0)
  <2>1. Scale(infos) = [a \in Axes |-> ScaleFromBounds(Low(infos, a), High(infos, a))]
    BY <1>4 DEF Scale, of
  <2>2. QED
    BY <1>2, <2>1
<1>5. QED
  BY <1>3, <1>4

LEMMA OffsetType ==
    ASSUME NEW infos, IsFiles(infos), NEW i \in DOMAIN infos, NEW p \in Range(infos[i].points),
           NEW scale, NEW a \in Axes, scale[a] \in Nat \ {0}
    PROVE  Offset(infos, scale)[a] \in Int
<1>1. ASSUME \A k \in DOMAIN infos : infos[k].las
      PROVE  Offset(infos, scale)[a] \in Int
  <2> DEFINE s == [k \in DOMAIN infos |-> infos[k].offset[a]]
             n == Len(infos)
  <2>1. n \in Nat /\ DOMAIN infos = 1..n /\ n > 0
    BY ListDomain DEF IsFiles
  <2>2. \A k \in DOMAIN infos : infos[k].offset[a] \in Int
    BY DEF IsFiles, IsFile
  <2>3. DOMAIN s = 1..n /\ s = [k \in 1..n |-> s[k]] /\ \A k \in DOMAIN s : s[k] \in Int
    BY <2>1, <2>2
  <2>4. Offset(infos, scale)[a] = Median(s)
    BY <1>1 DEF Offset
  <2> HIDE DEF s, n
  <2>5. IsList(s) /\ Len(s) = n
    BY <2>1, <2>3, ListByIndex
  <2>6. QED
    BY <2>1, <2>3, <2>4, <2>5, MedianType
<1>2. ASSUME ~(\A k \in DOMAIN infos : infos[k].las)
      PROVE  Offset(infos, scale)[a] \in Int
  <2> DEFINE low == Low(infos, a)
             high == High(infos, a)
             half == (high - low) \div (2 * scale[a])
             middle == low + half * scale[a]
  <2>1. low \in Int /\ high \in Int
    BY Spread
  <2>2. Offset(infos, scale)[a] = One * Round(middle, One)
    BY <1>2 DEF Offset, OffsetFromBounds
  <2> HIDE DEF low, high
  <2>3. high - low \in Int /\ 2 * scale[a] \in Nat \ {0}
    BY <2>1
  <2>4. half \in Int
    BY <2>3, DivisionOf
  <2> HIDE DEF half
  <2>5. middle \in Int /\ One \in Nat \ {0}
    BY <2>1, <2>4, PrepAssumption
  <2> HIDE DEF middle
  <2>6. Round(middle, One) \in Int
    BY <2>5, RoundIsNear
  <2>7. QED
    BY <2>2, <2>5, <2>6
<1>3. QED
  BY <1>1, <1>2

\* The greatest of the ranges, which is the side of a cube.
LEMMA WidestRange ==
    ASSUME NEW infos, IsFiles(infos), NEW i \in DOMAIN infos, NEW p \in Range(infos[i].points)
    PROVE  LET side == Greatest({High(infos, a) - Low(infos, a) : a \in Axes}) IN
             side \in Int /\ \A a \in Axes : High(infos, a) - Low(infos, a) <= side
<1> DEFINE range == [a \in Axes |-> High(infos, a) - Low(infos, a)]
           S == {range[a] : a \in Axes}
<1>1. \A a \in Axes : range[a] \in Int
  <2> TAKE a \in Axes
  <2>1. Low(infos, a) \in Int /\ High(infos, a) \in Int
    BY Spread
  <2>2. QED
    BY <2>1
<1>2. S = {High(infos, a) - Low(infos, a) : a \in Axes}
  OBVIOUS
<1>3. \A a \in Axes : range[a] = High(infos, a) - Low(infos, a)
  OBVIOUS
<1> HIDE DEF range
<1>4. IsFiniteSet(S)
  BY AxesAssumption, FiniteImage
<1>5. S \subseteq Int /\ S # {}
  BY <1>1, AxesAssumption
<1>6. \A a \in Axes : range[a] \in S
  OBVIOUS
<1> HIDE DEF S
<1>7. Greatest(S) \in S /\ \A x \in S : x <= Greatest(S)
  BY <1>4, <1>5, Extremes
<1>8. Greatest(S) \in Int /\ \A a \in Axes : range[a] <= Greatest(S)
  BY <1>5, <1>6, <1>7
<1> DEFINE g == Greatest(S)
<1>9. g = Greatest({High(infos, a) - Low(infos, a) : a \in Axes})
  BY <1>2
<1> HIDE DEF g
<1>10. g \in Int /\ \A a \in Axes : High(infos, a) - Low(infos, a) <= g
  BY <1>3, <1>8 DEF g
<1>11. QED
  BY <1>9, <1>10

\* The bounds have room for a step of the scale at both ends.
LEMMA BoundsHaveRoom ==
    ASSUME NEW infos, IsFiles(infos), NEW i \in DOMAIN infos, NEW p \in Range(infos[i].points),
           NEW doCube, NEW scale, \A a \in Axes : scale[a] \in Nat \ {0}
    PROVE  LET b == Bounds(infos, doCube, scale) IN
             /\ \A a \in Axes : /\ b[a].min \in Int /\ b[a].max \in Int /\ b[a].min < b[a].max
                                /\ p[a] \in Int /\ b[a].min <= p[a] - scale[a]
                                /\ p[a] + scale[a] <= b[a].max
             /\ doCube => \A a, c \in Axes : scale[a] = scale[c] => Side(b, a) = Side(b, c)
<1> DEFINE side == Greatest({High(infos, a) - Low(infos, a) : a \in Axes})
           b == Bounds(infos, doCube, scale)
           low(a) == Low(infos, a)
           high(a) == High(infos, a)
           top(a) == IF doCube THEN low(a) + side ELSE high(a)
<1>1. \A a \in Axes : b[a].min = low(a) - scale[a] /\ b[a].max = scale[a] + top(a)
  BY DEF Bounds
<1>2. side \in Int /\ \A a \in Axes : high(a) - low(a) <= side
  BY WidestRange
<1>3. \A a \in Axes : p[a] \in Int /\ low(a) \in Int /\ high(a) \in Int /\ low(a) <= p[a] /\ p[a] <= high(a)
  BY Spread
<1> HIDE DEF side, b, low, high
<1>4. \A a \in Axes : top(a) \in Int /\ high(a) <= top(a)
  BY <1>2, <1>3
<1>5. ASSUME NEW a \in Axes
      PROVE  /\ b[a].min \in Int /\ b[a].max \in Int /\ b[a].min < b[a].max
             /\ p[a] \in Int /\ b[a].min <= p[a] - scale[a]
             /\ p[a] + scale[a] <= b[a].max
  <2>1. b[a].min = low(a) - scale[a] /\ b[a].max = scale[a] + top(a) /\ scale[a] \in Nat \ {0}
    BY <1>1
  <2>2. top(a) \in Int /\ high(a) <= top(a)
    BY <1>4
  <2> HIDE DEF top
  <2>3. p[a] \in Int /\ low(a) \in Int /\ high(a) \in Int /\ low(a) <= p[a] /\ p[a] <= high(a)
    BY <1>3
  <2>4. QED
    BY <2>1, <2>2, <2>3
<1>6. ASSUME doCube, NEW a \in Axes, NEW c \in Axes, scale[a] = scale[c]
      PROVE  Side(b, a) = Side(b, c)
  <2>1. \A x \in Axes : /\ b[x].min = low(x) - scale[x] /\ b[x].max = scale[x] + (low(x) + side)
                        /\ scale[x] \in Nat /\ low(x) \in Int
    BY <1>1, <1>3, <1>6
  <2>2. \A x \in Axes : b[x].max - b[x].min = 2 * scale[x] + side
    BY <1>2, <2>1
  <2>3. QED
    BY <1>6, <2>2 DEF Side
<1>7. QED
  BY <1>5, <1>6 DEF b

\* What is made of a point of a file lies in the bounds, and in steps of the scale.
InBounds(base, data) ==
    \A a \in Axes :
        /\ base.scale[a] \in Nat \ {0} /\ base.bounds[a].min \in Int /\ base.bounds[a].max \in Int
        /\ base.bounds[a].min < base.bounds[a].max /\ data[a] \in Int
        /\ base.bounds[a].min <= data[a] /\ data[a] <= base.bounds[a].max
        /\ Steps(base, data, a) * base.scale[a] + base.offset[a] = data[a]

LEMMA FilledInBounds ==
    ASSUME NEW j \in Jobs, NEW i \in DOMAIN BaseInfo(j).infos,
           NEW n \in DOMAIN BaseInfo(j).infos[i].points, NEW s
    PROVE  /\ InBounds(BaseInfo(j), Fill(BaseInfo(j), BaseInfo(j).infos[i],
                                         BaseInfo(j).infos[i].points[n], s))
           /\ j.doCube /\ (\A a, b \in Axes : BaseInfo(j).scale[a] = BaseInfo(j).scale[b]) =>
                \A a, b \in Axes : Side(BaseInfo(j).bounds, a) = Side(BaseInfo(j).bounds, b)
<1> DEFINE base == BaseInfo(j)
           infos == Filtered(j)
           f == base.infos[i]
           p == f.points[n]
           data == Fill(base, f, p, s)
<1>1. /\ base.dims = OutputDims(infos) /\ base.scale = Scale(infos)
      /\ base.bounds = Bounds(infos, j.doCube, base.scale)
      /\ base.offset = Offset(infos, base.scale)
      /\ i \in DOMAIN infos /\ f = infos[i]
  BY BaseInfoOf
<1>2. IsFiles(infos)
  BY FilteredAreFiles
<1>3. p \in Range(f.points)
  BY DEF Range
<1> HIDE DEF base, infos, p
<1>4. IsFile(f) /\ p \in Range(infos[i].points) /\ i \in DOMAIN infos
  BY <1>1, <1>2, <1>3 DEF IsFiles
<1> HIDE DEF f
<1>5. \A a \in Axes : base.scale[a] \in Nat \ {0}
  BY <1>1, <1>2, <1>4, ScaleType
<1>6. /\ \A a \in Axes : /\ base.bounds[a].min \in Int /\ base.bounds[a].max \in Int
                         /\ base.bounds[a].min < base.bounds[a].max
                         /\ p[a] \in Int /\ base.bounds[a].min <= p[a] - base.scale[a]
                         /\ p[a] + base.scale[a] <= base.bounds[a].max
      /\ j.doCube => \A a, c \in Axes : base.scale[a] = base.scale[c] =>
                        Side(base.bounds, a) = Side(base.bounds, c)
  BY <1>1, <1>2, <1>4, <1>5, BoundsHaveRoom
<1>7. ASSUME NEW a \in Axes
      PROVE  data[a] = Quantize(p[a], base.scale[a], base.offset[a])
  <2>1. a \in Range(f.dims) /\ a \in Coords
    BY <1>4, PrepAssumption DEF IsFile
  <2>2. OutputDim(a) = a /\ a # Bits
    BY <2>1 DEF OutputDim, BitsDims, Coords, Bits
  <2>3. a \in {OutputDim(d) : d \in Range(f.dims)}
    BY <2>1, <2>2
  <2>4. a \in base.dims
    <3>1. a \in UNION {Range(infos[k].dims) : k \in DOMAIN infos}
      BY <1>1, <2>1
    <3>2. QED
      BY <1>1, <2>2, <3>1 DEF OutputDims
  <2> HIDE DEF data
  <2>5. QED
    BY <2>2, <2>3, <2>4 DEF data, Fill
<1> HIDE DEF data
<1>8. ASSUME NEW a \in Axes
      PROVE  /\ data[a] \in Int
             /\ base.bounds[a].min <= data[a] /\ data[a] <= base.bounds[a].max
             /\ Steps(base, data, a) * base.scale[a] + base.offset[a] = data[a]
  <2> DEFINE x == p[a]
             z == base.scale[a]
             o == base.offset[a]
             v == Quantize(x, z, o)
             l == base.bounds[a].min
             h == base.bounds[a].max
  <2>1. x \in Int /\ z \in Nat \ {0} /\ l \in Int /\ h \in Int /\ l <= x - z /\ x + z <= h
    BY <1>5, <1>6
  <2>2. o \in Int
    BY <1>1, <1>2, <1>4, <1>5, OffsetType
  <2>3. data[a] = v
    BY <1>7
  <2> HIDE DEF x, z, o, l, h
  <2>4. v \in Int /\ v - z <= x /\ x <= v + z /\ ((v - o) \div z) * z + o = v
    BY <2>1, <2>2, QuantizeIsNear
  <2> HIDE DEF v
  <2>5. l <= v /\ v <= h
    BY <2>1, <2>4
  <2>6. Steps(base, data, a) * base.scale[a] + base.offset[a] = v
    BY <2>3, <2>4 DEF Steps, z, o
  <2>7. QED
    BY <2>3, <2>4, <2>5, <2>6 DEF l, h
<1>9. InBounds(base, data)
  BY <1>5, <1>6, <1>8 DEF InBounds
<1>10. QED
  BY <1>6, <1>9 DEF base, data, f, p

-----------------------------------------------------------------------------
(* The header and the records after it.                                    *)

\* The sizes that the layout takes the records to have are theirs.
LEMMA SizesOfRecords == Bytes(Header14) = 375 /\ HeaderSize(4) = 375 /\ Bytes(VlrHeader) = 54
BY RecordsAreFull DEF HeaderSize, VlrHeaderSize

LEMMA LazSizeType ==
    ASSUME NEW i, i.format \in {6, 7, 8}, ExtraByteSize(i) \in Nat
    PROVE  LazSize(i) \in Nat
<1> DEFINE eb == ExtraByteSize(i)
           S == {<<"point14", 30>>, <<"rgb14", 6>>, <<"rgbnir14", 8>>, <<"byte14", eb>>}
           a == <<<<"point14", 30>>>>
           b == IF i.format = 7 THEN <<<<"rgb14", 6>>>> ELSE <<>>
           c == IF i.format = 8 THEN <<<<"rgbnir14", 8>>>> ELSE <<>>
           d == IF eb > 0 THEN <<<<"byte14", eb>>>> ELSE <<>>
<1>1. LazItems(i.format, eb) = a \o b \o c \o d
  BY DEF LazItems
<1>2. a \in Seq(S) /\ b \in Seq(S) /\ c \in Seq(S) /\ d \in Seq(S)
  OBVIOUS
<1> HIDE DEF a, b, c, d, S, eb
<1>3. a \o b \o c \o d \in Seq(S)
  BY <1>2
<1>4. Len(LazItems(i.format, eb)) \in Nat
  BY <1>1, <1>3
<1>5. QED
  BY <1>4 DEF LazSize, LazVlrSize, eb

\* How many extra bytes there are, for the layout and for a reader.
LEMMA ExtraBytesType ==
    ASSUME NEW i, InfoOK(i)
    PROVE  /\ Cardinality(ExtraDims(i.dims)) \in Nat
           /\ ExtraByteSize(i) = 2 * Cardinality(ExtraDims(i.dims))
           /\ EbCount(i.format + 128, BaseCount(i.format) + ExtraByteSize(i)) = ExtraByteSize(i)
<1>1. IsFiniteSet(ExtraDims(i.dims))
  BY FS_Subset DEF InfoOK, ExtraDims
<1>2. Cardinality(ExtraDims(i.dims)) \in Nat /\ ExtraByteSize(i) = 2 * Cardinality(ExtraDims(i.dims))
  BY <1>1, FS_CardinalityType DEF ExtraByteSize
<1>3. i.format \in {6, 7, 8}
  BY DEF InfoOK
<1>4. BaseCount(i.format + 128) = BaseCount(i.format) /\ BaseCount(i.format) \in {30, 36, 38}
  <2>1. CASE i.format = 6
    BY <2>1 DEF BaseCount
  <2>2. CASE i.format = 7
    BY <2>2 DEF BaseCount
  <2>3. CASE i.format = 8
    BY <2>3 DEF BaseCount
  <2>4. QED
    BY <1>3, <2>1, <2>2, <2>3
<1>5. QED
  BY <1>2, <1>4 DEF EbCount

\* The sizes of the records, with what comes before each.
VlrSizes(i) == [j \in 1..Len(VlrList(i)) |-> VlrHeaderSize + VlrList(i)[j][2]]

\* There are three or four records, and they end where the points begin.
LEMMA RecordsFit ==
    ASSUME NEW i, InfoOK(i)
    PROVE  /\ Len(VlrList(i)) \in Nat /\ DOMAIN VlrList(i) = 1..Len(VlrList(i))
           /\ VlrSizes(i) \in [1..Len(VlrList(i)) -> Nat]
           /\ \A j \in DOMAIN VlrList(i) : VlrList(i)[j][2] \in Nat
           /\ 375 + SumTo(VlrSizes(i), Len(VlrList(i)) + 1) = PointOffset(i)
<1> DEFINE v == VlrList(i)
           w == VlrSizes(i)
           eb == ExtraByteSize(i)
           rest == EbVlrSize(Cardinality(ExtraDims(i.dims)))
           laz == LazSize(i)
<1>1. eb \in Nat /\ rest \in Nat /\ laz \in Nat /\ WktSize \in Nat
  BY ExtraBytesType, LazSizeType, CopcAssumption DEF InfoOK, EbVlrSize
<1>2. PointOffset(i) = 375 + 54 + 160 + 54 + laz + 54 + WktSize + (IF eb = 0 THEN 0 ELSE 54 + rest)
  BY ExtraBytesType, SizesOfRecords DEF PointOffset, VlrHeaderSize, CopcInfoSize
<1>3. v = <<<<"copc", 160>>, <<"laszip", laz>>, <<"wkt", WktSize>>>>
            \o (IF eb = 0 THEN <<>> ELSE <<<<"eb", rest>>>>)
  BY DEF VlrList, CopcInfoSize
<1> HIDE DEF v, eb, rest, laz
<1>4. CASE eb = 0
  <2>1. Len(v) = 3 /\ DOMAIN v = 1..3 /\ v[1][2] = 160 /\ v[2][2] = laz /\ v[3][2] = WktSize
    BY <1>3, <1>4
  <2>2. w = [j \in 1..3 |-> 54 + v[j][2]]
    BY <2>1 DEF VlrSizes, VlrHeaderSize, v
  <2> HIDE DEF w
  <2>3. w \in [1..3 -> Nat] /\ w[1] = 54 + 160 /\ w[2] = 54 + laz /\ w[3] = 54 + WktSize
    BY <1>1, <2>1, <2>2
  <2>4. SumTo(w, 4) = 54 + 160 + 54 + laz + 54 + WktSize
    <3> 3 \in Nat /\ w \in [1..3 -> Nat]
      BY <2>3
    <3>1. /\ SumTo(w, 1) = 0
          /\ \A j \in 1..3 : SumTo(w, j) \in Nat /\ SumTo(w, j + 1) = SumTo(w, j) + w[j]
      BY SumToNext
    <3>2. SumTo(w, 2) = SumTo(w, 1) + w[1] /\ SumTo(w, 1) \in Nat
      BY <3>1
    <3>3. SumTo(w, 3) = SumTo(w, 2) + w[2] /\ SumTo(w, 2) \in Nat
      BY <3>1
    <3>4. SumTo(w, 4) = SumTo(w, 3) + w[3] /\ SumTo(w, 3) \in Nat
      BY <3>1
    <3>5. QED
      BY <1>1, <2>3, <3>1, <3>2, <3>3, <3>4
  <2>5. QED
    BY <1>1, <1>2, <1>4, <2>1, <2>3, <2>4 DEF v, w
<1>5. CASE eb # 0
  <2>1. /\ Len(v) = 4 /\ DOMAIN v = 1..4 /\ v[1][2] = 160 /\ v[2][2] = laz /\ v[3][2] = WktSize
        /\ v[4][2] = rest
    BY <1>3, <1>5
  <2>2. w = [j \in 1..4 |-> 54 + v[j][2]]
    BY <2>1 DEF VlrSizes, VlrHeaderSize, v
  <2> HIDE DEF w
  <2>3. /\ w \in [1..4 -> Nat] /\ w[1] = 54 + 160 /\ w[2] = 54 + laz /\ w[3] = 54 + WktSize
        /\ w[4] = 54 + rest
    BY <1>1, <2>1, <2>2
  <2>4. SumTo(w, 5) = 54 + 160 + 54 + laz + 54 + WktSize + 54 + rest
    <3> 4 \in Nat /\ w \in [1..4 -> Nat]
      BY <2>3
    <3>1. /\ SumTo(w, 1) = 0
          /\ \A j \in 1..4 : SumTo(w, j) \in Nat /\ SumTo(w, j + 1) = SumTo(w, j) + w[j]
      BY SumToNext
    <3>2. SumTo(w, 2) = SumTo(w, 1) + w[1] /\ SumTo(w, 1) \in Nat
      BY <3>1
    <3>3. SumTo(w, 3) = SumTo(w, 2) + w[2] /\ SumTo(w, 2) \in Nat
      BY <3>1
    <3>4. SumTo(w, 4) = SumTo(w, 3) + w[3] /\ SumTo(w, 3) \in Nat
      BY <3>1
    <3>5. SumTo(w, 5) = SumTo(w, 4) + w[4] /\ SumTo(w, 4) \in Nat
      BY <3>1
    <3>6. QED
      BY <1>1, <2>3, <3>1, <3>2, <3>3, <3>4, <3>5
  <2>5. QED
    BY <1>1, <1>2, <1>5, <2>1, <2>3, <2>4 DEF v, w
<1>6. QED
  BY <1>4, <1>5

\* The regions of a sequence are apart, and none goes beyond an end or before a start.
Laid(s, from, to) ==
    /\ IsFiniteSet(DOMAIN s)
    /\ \A i \in DOMAIN s : /\ s[i].at \in Int /\ s[i].len \in Nat
                           /\ from <= s[i].at /\ s[i].at + s[i].len <= to
    /\ \A i, j \in DOMAIN s : i # j => NoOverlap(s[i], s[j])

LEMMA Joined ==
    ASSUME NEW a, NEW b, IsList(a), IsList(b)
    PROVE  /\ IsList(a \o b) /\ Len(a \o b) = Len(a) + Len(b)
           /\ \A i \in 1..Len(a) : (a \o b)[i] = a[i]
           /\ \A i \in 1..Len(b) : (a \o b)[Len(a) + i] = b[i]
<1> DEFINE R == Range(a) \cup Range(b)
<1>1. Len(a) \in Nat /\ Len(b) \in Nat
  BY ListDomain
<1>2. /\ a \o b \in Seq(R) /\ Len(a \o b) = Len(a) + Len(b)
      /\ \A i \in 1..(Len(a) + Len(b)) : (a \o b)[i] = IF i <= Len(a) THEN a[i] ELSE b[i - Len(a)]
  <2>1. a \in Seq(Range(a)) /\ b \in Seq(Range(b))
    BY DEF IsList
  <2>2. a \in Seq(R) /\ b \in Seq(R)
    BY <2>1, SeqMonotonic
  <2> HIDE DEF R
  <2>3. QED
    BY <2>2, ConcatProperties
<1>3. \A i \in 1..Len(a) : (a \o b)[i] = a[i]
  BY <1>1, <1>2
<1>4. ASSUME NEW i \in 1..Len(b)
      PROVE  (a \o b)[Len(a) + i] = b[i]
  <2>1. Len(a) + i \in 1..(Len(a) + Len(b)) /\ ~(Len(a) + i <= Len(a)) /\ (Len(a) + i) - Len(a) = i
    BY <1>1
  <2>2. QED
    BY <1>2, <2>1
<1> HIDE DEF R
<1>5. IsList(a \o b)
  BY <1>2, ListOfAny
<1>6. QED
  BY <1>2, <1>3, <1>4, <1>5

LEMMA JoinedRange ==
    ASSUME NEW a, NEW b, IsList(a), IsList(b)
    PROVE  Range(a \o b) \subseteq Range(a) \cup Range(b)
<1> DEFINE s == a \o b
<1>1. /\ IsList(s) /\ Len(s) = Len(a) + Len(b)
      /\ \A i \in 1..Len(a) : s[i] = a[i]
      /\ \A i \in 1..Len(b) : s[Len(a) + i] = b[i]
  BY Joined
<1>2. /\ Len(a) \in Nat /\ DOMAIN a = 1..Len(a) /\ Len(b) \in Nat /\ DOMAIN b = 1..Len(b)
      /\ DOMAIN s = 1..Len(s)
  BY <1>1, ListDomain
<1> HIDE DEF s
<1>3. ASSUME NEW x \in DOMAIN s
      PROVE  s[x] \in Range(a) \cup Range(b)
  <2>1. CASE x \in 1..Len(a)
    BY <1>1, <1>2, <2>1 DEF Range
  <2>2. CASE x \notin 1..Len(a)
    <3>1. x - Len(a) \in 1..Len(b) /\ x = Len(a) + (x - Len(a))
      BY <1>1, <1>2, <2>2
    <3>2. s[x] = b[x - Len(a)]
      BY <1>1, <3>1
    <3>3. QED
      BY <1>2, <3>1, <3>2 DEF Range
  <2>3. QED
    BY <2>1, <2>2
<1>4. QED
  BY <1>3 DEF Range, s

\* The header and the records lie before the points, and do not overlap.
LEMMA HeaderLaid ==
    ASSUME NEW i, InfoOK(i), NEW c, NEW st
    PROVE  Laid(HeaderRegions(i, c, st), 0, PointOffset(i)) /\ PointOffset(i) \in Nat
<1> DEFINE v == VlrList(i)
           w == VlrSizes(i)
           n == Len(v)
           A(k) == 375 + SumTo(w, k)
           first == Region(0, 375, "header", Header(i, c, st))
           head(k) == Region(A(k), 54, "vlr header", [kind |-> v[k][1], length |-> v[k][2]])
           body(k) == Region(A(k) + 54, v[k][2], v[k][1], VlrValue(i, c, v[k][1]))
           heads == [k \in 1..n |-> head(k)]
           bodies == [k \in 1..n |-> body(k)]
           s == HeaderRegions(i, c, st)
<1>1. /\ n \in Nat /\ DOMAIN v = 1..n /\ w \in [1..n -> Nat]
      /\ \A k \in 1..n : w[k] = 54 + v[k][2] /\ v[k][2] \in Nat
  BY RecordsFit DEF VlrSizes, VlrHeaderSize
<1>2. 375 + SumTo(w, n + 1) = PointOffset(i)
  BY RecordsFit
<1>3. s = <<first>> \o heads \o bodies
  <2> DEFINE at(k) == 375 + FoldSeq(+, 0, [j \in 1..(k - 1) |-> VlrHeaderSize + v[j][2]])
  <2>1. s = <<first>> \o [k \in DOMAIN v |-> Region(at(k), 54, "vlr header",
                                                    [kind |-> v[k][1], length |-> v[k][2]])]
                \o [k \in DOMAIN v |-> Region(at(k) + 54, v[k][2], v[k][1], VlrValue(i, c, v[k][1]))]
    BY SizesOfRecords, Zenon DEF HeaderRegions, VlrHeaderSize
  <2>2. \A k \in 1..n : at(k) = A(k)
    <3> TAKE k \in 1..n
    <3> DEFINE f == [j \in 1..(k - 1) |-> VlrHeaderSize + v[j][2]]
               g == [j \in 1..(k - 1) |-> w[j]]
    <3>1. \A j \in 1..(k - 1) : w[j] = VlrHeaderSize + v[j][2]
      BY <1>1 DEF VlrHeaderSize
    <3> HIDE DEF w, v
    <3>2. f = g
      BY <3>1
    <3> HIDE DEF f, g
    <3>3. FoldSeq(+, 0, f) = FoldSeq(+, 0, g)
      BY <3>2
    <3>4. QED
      BY <3>3 DEF SumTo, f, g
  <2> HIDE DEF at, A, s, first, v
  <2>3. QED
    BY <1>1, <2>1, <2>2
<1>4. /\ \A k \in 1..n : /\ SumTo(w, k) \in Nat /\ SumTo(w, k) + w[k] <= SumTo(w, n + 1)
                         /\ \A m \in 1..n : k < m => SumTo(w, k) + w[k] <= SumTo(w, m)
      /\ SumTo(w, n + 1) \in Nat
  <2> HIDE DEF w, n
  <2>1. \A k \in 1..n : \A m \in 1..(n + 1) : k < m => SumTo(w, k) + w[k] <= SumTo(w, m)
    BY <1>1, SumsApart
  <2>2. SumTo(w, n + 1) \in Nat /\ \A k \in 1..n : SumTo(w, k) \in Nat
    BY <1>1, SumToNext
  <2>3. \A k \in 1..n : k \in 1..(n + 1) /\ n + 1 \in 1..(n + 1) /\ k < n + 1
    BY <1>1
  <2>4. QED
    BY <2>1, <2>2, <2>3
<1> DEFINE len(k) == v[k][2]
<1> HIDE DEF n, v, w
<1>5. \A k \in 1..n : /\ A(k) \in Nat /\ A(k) >= 375 /\ len(k) \in Nat
                      /\ A(k) + 54 + len(k) <= PointOffset(i)
                      /\ \A m \in 1..n : k < m => A(k) + 54 + len(k) <= A(m)
  <2> TAKE k \in 1..n
  <2>1. w[k] = 54 + len(k) /\ len(k) \in Nat /\ SumTo(w, k) \in Nat
    BY <1>1, <1>4
  <2>2. SumTo(w, k) + w[k] <= SumTo(w, n + 1) /\ SumTo(w, n + 1) \in Nat
    BY <1>4
  <2>3. ASSUME NEW m \in 1..n, k < m
        PROVE  A(k) + 54 + len(k) <= A(m)
    <3>1. SumTo(w, k) + w[k] <= SumTo(w, m) /\ SumTo(w, m) \in Nat
      BY <1>4, <2>3
    <3> HIDE DEF len
    <3>2. QED
      BY <2>1, <3>1
  <2> HIDE DEF len
  <2>4. QED
    BY <1>2, <2>1, <2>2, <2>3
<1>6. PointOffset(i) \in Nat /\ PointOffset(i) >= 375
  BY <1>2, <1>4
<1>7. /\ DOMAIN s = 1..(1 + n + n)
      /\ s[1] = first
      /\ \A k \in 1..n : s[1 + k] = head(k) /\ s[1 + n + k] = body(k)
  <2> HIDE DEF first, head, body
  <2>1. \A k \in 1..n : heads[k] = head(k) /\ bodies[k] = body(k)
    OBVIOUS
  <2>3. IsList(heads) /\ Len(heads) = n
    BY <1>1, ListByIndex
  <2>4. IsList(bodies) /\ Len(bodies) = n
    BY <1>1, ListByIndex
  <2> DEFINE one == <<first>>
             front == one \o heads
  <2>5. one \in Seq({first}) /\ Len(one) = 1 /\ one[1] = first
    OBVIOUS
  <2>6. IsList(one) /\ Len(one) = 1 /\ one[1] = first
    BY <2>5, ListOfAny
  <2> HIDE DEF heads, bodies, one, s
  <2>7. /\ IsList(front) /\ Len(front) = 1 + n
        /\ front[1] = first /\ \A k \in 1..n : front[1 + k] = head(k)
    <3>1. IsList(front) /\ Len(front) = Len(one) + Len(heads)
      BY <2>3, <2>6, Joined
    <3>3. \A k \in 1..Len(one) : front[k] = one[k]
      BY <2>3, <2>6, Joined
    <3>4. ASSUME NEW k \in 1..Len(heads)
          PROVE  front[Len(one) + k] = heads[k]
      <4>1. IsList(one) /\ IsList(heads)
        BY <2>3, <2>6
      <4>2. QED
        BY <4>1, Joined
    <3> HIDE DEF front
    <3>2. QED
      BY <2>1, <2>3, <2>6, <3>1, <3>3, <3>4
  <2>8. s = front \o bodies
    BY <1>3 DEF one
  <2> HIDE DEF front
  <2>9. /\ IsList(s) /\ Len(s) = (1 + n) + n
        /\ \A k \in 1..(1 + n) : s[k] = front[k]
        /\ \A k \in 1..n : s[(1 + n) + k] = bodies[k]
    <3>1. IsList(s) /\ Len(s) = Len(front) + Len(bodies)
      BY <2>4, <2>7, <2>8, Joined
    <3>3. \A k \in 1..Len(front) : s[k] = front[k]
      BY <2>4, <2>7, <2>8, Joined
    <3>4. ASSUME NEW k \in 1..Len(bodies)
          PROVE  s[Len(front) + k] = bodies[k]
      <4>1. IsList(front) /\ IsList(bodies)
        BY <2>4, <2>7, <2>8
      <4>2. QED
        BY <4>1, Joined, <2>8
    <3>2. QED
      BY <2>4, <2>7, <3>1, <3>3, <3>4
  <2>10. \A k \in 1..n : 1 \in 1..(1 + n) /\ 1 + k \in 1..(1 + n)
    BY <1>1
  <2>13. 1 \in 1..(1 + n)
    BY <1>1
  <2>11. s[1] = first /\ \A k \in 1..n : s[1 + k] = head(k) /\ s[1 + n + k] = body(k)
    BY <2>1, <2>7, <2>9, <2>10, <2>13
  <2>14. DOMAIN s = 1..(1 + n + n)
    BY <2>9, ListDomain
  <2>12. QED
    BY <2>11, <2>14
<1>8. \A x \in DOMAIN s : x = 1 \/ \E k \in 1..n : x = 1 + k \/ x = 1 + n + k
  <2> TAKE x \in DOMAIN s
  <2>1. x \in 1..(1 + n + n)
    BY <1>7
  <2>2. CASE x \in 2..(1 + n)
    <3>1. x - 1 \in 1..n /\ x = 1 + (x - 1)
      BY <1>1, <2>2
    <3>2. QED
      BY <3>1
  <2>3. CASE x > 1 + n
    <3>1. x - 1 - n \in 1..n /\ x = 1 + n + (x - 1 - n)
      BY <1>1, <2>1, <2>3
    <3>2. QED
      BY <3>1
  <2>4. QED
    BY <1>1, <2>1, <2>2, <2>3
<1>9. /\ first.at = 0 /\ first.len = 375
      /\ \A k \in 1..n : /\ head(k).at = A(k) /\ head(k).len = 54
                         /\ body(k).at = A(k) + 54 /\ body(k).len = len(k)
  BY DEF Region
<1> HIDE DEF s, A, len, n, first, head, body, v
<1>10. IsFiniteSet(DOMAIN s)
  BY <1>1, <1>7, FS_Interval
<1>11. ASSUME NEW x \in DOMAIN s
       PROVE  /\ s[x].at \in Int /\ s[x].len \in Nat
              /\ 0 <= s[x].at /\ s[x].at + s[x].len <= PointOffset(i)
  <2>1. CASE x = 1
    BY <1>6, <1>7, <1>9, <2>1
  <2>2. ASSUME NEW k \in 1..n, x = 1 + k
        PROVE  /\ s[x].at \in Int /\ s[x].len \in Nat
               /\ 0 <= s[x].at /\ s[x].at + s[x].len <= PointOffset(i)
    BY <1>5, <1>6, <1>7, <1>9, <2>2
  <2>3. ASSUME NEW k \in 1..n, x = 1 + n + k
        PROVE  /\ s[x].at \in Int /\ s[x].len \in Nat
               /\ 0 <= s[x].at /\ s[x].at + s[x].len <= PointOffset(i)
    BY <1>5, <1>6, <1>7, <1>9, <2>3
  <2>4. QED
    BY <1>8, <2>1, <2>2, <2>3
<1>12. /\ \A k \in 1..n : /\ NoOverlap(first, head(k)) /\ NoOverlap(first, body(k))
                         /\ NoOverlap(head(k), body(k))
       /\ \A k, m \in 1..n : k < m => /\ NoOverlap(head(k), head(m)) /\ NoOverlap(head(k), body(m))
                                      /\ NoOverlap(body(k), head(m)) /\ NoOverlap(body(k), body(m))
  BY <1>5, <1>9 DEF NoOverlap
<1>13. \A x, y : NoOverlap(x, y) <=> NoOverlap(y, x)
  BY DEF NoOverlap
<1>14. ASSUME NEW x \in DOMAIN s, NEW y \in DOMAIN s, x # y
       PROVE  NoOverlap(s[x], s[y])
  <2>1. CASE x = 1
    BY <1>7, <1>8, <1>12, <1>14, <2>1
  <2>2. CASE y = 1
    BY <1>7, <1>8, <1>12, <1>13, <1>14, <2>2
  <2>3. ASSUME NEW k \in 1..n, NEW m \in 1..n, x \in {1 + k, 1 + n + k}, y \in {1 + m, 1 + n + m}
        PROVE  NoOverlap(s[x], s[y])
    <3>1. s[x] \in {head(k), body(k)} /\ s[y] \in {head(m), body(m)}
      BY <1>7, <2>3
    <3>2. CASE k < m
      BY <1>12, <3>1, <3>2
    <3>3. CASE m < k
      BY <1>12, <1>13, <3>1, <3>3
    <3>4. CASE k = m
      <4>1. (x = 1 + k /\ y = 1 + n + k) \/ (y = 1 + k /\ x = 1 + n + k)
        BY <1>14, <2>3, <3>4
      <4>2. QED
        BY <1>7, <1>12, <1>13, <4>1
    <3>5. k \in Int /\ m \in Int
      BY <1>1
    <3>6. QED
      BY <3>2, <3>3, <3>4, <3>5
  <2>4. QED
    BY <1>8, <2>1, <2>2, <2>3
<1>15. QED
  BY <1>6, <1>10, <1>11, <1>14 DEF Laid, s

-----------------------------------------------------------------------------
(* The pages of the hierarchy.                                             *)

LEMMA PageSizeType ==
    ASSUME NEW tree, IsFiniteSet(tree), NEW r
    PROVE  Cardinality(PageKeys(tree, r)) \in Nat
<1>1. IsFiniteSet(tree \cup {r})
  BY FS_AddElement
<1>2. PageKeys(tree, r) \subseteq tree \cup {r}
  BY DEF PageKeys
<1>3. QED
  BY <1>1, <1>2, FS_Subset, FS_CardinalityType

\* The pages follow each other, in whatever order, behind the header of their record.
LEMMA PagesLaid ==
    ASSUME NEW tree, IsFiniteSet(tree), NEW order \in Orders(tree), NEW c, c.evlrOffset \in Nat
    PROVE  \E to \in Int : Laid(HierarchyRegions(c, tree, order), c.evlrOffset, to)
<1> DEFINE roots == PageRoots(tree)
           n == Cardinality(roots)
           from == c.evlrOffset + 60
           keys(r) == Cardinality(PageKeys(tree, r))
           w == [j \in 1..n |-> keys(order[j])]
           at == Place(tree, order, from)
           sum == FoldSeq(+, 0, [j \in DOMAIN order |-> PageSize(tree, order[j])])
           page(j) == Region(at[order[j]], 32 * keys(order[j]), "page", Page(c, tree, at, order[j]))
           last == Region(c.evlrOffset, 60, "evlr header", sum)
           pages == [j \in 1..n |-> page(j)]
           s == HierarchyRegions(c, tree, order)
           len(j) == 32 * w[j]
           start(j) == from + 32 * SumTo(w, j)
           to == start(n + 1)
<1>1. n \in Nat
  <2>1. IsFiniteSet({k \in tree : k.level % LevelBreak = 0
                                  /\ Cardinality(Below(tree, k)) > MinHierarchySize})
    BY FS_Subset
  <2>2. IsFiniteSet(roots)
    BY <2>1, FS_AddElement DEF PageRoots
  <2>3. QED
    BY <2>2, FS_CardinalityType
<1>2. /\ order \in [1..n -> roots] /\ DOMAIN order = 1..n
      /\ \A i, j \in 1..n : order[i] = order[j] => i = j
  BY DEF Orders, IsInjective
<1>3. w \in [1..n -> Nat] /\ \A j \in 1..n : w[j] = keys(order[j])
  BY PageSizeType
<1> HIDE DEF n, roots, keys
<1>4. \A j \in 1..n : at[order[j]] = start(j)
  <2> TAKE j \in 1..n
  <2> DEFINE x == CHOOSE i \in DOMAIN order : order[i] = order[j]
             f == [h \in 1..(x - 1) |-> keys(order[h])]
             g == [h \in 1..(j - 1) |-> w[h]]
  <2>1. x = j
    BY <1>2
  <2>2. at[order[j]] = from + 32 * FoldSeq(+, 0, f)
    BY <1>2, Zenon DEF Place, EntrySize, keys, roots
  <2>3. \A h \in 1..(j - 1) : w[h] = keys(order[h])
    BY <1>1, <1>3
  <2> HIDE DEF x, w
  <2>4. f = g
    BY <2>1, <2>3
  <2> HIDE DEF f, g
  <2>5. FoldSeq(+, 0, f) = FoldSeq(+, 0, g)
    BY <2>4
  <2>6. QED
    BY <2>2, <2>5 DEF SumTo, g
<1> HIDE DEF w, at, sum
<1>5. s = pages \o <<last>>
  BY <1>2 DEF HierarchyRegions, EvlrHeaderSize, PageSize, EntrySize, keys, at, sum
<1>6. /\ \A j \in 1..n : \A k \in 1..(n + 1) : j < k => SumTo(w, j) + w[j] <= SumTo(w, k)
      /\ SumTo(w, n + 1) \in Nat /\ \A j \in 1..n : SumTo(w, j) \in Nat
  <2>1. \A j \in 1..n : \A k \in 1..(n + 1) : j < k => SumTo(w, j) + w[j] <= SumTo(w, k)
    BY <1>1, <1>3, SumsApart
  <2>2. SumTo(w, n + 1) \in Nat /\ \A j \in 1..n : SumTo(w, j) \in Nat
    BY <1>1, <1>3, SumToNext
  <2>3. QED
    BY <2>1, <2>2
<1>7. /\ to \in Nat /\ to >= c.evlrOffset + 60
      /\ \A j \in 1..n : /\ start(j) \in Nat /\ start(j) >= c.evlrOffset + 60 /\ len(j) \in Nat
                         /\ start(j) + len(j) <= to
                         /\ \A k \in 1..n : j < k => start(j) + len(j) <= start(k)
  <2>1. to \in Nat /\ to >= c.evlrOffset + 60
    BY <1>6
  <2>2. ASSUME NEW j \in 1..n
        PROVE  /\ start(j) \in Nat /\ start(j) >= c.evlrOffset + 60 /\ len(j) \in Nat
               /\ start(j) + len(j) <= to
    <3>1. n + 1 \in 1..(n + 1) /\ j < n + 1
      BY <1>1
    <3>2. SumTo(w, j) + w[j] <= SumTo(w, n + 1) /\ w[j] \in Nat /\ SumTo(w, j) \in Nat
          /\ SumTo(w, n + 1) \in Nat
      BY <1>3, <1>6, <3>1
    <3>3. QED
      BY <3>2
  <2>3. ASSUME NEW j \in 1..n, NEW k \in 1..n, j < k
        PROVE  start(j) + len(j) <= start(k)
    <3>1. k \in 1..(n + 1)
      BY <1>1
    <3>2. SumTo(w, j) + w[j] <= SumTo(w, k) /\ w[j] \in Nat /\ SumTo(w, j) \in Nat
          /\ SumTo(w, k) \in Nat
      BY <1>3, <1>6, <2>3, <3>1
    <3>3. QED
      BY <3>2
  <2>4. QED
    BY <2>1, <2>2, <2>3
<1>8. /\ \A j \in 1..n : page(j).at = start(j) /\ page(j).len = len(j)
      /\ last.at = c.evlrOffset /\ last.len = 60
  BY <1>3, <1>4 DEF Region
<1> HIDE DEF page, last, start, len, to
<1>9. /\ DOMAIN s = 1..(n + 1) /\ s[n + 1] = last
      /\ \A j \in 1..n : s[j] = page(j)
  <2> DEFINE one == <<last>>
  <2>1. one \in Seq({last}) /\ Len(one) = 1 /\ one[1] = last
    OBVIOUS
  <2>2. IsList(one) /\ Len(one) = 1 /\ one[1] = last
    BY <2>1, ListOfAny
  <2>3. \A j \in 1..n : pages[j] = page(j)
    OBVIOUS
  <2>4. IsList(pages) /\ Len(pages) = n
    BY <1>1, ListByIndex
  <2>5. s = pages \o one
    BY <1>5
  <2> HIDE DEF one, pages, s
  <2>6. IsList(s) /\ Len(s) = n + 1
    <3>1. IsList(pages) /\ IsList(one)
      BY <2>2, <2>4
    <3>2. IsList(s) /\ Len(s) = Len(pages) + Len(one)
      BY <2>5, <3>1, Joined
    <3>3. QED
      BY <2>2, <2>4, <3>2
  <2>7. \A j \in 1..n : s[j] = page(j)
    <3>1. ASSUME NEW j \in 1..Len(pages)
          PROVE  s[j] = pages[j]
      <4>1. IsList(pages) /\ IsList(one)
        BY <2>2, <2>4
      <4>2. QED
        BY <2>5, <4>1, Joined
    <3>2. QED
      BY <2>3, <2>4, <3>1
  <2>8. s[n + 1] = last
    <3>1. ASSUME NEW k \in 1..Len(one)
          PROVE  s[Len(pages) + k] = one[k]
      <4>1. IsList(pages) /\ IsList(one)
        BY <2>2, <2>4
      <4>2. QED
        BY <2>5, <4>1, Joined
    <3>2. 1 \in 1..Len(one)
      BY <2>2
    <3>3. QED
      BY <2>2, <2>4, <3>1, <3>2
  <2>9. QED
    BY <2>6, <2>7, <2>8, ListDomain
<1>10. \A x \in DOMAIN s : x \in 1..n \/ x = n + 1
  BY <1>1, <1>9
<1> HIDE DEF s
<1>11. IsFiniteSet(DOMAIN s)
  BY <1>1, <1>9, FS_Interval
<1>12. ASSUME NEW x \in DOMAIN s
       PROVE  /\ s[x].at \in Int /\ s[x].len \in Nat
              /\ c.evlrOffset <= s[x].at /\ s[x].at + s[x].len <= to
  <2>1. CASE x \in 1..n
    BY <1>7, <1>8, <1>9, <2>1
  <2>2. CASE x = n + 1
    BY <1>7, <1>8, <1>9, <2>2
  <2>3. QED
    BY <1>10, <2>1, <2>2
<1>13. /\ \A j \in 1..n : NoOverlap(page(j), last)
       /\ \A j, k \in 1..n : j < k => NoOverlap(page(j), page(k))
  BY <1>7, <1>8 DEF NoOverlap
<1>14. \A x, y : NoOverlap(x, y) <=> NoOverlap(y, x)
  BY DEF NoOverlap
<1>15. ASSUME NEW x \in DOMAIN s, NEW y \in DOMAIN s, x # y
       PROVE  NoOverlap(s[x], s[y])
  <2>1. CASE x \in 1..n /\ y \in 1..n
    <3>1. x < y \/ y < x
      BY <1>1, <1>15, <2>1
    <3>2. QED
      BY <1>9, <1>13, <1>14, <2>1, <3>1
  <2>2. CASE x = n + 1 /\ y \in 1..n
    BY <1>9, <1>13, <1>14, <2>2
  <2>3. CASE y = n + 1 /\ x \in 1..n
    BY <1>9, <1>13, <2>3
  <2>4. QED
    BY <1>10, <1>15, <2>1, <2>2, <2>3
<1>16. Laid(s, c.evlrOffset, to) /\ to \in Int
  BY <1>7, <1>11, <1>12, <1>15 DEF Laid
<1>17. QED
  BY <1>16 DEF s

-----------------------------------------------------------------------------
(* Invariants.                                                             *)

\* The place a chunk has got.
PlaceOf(h, k) == [at |-> h[k].offset, len |-> h[k].size]
Filled(h) == {k \in DOMAIN h : h[k].count > 0}

\* Chunks have places of their own, from where points begin to where the next chunk goes.
ChunksApart(h, from, to) ==
    /\ \A k \in Filled(h) : /\ h[k].offset \in Nat /\ h[k].size \in Nat
                            /\ from <= h[k].offset /\ h[k].offset + h[k].size <= to
    /\ \A j, k \in Filled(h) : j # k => NoOverlap(PlaceOf(h, j), PlaceOf(h, k))

CopcFields == {"pointPos", "chunkTable", "hierarchy", "pointCount", "evlrOffset", "rootOffset", "rootSize"}

\* While chunks are written the file has those that are done.
Building ==
    /\ IsFiniteSet(Tree) /\ \A k \in Tree : IsFiniteSet(voxels[k])
    /\ DOMAIN copc = CopcFields /\ IsList(copc.chunkTable)
    /\ copc.pointPos \in Nat /\ PointOffset(info) + 8 <= copc.pointPos
    /\ ChunksApart(copc.hierarchy, PointOffset(info) + 8, copc.pointPos)
    /\ pending \subseteq Filled(copc.hierarchy)
    /\ \A r \in file : \E k \in Filled(copc.hierarchy) \ pending :
            r.at = copc.hierarchy[k].offset /\ r.len = copc.hierarchy[k].size

\* Nothing in the file is before this place, or nothing is behind it.
Behind(f, from) == \A r \in f : r.at \in Int /\ r.len \in Nat /\ from <= r.at
Before(f, to)   == \A r \in f : r.at + r.len <= to

FileInv ==
    /\ job \in Jobs
    /\ stage \in {"start", "tile"} => file = {} /\ pending = {}
    /\ stage \in {"tile", "build", "hierarchy", "header"} => InfoOK(info)
    /\ stage = "tile" => copc = NewCopc(info)
    /\ stage = "build" => Building
    /\ stage = "hierarchy" =>
        /\ IsFiniteSet(Tree) /\ copc.evlrOffset \in Nat
        /\ Behind(file, PointOffset(info)) /\ Before(file, copc.evlrOffset)
        /\ PointOffset(info) <= copc.evlrOffset
    /\ stage = "header" => Behind(file, PointOffset(info))

LEMMA LaidIsAdded ==
    ASSUME NEW s, NEW from \in Int, NEW to \in Int, Laid(s, from, to), NEW f,
           \A r \in f : r.at \in Int /\ r.len \in Nat /\ (r.at + r.len <= from \/ to <= r.at)
    PROVE  PutAll(f, s) = f \cup Range(s)
<1>1. ASSUME NEW i \in DOMAIN s, NEW r \in f
      PROVE  NoOverlap(r, s[i])
  <2>1. /\ s[i].at \in Int /\ s[i].len \in Nat /\ from <= s[i].at /\ s[i].at + s[i].len <= to
    BY DEF Laid
  <2>2. r.at \in Int /\ r.len \in Nat /\ (r.at + r.len <= from \/ to <= r.at)
    OBVIOUS
  <2>3. QED
    BY <2>1, <2>2 DEF NoOverlap
<1>2. IsFiniteSet(DOMAIN s) /\ \A i, j \in DOMAIN s : i # j => NoOverlap(s[i], s[j])
  BY DEF Laid
<1>3. PutAll(f, s) = f \cup {s[i] : i \in DOMAIN s}
  BY <1>1, <1>2, PutAllAdds
<1>4. QED
  BY <1>3 DEF Range

LEMMA InitFile == Init => FileInv
BY DEF Init, FileInv

LEMMA PrepareFile ==
    ASSUME FileInv, Prepare
    PROVE  FileInv' /\ file' = file /\ stage = "start"
<1>1. job \in Jobs /\ job' = job /\ file = {} /\ pending = {} /\ file' = file /\ pending' = pending
  BY DEF FileInv, Prepare
<1>2. CASE stage' = "undefined"
  BY <1>1, <1>2 DEF FileInv, Prepare
<1>3. CASE stage' = "tile" /\ info' = BaseInfo(job) /\ copc' = NewCopc(BaseInfo(job))
  <2>1. InfoOK(info)'
    BY <1>1, <1>3, BaseInfoIsOK DEF InfoOK
  <2>2. copc' = NewCopc(info')
    BY <1>3
  <2>3. QED
    BY <1>1, <1>3, <2>1, <2>2 DEF FileInv, Prepare
<1>4. QED
  BY <1>1, <1>2, <1>3 DEF Prepare

\* The tree that is built of finitely many points.
LEMMA TileFinite ==
    ASSUME InfoOK(info), Tile
    PROVE  IsFiniteSet(DOMAIN voxels') /\ \A k \in DOMAIN voxels' : IsFiniteSet(voxels'[k])
<1>1. IsFiniteSet(Sources)
  BY SourcesFinite DEF InfoOK
<1>2. PICK s \in Stale, level \in [Sources -> 0..(MaxLevel(info, job) + Deepest)] :
        LET point(t) == [of |-> t, data |-> Fill(info, info.infos[t[1]], Source(t), s)]
            at(t)    == Key(info.bounds, point(t).data, level[t])
            used     == {at(t) : t \in Sources}
        IN  voxels' = [k \in {Root} \cup used \cup UNION {Ancestors(k) : k \in used} |->
                        {point(t) : t \in {u \in Sources : at(u) = k}}]
  BY DEF Tile
<1> DEFINE point(t) == [of |-> t, data |-> Fill(info, info.infos[t[1]], Source(t), s)]
           at(t) == Key(info.bounds, point(t).data, level[t])
           used == {at(t) : t \in Sources}
           anc == [k \in used |-> Ancestors(k)]
           key == [t \in Sources |-> at(t)]
           pts == [t \in Sources |-> point(t)]
<1>3. voxels' = [k \in {Root} \cup used \cup UNION {Ancestors(k) : k \in used} |->
                    {point(t) : t \in {u \in Sources : at(u) = k}}]
  BY <1>2
<1>4. \A t \in Sources : at(t).level \in Nat
  BY DEF Key
<1> HIDE DEF point, at
<1>5. IsFiniteSet(used)
  <2>1. IsFiniteSet({key[t] : t \in Sources})
    <3> HIDE DEF key
    <3>1. QED
      BY <1>1, FiniteImage
  <2>2. QED
    BY <2>1
<1>6. \A k \in used : IsFiniteSet(Ancestors(k))
  <2> TAKE k \in used
  <2> DEFINE N == 0..(k.level - 1)
             up == [n \in N |-> Up(k)[n]]
             L == {up[n] : n \in N}
             par == [j \in L |-> Parent(j)]
  <2>1. k.level \in Nat
    BY <1>4
  <2>2. IsFiniteSet(N)
    BY <2>1, FS_Interval
  <2> HIDE DEF up, N
  <2>3. IsFiniteSet(L)
    BY <2>2, FiniteImage
  <2>4. L = Lineage(k)
    BY DEF up, Lineage, N
  <2> HIDE DEF L, par
  <2>5. IsFiniteSet({par[j] : j \in L})
    BY <2>3, FiniteImage
  <2>6. Ancestors(k) = {par[j] : j \in L}
    BY <2>4 DEF Ancestors, par
  <2>7. QED
    BY <2>5, <2>6
<1>7. IsFiniteSet(UNION {anc[k] : k \in used})
  <2>1. \A k \in used : IsFiniteSet(anc[k])
    BY <1>6
  <2> HIDE DEF anc, used
  <2>2. QED
    BY <1>5, <2>1, FiniteUnion
<1>8. DOMAIN voxels' = ({Root} \cup used) \cup UNION {anc[k] : k \in used}
  <2>1. DOMAIN voxels' = {Root} \cup used \cup UNION {Ancestors(k) : k \in used}
    BY <1>3
  <2>2. UNION {Ancestors(k) : k \in used} = UNION {anc[k] : k \in used}
    OBVIOUS
  <2> HIDE DEF anc, used
  <2>3. QED
    BY <2>1, <2>2
<1>9. IsFiniteSet(DOMAIN voxels')
  <2> DEFINE A == UNION {anc[k] : k \in used}
  <2> HIDE DEF A, used
  <2>1. IsFiniteSet({Root} \cup used) /\ IsFiniteSet(A)
    <3>1. {Root} \cup used = used \cup {Root}
      OBVIOUS
    <3>2. QED
      BY <1>5, <1>7, <3>1, FS_AddElement DEF A
  <2> DEFINE B == {Root} \cup used
  <2>2. DOMAIN voxels' = B \cup A
    BY <1>8 DEF A
  <2> HIDE DEF B
  <2>3. IsFiniteSet(A) /\ IsFiniteSet(B)
    BY <2>1 DEF B
  <2>4. IsFiniteSet(B \cup A)
    BY <2>3, FS_Union
  <2>5. QED
    BY <2>2, <2>4
<1>10. IsFiniteSet({pts[t] : t \in Sources})
  <2> HIDE DEF pts
  <2>1. QED
    BY <1>1, FiniteImage
<1>11. \A k \in DOMAIN voxels' : voxels'[k] \subseteq {pts[t] : t \in Sources}
  <2> TAKE k \in DOMAIN voxels'
  <2> DEFINE S == {t \in Sources : at(t) = k}
  <2>1. voxels'[k] = {point(t) : t \in S}
    BY <1>3, <1>8
  <2>2. \A t \in Sources : pts[t] = point(t)
    OBVIOUS
  <2> HIDE DEF pts
  <2>3. \A t \in S : t \in Sources /\ pts[t] = point(t)
    BY <2>2
  <2>4. QED
    BY <2>1, <2>3
<1>12. QED
  BY <1>9, <1>10, <1>11, FS_Subset

LEMMA TileFile ==
    ASSUME FileInv, Tile
    PROVE  FileInv' /\ file' = file /\ stage = "tile"
<1>1. /\ job \in Jobs /\ stage = "tile" /\ stage' = "build" /\ file = {} /\ pending = {}
      /\ InfoOK(info) /\ copc = NewCopc(info)
      /\ job' = job /\ info' = info /\ copc' = copc /\ pending' = pending /\ file' = file
  BY DEF FileInv, Tile
<1>2. IsFiniteSet(Tree') /\ \A k \in Tree' : IsFiniteSet(voxels'[k])
  BY <1>1, TileFinite DEF Tree
<1>3. PointOffset(info) \in Nat
  BY <1>1, HeaderLaid
<1>4. /\ DOMAIN copc = CopcFields /\ copc.chunkTable = <<>> /\ copc.hierarchy = <<>>
      /\ copc.pointPos = PointOffset(info) + 8
  BY <1>1 DEF NewCopc, CopcFields
<1>5. IsList(copc.chunkTable)
  <2>1. <<>> \in Seq({})
    OBVIOUS
  <2>2. QED
    BY <1>4, <2>1, ListOfAny
<1>6. Filled(copc.hierarchy) = {}
  BY <1>4 DEF Filled
<1>7. ChunksApart(copc.hierarchy, PointOffset(info) + 8, copc.pointPos)
  BY <1>6 DEF ChunksApart
<1>8. Building'
  BY <1>1, <1>2, <1>3, <1>4, <1>5, <1>6, <1>7 DEF Building
<1>9. QED
  BY <1>1, <1>8 DEF FileInv

\* A place for one more chunk.
LEMMA OneMoreChunk ==
    ASSUME NEW h, NEW g, NEW k, k \notin DOMAIN h, DOMAIN g = DOMAIN h \cup {k},
           \A j \in DOMAIN h : g[j] = h[j],
           NEW from \in Nat, NEW to \in Nat, from <= to, ChunksApart(h, from, to),
           NEW size \in Nat, g[k].count > 0 => g[k].offset = to /\ g[k].size = size
    PROVE  /\ ChunksApart(g, from, to + size) /\ (~(g[k].count > 0) => ChunksApart(g, from, to))
           /\ Filled(g) = Filled(h) \cup (IF g[k].count > 0 THEN {k} ELSE {})
           /\ k \notin Filled(h) /\ \A j \in Filled(h) : g[j] = h[j]
<1>1. /\ Filled(g) = Filled(h) \cup (IF g[k].count > 0 THEN {k} ELSE {})
      /\ k \notin Filled(h) /\ \A j \in Filled(h) : g[j] = h[j]
  BY DEF Filled
<1>2. \A j \in Filled(h) : /\ g[j].offset \in Nat /\ g[j].size \in Nat
                           /\ from <= g[j].offset /\ g[j].offset + g[j].size <= to
  BY <1>1 DEF ChunksApart
<1>3. \A i, j \in Filled(h) : i # j => NoOverlap(PlaceOf(g, i), PlaceOf(g, j))
  BY <1>1 DEF ChunksApart, PlaceOf
<1>4. CASE ~(g[k].count > 0)
  <2>1. Filled(g) = Filled(h)
    BY <1>1, <1>4
  <2>2. \A n \in Nat : to <= n => ChunksApart(g, from, n)
    BY <1>2, <1>3, <2>1 DEF ChunksApart
  <2>3. QED
    BY <1>1, <1>4, <2>2
<1>5. CASE g[k].count > 0
  <2>1. g[k].offset = to /\ g[k].size = size /\ Filled(g) = Filled(h) \cup {k}
    BY <1>1, <1>5
  <2>2. \A j \in Filled(h) : /\ NoOverlap(PlaceOf(g, j), PlaceOf(g, k))
                             /\ NoOverlap(PlaceOf(g, k), PlaceOf(g, j))
    BY <1>2, <2>1 DEF NoOverlap, PlaceOf
  <2>3. \A j \in Filled(g) : /\ g[j].offset \in Nat /\ g[j].size \in Nat
                             /\ from <= g[j].offset /\ g[j].offset + g[j].size <= to + size
    BY <1>2, <2>1
  <2>4. \A i, j \in Filled(g) : i # j => NoOverlap(PlaceOf(g, i), PlaceOf(g, j))
    BY <1>3, <2>1, <2>2
  <2>5. QED
    BY <1>1, <1>5, <2>3, <2>4 DEF ChunksApart
<1>6. QED
  BY <1>4, <1>5

LEMMA StartChunkFile ==
    ASSUME FileInv, NEW k \in Tree, StartChunk(k)
    PROVE  FileInv' /\ file' = file /\ stage = "build"
<1>1. /\ job \in Jobs /\ stage = "build" /\ InfoOK(info) /\ Building
      /\ job' = job /\ info' = info /\ voxels' = voxels /\ file' = file
      /\ k \notin DOMAIN copc.hierarchy
  BY DEF FileInv, StartChunk
<1>2. CASE stage' = "failed"
  BY <1>1, <1>2 DEF FileInv
<1> DEFINE n == Cardinality(voxels[k])
           h == copc.hierarchy
           g == copc'.hierarchy
<1>3. CASE stage' = stage /\ copc' = NewChunk(copc, k, n + 1, n)
           /\ pending' = IF n = 0 THEN pending ELSE pending \cup {k}
  <2>1. n \in Nat
    BY <1>1, FS_CardinalityType DEF Building
  <2>2. /\ DOMAIN copc = CopcFields /\ IsList(copc.chunkTable) /\ copc.pointPos \in Nat
        /\ PointOffset(info) + 8 <= copc.pointPos
        /\ ChunksApart(h, PointOffset(info) + 8, copc.pointPos)
        /\ pending \subseteq Filled(h)
        /\ \A r \in file : \E j \in Filled(h) \ pending : r.at = h[j].offset /\ r.len = h[j].size
    BY <1>1 DEF Building
  <2>3. PointOffset(info) \in Nat
    BY <1>1, HeaderLaid
  <2> DEFINE entry == IF n = 0 THEN [offset |-> 0, size |-> 0, count |-> 0]
                      ELSE [offset |-> copc.pointPos, size |-> n + 1, count |-> n]
             logged == [j \in DOMAIN h \cup {k} |-> IF j = k THEN entry ELSE h[j]]
             new == [count |-> n, size |-> n + 1]
  <2>4. copc' = IF n = 0 THEN [copc EXCEPT !.hierarchy = logged]
                ELSE [copc EXCEPT !.pointPos = @ + (n + 1), !.chunkTable = Append(@, new),
                                  !.pointCount = @ + n, !.hierarchy = logged]
    BY <1>3 DEF NewChunk
  <2> HIDE DEF n, logged, new
  <2>5. /\ DOMAIN copc' = CopcFields /\ g = logged
        /\ copc'.pointPos = IF n = 0 THEN copc.pointPos ELSE copc.pointPos + (n + 1)
        /\ copc'.chunkTable = IF n = 0 THEN copc.chunkTable ELSE Append(copc.chunkTable, new)
    BY <2>2, <2>4 DEF CopcFields
  <2>6. IsList(Append(copc.chunkTable, new))
    <3> DEFINE S == Range(copc.chunkTable) \cup {new}
               t == copc.chunkTable
    <3>1. t \in Seq(Range(t))
      BY <2>2 DEF IsList
    <3>2. t \in Seq(S)
      BY <3>1, SeqMonotonic
    <3>3. new \in S
      OBVIOUS
    <3> HIDE DEF S, t
    <3>4. Append(t, new) \in Seq(S)
      BY <3>2, <3>3
    <3>5. QED
      BY <3>4, ListOfAny DEF t
  <2>7. /\ DOMAIN g = DOMAIN h \cup {k} /\ \A j \in DOMAIN h : g[j] = h[j]
        /\ g[k].count = n /\ (n > 0 => g[k].offset = copc.pointPos /\ g[k].size = n + 1)
    BY <1>1, <2>1, <2>5 DEF logged
  <2> HIDE DEF h, g
  <2>8. /\ ChunksApart(g, PointOffset(info) + 8, copc.pointPos + (n + 1))
        /\ (~(n > 0) => ChunksApart(g, PointOffset(info) + 8, copc.pointPos))
        /\ Filled(g) = Filled(h) \cup (IF n > 0 THEN {k} ELSE {})
        /\ k \notin Filled(h) /\ \A j \in Filled(h) : g[j] = h[j]
    <3>1. k \notin DOMAIN h /\ PointOffset(info) + 8 \in Nat /\ n + 1 \in Nat
      BY <1>1, <2>1, <2>3 DEF h
    <3>2. QED
      BY <2>2, <2>7, <3>1, OneMoreChunk
  <2>9. ChunksApart(g, PointOffset(info) + 8, copc'.pointPos) /\ copc'.pointPos \in Nat
        /\ PointOffset(info) + 8 <= copc'.pointPos
    BY <2>1, <2>2, <2>3, <2>5, <2>8
  <2>10. pending' \subseteq Filled(g)
    BY <1>3, <2>1, <2>2, <2>8 DEF n
  <2>11. \A r \in file' : \E j \in Filled(g) \ pending' : r.at = g[j].offset /\ r.len = g[j].size
    <3> TAKE r \in file'
    <3>1. PICK j \in Filled(h) \ pending : r.at = h[j].offset /\ r.len = h[j].size
      BY <1>1, <2>2
    <3>2. j # k /\ j \in Filled(g) /\ g[j] = h[j] /\ j \notin pending'
      BY <1>3, <2>8, <3>1
    <3>3. QED
      BY <3>1, <3>2
  <2>12. Building'
    <3>1. IsFiniteSet(Tree)' /\ (\A j \in Tree : IsFiniteSet(voxels[j]))'
      BY <1>1 DEF Building, Tree
    <3>2. IsList(copc.chunkTable)'
      BY <2>2, <2>5, <2>6
    <3>3. (PointOffset(info))' = PointOffset(info)
      BY <1>1
    <3>4. QED
      BY <2>5, <2>9, <2>10, <2>11, <3>1, <3>2, <3>3 DEF Building, g
  <2>13. QED
    BY <1>1, <1>3, <2>12 DEF FileInv
<1>4. QED
  BY <1>1, <1>2, <1>3 DEF StartChunk

LEMMA WriteChunkFile ==
    ASSUME FileInv, NEW k \in Tree, WriteChunk(k)
    PROVE  FileInv' /\ file \subseteq file' /\ stage = "build"
<1> DEFINE h == copc.hierarchy
<1>1. /\ job \in Jobs /\ stage = "build" /\ InfoOK(info) /\ Building
      /\ job' = job /\ info' = info /\ voxels' = voxels /\ stage' = stage /\ copc' = copc
      /\ k \in pending /\ pending' = pending \ {k}
  BY DEF FileInv, WriteChunk
<1>2. PICK val : file' = Put(file, Region(h[k].offset, h[k].size, "chunk", val))
  BY DEF WriteChunk
<1> DEFINE R == Region(h[k].offset, h[k].size, "chunk", val)
<1>3. /\ k \in Filled(h) /\ pending \subseteq Filled(h)
      /\ ChunksApart(h, PointOffset(info) + 8, copc.pointPos)
      /\ \A r \in file : \E j \in Filled(h) \ pending : r.at = h[j].offset /\ r.len = h[j].size
  BY <1>1 DEF Building
<1>4. R.at = h[k].offset /\ R.len = h[k].size
  BY DEF Region
<1> HIDE DEF h, R
<1>5. \A r \in file : NoOverlap(r, R)
  <2> TAKE r \in file
  <2>1. PICK j \in Filled(h) \ pending : r.at = h[j].offset /\ r.len = h[j].size
    BY <1>3
  <2>2. NoOverlap(PlaceOf(h, j), PlaceOf(h, k))
    BY <1>1, <1>3, <2>1 DEF ChunksApart
  <2>3. QED
    BY <1>4, <2>1, <2>2 DEF NoOverlap, PlaceOf
<1>6. file' = file \cup {R}
  BY <1>2, <1>5 DEF Put, NoOverlap, R
<1>7. \A r \in file' : \E j \in Filled(h) \ pending' : r.at = h[j].offset /\ r.len = h[j].size
  <2> TAKE r \in file'
  <2>1. CASE r \in file
    BY <1>1, <1>3, <2>1
  <2>2. CASE r = R
    BY <1>1, <1>3, <1>4, <2>2
  <2>3. QED
    BY <1>6, <2>1, <2>2
<1>8. Building'
  <2>1. pending' \subseteq Filled(h)
    BY <1>1, <1>3
  <2>2. Tree' = Tree
    BY <1>1 DEF Tree
  <2>3. h = copc'.hierarchy
    BY <1>1 DEF h
  <2>4. QED
    BY <1>1, <1>7, <2>1, <2>2, <2>3 DEF Building
<1>9. QED
  BY <1>1, <1>6, <1>8 DEF FileInv

\* The place of the table, its header and the table itself are apart.
LEMMA TableLaid ==
    ASSUME NEW c, NEW at \in Nat, NEW size \in Nat, c.pointPos \in Nat, at + 8 <= c.pointPos
    PROVE  LET s == TableRegions(c, at, size) IN
           /\ IsFiniteSet(DOMAIN s) /\ DOMAIN s = 1..3
           /\ s[1].at = at /\ s[1].len = 8 /\ s[2].at = c.pointPos /\ s[2].len = 8
           /\ s[3].at = c.pointPos + 8 /\ s[3].len = size
           /\ \A i, j \in DOMAIN s : i # j => NoOverlap(s[i], s[j])
<1> DEFINE s == TableRegions(c, at, size)
<1>1. /\ DOMAIN s = 1..3
      /\ s[1].at = at /\ s[1].len = 8 /\ s[2].at = c.pointPos /\ s[2].len = 8
      /\ s[3].at = c.pointPos + 8 /\ s[3].len = size
  <2> DEFINE x == Region(at, 8, "place", c.pointPos)
             y == Region(c.pointPos, 8, "table header", Len(c.chunkTable))
             z == Region(c.pointPos + 8, size, "table", c.chunkTable)
  <2>1. /\ x.at = at /\ x.len = 8 /\ y.at = c.pointPos /\ y.len = 8
        /\ z.at = c.pointPos + 8 /\ z.len = size
    BY DEF Region
  <2>2. s = <<x, y, z>>
    BY DEF TableRegions
  <2> HIDE DEF x, y, z, s
  <2>3. DOMAIN s = 1..3 /\ s[1] = x /\ s[2] = y /\ s[3] = z
    BY <2>2
  <2>4. QED
    BY <2>1, <2>3
<1> HIDE DEF s
<1>2. IsFiniteSet(DOMAIN s)
  <2>1. \A n \in Nat : IsFiniteSet(1..n)
    BY FS_Interval
  <2>2. QED
    BY <1>1, <2>1
<1>3. /\ NoOverlap(s[1], s[2]) /\ NoOverlap(s[1], s[3]) /\ NoOverlap(s[2], s[3])
      /\ NoOverlap(s[2], s[1]) /\ NoOverlap(s[3], s[1]) /\ NoOverlap(s[3], s[2])
  BY <1>1 DEF NoOverlap
<1>4. \A i, j \in DOMAIN s : i # j => NoOverlap(s[i], s[j])
  BY <1>1, <1>3
<1>5. QED
  BY <1>1, <1>2, <1>4 DEF s

LEMMA TableFile ==
    ASSUME FileInv, WriteChunkTable
    PROVE  /\ FileInv' /\ stage = "build"
           /\ file' = file \cup Range(TableRegions(copc, PointOffset(info), 3 + Len(copc.chunkTable)))
<1> DEFINE size == 3 + Len(copc.chunkTable)
           h == copc.hierarchy
           at == PointOffset(info)
           pos == copc.pointPos
           s == TableRegions(copc, at, size)
<1>1. /\ job \in Jobs /\ stage = "build" /\ InfoOK(info) /\ Building
      /\ job' = job /\ info' = info /\ voxels' = voxels /\ stage' = "hierarchy"
      /\ file' = PutAll(file, s)
      /\ copc' = [copc EXCEPT !.evlrOffset = pos + 8 + size]
  BY DEF FileInv, WriteChunkTable
<1>2. /\ IsFiniteSet(Tree) /\ DOMAIN copc = CopcFields /\ IsList(copc.chunkTable)
      /\ pos \in Nat /\ at + 8 <= pos
      /\ \A r \in file : \E j \in Filled(h) : r.at = h[j].offset /\ r.len = h[j].size
      /\ ChunksApart(h, at + 8, pos)
  BY <1>1 DEF Building
<1>3. at \in Nat /\ size \in Nat
  BY <1>1, <1>2, HeaderLaid, ListDomain
<1>4. copc'.evlrOffset = pos + 8 + size
  BY <1>1, <1>2 DEF CopcFields
<1>5. \A r \in file : r.at \in Int /\ r.len \in Nat /\ at + 8 <= r.at /\ r.at + r.len <= pos
  BY <1>2 DEF ChunksApart
<1> HIDE DEF size, at, pos, h
<1>6. /\ IsFiniteSet(DOMAIN s) /\ DOMAIN s = 1..3
      /\ s[1].at = at /\ s[1].len = 8 /\ s[2].at = pos /\ s[2].len = 8
      /\ s[3].at = pos + 8 /\ s[3].len = size
      /\ \A i, j \in DOMAIN s : i # j => NoOverlap(s[i], s[j])
  BY <1>2, <1>3, TableLaid DEF pos
<1> HIDE DEF s
<1>7. \A i \in DOMAIN s : /\ s[i].at \in Int /\ s[i].len \in Nat
                          /\ at <= s[i].at /\ s[i].at + s[i].len <= pos + 8 + size
                          /\ s[i].at + s[i].len <= at + 8 \/ pos <= s[i].at
  <2> TAKE i \in DOMAIN s
  <2>1. i = 1 \/ i = 2 \/ i = 3
    BY <1>6
  <2>2. CASE i = 1
    BY <1>2, <1>3, <1>6, <2>2
  <2>3. CASE i = 2
    BY <1>2, <1>3, <1>6, <2>3
  <2>4. CASE i = 3
    BY <1>2, <1>3, <1>6, <2>4
  <2>5. QED
    BY <2>1, <2>2, <2>3, <2>4
<1>8. \A i \in DOMAIN s : \A r \in file : NoOverlap(r, s[i])
  <2> TAKE i \in DOMAIN s
  <2> TAKE r \in file
  <2>1. /\ s[i].at \in Int /\ s[i].len \in Nat
        /\ s[i].at + s[i].len <= at + 8 \/ pos <= s[i].at
    BY <1>7
  <2>2. r.at \in Int /\ r.len \in Nat /\ at + 8 <= r.at /\ r.at + r.len <= pos
    BY <1>5
  <2>3. QED
    BY <1>2, <1>3, <2>1, <2>2 DEF NoOverlap
<1>9. file' = file \cup {s[i] : i \in DOMAIN s}
  BY <1>1, <1>6, <1>8, PutAllAdds
<1>10. \A r \in file' : r.at \in Int /\ r.len \in Nat /\ at <= r.at /\ r.at + r.len <= pos + 8 + size
  <2> TAKE r \in file'
  <2>1. CASE r \in file
    BY <1>2, <1>3, <1>5, <2>1
  <2>2. CASE \E i \in DOMAIN s : r = s[i]
    BY <1>7, <2>2
  <2>3. QED
    BY <1>9, <2>1, <2>2
<1>11. /\ Behind(file, PointOffset(info))' /\ Before(file, copc.evlrOffset)'
       /\ (IsFiniteSet(Tree))' /\ (copc.evlrOffset \in Nat)' /\ (PointOffset(info) <= copc.evlrOffset)'
  <2>1. at = PointOffset(info') /\ Tree' = Tree
    BY <1>1 DEF at, Tree
  <2>2. copc'.evlrOffset \in Nat /\ at <= copc'.evlrOffset
    BY <1>2, <1>3, <1>4
  <2>3. QED
    BY <1>2, <1>4, <1>10, <2>1, <2>2 DEF Behind, Before
<1>12. file' = file \cup Range(s)
  BY <1>9 DEF Range
<1>13. QED
  BY <1>1, <1>11, <1>12 DEF FileInv, s, at, size

LEMMA HierarchyFile ==
    ASSUME FileInv, WriteHierarchy
    PROVE  /\ FileInv' /\ stage = "hierarchy"
           /\ \E order \in Orders(Tree) : file' = file \cup Range(HierarchyRegions(copc, Tree, order))
<1>1. /\ job \in Jobs /\ stage = "hierarchy" /\ InfoOK(info)
      /\ IsFiniteSet(Tree) /\ copc.evlrOffset \in Nat
      /\ Behind(file, PointOffset(info)) /\ Before(file, copc.evlrOffset)
      /\ PointOffset(info) <= copc.evlrOffset
      /\ job' = job /\ info' = info /\ stage' = "header"
  BY DEF FileInv, WriteHierarchy
<1>2. PICK order \in Orders(Tree) : file' = PutAll(file, HierarchyRegions(copc, Tree, order))
  BY DEF WriteHierarchy
<1> DEFINE s == HierarchyRegions(copc, Tree, order)
<1>3. PICK to \in Int : Laid(s, copc.evlrOffset, to)
  BY <1>1, PagesLaid
<1>4. PointOffset(info) \in Nat
  BY <1>1, HeaderLaid
<1> HIDE DEF s
<1>5. file' = file \cup Range(s)
  <2>1. \A r \in file : r.at \in Int /\ r.len \in Nat /\ r.at + r.len <= copc.evlrOffset
    BY <1>1 DEF Behind, Before
  <2>2. PutAll(file, s) = file \cup Range(s)
    BY <1>1, <1>3, <2>1, LaidIsAdded
  <2>3. QED
    BY <1>2, <2>2 DEF s
<1>6. \A r \in file' : r.at \in Int /\ r.len \in Nat /\ PointOffset(info) <= r.at
  <2> TAKE r \in file'
  <2>1. CASE r \in file
    BY <1>1, <2>1 DEF Behind
  <2>2. CASE r \in Range(s)
    <3>1. PICK i \in DOMAIN s : r = s[i]
      BY <2>2 DEF Range
    <3>2. s[i].at \in Int /\ s[i].len \in Nat /\ copc.evlrOffset <= s[i].at
      BY <1>3 DEF Laid
    <3>3. QED
      BY <1>1, <1>4, <3>1, <3>2
  <2>3. QED
    BY <1>5, <2>1, <2>2
<1>7. Behind(file, PointOffset(info))'
  BY <1>1, <1>6 DEF Behind
<1>8. FileInv'
  BY <1>1, <1>7 DEF FileInv
<1>9. QED
  BY <1>1, <1>5, <1>8 DEF s

LEMMA HeaderFile ==
    ASSUME FileInv, WriteHeader
    PROVE  /\ FileInv' /\ stage = "header" /\ file' = file \cup Range(HeaderRegions(info, copc, stats))
<1> DEFINE s == HeaderRegions(info, copc, stats)
<1>1. /\ job \in Jobs /\ stage = "header" /\ InfoOK(info) /\ Behind(file, PointOffset(info))
      /\ job' = job /\ stage' = "done" /\ file' = PutAll(file, s)
  BY DEF FileInv, WriteHeader
<1>2. Laid(s, 0, PointOffset(info)) /\ PointOffset(info) \in Nat
  BY <1>1, HeaderLaid
<1>3. \A r \in file : r.at \in Int /\ r.len \in Nat /\ PointOffset(info) <= r.at
  BY <1>1 DEF Behind
<1> HIDE DEF s
<1>4. PutAll(file, s) = file \cup Range(s)
  BY <1>2, <1>3, LaidIsAdded
<1>5. FileInv'
  BY <1>1 DEF FileInv
<1>6. QED
  BY <1>1, <1>4, <1>5 DEF s

-----------------------------------------------------------------------------

\* What may go into the output file in a step.
OnlyAdds ==
    /\ file \subseteq file'
    /\ stage = "header" => Range(HeaderRegions(info, copc, stats)) \subseteq file'
    /\ stage = "hierarchy" =>
        \E order \in Orders(Tree) : Range(HierarchyRegions(copc, Tree, order)) \subseteq file'

LEMMA EveryStepAdds ==
    ASSUME FileInv, [Next]_vars
    PROVE  FileInv' /\ [OnlyAdds]_vars
<1>1. CASE Prepare
  BY <1>1, PrepareFile DEF OnlyAdds
<1>2. CASE Tile
  BY <1>2, TileFile DEF OnlyAdds
<1>3. CASE WriteChunkTable
  BY <1>3, TableFile DEF OnlyAdds
<1>4. CASE WriteHierarchy
  BY <1>4, HierarchyFile DEF OnlyAdds
<1>5. CASE WriteHeader
  BY <1>5, HeaderFile DEF OnlyAdds
<1>6. CASE \E k \in Tree : StartChunk(k)
  BY <1>6, StartChunkFile DEF OnlyAdds
<1>7. CASE \E k \in Tree : WriteChunk(k)
  BY <1>7, WriteChunkFile DEF OnlyAdds
<1>8. CASE Ended \/ UNCHANGED vars
  <2>1. UNCHANGED vars
    BY <1>8 DEF Ended
  <2>2. FileInv' = FileInv
    BY <2>1 DEF vars, FileInv, Building, Behind, Before, Tree
  <2>3. QED
    BY <2>1, <2>2
<1>9. QED
  BY <1>1, <1>2, <1>3, <1>4, <1>5, <1>6, <1>7, <1>8 DEF Next

\* At every time the file has nothing but what was written to places of its own,
\* all of them behind the place for the header and the records.
THEOREM FilePlaces == Spec => []FileInv
<1>1. Init => FileInv
  BY InitFile
<1>2. FileInv /\ [Next]_vars => FileInv'
  BY EveryStepAdds
<1>3. QED
  BY <1>1, <1>2, PTL DEF Spec

\* For every tree of voxels, every order of the chunks and of the pages, and every
\* set of dimensions, nothing in the output file is written over: not a chunk by
\* the table or a page, not a page by another one, and nothing by the header and
\* the records, for which the constructor left room before it wrote one of them.
THEOREM RegionsStay == Spec => NothingOverwritten
<1>1. FileInv /\ [Next]_vars => [OnlyAdds]_vars
  BY EveryStepAdds
<1>2. Spec => [][OnlyAdds]_vars
  BY <1>1, FilePlaces, PTL DEF Spec
<1>3. QED
  BY <1>2 DEF NothingOverwritten, OnlyAdds

-----------------------------------------------------------------------------
(* What the regions of the file hold.                                      *)

\* The list of a finite set has its elements and no others.
LEMMA SetToSeqType ==
    ASSUME NEW S, IsFiniteSet(S)
    PROVE  SetToSeq(S) \in [1..Cardinality(S) -> S]
<1>1. PICK f : f \in Bijection(1..Cardinality(S), S)
  BY FS_NatBijection, FS_CardinalityType, FS_CountingElements DEF ExistsBijection
<1>2. QED
  BY <1>1 DEF SetToSeq, IsInjective, Bijection, Injection

\* A point lies in the cell that the key means.
InVoxel(base, k, data) ==
    /\ k.level \in Nat
    /\ \A a \in Axes :
        LET side == Side(base.bounds, a)
            way  == (data[a] - base.bounds[a].min) * Cells[k.level]
        IN  k.pos[a] \in Nat /\ side * k.pos[a] <= way /\ way <= side * (k.pos[a] + 1)

\* The bounds are a cube if that was asked for and one scale holds for all axes.
CubeIsCube(cube, base) ==
    cube /\ (\A a, b \in Axes : base.scale[a] = base.scale[b]) =>
        \A a, b \in Axes : Side(base.bounds, a) = Side(base.bounds, b)

PointPlaced(cube, base, k, p) ==
    InBounds(base, p.data) /\ InVoxel(base, k, p.data) /\ CubeIsCube(cube, base)

\* An entry of a page says where the chunk of its voxel is.
EntryHolds(h, e) ==
    e.count > 0 => e.key \in Filled(h) /\ e.offset = h[e.key].offset /\ e.size = h[e.key].size

\* A region of the file holds what its kind promises.
RegionHolds(r, base, h, points) ==
    /\ r.what = "chunk" =>
        \E k \in Filled(h) : /\ r.at = h[k].offset /\ r.len = h[k].size
                             /\ Range(r.val) \subseteq {LasPoint(base, p) : p \in points[k]}
    /\ r.what = "page" => \A e \in r.val : EntryHolds(h, e)
    /\ r.what = "header" => r.val.scale = base.scale /\ r.val.offset = base.offset
    /\ r.what = "copc" =>
        /\ \A a \in Axes : r.val.center2[a] = base.bounds[a].max + base.bounds[a].min
        /\ \E a \in Axes : r.val.size = Side(base.bounds, a)

\* No two voxels have their chunks at one place.
PlacesDiffer(h) ==
    /\ \A k \in Filled(h) : h[k].size > 0
    /\ \A j, k \in Filled(h) : h[j].offset = h[k].offset => j = k

ContentInv ==
    /\ stage \in {"tile", "build", "hierarchy", "header", "done"} => info = BaseInfo(job)
    /\ stage \in {"build", "hierarchy", "header", "done"} =>
        /\ \A k \in Tree : \A p \in voxels[k] : PointPlaced(job.doCube, info, k, p)
        /\ Root \in Tree /\ "hierarchy" \in DOMAIN copc /\ DOMAIN copc.hierarchy \subseteq Tree
        /\ PlacesDiffer(copc.hierarchy)
        /\ \A r \in file : RegionHolds(r, info, copc.hierarchy, voxels)
    /\ stage = "hierarchy" => DOMAIN copc.hierarchy = Tree

LEMMA ApartDiffer ==
    ASSUME NEW h, NEW from, NEW to, ChunksApart(h, from, to), \A k \in Filled(h) : h[k].size > 0
    PROVE  PlacesDiffer(h)
<1>1. ASSUME NEW j \in Filled(h), NEW k \in Filled(h), h[j].offset = h[k].offset, j # k
      PROVE  FALSE
  <2>1. NoOverlap(PlaceOf(h, j), PlaceOf(h, k))
    BY <1>1 DEF ChunksApart
  <2>2. h[j].offset \in Nat /\ h[j].size \in Nat /\ h[k].size \in Nat
    BY DEF ChunksApart
  <2>3. QED
    BY <1>1, <2>1, <2>2 DEF NoOverlap, PlaceOf
<1>2. QED
  BY <1>1 DEF PlacesDiffer

LEMMA InitContent == Init => ContentInv
BY DEF Init, ContentInv

LEMMA PrepareContent ==
    ASSUME ContentInv, Prepare
    PROVE  ContentInv'
BY DEF ContentInv, Prepare

\* Every point gets to a voxel that it lies in, of whatever level.
LEMMA TileContent ==
    ASSUME FileInv, ContentInv, Tile
    PROVE  ContentInv'
<1>1. /\ job \in Jobs /\ info = BaseInfo(job) /\ file = {} /\ copc = NewCopc(info)
      /\ job' = job /\ info' = info /\ copc' = copc /\ file' = file /\ stage' = "build"
  BY DEF FileInv, ContentInv, Tile
<1>2. PICK s \in Stale, level \in [Sources -> 0..(MaxLevel(info, job) + Deepest)] :
        LET point(t) == [of |-> t, data |-> Fill(info, info.infos[t[1]], Source(t), s)]
            at(t)    == Key(info.bounds, point(t).data, level[t])
            used     == {at(t) : t \in Sources}
        IN  voxels' = [k \in {Root} \cup used \cup UNION {Ancestors(k) : k \in used} |->
                        {point(t) : t \in {u \in Sources : at(u) = k}}]
  BY DEF Tile
<1> DEFINE point(t) == [of |-> t, data |-> Fill(info, info.infos[t[1]], Source(t), s)]
           at(t) == Key(info.bounds, point(t).data, level[t])
           used == {at(t) : t \in Sources}
<1>3. voxels' = [k \in {Root} \cup used \cup UNION {Ancestors(k) : k \in used} |->
                    {point(t) : t \in {u \in Sources : at(u) = k}}]
  BY <1>2
<1>4. ASSUME NEW t \in Sources
      PROVE  PointPlaced(job.doCube, info, at(t), point(t))
  <2>0. PICK i \in DOMAIN info.infos : t \in {<<i, n>> : n \in DOMAIN info.infos[i].points}
    BY DEF Sources
  <2>1. PICK n \in DOMAIN info.infos[i].points : t = <<i, n>>
    BY <2>0
  <2> DEFINE data == Fill(info, info.infos[i], info.infos[i].points[n], s)
  <2>2. point(t).data = data
    BY <2>1 DEF Source
  <2>3. InBounds(info, data) /\ CubeIsCube(job.doCube, info)
    BY <1>1, FilledInBounds DEF CubeIsCube
  <2> HIDE DEF data
  <2>4. level[t] \in Nat
    OBVIOUS
  <2>5. at(t) = Key(info.bounds, data, level[t])
    BY <2>2
  <2> HIDE DEF at, point
  <2> DEFINE l == level[t]
             k == at(t)
  <2>6. k.level = l
    BY <2>5 DEF Key
  <2>7. ASSUME NEW a \in Axes
        PROVE  /\ k.pos[a] \in Nat
               /\ Side(info.bounds, a) * k.pos[a] <= (data[a] - info.bounds[a].min) * Cells[l]
               /\ (data[a] - info.bounds[a].min) * Cells[l] <= Side(info.bounds, a) * (k.pos[a] + 1)
    <3>1. /\ info.bounds[a].min \in Int /\ info.bounds[a].max \in Int
          /\ info.bounds[a].min < info.bounds[a].max /\ data[a] \in Int
          /\ info.bounds[a].min <= data[a] /\ data[a] <= info.bounds[a].max
      BY <2>3 DEF InBounds
    <3> HIDE DEF l
    <3>2. QED
      BY <2>4, <2>5, <3>1, InCell DEF l
  <2>8. InVoxel(info, k, data)
    BY <2>4, <2>6, <2>7 DEF InVoxel
  <2>9. QED
    BY <2>2, <2>3, <2>8 DEF PointPlaced
<1> HIDE DEF point, at
<1>5. \A k \in DOMAIN voxels' : \A p \in voxels'[k] : PointPlaced(job.doCube, info, k, p)
  <2> TAKE k \in DOMAIN voxels'
  <2> TAKE p \in voxels'[k]
  <2>1. voxels'[k] = {point(t) : t \in {u \in Sources : at(u) = k}}
    BY <1>3
  <2>2. PICK t \in Sources : at(t) = k /\ p = point(t)
    BY <2>1
  <2>3. QED
    BY <1>4, <2>2
<1>6. Root \in Tree'
  BY <1>3 DEF Tree
<1>7. "hierarchy" \in DOMAIN copc /\ copc.hierarchy = <<>>
  BY <1>1 DEF NewCopc
<1>8. DOMAIN copc.hierarchy = {} /\ PlacesDiffer(copc.hierarchy)
  BY <1>7 DEF PlacesDiffer, Filled
<1>9. Tree' = DOMAIN voxels'
  BY DEF Tree
<1>10. QED
  BY <1>1, <1>5, <1>6, <1>7, <1>8, <1>9 DEF ContentInv

\* What a region holds stays, when other voxels get places.
LEMMA HoldsStays ==
    ASSUME NEW r, NEW base, NEW h, NEW g, NEW points, RegionHolds(r, base, h, points),
           \A k \in Filled(h) : k \in Filled(g) /\ g[k] = h[k]
    PROVE  RegionHolds(r, base, g, points)
BY DEF RegionHolds, EntryHolds

LEMMA StartChunkContent ==
    ASSUME FileInv, ContentInv, NEW k \in Tree, StartChunk(k)
    PROVE  ContentInv'
<1>1. FileInv' /\ file' = file /\ stage = "build"
  BY StartChunkFile
<1> DEFINE n == Cardinality(voxels[k])
           h == copc.hierarchy
           g == copc'.hierarchy
<1>2. /\ info = BaseInfo(job) /\ job' = job /\ info' = info /\ voxels' = voxels
      /\ k \notin DOMAIN h /\ Root \in Tree /\ DOMAIN h \subseteq Tree
      /\ (\A j \in Tree : \A p \in voxels[j] : PointPlaced(job.doCube, info, j, p))
      /\ PlacesDiffer(h) /\ \A r \in file : RegionHolds(r, info, h, voxels)
  BY <1>1 DEF ContentInv, StartChunk
<1>3. CASE stage' = "failed"
  BY <1>3 DEF ContentInv
<1>4. CASE stage' = stage /\ copc' = NewChunk(copc, k, n + 1, n)
  <2>1. n \in Nat /\ DOMAIN copc = CopcFields
    BY <1>1, FS_CardinalityType DEF FileInv, Building
  <2> DEFINE entry == IF n = 0 THEN [offset |-> 0, size |-> 0, count |-> 0]
                      ELSE [offset |-> copc.pointPos, size |-> n + 1, count |-> n]
             logged == [j \in DOMAIN h \cup {k} |-> IF j = k THEN entry ELSE h[j]]
             new == [count |-> n, size |-> n + 1]
  <2>2. copc' = IF n = 0 THEN [copc EXCEPT !.hierarchy = logged]
                ELSE [copc EXCEPT !.pointPos = @ + (n + 1), !.chunkTable = Append(@, new),
                                  !.pointCount = @ + n, !.hierarchy = logged]
    BY <1>4 DEF NewChunk
  <2> HIDE DEF n, logged, new
  <2>3. g = logged /\ "hierarchy" \in DOMAIN copc'
    BY <2>1, <2>2 DEF CopcFields
  <2>4. /\ DOMAIN g = DOMAIN h \cup {k} /\ \A j \in DOMAIN h : g[j] = h[j]
        /\ g[k].count = n /\ (n > 0 => g[k].size = n + 1)
    BY <1>2, <2>1, <2>3 DEF logged
  <2> HIDE DEF h, g
  <2>5. \A j \in Filled(h) : j \in Filled(g) /\ g[j] = h[j]
    BY <2>4 DEF Filled
  <2>6. \A j \in Filled(g) : g[j].size > 0
    <3> TAKE j \in Filled(g)
    <3>1. CASE j = k
      BY <2>1, <2>4, <3>1 DEF Filled
    <3>2. CASE j # k
      <4>1. j \in Filled(h) /\ g[j] = h[j]
        BY <2>4, <3>2 DEF Filled
      <4>2. QED
        BY <1>2, <4>1 DEF PlacesDiffer
    <3>3. QED
      BY <3>1, <3>2
  <2>7. PlacesDiffer(g)
    <3>1. stage' = "build"
      BY <1>1, <1>4
    <3>2. ChunksApart(g, PointOffset(info') + 8, copc'.pointPos)
      BY <1>1, <3>1 DEF FileInv, Building, g
    <3>3. QED
      BY <2>6, <3>2, ApartDiffer
  <2>8. \A r \in file' : RegionHolds(r, info, g, voxels)
    BY <1>1, <1>2, <2>5, HoldsStays
  <2>9. Tree' = Tree /\ DOMAIN g \subseteq Tree /\ stage' = "build"
    BY <1>1, <1>2, <1>4, <2>4 DEF Tree
  <2>10. QED
    BY <1>2, <2>3, <2>7, <2>8, <2>9 DEF ContentInv, g
<1>5. QED
  BY <1>3, <1>4 DEF StartChunk

LEMMA WriteChunkContent ==
    ASSUME FileInv, ContentInv, NEW k \in Tree, WriteChunk(k)
    PROVE  ContentInv'
<1> DEFINE h == copc.hierarchy
           list == SetToSeq(voxels[k])
           val == [i \in DOMAIN list |-> LasPoint(info, list[i])]
           R == Region(h[k].offset, h[k].size, "chunk", val)
<1>1. /\ stage = "build" /\ k \in pending /\ info = BaseInfo(job)
      /\ job' = job /\ info' = info /\ voxels' = voxels /\ stage' = stage /\ copc' = copc
      /\ file' = Put(file, R)
      /\ \A r \in file : RegionHolds(r, info, h, voxels)
  BY DEF WriteChunk, ContentInv
<1>2. k \in Filled(h) /\ IsFiniteSet(voxels[k])
  BY <1>1 DEF FileInv, Building
<1>3. Range(val) \subseteq {LasPoint(info, p) : p \in voxels[k]}
  <2>1. list \in [1..Cardinality(voxels[k]) -> voxels[k]]
    BY <1>2, SetToSeqType
  <2> HIDE DEF list
  <2>2. QED
    BY <2>1 DEF Range
<1> HIDE DEF val
<1>4. R.what = "chunk" /\ R.at = h[k].offset /\ R.len = h[k].size /\ R.val = val
  BY DEF Region
<1> HIDE DEF R, h
<1>5. RegionHolds(R, info, h, voxels)
  BY <1>2, <1>3, <1>4 DEF RegionHolds
<1>6. \A r \in file' : RegionHolds(r, info, h, voxels)
  BY <1>1, <1>5 DEF Put
<1>7. Tree' = Tree
  BY <1>1 DEF Tree
<1>8. QED
  BY <1>1, <1>6, <1>7 DEF ContentInv, h

LEMMA TableContent ==
    ASSUME FileInv, ContentInv, WriteChunkTable
    PROVE  ContentInv'
<1> DEFINE h == copc.hierarchy
           s == TableRegions(copc, PointOffset(info), 3 + Len(copc.chunkTable))
<1>1. stage = "build" /\ file' = file \cup Range(s)
  BY TableFile
<1>2. /\ info = BaseInfo(job) /\ job' = job /\ info' = info /\ voxels' = voxels
      /\ stage' = "hierarchy" /\ DOMAIN h = Tree
      /\ \A r \in file : RegionHolds(r, info, h, voxels)
  BY <1>1 DEF WriteChunkTable, ContentInv
<1>3. copc'.hierarchy = h /\ "hierarchy" \in DOMAIN copc'
  BY <1>1 DEF WriteChunkTable, FileInv, Building, CopcFields
<1>4. ASSUME NEW r \in Range(s)
      PROVE  r.what \in {"place", "table header", "table"}
  <2> DEFINE x == Region(PointOffset(info), 8, "place", copc.pointPos)
             y == Region(copc.pointPos, 8, "table header", Len(copc.chunkTable))
             z == Region(copc.pointPos + 8, 3 + Len(copc.chunkTable), "table", copc.chunkTable)
  <2>1. x.what = "place" /\ y.what = "table header" /\ z.what = "table"
    BY DEF Region
  <2>2. s = <<x, y, z>>
    BY DEF TableRegions
  <2> HIDE DEF x, y, z, s
  <2>3. DOMAIN s = 1..3 /\ s[1] = x /\ s[2] = y /\ s[3] = z
    BY <2>2
  <2>4. r \in {x, y, z}
    BY <2>3 DEF Range
  <2>5. QED
    BY <2>1, <2>4
<1> HIDE DEF s
<1>5. \A r \in Range(s) : RegionHolds(r, info, h, voxels)
  BY <1>4 DEF RegionHolds
<1>6. Tree' = Tree
  BY <1>2 DEF Tree
<1> HIDE DEF h
<1>7. \A r \in file' : RegionHolds(r, info, h, voxels)
  BY <1>1, <1>2, <1>5
<1>8. QED
  BY <1>1, <1>2, <1>3, <1>6, <1>7 DEF ContentInv, h

\* A page has the places of the chunks of its voxels.
LEMMA PageHolds ==
    ASSUME NEW c, NEW tree, DOMAIN c.hierarchy = tree, Root \in tree, NEW at,
           NEW o \in PageRoots(tree), NEW e \in Page(c, tree, at, o)
    PROVE  EntryHolds(c.hierarchy, e)
<1> DEFINE h == c.hierarchy
           to(k) == IF k \in PageRoots(tree) \ {o}
                    THEN [offset |-> at[k], size |-> PageSize(tree, k), count |-> -1]
                    ELSE h[k]
<1>1. PICK k \in PageKeys(tree, o) :
        e = [key |-> k, offset |-> to(k).offset, size |-> to(k).size, count |-> to(k).count]
  BY DEF Page
<1> DEFINE x == to(k)
<1>2. e.key = k /\ e.offset = x.offset /\ e.size = x.size /\ e.count = x.count
  BY <1>1
<1>3. k \in tree
  BY <1>1 DEF PageKeys, PageRoots
<1>4. CASE k \in PageRoots(tree) \ {o}
  <2>1. x.count = -1
    BY <1>4
  <2>2. QED
    BY <1>2, <2>1 DEF EntryHolds
<1>5. CASE k \notin PageRoots(tree) \ {o}
  <2>1. x = h[k]
    BY <1>5
  <2> HIDE DEF x
  <2>2. QED
    BY <1>2, <1>3, <2>1 DEF EntryHolds, Filled
<1>6. QED
  BY <1>4, <1>5

LEMMA HierarchyContent ==
    ASSUME FileInv, ContentInv, WriteHierarchy
    PROVE  ContentInv'
<1> DEFINE h == copc.hierarchy
<1>1. PICK order \in Orders(Tree) : file' = file \cup Range(HierarchyRegions(copc, Tree, order))
  BY HierarchyFile
<1>2. /\ stage = "hierarchy" /\ info = BaseInfo(job) /\ job' = job /\ info' = info /\ voxels' = voxels
      /\ stage' = "header" /\ DOMAIN h = Tree /\ Root \in Tree /\ "hierarchy" \in DOMAIN copc
      /\ \A r \in file : RegionHolds(r, info, h, voxels)
  BY DEF WriteHierarchy, ContentInv
<1>3. copc'.hierarchy = h /\ "hierarchy" \in DOMAIN copc'
  BY <1>2 DEF WriteHierarchy
<1> DEFINE from == copc.evlrOffset + EvlrHeaderSize
           at == Place(Tree, order, from)
           all == FoldSeq(+, 0, [i \in DOMAIN order |-> PageSize(Tree, order[i])])
           page(i) == Region(at[order[i]], PageSize(Tree, order[i]), "page",
                             Page(copc, Tree, at, order[i]))
           last == Region(copc.evlrOffset, EvlrHeaderSize, "evlr header", all)
           pages == [i \in DOMAIN order |-> page(i)]
           one == <<last>>
           s == HierarchyRegions(copc, Tree, order)
<1>4. s = pages \o one
  BY DEF HierarchyRegions
<1>5. PICK n \in Nat : DOMAIN order = 1..n /\ \A i \in 1..n : order[i] \in PageRoots(Tree)
  <2>1. IsFiniteSet(Tree)
    BY <1>2 DEF FileInv
  <2>2. IsFiniteSet({k \in Tree : k.level % LevelBreak = 0
                                  /\ Cardinality(Below(Tree, k)) > MinHierarchySize})
    BY <2>1, FS_Subset
  <2>3. IsFiniteSet(PageRoots(Tree))
    BY <2>2, FS_AddElement DEF PageRoots
  <2>4. Cardinality(PageRoots(Tree)) \in Nat
    BY <2>3, FS_CardinalityType
  <2>5. QED
    BY <2>4 DEF Orders
<1>6. ASSUME NEW i \in DOMAIN order
      PROVE  RegionHolds(page(i), info, h, voxels)
  <2> DEFINE P == Page(copc, Tree, at, order[i])
  <2>1. page(i).what = "page" /\ page(i).val = P
    BY DEF Region
  <2>2. order[i] \in PageRoots(Tree)
    BY <1>5
  <2> HIDE DEF at
  <2>3. \A e \in P : EntryHolds(h, e)
    BY <1>2, <2>2, PageHolds
  <2> HIDE DEF page, P
  <2>4. QED
    BY <2>1, <2>3 DEF RegionHolds
<1>7. RegionHolds(last, info, h, voxels)
  BY DEF Region, RegionHolds
<1> HIDE DEF page, last, s
<1>8. one \in Seq({last}) /\ one = <<last>>
  OBVIOUS
<1>9. IsList(one) /\ Range(one) \subseteq {last}
  BY <1>8, ListOfAny, ElementsOf
<1>10. IsList(pages) /\ \A r \in Range(pages) : \E i \in DOMAIN order : r = page(i)
  <2>1. DOMAIN pages = 1..n /\ pages = [i \in 1..n |-> pages[i]] /\ \A i \in DOMAIN order : pages[i] = page(i)
    BY <1>5
  <2> HIDE DEF pages
  <2>2. IsList(pages)
    BY <2>1, ListByIndex
  <2>3. QED
    BY <1>5, <2>1, <2>2 DEF Range
<1> HIDE DEF pages, one
<1>11. Range(s) \subseteq Range(pages) \cup Range(one)
  BY <1>4, <1>9, <1>10, JoinedRange
<1>12. \A r \in Range(s) : RegionHolds(r, info, h, voxels)
  BY <1>6, <1>7, <1>9, <1>10, <1>11
<1>13. \A r \in file' : RegionHolds(r, info, h, voxels)
  BY <1>1, <1>2, <1>12 DEF s
<1>14. Tree' = Tree
  BY <1>2 DEF Tree
<1> HIDE DEF h
<1>15. QED
  BY <1>2, <1>3, <1>13, <1>14 DEF ContentInv, h

LEMMA RecordKinds ==
    ASSUME NEW i, InfoOK(i), NEW n \in DOMAIN VlrList(i)
    PROVE  VlrList(i)[n][1] \in {"copc", "laszip", "wkt", "eb"}
<1> DEFINE v == VlrList(i)
           eb == ExtraByteSize(i)
           rest == EbVlrSize(Cardinality(ExtraDims(i.dims)))
           laz == LazSize(i)
<1>1. v = <<<<"copc", 160>>, <<"laszip", laz>>, <<"wkt", WktSize>>>>
            \o (IF eb = 0 THEN <<>> ELSE <<<<"eb", rest>>>>)
  BY DEF VlrList, CopcInfoSize
<1> HIDE DEF v, eb, rest, laz
<1>2. CASE eb = 0
  <2>1. DOMAIN v = 1..3 /\ v[1][1] = "copc" /\ v[2][1] = "laszip" /\ v[3][1] = "wkt"
    BY <1>1, <1>2
  <2>2. QED
    BY <2>1 DEF v
<1>3. CASE eb # 0
  <2>1. /\ DOMAIN v = 1..4 /\ v[1][1] = "copc" /\ v[2][1] = "laszip" /\ v[3][1] = "wkt"
        /\ v[4][1] = "eb"
    BY <1>1, <1>3
  <2>2. QED
    BY <2>1 DEF v
<1>4. QED
  BY <1>2, <1>3

LEMMA HeaderContent ==
    ASSUME FileInv, ContentInv, WriteHeader
    PROVE  ContentInv'
<1> DEFINE h == copc.hierarchy
           v == VlrList(info)
           s == HeaderRegions(info, copc, stats)
           at(n) == HeaderSize(4) + FoldSeq(+, 0, [j \in 1..(n - 1) |-> VlrHeaderSize + v[j][2]])
           first == Region(0, Bytes(Header14), "header", Header(info, copc, stats))
           head(n) == Region(at(n), Bytes(VlrHeader), "vlr header",
                             [kind |-> v[n][1], length |-> v[n][2]])
           body(n) == Region(at(n) + VlrHeaderSize, v[n][2], v[n][1],
                             VlrValue(info, copc, v[n][1]))
           one == <<first>>
           heads == [n \in DOMAIN v |-> head(n)]
           bodies == [n \in DOMAIN v |-> body(n)]
<1>1. file' = file \cup Range(s)
  BY HeaderFile
<1>2. /\ stage = "header" /\ info = BaseInfo(job) /\ InfoOK(info)
      /\ job' = job /\ info' = info /\ voxels' = voxels /\ stage' = "done" /\ copc' = copc
      /\ \A r \in file : RegionHolds(r, info, h, voxels)
  BY DEF WriteHeader, ContentInv, FileInv
<1>3. s = one \o heads \o bodies
  BY DEF HeaderRegions
<1>4. RegionHolds(first, info, h, voxels)
  <2>1. first.what = "header" /\ first.val = Header(info, copc, stats)
    BY DEF Region
  <2> HIDE DEF first
  <2>2. QED
    BY <2>1 DEF RegionHolds, Header
<1>5. ASSUME NEW n \in DOMAIN v
      PROVE  RegionHolds(head(n), info, h, voxels)
  <2>1. head(n).what = "vlr header"
    BY DEF Region
  <2> HIDE DEF head
  <2>2. QED
    BY <2>1 DEF RegionHolds
<1>6. ASSUME NEW n \in DOMAIN v
      PROVE  RegionHolds(body(n), info, h, voxels)
  <2>1. v[n][1] \in {"copc", "laszip", "wkt", "eb"}
    BY <1>2, RecordKinds
  <2>2. body(n).what = v[n][1] /\ body(n).val = VlrValue(info, copc, v[n][1])
    BY DEF Region
  <2> DEFINE kind == v[n][1]
             r == body(n)
             X == IF "X" \in Axes THEN "X" ELSE CHOOSE a \in Axes : TRUE
  <2> HIDE DEF v, body, r
  <2>3. r.what = kind /\ r.val = VlrValue(info, copc, kind) /\ kind \in {"copc", "laszip", "wkt", "eb"}
    BY <2>1, <2>2 DEF r
  <2> HIDE DEF kind
  <2>4. X \in Axes
    BY AxesAssumption
  <2>5. kind = "copc" => r.val = CopcVlr(info, copc)
    BY <2>3 DEF VlrValue
  <2> HIDE DEF X
  <2>6. kind = "copc" => /\ \A a \in Axes : r.val.center2[a] = info.bounds[a].max + info.bounds[a].min
                         /\ r.val.size = Side(info.bounds, X)
    BY <2>5 DEF CopcVlr, X
  <2>7. RegionHolds(r, info, h, voxels)
    BY <2>3, <2>4, <2>6 DEF RegionHolds
  <2>8. QED
    BY <2>7 DEF r
<1>7. PICK n \in Nat : DOMAIN v = 1..n
  BY <1>2, RecordsFit
<1> HIDE DEF first, head, body, s, v
<1>8. one \in Seq({first}) /\ one = <<first>>
  OBVIOUS
<1>9. IsList(one) /\ Range(one) \subseteq {first}
  BY <1>8, ListOfAny, ElementsOf
<1>10. IsList(heads) /\ \A r \in Range(heads) : \E i \in DOMAIN v : r = head(i)
  <2>1. DOMAIN heads = 1..n /\ heads = [i \in 1..n |-> heads[i]] /\ \A i \in DOMAIN v : heads[i] = head(i)
    BY <1>7
  <2> HIDE DEF heads
  <2>2. IsList(heads)
    BY <2>1, ListByIndex
  <2>3. QED
    BY <1>7, <2>1, <2>2 DEF Range
<1>11. IsList(bodies) /\ \A r \in Range(bodies) : \E i \in DOMAIN v : r = body(i)
  <2>1. DOMAIN bodies = 1..n /\ bodies = [i \in 1..n |-> bodies[i]] /\ \A i \in DOMAIN v : bodies[i] = body(i)
    BY <1>7
  <2> HIDE DEF bodies
  <2>2. IsList(bodies)
    BY <2>1, ListByIndex
  <2>3. QED
    BY <1>7, <2>1, <2>2 DEF Range
<1> DEFINE front == one \o heads
<1> HIDE DEF heads, bodies, one
<1>12. Range(front) \subseteq Range(one) \cup Range(heads) /\ IsList(front)
  BY <1>9, <1>10, JoinedRange, Joined
<1>13. s = front \o bodies
  BY <1>3
<1> HIDE DEF front
<1>14. Range(s) \subseteq Range(front) \cup Range(bodies)
  BY <1>11, <1>12, <1>13, JoinedRange
<1>15. \A r \in Range(s) : RegionHolds(r, info, h, voxels)
  BY <1>4, <1>5, <1>6, <1>9, <1>10, <1>11, <1>12, <1>14
<1>16. \A r \in file' : RegionHolds(r, info, h, voxels)
  BY <1>1, <1>2, <1>15
<1>17. Tree' = Tree
  BY <1>2 DEF Tree
<1> HIDE DEF h
<1>18. QED
  BY <1>2, <1>16, <1>17 DEF ContentInv, h

\* The chunks, pages, header and records of the file agree with the voxels, at
\* every time: an entry of a page leads to the chunk of its voxel, and that has
\* the voxel's points.
THEOREM FileContents == Spec => []ContentInv
<1>1. Init => ContentInv
  BY InitContent
<1>2. ASSUME FileInv, ContentInv, [Next]_vars
      PROVE  ContentInv'
  <2>1. CASE Prepare
    BY <1>2, <2>1, PrepareContent
  <2>2. CASE Tile
    BY <1>2, <2>2, TileContent
  <2>3. CASE WriteChunkTable
    BY <1>2, <2>3, TableContent
  <2>4. CASE WriteHierarchy
    BY <1>2, <2>4, HierarchyContent
  <2>5. CASE WriteHeader
    BY <1>2, <2>5, HeaderContent
  <2>6. CASE \E k \in Tree : StartChunk(k)
    BY <1>2, <2>6, StartChunkContent
  <2>7. CASE \E k \in Tree : WriteChunk(k)
    BY <1>2, <2>7, WriteChunkContent
  <2>8. CASE Ended \/ UNCHANGED vars
    <3>1. UNCHANGED vars
      BY <2>8 DEF Ended
    <3>2. QED
      BY <1>2, <3>1 DEF vars, ContentInv, Tree
  <2>9. QED
    BY <1>2, <2>1, <2>2, <2>3, <2>4, <2>5, <2>6, <2>7, <2>8 DEF Next
<1>3. QED
  BY <1>1, <1>2, FilePlaces, PTL DEF Spec

\* What a reader computes of a point and of the cube of its voxel.
LEMMA CubeOfNode ==
    ASSUME NEW x \in Int, NEW min \in Int, NEW max \in Int, NEW cells \in Nat, NEW pos \in Nat,
           (max - min) * pos <= (x - min) * cells, (x - min) * cells <= (max - min) * (pos + 1)
    PROVE  (2 * x - (max + min) + (max - min)) * cells
                \in (2 * (max - min) * pos)..(2 * (max - min) * (pos + 1))
<1> DEFINE e == x - min
           z == max - min
<1>1. 2 * x - (max + min) + (max - min) = 2 * e
  OBVIOUS
<1>2. e \in Int /\ z \in Int
  OBVIOUS
<1> HIDE DEF e, z
<1>3. (2 * e) * cells = 2 * (e * cells) /\ 2 * z * pos = 2 * (z * pos)
      /\ 2 * z * (pos + 1) = 2 * (z * (pos + 1))
  BY <1>2
<1> DEFINE m == e * cells
           l == z * pos
           h == z * (pos + 1)
<1>4. m \in Int /\ l \in Int /\ h \in Int /\ l <= m /\ m <= h
  BY <1>2 DEF e, z
<1> HIDE DEF m, l, h
<1>5. 2 * m \in (2 * l)..(2 * h)
  BY <1>4
<1>6. QED
  BY <1>1, <1>3, <1>5 DEF m, l, h, z

LEMMA ContentIsInNodes == ContentInv => PointsInNodes
<1> SUFFICES ASSUME ContentInv, stage = "done", job.doCube,
                    \A a, b \in Axes : info.scale[a] = info.scale[b],
                    NEW hd \in HeaderOf(file),
                    NEW c \in Get(file, HeaderSize(4) + VlrHeaderSize, CopcInfoSize, "copc"),
                    NEW e \in EntriesOf(file, c), NEW a \in Axes, NEW q \in NodePoints(file, e)
             PROVE  (2 * (q.data[a] * hd.scale[a] + hd.offset[a]) - c.center2[a] + c.size)
                      * Cells[e.key.level]
                        \in (2 * c.size * e.key.pos[a])..(2 * c.size * (e.key.pos[a] + 1))
  BY DEF PointsInNodes
<1> DEFINE h == copc.hierarchy
           k == e.key
<1>1. /\ \A j \in Tree : \A p \in voxels[j] : PointPlaced(job.doCube, info, j, p)
      /\ PlacesDiffer(h) /\ DOMAIN h \subseteq Tree
      /\ \A r \in file : RegionHolds(r, info, h, voxels)
  BY DEF ContentInv
<1>2. hd.scale = info.scale /\ hd.offset = info.offset
  <2>1. PICK r \in file : r.what = "header" /\ r.val = hd
    BY DEF HeaderOf, Get
  <2>2. QED
    BY <1>1, <2>1 DEF RegionHolds
<1>3. /\ c.center2[a] = info.bounds[a].max + info.bounds[a].min
      /\ \E b \in Axes : c.size = Side(info.bounds, b)
  <2>1. PICK r \in file : r.what = "copc" /\ r.val = c
    BY DEF Get
  <2>2. QED
    BY <1>1, <2>1 DEF RegionHolds
<1>4. k \in Filled(h) /\ e.offset = h[k].offset /\ e.size = h[k].size
  <2>1. PICK pg \in PagesOf(file, c) : e \in UNION Get(file, pg[1], pg[2], "page") /\ e.count > 0
    BY DEF EntriesOf
  <2>2. PICK r \in file : r.what = "page" /\ e \in r.val
    BY <2>1 DEF Get
  <2>3. QED
    BY <1>1, <2>1, <2>2 DEF RegionHolds, EntryHolds
<1>5. PICK p \in voxels[k] : q = LasPoint(info, p)
  <2>1. PICK t \in Get(file, e.offset, e.size, "chunk") : q \in Range(t)
    BY DEF NodePoints
  <2>2. PICK r \in file : r.what = "chunk" /\ r.at = e.offset /\ r.len = e.size /\ r.val = t
    BY <2>1 DEF Get
  <2>3. PICK j \in Filled(h) : /\ r.at = h[j].offset
                               /\ Range(r.val) \subseteq {LasPoint(info, p) : p \in voxels[j]}
    BY <1>1, <2>2 DEF RegionHolds
  <2>4. j = k
    BY <1>1, <1>4, <2>2, <2>3 DEF PlacesDiffer
  <2>5. QED
    BY <2>1, <2>2, <2>3, <2>4
<1>6. InBounds(info, p.data) /\ InVoxel(info, k, p.data) /\ CubeIsCube(job.doCube, info)
  <2>1. k \in Tree
    BY <1>1, <1>4 DEF Filled
  <2>2. QED
    BY <1>1, <1>5, <2>1 DEF PointPlaced
<1>7. c.size = Side(info.bounds, a)
  BY <1>3, <1>6 DEF CubeIsCube
<1>8. q.data[a] = Steps(info, p.data, a)
  BY <1>5 DEF LasPoint
<1>9. q.data[a] * hd.scale[a] + hd.offset[a] = p.data[a]
  BY <1>2, <1>6, <1>8 DEF InBounds
<1> DEFINE x == p.data[a]
           min == info.bounds[a].min
           max == info.bounds[a].max
           cells == Cells[k.level]
           pos == k.pos[a]
<1>10. /\ x \in Int /\ min \in Int /\ max \in Int /\ cells \in Nat /\ pos \in Nat
       /\ (max - min) * pos <= (x - min) * cells /\ (x - min) * cells <= (max - min) * (pos + 1)
  BY <1>6, CellsType DEF InBounds, InVoxel, Side
<1>11. (2 * x - (max + min) + (max - min)) * cells
         \in (2 * (max - min) * pos)..(2 * (max - min) * (pos + 1))
  <2> HIDE DEF x, min, max, cells, pos
  <2>1. QED
    BY <1>10, CubeOfNode
<1>12. c.center2[a] = max + min /\ c.size = max - min
  BY <1>3, <1>7 DEF Side
<1>13. QED
  BY <1>9, <1>11, <1>12

\* Whatever the files, their scales and offsets, and whatever level the phases
\* between leave a point on: if a cube was asked for and the scales agree, every
\* point that a reader finds in the chunk of a voxel lies in that voxel's cube.
THEOREM PointsLieInNodes == Spec => []PointsInNodes
BY FileContents, ContentIsInNodes, PTL
=============================================================================
