------------------------------- MODULE Lemmas -------------------------------
(***************************************************************************)
(* What the proofs need of the natural numbers, of finite sets and of sums *)
(* over them, for want of it in the library.  The library's principles of  *)
(* induction take a predicate as an operator, which the provers cannot     *)
(* instantiate; here the predicate is the set of what satisfies it.        *)
(***************************************************************************)
EXTENDS Integers, Sequences, FiniteSetTheorems, TLAPS

-----------------------------------------------------------------------------
(* Induction.                                                              *)

\* A set of natural numbers that is not empty has a least element.
LEMMA LeastNatural ==
    ASSUME NEW S, S \subseteq Nat, S # {}
    PROVE  \E n \in S : \A m \in S : n <= m
<1>1. PICK n \in S : \A m \in S : <<m, n>> \notin OpToRel(<, Nat)
  BY NatLessThanWellFounded, WFMin, Zenon
<1>2. \A m \in S : ~(m < n)
  BY <1>1 DEF OpToRel
<1>3. QED
  BY <1>2

\* Induction on the natural numbers, for the set S of those with a property.
LEMMA InductionOnNat ==
    ASSUME NEW S, 0 \in S, \A n \in Nat : n \in S => n + 1 \in S
    PROVE  \A n \in Nat : n \in S
<1>1. SUFFICES ASSUME Nat \ S # {} PROVE FALSE
  OBVIOUS
<1>2. PICK n \in Nat \ S : \A m \in Nat \ S : n <= m
  BY <1>1, LeastNatural
<1>3. n - 1 \in Nat /\ n - 1 \in S
  BY <1>2
<1>4. QED
  BY <1>2, <1>3

\* Induction on the subsets of a finite set, element by element.
LEMMA InductionOnSets ==
    ASSUME NEW U, IsFiniteSet(U), NEW G, {} \in G,
           \A T \in SUBSET U : \A x \in U \ T : T \in G => T \cup {x} \in G
    PROVE  U \in G
<1> DEFINE Bad == {T \in SUBSET U : T \notin G}
<1>1. SUFFICES ASSUME Bad # {} PROVE FALSE
  OBVIOUS
<1>2. Bad \subseteq FiniteSubsetsOf(U)
  BY FS_Subset DEF FiniteSubsetsOf
<1>3. PICK T \in Bad : \A y \in Bad : <<y, T>> \notin StrictSubsetOrdering(U)
  BY <1>1, <1>2, FS_StrictSubsetOrderingWellFounded, WFMin
<1>4. PICK x \in T : TRUE
  BY <1>3
<1>5. T \ {x} \notin Bad
  BY <1>3, <1>4 DEF StrictSubsetOrdering
<1>6. QED
  BY <1>3, <1>4, <1>5

\* What a function makes of the elements of a finite set is a finite set.
LEMMA FiniteImage ==
    ASSUME NEW S, IsFiniteSet(S), NEW f
    PROVE  IsFiniteSet({f[x] : x \in S})
<1> DEFINE T == {f[x] : x \in S}
           g == [x \in S |-> f[x]]
<1>1. g \in Surjection(S, T)
  BY DEF Surjection
<1>2. QED
  BY <1>1, FS_Surjection

\* A finite union of finite sets is finite.
LEMMA FiniteUnion ==
    ASSUME NEW S, IsFiniteSet(S), NEW f, \A x \in S : IsFiniteSet(f[x])
    PROVE  IsFiniteSet(UNION {f[x] : x \in S})
<1>1. IsFiniteSet({f[x] : x \in S})
  BY FiniteImage
<1>2. QED
  BY <1>1, FS_UNION

\* A recursive definition on the natural numbers: step gives a value from the
\* number and the value before.
LEMMA RecursionOnNat ==
    ASSUME NEW S, NEW x \in S, NEW step \in [Nat -> [S -> S]]
    PROVE  \E f \in [Nat -> S] : f = [n \in Nat |-> IF n = 0 THEN x ELSE step[n][f[n - 1]]]
<1> DEFINE Start(n, g) == /\ g \in [0..n -> S] /\ g[0] = x
                          /\ \A i \in 1..n : g[i] = step[i][g[i - 1]]
<1>1. \A n \in Nat : \E g : Start(n, g)
  <2> DEFINE G == {n \in Nat : \E g : Start(n, g)}
  <2>1. 0 \in G
    <3>1. Start(0, [i \in 0..0 |-> x])
      OBVIOUS
    <3>2. QED
      BY <3>1
  <2>2. ASSUME NEW n \in Nat, n \in G
        PROVE  n + 1 \in G
    <3>1. PICK g : Start(n, g)
      BY <2>2
    <3> DEFINE h == [i \in 0..(n + 1) |-> IF i = n + 1 THEN step[n + 1][g[n]] ELSE g[i]]
    <3>2. g[n] \in S /\ step[n + 1][g[n]] \in S
      BY <3>1
    <3>3. h \in [0..(n + 1) -> S] /\ h[0] = x
      BY <3>1, <3>2
    <3>4. ASSUME NEW i \in 1..(n + 1)
          PROVE  h[i] = step[i][h[i - 1]]
      <4>1. CASE i = n + 1
        BY <4>1
      <4>2. CASE i # n + 1
        <5>1. i \in 1..n /\ i - 1 \in 0..n /\ i \in 0..n
          BY <4>2
        <5>2. g[i] = step[i][g[i - 1]]
          BY <3>1, <5>1
        <5>3. h[i] = g[i] /\ h[i - 1] = g[i - 1]
          BY <4>2, <5>1
        <5>4. QED
          BY <5>2, <5>3
      <4>3. QED
        BY <4>1, <4>2
    <3> HIDE DEF h
    <3>5. Start(n + 1, h)
      BY <3>3, <3>4
    <3>6. QED
      BY <3>5
  <2> HIDE DEF G
  <2>3. \A n \in Nat : n \in G
    BY <2>1, <2>2, InductionOnNat
  <2>4. QED
    BY <2>3 DEF G
<1>2. ASSUME NEW n \in Nat, NEW m \in Nat, NEW g, NEW h, Start(n, g), Start(m, h)
      PROVE  \A i \in Nat : i <= n /\ i <= m => g[i] = h[i]
  <2> DEFINE G == {i \in Nat : i <= n /\ i <= m => g[i] = h[i]}
  <2>1. 0 \in G
    BY <1>2
  <2>2. ASSUME NEW i \in Nat, i \in G
        PROVE  i + 1 \in G
    <3>1. SUFFICES ASSUME i + 1 <= n, i + 1 <= m PROVE g[i + 1] = h[i + 1]
      OBVIOUS
    <3>2. g[i] = h[i]
      BY <2>2, <3>1
    <3>3. i + 1 \in 1..n /\ i + 1 \in 1..m /\ (i + 1) - 1 = i
      BY <3>1
    <3>4. g[i + 1] = step[i + 1][g[i]] /\ h[i + 1] = step[i + 1][h[i]]
      BY <1>2, <3>3
    <3>5. QED
      BY <3>2, <3>4
  <2> HIDE DEF G
  <2>3. \A i \in Nat : i \in G
    BY <2>1, <2>2, InductionOnNat
  <2>4. QED
    BY <2>3 DEF G
<1> DEFINE F(n) == CHOOSE g : Start(n, g)
           f == [n \in Nat |-> F(n)[n]]
<1>3. \A n \in Nat : Start(n, F(n))
  BY <1>1
<1> HIDE DEF F
<1>4. \A n \in Nat : f[n] = F(n)[n] /\ F(n)[n] \in S
  <2>1. \A n \in Nat : n \in 0..n
    OBVIOUS
  <2>2. QED
    BY <1>3, <2>1
<1>5. f \in [Nat -> S]
  BY <1>4
<1>6. f[0] = x
  BY <1>3, <1>4
<1>7. ASSUME NEW n \in Nat, n # 0
      PROVE  f[n] = step[n][f[n - 1]]
  <2>1. n - 1 \in Nat /\ n \in 1..n /\ n - 1 <= n
    BY <1>7
  <2>2. F(n)[n] = step[n][F(n)[n - 1]]
    BY <1>3, <2>1
  <2>3. F(n)[n - 1] = F(n - 1)[n - 1]
    <3>1. Start(n, F(n)) /\ Start(n - 1, F(n - 1))
      BY <1>3, <2>1
    <3> HIDE DEF Start
    <3>2. QED
      BY <1>2, <2>1, <3>1
  <2>4. QED
    BY <1>4, <2>1, <2>2, <2>3
<1> HIDE DEF f
<1>8. \A n \in Nat : f[n] = IF n = 0 THEN x ELSE step[n][f[n - 1]]
  BY <1>6, <1>7
<1>9. f = [n \in Nat |-> IF n = 0 THEN x ELSE step[n][f[n - 1]]]
  BY <1>5, <1>8
<1>10. QED
  BY <1>5, <1>9

-----------------------------------------------------------------------------
(* Sums.  A natural number for each element of a finite set is a pile of   *)
(* tokens, that many for each element, and their sum the number of tokens. *)

Tokens(x, n) == {x} \X (1..n)
Pile(f)      == UNION {Tokens(x, f[x]) : x \in DOMAIN f}
Total(f)     == Cardinality(Pile(f))

LEMMA TokensCount ==
    ASSUME NEW x, NEW n \in Nat
    PROVE  IsFiniteSet(Tokens(x, n)) /\ Cardinality(Tokens(x, n)) = n
<1>1. IsFiniteSet({x}) /\ Cardinality({x}) = 1
  BY FS_Singleton
<1>2. IsFiniteSet(1..n) /\ Cardinality(1..n) = n
  BY FS_Interval
<1>3. IsFiniteSet({x} \X (1..n)) /\ Cardinality({x} \X (1..n)) = Cardinality({x}) * Cardinality(1..n)
  BY <1>1, <1>2, FS_Product, Zenon
<1>4. QED
  BY <1>1, <1>2, <1>3 DEF Tokens

LEMMA InPile ==
    ASSUME NEW f, NEW S, DOMAIN f = S, NEW c
    PROVE  c \in Pile(f) <=> \E x \in S : c \in Tokens(x, f[x])
BY DEF Pile

\* A sum over a finite set is a number.
LEMMA TotalType ==
    ASSUME NEW S, IsFiniteSet(S), NEW f \in [S -> Nat]
    PROVE  IsFiniteSet(Pile(f)) /\ Total(f) \in Nat
<1> DEFINE Part(T) == UNION {Tokens(x, f[x]) : x \in T}
           G == {T \in SUBSET S : IsFiniteSet(Part(T))}
<1>1. {} \in G
  BY FS_EmptySet
<1>2. ASSUME NEW T \in SUBSET S, NEW x \in S \ T, T \in G
      PROVE  T \cup {x} \in G
  <2>1. Part(T \cup {x}) = Part(T) \cup Tokens(x, f[x])
    OBVIOUS
  <2>2. IsFiniteSet(Part(T)) /\ f[x] \in Nat
    BY <1>2
  <2>3. IsFiniteSet(Tokens(x, f[x]))
    BY <2>2, TokensCount
  <2> HIDE DEF Part
  <2>4. IsFiniteSet(Part(T) \cup Tokens(x, f[x]))
    BY <2>2, <2>3, FS_Union, Zenon
  <2>5. QED
    BY <1>2, <2>1, <2>4
<1>3. S \in G
  <2> HIDE DEF G
  <2>1. QED
    BY <1>1, <1>2, InductionOnSets
<1>4. Pile(f) = Part(S)
  BY DEF Pile
<1>5. QED
  BY <1>3, <1>4, FS_CardinalityType DEF Total

\* A sum of zeroes is zero.
LEMMA TotalZero ==
    ASSUME NEW S, NEW f \in [S -> Nat], \A x \in S : f[x] = 0
    PROVE  Total(f) = 0
<1>1. Pile(f) = {}
  BY DEF Pile, Tokens
<1>2. QED
  BY <1>1, FS_EmptySet DEF Total

\* One more summand.
LEMMA TotalExtended ==
    ASSUME NEW S, IsFiniteSet(S), NEW f \in [S -> Nat], NEW x, x \notin S,
           NEW T, T = S \cup {x}, NEW g \in [T -> Nat], \A y \in S : g[y] = f[y]
    PROVE  Total(g) = Total(f) + g[x]
<1>1. Pile(g) = Pile(f) \cup Tokens(x, g[x])
  BY DEF Pile
<1>2. Pile(f) \cap Tokens(x, g[x]) = {}
  BY DEF Pile, Tokens
<1>3. IsFiniteSet(Pile(f)) /\ IsFiniteSet(Tokens(x, g[x])) /\ g[x] \in Nat
  BY TotalType, TokensCount
<1>4. Cardinality(Pile(f)) \in Nat /\ Cardinality(Tokens(x, g[x])) = g[x]
  BY <1>3, TotalType, TokensCount DEF Total
<1>5. Cardinality(Pile(g)) = Cardinality(Pile(f)) + Cardinality(Tokens(x, g[x])) - Cardinality({})
  BY <1>1, <1>2, <1>3, FS_Union
<1>6. QED
  BY <1>3, <1>4, <1>5, FS_EmptySet DEF Total

\* One summand changes.
LEMMA TotalChanged ==
    ASSUME NEW S, IsFiniteSet(S), NEW f \in [S -> Nat], NEW g \in [S -> Nat], NEW x \in S,
           \A y \in S \ {x} : g[y] = f[y]
    PROVE  Total(g) = (Total(f) - f[x]) + g[x]
<1> DEFINE h == [y \in S \ {x} |-> f[y]]
<1>1. IsFiniteSet(S \ {x}) /\ h \in [S \ {x} -> Nat] /\ S = (S \ {x}) \cup {x}
  BY FS_RemoveElement
<1>2. Total(h) \in Nat
  BY <1>1, TotalType
<1>3. Total(f) = Total(h) + f[x]
  <2>1. x \notin S \ {x} /\ f \in [S -> Nat]
    OBVIOUS
  <2>2. \A y \in S \ {x} : f[y] = h[y]
    OBVIOUS
  <2> HIDE DEF h
  <2>3. QED
    BY <1>1, <2>1, <2>2, TotalExtended
<1>4. Total(g) = Total(h) + g[x]
  <2>1. x \notin S \ {x} /\ g \in [S -> Nat]
    OBVIOUS
  <2>2. \A y \in S \ {x} : g[y] = h[y]
    OBVIOUS
  <2> HIDE DEF h
  <2>3. QED
    BY <1>1, <2>1, <2>2, TotalExtended
<1>5. f[x] \in Nat /\ g[x] \in Nat
  OBVIOUS
<1>6. QED
  BY <1>2, <1>3, <1>4, <1>5

\* One summand becomes zero.
LEMMA TotalCleared ==
    ASSUME NEW S, IsFiniteSet(S), NEW f \in [S -> Nat], NEW g \in [S -> Nat], NEW x \in S,
           g[x] = 0, \A y \in S \ {x} : g[y] = f[y]
    PROVE  Total(g) = Total(f) - f[x]
<1>1. Total(g) = (Total(f) - f[x]) + g[x]
  BY TotalChanged
<1>2. Total(f) \in Nat /\ f[x] \in Nat
  BY TotalType
<1>3. QED
  BY <1>1, <1>2

\* No summand is larger than the sum.
LEMMA TotalBounds ==
    ASSUME NEW S, IsFiniteSet(S), NEW f \in [S -> Nat], NEW x \in S
    PROVE  f[x] <= Total(f)
<1> DEFINE g == [f EXCEPT ![x] = 0]
<1>1. g \in [S -> Nat] /\ g[x] = 0 /\ \A y \in S \ {x} : g[y] = f[y]
  OBVIOUS
<1> HIDE DEF g
<1>2. Total(g) = Total(f) - f[x]
  BY <1>1, TotalCleared
<1>3. Total(f) \in Nat /\ Total(g) \in Nat /\ f[x] \in Nat
  BY <1>1, TotalType
<1>4. QED
  BY <1>2, <1>3

\* The same summands under other names.
LEMMA TotalRenamed ==
    ASSUME NEW S, NEW T, IsFiniteSet(T), NEW f \in [S -> Nat], NEW g \in [T -> Nat],
           NEW m \in [T -> S], \A t \in T : g[t] = f[m[t]],
           \A t, u \in T : m[t] = m[u] => t = u, \A s \in S : \E t \in T : m[t] = s
    PROVE  Total(g) = Total(f)
<1> DEFINE Move == [c \in Pile(g) |-> <<m[c[1]], c[2]>>]
<1>1. \A c : c \in Pile(g) <=> \E t \in T : \E a \in 1..g[t] : c = <<t, a>>
  BY DEF Pile, Tokens
<1>2. \A c : c \in Pile(f) <=> \E s \in S : \E a \in 1..f[s] : c = <<s, a>>
  BY DEF Pile, Tokens
<1>3. ASSUME NEW c \in Pile(g)
      PROVE  <<m[c[1]], c[2]>> \in Pile(f)
  <2>1. PICK t \in T : \E a \in 1..g[t] : c = <<t, a>>
    BY <1>1
  <2>2. PICK a \in 1..g[t] : c = <<t, a>>
    BY <2>1
  <2>3. m[t] \in S /\ a \in 1..f[m[t]]
    BY <2>2
  <2>4. QED
    BY <1>2, <2>2, <2>3
<1>4. ASSUME NEW c \in Pile(g), NEW d \in Pile(g), Move[c] = Move[d]
      PROVE  c = d
  <2>1. PICK t \in T : \E a \in 1..g[t] : c = <<t, a>>
    BY <1>1
  <2>2. PICK u \in T : \E a \in 1..g[u] : d = <<u, a>>
    BY <1>1
  <2>3. m[t] = m[u] /\ c[2] = d[2]
    BY <1>4, <2>1, <2>2
  <2>4. t = u
    BY <2>3
  <2>5. QED
    BY <2>1, <2>2, <2>3, <2>4
<1>5. ASSUME NEW d \in Pile(f)
      PROVE  \E c \in Pile(g) : Move[c] = d
  <2>1. PICK s \in S : \E a \in 1..f[s] : d = <<s, a>>
    BY <1>2
  <2>2. PICK a \in 1..f[s] : d = <<s, a>>
    BY <2>1
  <2>3. PICK t \in T : m[t] = s
    BY <2>1
  <2>4. <<t, a>> \in Pile(g)
    BY <1>1, <2>2, <2>3
  <2>5. Move[<<t, a>>] = d
    BY <2>2, <2>3, <2>4
  <2>6. QED
    BY <2>4, <2>5
<1>6. Move \in [Pile(g) -> Pile(f)]
  BY <1>3
<1>7. Move \in Bijection(Pile(g), Pile(f))
  <2> HIDE DEF Move
  <2>1. QED
    BY <1>4, <1>5, <1>6 DEF Bijection, Injection, Surjection, IsInjective
<1>8. ExistsBijection(Pile(g), Pile(f))
  BY <1>7, Zenon DEF ExistsBijection
<1>9. IsFiniteSet(Pile(g))
  BY TotalType
<1>10. QED
  BY <1>8, <1>9, FS_Bijection DEF Total

\* g has the values of f, but for f[i], each at the place that m gives.
OneLess(g, f, i, m) ==
    /\ IsFiniteSet(DOMAIN f) /\ IsFiniteSet(DOMAIN g) /\ i \in DOMAIN f
    /\ f \in [DOMAIN f -> Nat] /\ g \in [DOMAIN g -> Nat] /\ m \in [DOMAIN g -> DOMAIN f]
    /\ \A t \in DOMAIN g : m[t] # i /\ g[t] = f[m[t]]
    /\ \A t, u \in DOMAIN g : m[t] = m[u] => t = u
    /\ \A s \in DOMAIN f : s = i \/ \E t \in DOMAIN g : m[t] = s

LEMMA TotalWithout ==
    ASSUME NEW g, NEW f, NEW i, NEW m, OneLess(g, f, i, m)
    PROVE  Total(g) = Total(f) - f[i]
<1> DEFINE N == DOMAIN f
           T == DOMAIN g
           S == N \ {i}
           h == [j \in S |-> f[j]]
<1>1. IsFiniteSet(N) /\ IsFiniteSet(T) /\ i \in N
  BY DEF OneLess
<1>2. f \in [N -> Nat] /\ g \in [T -> Nat] /\ m \in [T -> N]
  BY DEF OneLess
<1>3. IsFiniteSet(S) /\ i \notin S /\ N = S \cup {i}
  BY <1>1, FS_RemoveElement
<1>4. h \in [S -> Nat] /\ \A y \in S : f[y] = h[y]
  BY <1>2
<1>5. /\ m \in [T -> S] /\ \A t \in T : g[t] = h[m[t]]
      /\ \A t, u \in T : m[t] = m[u] => t = u
      /\ \A s \in S : \E t \in T : m[t] = s
  BY <1>2 DEF OneLess
<1> HIDE DEF S, h, N, T
<1>6. Total(g) = Total(h)
  BY <1>1, <1>2, <1>4, <1>5, TotalRenamed
<1>7. Total(f) = Total(h) + f[i]
  BY <1>2, <1>3, <1>4, TotalExtended
<1>8. Total(h) \in Nat /\ f[i] \in Nat
  BY <1>1, <1>2, <1>3, <1>4, TotalType
<1>9. QED
  BY <1>6, <1>7, <1>8

\* The summands of a sequence, when one is taken out and the rest move up.
LEMMA TotalRemoved ==
    ASSUME NEW n \in Nat, NEW i \in 1..n, NEW f \in [1..n -> Nat], NEW g \in [1..(n - 1) -> Nat],
           \A j \in 1..(n - 1) : g[j] = IF j < i THEN f[j] ELSE f[j + 1]
    PROVE  Total(g) = Total(f) - f[i]
<1> DEFINE m == [j \in 1..(n - 1) |-> IF j < i THEN j ELSE j + 1]
<1>1. DOMAIN f = 1..n /\ DOMAIN g = 1..(n - 1)
  OBVIOUS
<1>2. IsFiniteSet(1..n) /\ IsFiniteSet(1..(n - 1))
  BY FS_Interval
<1>3. /\ m \in [1..(n - 1) -> 1..n]
      /\ \A t \in 1..(n - 1) : m[t] # i /\ g[t] = f[m[t]]
  OBVIOUS
<1>4. \A t, u \in 1..(n - 1) : m[t] = m[u] => t = u
  OBVIOUS
<1>5. ASSUME NEW s \in 1..n, s # i
      PROVE  \E t \in 1..(n - 1) : m[t] = s
  <2>1. CASE s < i
    BY <2>1
  <2>2. CASE ~(s < i)
    <3>1. s - 1 \in 1..(n - 1) /\ m[s - 1] = s
      BY <1>5, <2>2
    <3>2. QED
      BY <3>1
  <2>3. QED
    BY <2>1, <2>2
<1> HIDE DEF m
<1>6. OneLess(g, f, i, m)
  BY <1>1, <1>2, <1>3, <1>4, <1>5, Zenon DEF OneLess
<1>7. QED
  BY <1>6, TotalWithout, Zenon
=============================================================================
