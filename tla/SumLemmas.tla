----------------------------- MODULE SumLemmas -----------------------------
(***************************************************************************)
(* Facts about numbers, finite sets and the sums that histories are added  *)
(* up with.  Induction is over a SET of numbers or of sets, so that no     *)
(* lemma takes an operator.                                                *)
(***************************************************************************)
EXTENDS Functions, FiniteSetTheorems, WellFoundedInduction, TLAPS

-----------------------------------------------------------------------------
(* Induction.                                                               *)

LEMMA LeastNumber ==
  ASSUME NEW T, T \subseteq Nat, T # {}
  PROVE  \E n \in T : \A m \in T : n <= m
<1>1. PICK n \in T : \A m \in T : ~(<<m, n>> \in OpToRel(<, Nat))
  BY NatLessThanWellFounded, WFMin
<1>2. \A m \in T : ~(m < n)
  BY <1>1 DEF OpToRel
<1> QED
  BY <1>2

LEMMA NumberInduction ==
  ASSUME NEW T, 0 \in T, \A n \in Nat : n \in T => n + 1 \in T
  PROVE  Nat \subseteq T
<1> SUFFICES ASSUME Nat \ T # {} PROVE FALSE
  OBVIOUS
<1>1. PICK n \in Nat \ T : \A m \in Nat \ T : n <= m
  BY LeastNumber
<1>2. n - 1 \in Nat /\ n - 1 \in T
  BY <1>1
<1> QED
  BY <1>1, <1>2

LEMMA OneLess ==
  ASSUME NEW S, IsFiniteSet(S), NEW x \in S
  PROVE  /\ IsFiniteSet(S \ {x})
         /\ Cardinality(S) \in Nat /\ Cardinality(S \ {x}) \in Nat
         /\ Cardinality(S) = Cardinality(S \ {x}) + 1
<1>1. IsFiniteSet(S \ {x}) /\ Cardinality(S \ {x}) = Cardinality(S) - 1
  BY FS_RemoveElement
<1>2. Cardinality(S) \in Nat /\ Cardinality(S \ {x}) \in Nat
  BY <1>1, FS_CardinalityType
<1> QED
  BY <1>1, <1>2

\* Whatever holds of no elements, and of one more, holds of finitely many.
LEMMA FiniteInduction ==
  ASSUME NEW S, IsFiniteSet(S), NEW C, {} \in C,
         \A T \in SUBSET S, x \in S : T \in C /\ x \notin T => T \cup {x} \in C
  PROVE  S \in C
<1> DEFINE N == {n \in Nat : \A T \in SUBSET S : Cardinality(T) = n => T \in C}
<1>1. 0 \in N
  BY FS_EmptySet, FS_Subset
<1>2. ASSUME NEW n \in Nat, n \in N
      PROVE  n + 1 \in N
  <2> SUFFICES ASSUME NEW T \in SUBSET S, Cardinality(T) = n + 1 PROVE T \in C
    OBVIOUS
  <2>1. IsFiniteSet(T)
    BY FS_Subset
  <2>2. PICK x \in T : TRUE
    BY <2>1, FS_EmptySet
  <2>3. Cardinality(T \ {x}) = n
    BY <2>1, OneLess
  <2>4. T \ {x} \in C
    BY <1>2, <2>3
  <2> QED
    BY <2>4
<1>3. Nat \subseteq N
  <2> HIDE DEF N
  <2> QED
    BY <1>1, <1>2, NumberInduction
<1> QED
  BY <1>3, FS_CardinalityType

-----------------------------------------------------------------------------
(* The function behind a sum.                                               *)

PickOne(s) == CHOOSE x \in s : TRUE

LEMMA PickOneIn == \A s : s # {} => PickOne(s) \in s
BY DEF PickOne

Adds(g, U, f) ==
    \A s \in SUBSET U : g[s] = IF s = {} THEN 0 ELSE f[PickOne(s)] + g[s \ {PickOne(s)}]

LEMMA AddsAlike ==
  ASSUME NEW U, IsFiniteSet(U), NEW V, NEW W, U \subseteq V, U \subseteq W,
         NEW f, NEW e, \A x \in U : f[x] = e[x],
         NEW g, Adds(g, V, f), NEW h, Adds(h, W, e)
  PROVE  g[U] = h[U]
<1> DEFINE N == {n \in Nat : \A s \in SUBSET U : Cardinality(s) = n => g[s] = h[s]}
<1>1. 0 \in N
  BY FS_EmptySet, FS_Subset DEF Adds
<1>2. ASSUME NEW n \in Nat, n \in N
      PROVE  n + 1 \in N
  <2> SUFFICES ASSUME NEW s \in SUBSET U, Cardinality(s) = n + 1 PROVE g[s] = h[s]
    OBVIOUS
  <2>1. IsFiniteSet(s) /\ s # {}
    BY FS_Subset, FS_EmptySet
  <2>2. PICK x \in s : x = PickOne(s)
    BY <2>1, PickOneIn
  <2>3. Cardinality(s \ {x}) = n
    BY <2>1, OneLess
  <2>4. g[s \ {x}] = h[s \ {x}]
    BY <1>2, <2>3
  <2>5. g[s] = f[x] + g[s \ {x}] /\ h[s] = e[x] + h[s \ {x}]
    BY <2>1, <2>2 DEF Adds
  <2> QED
    BY <2>4, <2>5
<1>3. Nat \subseteq N
  <2> HIDE DEF N
  <2> QED
    BY <1>1, <1>2, NumberInduction
<1> QED
  BY <1>3, FS_CardinalityType

LEMMA AddsExists ==
  ASSUME NEW S, IsFiniteSet(S), NEW f, \A x \in S : f[x] \in Int
  PROVE  \E g \in [SUBSET S -> Int] : Adds(g, S, f)
<1> DEFINE Upto(g, n) == \A s \in SUBSET S : Cardinality(s) <= n =>
                            g[s] = IF s = {} THEN 0 ELSE f[PickOne(s)] + g[s \ {PickOne(s)}]
           N == {n \in Nat : \E g \in [SUBSET S -> Int] : Upto(g, n)}
<1>0. \A s \in SUBSET S : /\ IsFiniteSet(s) /\ Cardinality(s) \in Nat
                          /\ Cardinality(s) = 0 <=> s = {}
                          /\ Cardinality(s) <= Cardinality(S)
  BY FS_Subset, FS_CardinalityType, FS_EmptySet
<1>1. 0 \in N
  <2>1. [s \in SUBSET S |-> 0] \in [SUBSET S -> Int]
    OBVIOUS
  <2>2. Upto([s \in SUBSET S |-> 0], 0)
    BY <1>0
  <2> QED
    BY <2>1, <2>2
<1>2. ASSUME NEW n \in Nat, n \in N
      PROVE  n + 1 \in N
  <2>1. PICK g \in [SUBSET S -> Int] : Upto(g, n)
    BY <1>2
  <2> DEFINE h == [s \in SUBSET S |->
                     IF s = {} THEN 0 ELSE f[PickOne(s)] + g[s \ {PickOne(s)}]]
  <2>2. h \in [SUBSET S -> Int]
    <3> SUFFICES ASSUME NEW s \in SUBSET S, s # {}
                 PROVE  f[PickOne(s)] + g[s \ {PickOne(s)}] \in Int
      OBVIOUS
    <3>1. PickOne(s) \in S /\ s \ {PickOne(s)} \in SUBSET S
      BY PickOneIn
    <3> QED
      BY <3>1
  <2>3. ASSUME NEW s \in SUBSET S, Cardinality(s) <= n
        PROVE  h[s] = g[s]
    BY <2>1, <2>3
  <2>4. ASSUME NEW s \in SUBSET S, Cardinality(s) <= n + 1, s # {}
        PROVE  h[s] = f[PickOne(s)] + h[s \ {PickOne(s)}]
    <3>1. PICK x \in s : x = PickOne(s)
      BY <2>4, PickOneIn
    <3>2. Cardinality(s \ {x}) <= n /\ s \ {x} \in SUBSET S
      BY <1>0, <2>4, OneLess
    <3>3. h[s \ {x}] = g[s \ {x}]
      BY <2>3, <3>2
    <3>4. h[s] = f[x] + g[s \ {x}]
      BY <2>4, <3>1
    <3> QED
      BY <3>1, <3>3, <3>4
  <2>5. h[{}] = 0
    OBVIOUS
  <2>6. Upto(h, n + 1)
    <3> HIDE DEF h
    <3> QED
      BY <2>4, <2>5
  <2>7. \E k \in [SUBSET S -> Int] : Upto(k, n + 1)
    <3> HIDE DEF h, Upto
    <3> QED
      BY <2>2, <2>6
  <2> QED
    BY <2>7
<1>3. Nat \subseteq N
  <2> HIDE DEF N
  <2> QED
    BY <1>1, <1>2, NumberInduction
<1>4. PICK g \in [SUBSET S -> Int] : Upto(g, Cardinality(S))
  BY <1>0, <1>3
<1> QED
  BY <1>0, <1>4 DEF Adds

LEMMA SumIs ==
  ASSUME NEW S, IsFiniteSet(S), NEW f, \A x \in S : f[x] \in Int
  PROVE  \E g \in [SUBSET S -> Int] : Adds(g, S, f) /\ SumFunctionOnSet(f, S) = g[S]
<1> DEFINE body(g) == [s \in SUBSET S |->
                IF s = {} THEN 0 ELSE f[PickOne(s)] + g[s \ {PickOne(s)}]]
<1>1. SumFunctionOnSet(f, S) = (CHOOSE g : g = body(g))[S]
  BY Zenon DEF SumFunctionOnSet, FoldFunctionOnSet, MapThenFoldSet, PickOne
<1>2. PICK g \in [SUBSET S -> Int] : Adds(g, S, f)
  BY AddsExists
<1>3. g = body(g)
  BY <1>2 DEF Adds
<1>4. PICK h : h = body(h) /\ SumFunctionOnSet(f, S) = h[S]
  BY <1>1, <1>3, Zenon
<1>5. Adds(h, S, f)
  BY <1>4 DEF Adds
<1>6. g[S] = h[S]
  BY <1>2, <1>5, AddsAlike
<1> QED
  BY <1>2, <1>4, <1>6

-----------------------------------------------------------------------------
(* Sums.                                                                    *)

LEMMA SumInt ==
  ASSUME NEW S, IsFiniteSet(S), NEW f, \A x \in S : f[x] \in Int
  PROVE  SumFunctionOnSet(f, S) \in Int
<1>1. PICK g \in [SUBSET S -> Int] : SumFunctionOnSet(f, S) = g[S]
  BY SumIs
<1> QED
  BY <1>1

LEMMA SumEmpty == ASSUME NEW f PROVE SumFunctionOnSet(f, {}) = 0
<1>1. PICK g : Adds(g, {}, f) /\ SumFunctionOnSet(f, {}) = g[{}]
  BY SumIs, FS_EmptySet
<1> QED
  BY <1>1 DEF Adds

LEMMA SumAlike ==
  ASSUME NEW S, IsFiniteSet(S), NEW f, NEW e,
         \A x \in S : f[x] \in Int /\ f[x] = e[x]
  PROVE  SumFunctionOnSet(f, S) = SumFunctionOnSet(e, S)
<1>1. PICK g : Adds(g, S, f) /\ SumFunctionOnSet(f, S) = g[S]
  BY SumIs
<1>2. PICK h : Adds(h, S, e) /\ SumFunctionOnSet(e, S) = h[S]
  BY SumIs
<1> QED
  BY <1>1, <1>2, AddsAlike

LEMMA SumPick ==
  ASSUME NEW S, IsFiniteSet(S), S # {}, NEW f, \A x \in S : f[x] \in Int
  PROVE  SumFunctionOnSet(f, S) = f[PickOne(S)] + SumFunctionOnSet(f, S \ {PickOne(S)})
<1>1. PICK g : Adds(g, S, f) /\ SumFunctionOnSet(f, S) = g[S]
  BY SumIs
<1>2. PICK R : R = S \ {PickOne(S)}
  OBVIOUS
<1>3. IsFiniteSet(R) /\ R \subseteq S
  BY <1>2, FS_Subset
<1>4. PICK h : Adds(h, R, f) /\ SumFunctionOnSet(f, R) = h[R]
  BY <1>3, SumIs
<1>5. g[R] = h[R]
  BY <1>1, <1>3, <1>4, AddsAlike
<1>6. g[S] = f[PickOne(S)] + g[R]
  BY <1>1, <1>2 DEF Adds
<1> QED
  BY <1>1, <1>2, <1>4, <1>5, <1>6

\* Any element may be taken out first.
LEMMA SumRemove ==
  ASSUME NEW S, IsFiniteSet(S), NEW f, \A y \in S : f[y] \in Int, NEW x \in S
  PROVE  SumFunctionOnSet(f, S) = f[x] + SumFunctionOnSet(f, S \ {x})
<1> DEFINE N == {n \in Nat : \A s \in SUBSET S : \A z \in s :
                    Cardinality(s) = n =>
                       SumFunctionOnSet(f, s) = f[z] + SumFunctionOnSet(f, s \ {z})}
<1>1. 0 \in N
  BY FS_EmptySet, FS_Subset
<1>2. ASSUME NEW n \in Nat, n \in N
      PROVE  n + 1 \in N
  <2> SUFFICES ASSUME NEW s \in SUBSET S, NEW z \in s, Cardinality(s) = n + 1
               PROVE  SumFunctionOnSet(f, s) = f[z] + SumFunctionOnSet(f, s \ {z})
    OBVIOUS
  <2>1. IsFiniteSet(s)
    BY FS_Subset
  <2>2. PICK y \in s : y = PickOne(s)
    BY PickOneIn
  <2>3. SumFunctionOnSet(f, s) = f[y] + SumFunctionOnSet(f, s \ {y})
    BY <2>1, <2>2, SumPick
  <2>4. CASE y = z
    BY <2>3, <2>4
  <2>5. CASE y # z
    <3>1. ASSUME NEW w \in s
          PROVE  IsFiniteSet(s \ {w}) /\ Cardinality(s \ {w}) = n
      <4>1. IsFiniteSet(s \ {w}) /\ Cardinality(s) = Cardinality(s \ {w}) + 1
        BY <2>1, OneLess
      <4>2. Cardinality(s \ {w}) \in Nat
        BY <4>1, FS_CardinalityType
      <4> QED
        BY <4>1, <4>2
    <3>2. SumFunctionOnSet(f, s \ {y}) = f[z] + SumFunctionOnSet(f, (s \ {y}) \ {z})
      BY <1>2, <2>5, <3>1
    <3>3. SumFunctionOnSet(f, s \ {z}) = f[y] + SumFunctionOnSet(f, (s \ {z}) \ {y})
      BY <1>2, <2>5, <3>1
    <3>4. (s \ {y}) \ {z} = (s \ {z}) \ {y} /\ IsFiniteSet((s \ {z}) \ {y})
      BY <3>1, FS_RemoveElement
    <3>5. SumFunctionOnSet(f, (s \ {z}) \ {y}) \in Int /\ f[y] \in Int /\ f[z] \in Int
      BY <3>4, SumInt
    <3>6. f[y] + (f[z] + SumFunctionOnSet(f, (s \ {z}) \ {y})) =
             f[z] + (f[y] + SumFunctionOnSet(f, (s \ {z}) \ {y}))
      BY <3>5
    <3> QED
      BY <2>3, <3>2, <3>3, <3>4, <3>6
  <2> QED
    BY <2>4, <2>5
<1>3. Nat \subseteq N
  <2> HIDE DEF N
  <2> QED
    BY <1>1, <1>2, NumberInduction
<1> QED
  BY <1>3, FS_CardinalityType

\* One term changes.
LEMMA SumUpdate ==
  ASSUME NEW S, IsFiniteSet(S), NEW f, NEW e, NEW k,
         \A x \in S : f[x] \in Int /\ e[x] \in Int /\ (x # k => e[x] = f[x])
  PROVE  SumFunctionOnSet(e, S) =
            SumFunctionOnSet(f, S) + (IF k \in S THEN e[k] - f[k] ELSE 0)
<1>1. CASE k \notin S
  <2>1. SumFunctionOnSet(e, S) = SumFunctionOnSet(f, S) /\ SumFunctionOnSet(f, S) \in Int
    BY <1>1, SumAlike, SumInt
  <2> QED
    BY <1>1, <2>1
<1>2. CASE k \in S
  <2>1. IsFiniteSet(S \ {k})
    BY FS_RemoveElement
  <2>2. SumFunctionOnSet(e, S \ {k}) = SumFunctionOnSet(f, S \ {k})
    BY <2>1, SumAlike
  <2>3. /\ SumFunctionOnSet(f, S) = f[k] + SumFunctionOnSet(f, S \ {k})
        /\ SumFunctionOnSet(e, S) = e[k] + SumFunctionOnSet(e, S \ {k})
    BY <1>2, SumRemove
  <2>4. SumFunctionOnSet(f, S \ {k}) \in Int
    BY <2>1, SumInt
  <2> QED
    BY <1>2, <2>2, <2>3, <2>4
<1> QED
  BY <1>1, <1>2

LEMMA SumUnion ==
  ASSUME NEW S, IsFiniteSet(S), NEW T, IsFiniteSet(T), S \cap T = {},
         NEW f, \A x \in S \cup T : f[x] \in Int
  PROVE  SumFunctionOnSet(f, S \cup T) = SumFunctionOnSet(f, S) + SumFunctionOnSet(f, T)
<1> DEFINE C == {U \in SUBSET T :
                   SumFunctionOnSet(f, S \cup U) = SumFunctionOnSet(f, S) + SumFunctionOnSet(f, U)}
<1>1. {} \in C
  <2>1. S \cup {} = S /\ SumFunctionOnSet(f, S) \in Int
    BY SumInt
  <2> QED
    BY <2>1, SumEmpty
<1>2. ASSUME NEW U \in SUBSET T, NEW x \in T, U \in C, x \notin U
      PROVE  U \cup {x} \in C
  <2>1. IsFiniteSet(U) /\ IsFiniteSet(U \cup {x}) /\ IsFiniteSet(S \cup (U \cup {x}))
    BY FS_Subset, FS_AddElement, FS_Union
  <2>2. (S \cup (U \cup {x})) \ {x} = S \cup U /\ (U \cup {x}) \ {x} = U
    BY <1>2
  <2>3. SumFunctionOnSet(f, S \cup (U \cup {x})) = f[x] + SumFunctionOnSet(f, S \cup U)
    BY <2>1, <2>2, SumRemove
  <2>4. SumFunctionOnSet(f, U \cup {x}) = f[x] + SumFunctionOnSet(f, U)
    BY <2>1, <2>2, SumRemove
  <2>5. SumFunctionOnSet(f, S) \in Int /\ SumFunctionOnSet(f, U) \in Int /\ f[x] \in Int
    BY <2>1, SumInt
  <2>6. SumFunctionOnSet(f, S \cup U) = SumFunctionOnSet(f, S) + SumFunctionOnSet(f, U)
    BY <1>2
  <2> QED
    BY <2>3, <2>4, <2>5, <2>6
<1>3. T \in C
  <2> HIDE DEF C
  <2> QED
    BY <1>1, <1>2, FiniteInduction
<1> QED
  BY <1>3

LEMMA SumNat ==
  ASSUME NEW S, IsFiniteSet(S), NEW f, \A x \in S : f[x] \in Nat
  PROVE  SumFunctionOnSet(f, S) \in Nat
<1> DEFINE C == {U \in SUBSET S : SumFunctionOnSet(f, U) \in Nat}
<1>1. {} \in C
  BY SumEmpty
<1>2. ASSUME NEW U \in SUBSET S, NEW x \in S, U \in C, x \notin U
      PROVE  U \cup {x} \in C
  <2>1. IsFiniteSet(U \cup {x}) /\ (U \cup {x}) \ {x} = U
    BY <1>2, FS_Subset, FS_AddElement
  <2>2. SumFunctionOnSet(f, U \cup {x}) = f[x] + SumFunctionOnSet(f, U)
    BY <2>1, SumRemove
  <2> QED
    BY <1>2, <2>2
<1>3. S \in C
  <2> HIDE DEF C
  <2> QED
    BY <1>1, <1>2, FiniteInduction
<1> QED
  BY <1>3

\* A larger set of natural numbers adds up to no less.
LEMMA SumGrows ==
  ASSUME NEW T, IsFiniteSet(T), NEW S \in SUBSET T, NEW f, \A x \in T : f[x] \in Nat
  PROVE  SumFunctionOnSet(f, S) <= SumFunctionOnSet(f, T)
<1>1. IsFiniteSet(S) /\ IsFiniteSet(T \ S) /\ S \cup (T \ S) = T
  BY FS_Subset
<1>2. SumFunctionOnSet(f, T) = SumFunctionOnSet(f, S) + SumFunctionOnSet(f, T \ S)
  BY <1>1, SumUnion
<1>3. SumFunctionOnSet(f, S) \in Nat /\ SumFunctionOnSet(f, T \ S) \in Nat
  BY <1>1, SumNat
<1> QED
  BY <1>2, <1>3

LEMMA SumZero ==
  ASSUME NEW S, IsFiniteSet(S), NEW f, \A x \in S : f[x] = 0
  PROVE  SumFunctionOnSet(f, S) = 0
<1> DEFINE C == {U \in SUBSET S : SumFunctionOnSet(f, U) = 0}
<1>1. {} \in C
  BY SumEmpty
<1>2. ASSUME NEW U \in SUBSET S, NEW x \in S, U \in C, x \notin U
      PROVE  U \cup {x} \in C
  <2>1. IsFiniteSet(U \cup {x}) /\ (U \cup {x}) \ {x} = U
    BY <1>2, FS_Subset, FS_AddElement
  <2>2. SumFunctionOnSet(f, U \cup {x}) = f[x] + SumFunctionOnSet(f, U)
    BY <2>1, SumRemove
  <2> QED
    BY <1>2, <2>2
<1>3. S \in C
  <2> HIDE DEF C
  <2> QED
    BY <1>1, <1>2, FiniteInduction
<1> QED
  BY <1>3

\* What lies outside T counts for nothing.
LEMMA SumCovered ==
  ASSUME NEW S, IsFiniteSet(S), NEW T, IsFiniteSet(T),
         NEW f, \A x \in S \cup T : f[x] \in Nat, \A x \in S \ T : f[x] = 0
  PROVE  SumFunctionOnSet(f, S) <= SumFunctionOnSet(f, T)
<1>1. /\ IsFiniteSet(S \cap T) /\ IsFiniteSet(S \ T)
      /\ (S \cap T) \cup (S \ T) = S /\ (S \cap T) \cap (S \ T) = {}
  BY FS_Subset
<1>2. SumFunctionOnSet(f, S) = SumFunctionOnSet(f, S \cap T) + SumFunctionOnSet(f, S \ T)
  <2>1. \A x \in (S \cap T) \cup (S \ T) : f[x] \in Int
    OBVIOUS
  <2>2. SumFunctionOnSet(f, (S \cap T) \cup (S \ T)) =
           SumFunctionOnSet(f, S \cap T) + SumFunctionOnSet(f, S \ T)
    BY <1>1, <2>1, SumUnion
  <2> QED
    BY <1>1, <2>2
<1>3. SumFunctionOnSet(f, S \ T) = 0
  BY <1>1, SumZero
<1>4. SumFunctionOnSet(f, S \cap T) <= SumFunctionOnSet(f, T)
  BY SumGrows
<1>5. SumFunctionOnSet(f, S \cap T) \in Nat /\ SumFunctionOnSet(f, T) \in Nat
  BY <1>1, SumNat
<1> QED
  BY <1>2, <1>3, <1>4, <1>5

=============================================================================
