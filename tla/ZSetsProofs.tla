----------------------------- MODULE ZSetsProofs -----------------------------
(***************************************************************************)
(* What the operators of ZSets do to weights, for Z-sets of any records.   *)
(***************************************************************************)
EXTENDS ZSets, FiniteSetTheorems, WellFoundedInduction, TLAPS

\* A Z-set: integers, none of them zero.
IsZSet(z) == z = [x \in DOMAIN z |-> z[x]] /\ \A x \in DOMAIN z : z[x] \in Int /\ z[x] # 0

-----------------------------------------------------------------------------
(* Sums and differences *)

\* Eager is the identity.
LEMMA EagerIs ==
  ASSUME NEW f
  PROVE  Eager(f) = f
  BY DEF Eager

\* Weights are integers.
LEMMA WeightType ==
  ASSUME NEW z, IsZSet(z), NEW x
  PROVE  Weight(z, x) \in Int
  BY DEF IsZSet, Weight

\* Z-sets that give every record the same weight are equal.
LEMMA WeightsDetermine ==
  ASSUME NEW a, IsZSet(a), NEW b, IsZSet(b), \A x : Weight(a, x) = Weight(b, x)
  PROVE  a = b
  <1>1. ASSUME NEW x PROVE x \in DOMAIN a <=> x \in DOMAIN b
    <2>1. Weight(a, x) = Weight(b, x)
      OBVIOUS
    <2> QED  BY <2>1 DEF IsZSet, Weight
  <1>2. DOMAIN a = DOMAIN b
    BY <1>1
  <1>3. \A x \in DOMAIN a : a[x] = b[x]
    BY <1>2 DEF Weight
  <1> QED  BY <1>2, <1>3 DEF IsZSet

\* Concat adds weights.
LEMMA ConcatWeights ==
  ASSUME NEW a, IsZSet(a), NEW b, IsZSet(b)
  PROVE  /\ IsZSet(Concat(a, b))
         /\ \A x : Weight(Concat(a, b), x) = Weight(a, x) + Weight(b, x)
  <1> DEFINE W == [x \in DOMAIN a \cup DOMAIN b |-> Weight(a, x) + Weight(b, x)]
             N == {x \in DOMAIN a \cup DOMAIN b : W[x] # 0}
             c == [x \in N |-> W[x]]
  <1>1. Concat(a, b) = c
    BY EagerIs DEF Concat, Consolidate
  <1>2. \A x : Weight(a, x) \in Int /\ Weight(b, x) \in Int
    BY WeightType
  <1>3. IsZSet(c)
    BY <1>2 DEF IsZSet
  <1>4. ASSUME NEW x PROVE Weight(c, x) = Weight(a, x) + Weight(b, x)
    <2>1. CASE x \in DOMAIN a \cup DOMAIN b
      BY <1>2, <2>1 DEF Weight
    <2>2. CASE x \notin DOMAIN a \cup DOMAIN b
      BY <2>2 DEF Weight
    <2> QED  BY <2>1, <2>2
  <1> QED  BY <1>1, <1>3, <1>4

-----------------------------------------------------------------------------
(* Folds over finite sets *)

\* A set of naturals that is not empty has a least element: what takes the place of induction.
LEMMA LeastNat ==
  ASSUME NEW S \in SUBSET Nat, S # {}
  PROVE  \E x \in S : \A y \in S : x <= y
  <1>1. PICK x \in S : \A y \in S : ~(<<y, x>> \in OpToRel(<, Nat))
    BY WFMin, NatLessThanWellFounded
  <1>2. \A y \in S : ~(y < x)
    BY <1>1 DEF OpToRel
  <1> QED  BY <1>2

\* Among subsets of a finite set there is a smallest one.
LEMMA SmallestSubset ==
  ASSUME NEW S, IsFiniteSet(S), NEW Q \in SUBSET (SUBSET S), Q # {}
  PROVE  \E T \in Q : \A U \in Q : Cardinality(T) <= Cardinality(U)
  <1> DEFINE N == {Cardinality(T) : T \in Q}
  <1>1. \A T \in Q : Cardinality(T) \in Nat
    <2> SUFFICES ASSUME NEW T \in Q PROVE Cardinality(T) \in Nat
      OBVIOUS
    <2>1. IsFiniteSet(T)
      BY FS_Subset
    <2> QED  BY <2>1, FS_CardinalityType
  <1>2. N \in SUBSET Nat /\ N # {}
    BY <1>1
  <1>3. PICK n \in N : \A m \in N : n <= m
    <2> HIDE DEF N
    <2> QED  BY <1>2, LeastNat
  <1> QED  BY <1>3

\* The element a fold takes from a set, and the set it goes on with.
Pick(s) == CHOOSE x \in s : TRUE
Rest(s) == s \ {Pick(s)}

\* The rest of a set is smaller.
LEMMA RestSmaller ==
  ASSUME NEW s, IsFiniteSet(s), s # {}
  PROVE  /\ Pick(s) \in s /\ Rest(s) \subseteq s
         /\ Cardinality(s) \in Nat /\ Cardinality(s) > 0
         /\ Cardinality(Rest(s)) = Cardinality(s) - 1
  <1>1. Pick(s) \in s
    BY DEF Pick
  <1>2. Cardinality(s) \in Nat /\ Cardinality(s) # 0
    BY FS_CardinalityType, FS_EmptySet
  <1>3. Cardinality(s \ {Pick(s)}) = Cardinality(s) - 1
    BY <1>1, FS_RemoveElement
  <1> QED  BY <1>1, <1>2, <1>3 DEF Rest

\* A function that folds the subsets of a set.
FoldsBy(g, S, base, step) ==
    \A s \in SUBSET S : g[s] = IF s = {} THEN base ELSE step[<<Pick(s), g[Rest(s)]>>]

\* There is one for a finite set, when a step takes an element and a result to a result.
LEMMA FoldExists ==
  ASSUME NEW S, IsFiniteSet(S), NEW A, NEW base \in A, NEW step \in [S \X A -> A]
  PROVE  \E g \in [SUBSET S -> A] : FoldsBy(g, S, base, step)
  <1> DEFINE Sub(n) == {s \in SUBSET S : Cardinality(s) <= n}
             Folds(g, n) == \A s \in Sub(n) :
                g[s] = IF s = {} THEN base ELSE step[<<Pick(s), g[Rest(s)]>>]
             Bad == {n \in Nat : ~\E g \in [Sub(n) -> A] : Folds(g, n)}
  <1>1. \A s \in SUBSET S : IsFiniteSet(s) /\ Cardinality(s) \in Nat
    <2> SUFFICES ASSUME NEW s \in SUBSET S PROVE IsFiniteSet(s) /\ Cardinality(s) \in Nat
      OBVIOUS
    <2>1. IsFiniteSet(s)
      BY FS_Subset
    <2> QED  BY <2>1, FS_CardinalityType
  <1>2. Bad = {}
    <2> SUFFICES ASSUME Bad # {} PROVE FALSE
      OBVIOUS
    <2>1. PICK n \in Bad : \A m \in Bad : n <= m
      <3>1. Bad \in SUBSET Nat
        OBVIOUS
      <3> HIDE DEF Bad
      <3> QED  BY <3>1, LeastNat
    <2>2. n \in Nat /\ ~\E g \in [Sub(n) -> A] : Folds(g, n)
      BY <2>1
    <2>3. CASE n = 0
      <3> DEFINE g == [s \in Sub(0) |-> base]
      <3>1. \A s \in Sub(0) : s = {}
        <4> SUFFICES ASSUME NEW s \in Sub(0) PROVE s = {}
          OBVIOUS
        <4>1. IsFiniteSet(s) /\ Cardinality(s) = 0
          BY <1>1
        <4> QED  BY <4>1, FS_EmptySet
      <3>2. g \in [Sub(0) -> A] /\ Folds(g, 0)
        BY <3>1
      <3> HIDE DEF g
      <3> QED  BY <2>2, <2>3, <3>2
    <2>4. CASE n # 0
      <3>1. n - 1 \in Nat /\ n - 1 \notin Bad
        <4>1. n \in Nat
          BY <2>2
        <4> HIDE DEF Bad
        <4> QED  BY <2>1, <2>4, <4>1
      <3>2. PICK h \in [Sub(n - 1) -> A] : Folds(h, n - 1)
        BY <3>1
      <3> DEFINE g == [s \in Sub(n) |-> IF s = {} THEN base ELSE step[<<Pick(s), h[Rest(s)]>>]]
      <3>3. ASSUME NEW s \in Sub(n), s # {}
            PROVE  Pick(s) \in S /\ Rest(s) \in Sub(n - 1) /\ Rest(s) \in Sub(n)
        <4>1. IsFiniteSet(s) /\ s \in SUBSET S /\ Cardinality(s) <= n
          BY <1>1
        <4>2. /\ Pick(s) \in s /\ Rest(s) \subseteq s /\ Cardinality(s) \in Nat
              /\ Cardinality(Rest(s)) = Cardinality(s) - 1
          BY <3>3, <4>1, RestSmaller
        <4> QED  BY <2>2, <4>1, <4>2
      <3>4. ASSUME NEW s \in Sub(n)
            PROVE  (IF s = {} THEN base ELSE step[<<Pick(s), h[Rest(s)]>>]) \in A
        <4>1. CASE s = {}
          BY <4>1
        <4>2. CASE s # {}
          <5>1. <<Pick(s), h[Rest(s)]>> \in S \X A
            BY <3>2, <3>3, <4>2
          <5> QED  BY <4>2, <5>1
        <4> QED  BY <4>1, <4>2
      <3>5. g \in [Sub(n) -> A]
        <4> HIDE DEF Sub
        <4> QED  BY <3>4
      <3>6. ASSUME NEW s \in Sub(n - 1) PROVE s \in Sub(n) /\ g[s] = h[s]
        <4>1. s \in Sub(n)
          BY <1>1, <2>2
        <4>2. h[s] = IF s = {} THEN base ELSE step[<<Pick(s), h[Rest(s)]>>]
          BY <3>2
        <4> HIDE DEF Sub
        <4> QED  BY <4>1, <4>2
      <3>7. Folds(g, n)
        <4> SUFFICES ASSUME NEW s \in Sub(n)
                     PROVE  g[s] = IF s = {} THEN base ELSE step[<<Pick(s), g[Rest(s)]>>]
          OBVIOUS
        <4>1. g[s] = IF s = {} THEN base ELSE step[<<Pick(s), h[Rest(s)]>>]
          OBVIOUS
        <4>2. s # {} => g[Rest(s)] = h[Rest(s)]
          BY <3>3, <3>6
        <4> HIDE DEF g
        <4> QED  BY <4>1, <4>2
      <3> HIDE DEF g
      <3> QED  BY <2>2, <3>5, <3>7
    <2> QED  BY <2>3, <2>4
  <1> DEFINE n == Cardinality(S)
  <1>3. n \in Nat
    BY FS_CardinalityType
  <1>4. Sub(n) = SUBSET S
    <2> SUFFICES ASSUME NEW s \in SUBSET S PROVE Cardinality(s) <= n
      OBVIOUS
    <2> QED  BY FS_Subset
  <1>5. PICK g \in [Sub(n) -> A] : Folds(g, n)
    BY <1>2, <1>3
  <1> HIDE DEF n
  <1> QED  BY <1>4, <1>5 DEF FoldsBy

-----------------------------------------------------------------------------
(* Sums *)

SumOver(f, S) == MapThenSumSet(LAMBDA i : f[i], S)

\* A function from the subsets of a set to their sums.
IsSum(g, f, S) == \A s \in SUBSET S : g[s] = IF s = {} THEN 0 ELSE f[Pick(s)] + g[Rest(s)]

\* The same as the equation of a recursive function.
SumFcn(g, f, S) == g = [s \in SUBSET S |-> IF s = {} THEN 0 ELSE f[Pick(s)] + g[Rest(s)]]

\* There is one.
LEMMA SumExists ==
  ASSUME NEW S, IsFiniteSet(S), NEW f, \A i \in S : f[i] \in Int
  PROVE  \E g : SumFcn(g, f, S)
  <1> DEFINE step == [xa \in S \X Int |-> f[xa[1]] + xa[2]]
  <1>1. step \in [S \X Int -> Int]
    OBVIOUS
  <1>2. PICK g \in [SUBSET S -> Int] : FoldsBy(g, S, 0, step)
    <2>1. 0 \in Int
      OBVIOUS
    <2> HIDE DEF step
    <2> QED  BY <1>1, <2>1, FoldExists
  <1>3. ASSUME NEW s \in SUBSET S, s # {}
        PROVE  step[<<Pick(s), g[Rest(s)]>>] = f[Pick(s)] + g[Rest(s)]
    <2>1. IsFiniteSet(s)
      BY FS_Subset
    <2>2. Pick(s) \in S /\ Rest(s) \in SUBSET S
      BY <1>3, <2>1, RestSmaller
    <2>3. <<Pick(s), g[Rest(s)]>> \in S \X Int
      BY <2>2
    <2> QED  BY <2>3
  <1> HIDE DEF step
  <1>4. \A s \in SUBSET S : g[s] = IF s = {} THEN 0 ELSE f[Pick(s)] + g[Rest(s)]
    BY <1>2, <1>3 DEF FoldsBy
  <1>5. SumFcn(g, f, S)
    BY <1>4 DEF SumFcn
  <1> QED  BY <1>5

\* SumOver is the value of one.
LEMMA SumIs ==
  ASSUME NEW S, IsFiniteSet(S), NEW f, \A i \in S : f[i] \in Int
  PROVE  \E g : IsSum(g, f, S) /\ SumOver(f, S) = g[S]
  <1> DEFINE g == CHOOSE h : h = [s \in SUBSET S |-> IF s = {} THEN 0 ELSE f[Pick(s)] + h[Rest(s)]]
  <1>1. g = [s \in SUBSET S |-> IF s = {} THEN 0 ELSE f[Pick(s)] + g[Rest(s)]]
    BY SumExists DEF SumFcn
  <1>2. SumOver(f, S) = g[S]
    BY DEF SumOver, MapThenSumSet, MapThenFoldSet, Pick, Rest
  <1> HIDE DEF g
  <1>3. IsSum(g, f, S)
    BY <1>1 DEF IsSum
  <1> QED  BY <1>2, <1>3

\* Its values are integers, and any element may be taken out first.
LEMMA SumTakes ==
  ASSUME NEW S, IsFiniteSet(S), NEW f, \A i \in S : f[i] \in Int, NEW g, IsSum(g, f, S),
         NEW T \in SUBSET S
  PROVE  g[T] \in Int /\ \A x \in T : g[T] = f[x] + g[T \ {x}]
  <1> DEFINE Good(s) == g[s] \in Int /\ \A x \in s : g[s] = f[x] + g[s \ {x}]
             Bad == {s \in SUBSET S : ~Good(s)}
  <1> SUFFICES ASSUME Bad # {} PROVE FALSE
    OBVIOUS
  <1>1. PICK s \in Bad : \A t \in Bad : Cardinality(s) <= Cardinality(t)
    <2>1. Bad \in SUBSET (SUBSET S)
      OBVIOUS
    <2> HIDE DEF Bad
    <2> QED  BY <2>1, SmallestSubset
  <1>2. s \in SUBSET S /\ IsFiniteSet(s) /\ Cardinality(s) \in Nat
    BY <1>1, FS_Subset, FS_CardinalityType
  <1>3. ASSUME NEW x \in s PROVE Good(s \ {x})
    <2>1. Cardinality(s \ {x}) = Cardinality(s) - 1
      BY <1>2, FS_RemoveElement
    <2>2. s \ {x} \in SUBSET S
      BY <1>2
    <2>3. s \ {x} \notin Bad
      <3> HIDE DEF Bad
      <3> QED  BY <1>1, <1>2, <2>1
    <2> QED  BY <2>2, <2>3
  <1>4. CASE s = {}
    BY <1>1, <1>2, <1>4 DEF IsSum
  <1>5. CASE s # {}
    <2> DEFINE p == Pick(s)
    <2>1. p \in s /\ Rest(s) = s \ {p}
      BY <1>2, <1>5, RestSmaller DEF Rest
    <2>2. g[s] = f[p] + g[s \ {p}]
      BY <1>2, <1>5, <2>1 DEF IsSum
    <2> HIDE DEF p
    <2>3. \A x \in s : f[x] \in Int /\ g[s \ {x}] \in Int
      BY <1>2, <1>3
    <2>4. g[s] \in Int
      <3>1. f[p] \in Int /\ g[s \ {p}] \in Int
        BY <2>1, <2>3
      <3> HIDE DEF Bad
      <3> QED  BY <2>2, <3>1
    <2>5. ASSUME NEW x \in s PROVE g[s] = f[x] + g[s \ {x}]
      <3>1. CASE x = p
        BY <2>2, <3>1
      <3>2. CASE x # p
        <4>1. g[s \ {p}] = f[x] + g[(s \ {p}) \ {x}]
          BY <1>3, <2>1, <3>2
        <4>2. g[s \ {x}] = f[p] + g[(s \ {x}) \ {p}]
          BY <1>3, <2>1, <3>2
        <4>3. (s \ {p}) \ {x} = (s \ {x}) \ {p}
          OBVIOUS
        <4> DEFINE r == (s \ {x}) \ {p}
        <4>4. g[r] \in Int
          <5>1. r \in SUBSET S /\ p \in s \ {x}
            BY <1>2, <2>1, <3>2
          <5>2. Cardinality(s \ {x}) = Cardinality(s) - 1
            BY <1>2, FS_RemoveElement
          <5>3. IsFiniteSet(s \ {x})
            BY <1>2, FS_RemoveElement
          <5>4. Cardinality(r) = Cardinality(s \ {x}) - 1
            BY <5>1, <5>3, FS_RemoveElement
          <5>5. r \notin Bad
            <6> HIDE DEF Bad, r
            <6> QED  BY <1>1, <1>2, <5>2, <5>4
          <5> QED  BY <5>1, <5>5
        <4> HIDE DEF r
        <4>5. g[s \ {p}] = f[x] + g[r] /\ g[s \ {x}] = f[p] + g[r]
          BY <4>1, <4>2, <4>3 DEF r
        <4> QED  BY <2>1, <2>2, <2>3, <4>4, <4>5
      <3> QED  BY <3>1, <3>2
    <2> QED  BY <1>1, <2>4, <2>5
  <1> QED  BY <1>4, <1>5

\* Functions that agree on a set have the same sum over it, whatever other sets they sum.
LEMMA SumAgrees ==
  ASSUME NEW S, IsFiniteSet(S), NEW f, \A i \in S : f[i] \in Int, NEW g, IsSum(g, f, S),
         NEW R, IsFiniteSet(R), NEW e, NEW h, IsSum(h, e, R),
         NEW T \in SUBSET S, T \subseteq R, \A i \in T : e[i] = f[i]
  PROVE  g[T] = h[T]
  <1> DEFINE Bad == {s \in SUBSET T : g[s] # h[s]}
  <1>1. IsFiniteSet(T)
    BY FS_Subset
  <1> SUFFICES ASSUME Bad # {} PROVE FALSE
    OBVIOUS
  <1>2. PICK s \in Bad : \A t \in Bad : Cardinality(s) <= Cardinality(t)
    <2>1. Bad \in SUBSET (SUBSET T)
      OBVIOUS
    <2> HIDE DEF Bad
    <2> QED  BY <1>1, <2>1, SmallestSubset
  <1>3. s \in SUBSET T /\ IsFiniteSet(s) /\ Cardinality(s) \in Nat /\ g[s] # h[s]
    BY <1>1, <1>2, FS_Subset, FS_CardinalityType
  <1>4. s \in SUBSET S /\ s \in SUBSET R
    BY <1>3
  <1>5. CASE s = {}
    BY <1>3, <1>4, <1>5 DEF IsSum
  <1>6. CASE s # {}
    <2>1. /\ Pick(s) \in s /\ Rest(s) \subseteq s /\ Cardinality(Rest(s)) = Cardinality(s) - 1
      BY <1>3, <1>6, RestSmaller
    <2>2. Rest(s) \notin Bad
      <3> HIDE DEF Bad
      <3> QED  BY <1>2, <1>3, <2>1
    <2>3. g[Rest(s)] = h[Rest(s)]
      BY <1>3, <2>1, <2>2
    <2>4. g[s] = f[Pick(s)] + g[Rest(s)] /\ h[s] = e[Pick(s)] + h[Rest(s)]
      BY <1>4, <1>6 DEF IsSum
    <2> QED  BY <1>3, <2>1, <2>3, <2>4
  <1> QED  BY <1>5, <1>6

\* The sum over a set is an integer, and one of its elements may be taken out.
LEMMA SumRemove ==
  ASSUME NEW S, IsFiniteSet(S), NEW f, \A i \in S : f[i] \in Int
  PROVE  /\ SumOver(f, S) \in Int
         /\ \A x \in S : SumOver(f, S) = f[x] + SumOver(f, S \ {x})
  <1>1. PICK g : IsSum(g, f, S) /\ SumOver(f, S) = g[S]
    BY SumIs
  <1>2. g[S] \in Int /\ \A x \in S : g[S] = f[x] + g[S \ {x}]
    BY <1>1, SumTakes
  <1>3. ASSUME NEW x \in S PROVE SumOver(f, S \ {x}) = g[S \ {x}]
    <2>1. IsFiniteSet(S \ {x}) /\ \A i \in S \ {x} : f[i] \in Int
      BY FS_RemoveElement
    <2>2. PICK h : IsSum(h, f, S \ {x}) /\ SumOver(f, S \ {x}) = h[S \ {x}]
      BY <2>1, SumIs
    <2>3. g[S \ {x}] = h[S \ {x}]
      <3>1. S \ {x} \in SUBSET S /\ S \ {x} \subseteq S \ {x} /\ \A i \in S \ {x} : f[i] = f[i]
        OBVIOUS
      <3> QED  BY <1>1, <2>1, <2>2, <3>1, SumAgrees
    <2> QED  BY <2>2, <2>3
  <1> QED  BY <1>1, <1>2, <1>3

\* The sum over no element.
LEMMA SumEmpty ==
  ASSUME NEW f
  PROVE  SumOver(f, {}) = 0
  <1>1. IsFiniteSet({}) /\ \A i \in {} : f[i] \in Int
    BY FS_EmptySet
  <1>2. PICK g : IsSum(g, f, {}) /\ SumOver(f, {}) = g[{}]
    BY <1>1, SumIs
  <1> QED  BY <1>2 DEF IsSum

\* Only the values on the set matter.
LEMMA SumSame ==
  ASSUME NEW S, IsFiniteSet(S), NEW f, NEW e, \A i \in S : f[i] \in Int /\ e[i] = f[i]
  PROVE  SumOver(f, S) = SumOver(e, S)
  <1>1. PICK g : IsSum(g, f, S) /\ SumOver(f, S) = g[S]
    BY SumIs
  <1>2. PICK h : IsSum(h, e, S) /\ SumOver(e, S) = h[S]
    <2>1. \A i \in S : e[i] \in Int
      OBVIOUS
    <2> QED  BY <2>1, SumIs
  <1>3. g[S] = h[S]
    <2>1. S \in SUBSET S /\ S \subseteq S
      OBVIOUS
    <2> QED  BY <1>1, <1>2, <2>1, SumAgrees
  <1> QED  BY <1>1, <1>2, <1>3

\* An element may be added.
LEMMA SumAdd ==
  ASSUME NEW S, IsFiniteSet(S), NEW f, NEW x, x \notin S, \A i \in S \cup {x} : f[i] \in Int
  PROVE  SumOver(f, S \cup {x}) = f[x] + SumOver(f, S)
  <1>1. IsFiniteSet(S \cup {x}) /\ (S \cup {x}) \ {x} = S /\ x \in S \cup {x}
    BY FS_AddElement
  <1> QED  BY <1>1, SumRemove

\* Zeros add up to zero.
LEMMA SumZero ==
  ASSUME NEW S, IsFiniteSet(S), NEW f, \A i \in S : f[i] = 0
  PROVE  SumOver(f, S) = 0
  <1> DEFINE h == [s \in SUBSET S |-> 0]
  <1>1. \A i \in S : f[i] \in Int
    OBVIOUS
  <1>2. PICK g : IsSum(g, f, S) /\ SumOver(f, S) = g[S]
    BY <1>1, SumIs
  <1>3. IsSum(h, f, S)
    <2>1. \A s \in SUBSET S : s # {} => Pick(s) \in S /\ Rest(s) \in SUBSET S
      BY DEF Pick, Rest
    <2> QED  BY <2>1 DEF IsSum
  <1>4. h[S] = 0
    OBVIOUS
  <1> HIDE DEF h
  <1>5. g[S] = h[S]
    <2>1. S \in SUBSET S /\ S \subseteq S /\ \A i \in S : f[i] = f[i]
      OBVIOUS
    <2> QED  BY <1>1, <1>2, <1>3, <2>1, SumAgrees
  <1> QED  BY <1>2, <1>4, <1>5

\* Integers that differ for x only.
DifferAt(f, e, S, x) ==
    (\A i \in S : f[i] \in Int /\ e[i] \in Int) /\ \A i \in S \ {x} : e[i] = f[i]

\* A sum follows the one value that changes.
LEMMA SumChange ==
  ASSUME NEW S, IsFiniteSet(S), NEW f, NEW e, NEW x \in S, DifferAt(f, e, S, x)
  PROVE  /\ SumOver(f, S) \in Int /\ SumOver(e, S) \in Int
         /\ SumOver(e, S) = SumOver(f, S) + (e[x] - f[x])
  <1> USE DEF DifferAt
  <1>1. /\ SumOver(f, S) \in Int
        /\ SumOver(f, S) = f[x] + SumOver(f, S \ {x})
    BY SumRemove
  <1>2. /\ SumOver(e, S) \in Int
        /\ SumOver(e, S) = e[x] + SumOver(e, S \ {x})
    BY SumRemove
  <1>3. IsFiniteSet(S \ {x})
    BY FS_RemoveElement
  <1>4. SumOver(f, S \ {x}) \in Int
    BY <1>3, SumRemove
  <1>5. SumOver(f, S \ {x}) = SumOver(e, S \ {x})
    BY <1>3, SumSame
  <1> QED  BY <1>1, <1>2, <1>4, <1>5

\* Elements of value zero can be left out.
LEMMA SumPart ==
  ASSUME NEW S, IsFiniteSet(S), NEW f, \A i \in S : f[i] \in Int,
         NEW T \in SUBSET S, \A i \in S \ T : f[i] = 0
  PROVE  SumOver(f, S) = SumOver(f, T)
  <1> DEFINE Bad == {s \in SUBSET S : T \subseteq s /\ SumOver(f, s) # SumOver(f, T)}
  <1> SUFFICES ASSUME Bad # {} PROVE FALSE
    OBVIOUS
  <1>1. PICK s \in Bad : \A t \in Bad : Cardinality(s) <= Cardinality(t)
    <2>1. Bad \in SUBSET (SUBSET S)
      OBVIOUS
    <2> HIDE DEF Bad
    <2> QED  BY <2>1, SmallestSubset
  <1>2. s \in SUBSET S /\ T \subseteq s /\ SumOver(f, s) # SumOver(f, T)
    BY <1>1
  <1>3. IsFiniteSet(s) /\ \A i \in s : f[i] \in Int
    BY <1>2, FS_Subset
  <1>4. PICK x \in s : x \notin T
    BY <1>2
  <1>5. /\ IsFiniteSet(s \ {x}) /\ Cardinality(s) \in Nat
        /\ Cardinality(s \ {x}) = Cardinality(s) - 1
    BY <1>3, FS_RemoveElement, FS_CardinalityType
  <1>6. s \ {x} \notin Bad
    <2> HIDE DEF Bad
    <2> QED  BY <1>1, <1>5
  <1>7. SumOver(f, s \ {x}) = SumOver(f, T)
    BY <1>2, <1>4, <1>6
  <1>8. SumOver(f, s) = f[x] + SumOver(f, s \ {x}) /\ f[x] = 0
    BY <1>2, <1>3, <1>4, SumRemove
  <1>9. SumOver(f, s \ {x}) \in Int
    BY <1>3, <1>5, SumRemove
  <1> HIDE DEF Bad
  <1> QED  BY <1>2, <1>7, <1>8, <1>9

-----------------------------------------------------------------------------
(* Weights *)

\* The weights of Z-sets that are added up.
WeightsOf(zs, x) == [i \in DOMAIN zs |-> Weight(zs[i], x)]

\* The sum that Concatenate forms for a record.
LEMMA ConcatenateSum ==
  ASSUME NEW zs, IsFiniteSet(DOMAIN zs), \A i \in DOMAIN zs : IsZSet(zs[i]), NEW x
  PROVE  MapThenSumSet(LAMBDA i : Weight(zs[i], x), DOMAIN zs) = SumOver(WeightsOf(zs, x), DOMAIN zs)
  <1>0. PICK D : D = DOMAIN zs
    OBVIOUS
  <1> DEFINE w == WeightsOf(zs, x)
             IsW(g) == g = [s \in SUBSET D |-> IF s = {} THEN 0 ELSE Weight(zs[Pick(s)], x) + g[Rest(s)]]
             g == CHOOSE h : IsW(h)
  <1>1. \A i \in D : w[i] \in Int /\ w[i] = Weight(zs[i], x)
    BY <1>0, WeightType DEF WeightsOf
  <1>2. MapThenSumSet(LAMBDA i : Weight(zs[i], x), DOMAIN zs) = g[D]
    BY <1>0 DEF MapThenSumSet, MapThenFoldSet, Pick, Rest
  <1> HIDE DEF w
  <1>3. \A s \in SUBSET D : s # {} => w[Pick(s)] = Weight(zs[Pick(s)], x)
    <2>1. \A s \in SUBSET D : s # {} => Pick(s) \in D
      BY DEF Pick
    <2> QED  BY <1>1, <2>1
  <1>4. \E h : IsW(h)
    <2>1. PICK h : SumFcn(h, w, D)
      BY <1>0, <1>1, SumExists
    <2>2. IsW(h)
      BY <1>3, <2>1 DEF SumFcn
    <2> HIDE DEF IsW
    <2> QED  BY <2>2
  <1>5. IsW(g)
    <2> HIDE DEF IsW
    <2> QED  BY <1>4
  <1> HIDE DEF g
  <1>6. IsSum(g, w, D)
    BY <1>3, <1>5 DEF IsSum
  <1>7. PICK h : IsSum(h, w, D) /\ SumOver(w, D) = h[D]
    BY <1>0, <1>1, SumIs
  <1>8. g[D] = h[D]
    <2>1. D \in SUBSET D /\ D \subseteq D
      OBVIOUS
    <2> QED  BY <1>0, <1>1, <1>6, <1>7, <2>1, SumAgrees
  <1> QED  BY <1>0, <1>2, <1>7, <1>8 DEF w

\* Concatenate adds up the weights.
LEMMA ConcatenateWeights ==
  ASSUME NEW zs, IsFiniteSet(DOMAIN zs), \A i \in DOMAIN zs : IsZSet(zs[i])
  PROVE  /\ IsZSet(Concatenate(zs))
         /\ \A x : /\ Weight(Concatenate(zs), x) = SumOver(WeightsOf(zs, x), DOMAIN zs)
                  /\ SumOver(WeightsOf(zs, x), DOMAIN zs) \in Int
  <1> DEFINE D == DOMAIN zs
             M(x) == SumOver(WeightsOf(zs, x), D)
             U == UNION {DOMAIN zs[i] : i \in D}
             N == {y \in U : M(y) # 0}
             c == [x \in N |-> M(x)]
  <1>1. Concatenate(zs) = c
    BY EagerIs, ConcatenateSum DEF Concatenate, Consolidate
  <1>2. ASSUME NEW x
        PROVE  /\ \A i \in D : WeightsOf(zs, x)[i] \in Int
               /\ M(x) \in Int
    <2>1. \A i \in D : WeightsOf(zs, x)[i] \in Int
      BY WeightType DEF WeightsOf
    <2> QED  BY <2>1, SumRemove
  <1>3. ASSUME NEW x, x \notin U PROVE M(x) = 0
    <2>1. \A i \in D : WeightsOf(zs, x)[i] = 0
      BY <1>3 DEF WeightsOf, Weight
    <2> QED  BY <2>1, SumZero
  <1> HIDE DEF M
  <1>4. IsZSet(c)
    BY <1>2 DEF IsZSet
  <1>5. ASSUME NEW x PROVE Weight(c, x) = M(x)
    <2>1. CASE x \in N
      BY <2>1 DEF Weight
    <2>2. CASE x \notin N
      BY <1>3, <2>2 DEF Weight
    <2> QED  BY <2>1, <2>2
  <1> HIDE DEF c
  <1> QED  BY <1>1, <1>2, <1>4, <1>5 DEF M

\* A difference subtracts weights.
LEMMA MinusWeights ==
  ASSUME NEW a, IsZSet(a), NEW b, IsZSet(b)
  PROVE  /\ IsZSet(Minus(a, b))
         /\ \A x : Weight(Minus(a, b), x) = Weight(a, x) - Weight(b, x)
  <1> DEFINE n == [x \in DOMAIN b |-> -b[x]]
  <1>1. Minus(a, b) = Concat(a, n)
    BY EagerIs DEF Minus, Negate
  <1>2. IsZSet(n)
    BY DEF IsZSet
  <1>3. \A x : Weight(n, x) = -Weight(b, x)
    BY DEF Weight
  <1>4. \A x : Weight(a, x) \in Int /\ Weight(b, x) \in Int
    BY WeightType
  <1> HIDE DEF n
  <1>5. IsZSet(Concat(a, n)) /\ \A x : Weight(Concat(a, n), x) = Weight(a, x) + Weight(n, x)
    BY <1>2, ConcatWeights
  <1> QED  BY <1>1, <1>3, <1>4, <1>5

-----------------------------------------------------------------------------
(* Distinct, negation and changes over time *)

\* diff_distinct, which differential_datalog uses in nested scopes, and threshold_total, which
\* it uses at the top level, compute the same collection, also where weights are negative.
THEOREM DistinctExact ==
  ASSUME NEW z, IsZSet(z)
  PROVE  diff_distinct(z) = Threshold(z)
  <1> DEFINE N == {y \in DOMAIN z : z[y] # 1}
             adj == [x \in N |-> 1 - z[x]]
             one == [x \in DOMAIN z |-> 1]
  <1>1. diff_distinct(z) = Concat(z, adj) /\ Threshold(z) = one
    BY EagerIs DEF diff_distinct, Threshold
  <1>2. IsZSet(adj) /\ IsZSet(one)
    BY DEF IsZSet
  <1>3. \A x : Weight(adj, x) = Weight(one, x) - Weight(z, x)
    BY DEF Weight, IsZSet
  <1>4. \A x : Weight(one, x) \in Int /\ Weight(z, x) \in Int
    BY <1>2, WeightType
  <1> HIDE DEF adj, one
  <1>5. IsZSet(Concat(z, adj)) /\ \A x : Weight(Concat(z, adj), x) = Weight(one, x)
    BY <1>2, <1>3, <1>4, ConcatWeights
  <1> QED  BY <1>1, <1>2, <1>5, WeightsDetermine

\* The sum that a join forms for a result that the pairs in T have.
JoinWeight(a, b, T) == MapThenSumSet(LAMBDA p : a[p[1]] * b[p[2]], T)

\* The products that a join adds up.
Products(a, b, T) == [p \in T |-> a[p[1]] * b[p[2]]]

\* It is the sum of the products.
LEMMA JoinSum ==
  ASSUME NEW a, NEW b, NEW T, IsFiniteSet(T), \A p \in T : a[p[1]] \in Int /\ b[p[2]] \in Int
  PROVE  JoinWeight(a, b, T) = SumOver(Products(a, b, T), T)
  <1> DEFINE w == Products(a, b, T)
             IsW(g) == g = [s \in SUBSET T |->
                          IF s = {} THEN 0 ELSE a[Pick(s)[1]] * b[Pick(s)[2]] + g[Rest(s)]]
             g == CHOOSE h : IsW(h)
  <1>1. \A p \in T : w[p] \in Int /\ w[p] = a[p[1]] * b[p[2]]
    BY DEF Products
  <1>2. JoinWeight(a, b, T) = g[T]
    BY DEF JoinWeight, MapThenSumSet, MapThenFoldSet, Pick, Rest
  <1> HIDE DEF w
  <1>3. \A s \in SUBSET T : s # {} => w[Pick(s)] = a[Pick(s)[1]] * b[Pick(s)[2]]
    <2>1. \A s \in SUBSET T : s # {} => Pick(s) \in T
      BY DEF Pick
    <2> QED  BY <1>1, <2>1
  <1>4. \E h : IsW(h)
    <2>1. PICK h : SumFcn(h, w, T)
      BY <1>1, SumExists
    <2>2. IsW(h)
      BY <1>3, <2>1 DEF SumFcn
    <2> HIDE DEF IsW
    <2> QED  BY <2>2
  <1>5. IsW(g)
    <2> HIDE DEF IsW
    <2> QED  BY <1>4
  <1> HIDE DEF g
  <1>6. IsSum(g, w, T)
    BY <1>3, <1>5 DEF IsSum
  <1>7. PICK h : IsSum(h, w, T) /\ SumOver(w, T) = h[T]
    BY <1>1, SumIs
  <1>8. g[T] = h[T]
    <2>1. T \in SUBSET T /\ T \subseteq T
      OBVIOUS
    <2> QED  BY <1>1, <1>6, <1>7, <2>1, SumAgrees
  <1> QED  BY <1>2, <1>7, <1>8 DEF w

\* An arrangement: a finite Z-set of pairs of a key and a value.
IsArrangement(a) ==
    IsZSet(a) /\ IsFiniteSet(DOMAIN a) /\ \A p \in DOMAIN a : p = <<p[1], p[2]>>

\* A distinct arrangement of keys.
IsKeySet(b) ==
    IsZSet(b) /\ IsFiniteSet(DOMAIN b) /\ \A p \in DOMAIN b : p = <<p[1], Unit>> /\ b[p] = 1

\* The semijoin with a distinct arrangement of keys selects the entries that have their key in it.
LEMMA SemijoinSelects ==
  ASSUME NEW a, IsArrangement(a), NEW b, IsKeySet(b)
  PROVE  semijoin_arranged(a, b) = [p \in {q \in DOMAIN a : <<q[1], Unit>> \in DOMAIN b} |-> a[p]]
  <1> DEFINE pairs == {p \in (DOMAIN a) \X (DOMAIN b) : p[1][1] = p[2][1]}
             R(p) == {<<p[1][1], p[1][2]>>}
             D == UNION {R(p) : p \in pairs}
             T(y) == {p \in pairs : y \in R(p)}
             W(y) == JoinWeight(a, b, T(y))
             S == {q \in DOMAIN a : <<q[1], Unit>> \in DOMAIN b}
             c == [x \in {y \in D : W(y) # 0} |-> W(x)]
  <1>1. semijoin_arranged(a, b) = c
    <2>1. semijoin_arranged(a, b) = Eager(c)
      BY Zenon DEF semijoin_arranged, Join, Consolidate, JoinWeight
    <2> HIDE DEF c
    <2> QED  BY <2>1, EagerIs
  <1>2. \A p \in pairs : /\ p[1] \in S /\ R(p) = {p[1]} /\ p[2] = <<p[1][1], Unit>>
                         /\ p = <<p[1], <<p[1][1], Unit>>>>
    BY DEF IsArrangement, IsKeySet
  <1>3. ASSUME NEW y \in S PROVE <<y, <<y[1], Unit>>>> \in pairs /\ T(y) = {<<y, <<y[1], Unit>>>>}
    <2>1. <<y, <<y[1], Unit>>>> \in pairs
      OBVIOUS
    <2>2. \A p \in pairs : y \in R(p) <=> p[1] = y
      BY <1>2
    <2>3. \A p \in pairs : p[1] = y => p = <<y, <<y[1], Unit>>>>
      BY <1>2
    <2>4. PICK q : q = <<y, <<y[1], Unit>>>>
      OBVIOUS
    <2>5. q \in pairs /\ q[1] = y
      BY <2>1, <2>4
    <2>6. T(y) = {q}
      BY <2>2, <2>3, <2>4, <2>5
    <2> QED  BY <2>1, <2>4, <2>6
  <1>4. D = S
    <2>1. ASSUME NEW y \in D PROVE y \in S
      <3>1. PICK p \in pairs : y \in R(p)
        OBVIOUS
      <3> HIDE DEF pairs, R, S
      <3> QED  BY <1>2, <3>1
    <2>2. ASSUME NEW y \in S PROVE y \in D
      <3>1. PICK p \in pairs : p[1] = y
        BY <1>3
      <3>2. y \in R(p)
        <4> HIDE DEF pairs, R, S
        <4> QED  BY <1>2, <3>1
      <3> QED  BY <3>2
    <2> QED  BY <2>1, <2>2
  <1>5. ASSUME NEW y \in S PROVE W(y) = a[y] /\ W(y) # 0
    <2>1. PICK q : q = <<y, <<y[1], Unit>>>>
      OBVIOUS
    <2>2. T(y) = {q} /\ q[1] = y /\ q[2] \in DOMAIN b
      BY <1>3, <2>1
    <2>3. a[q[1]] = a[y] /\ a[y] \in Int /\ a[y] # 0 /\ b[q[2]] = 1
      BY <2>2 DEF IsArrangement, IsKeySet, IsZSet
    <2>4. IsFiniteSet({q})
      BY FS_Singleton
    <2>5. W(y) = SumOver(Products(a, b, {q}), {q})
      <3>1. \A p \in {q} : a[p[1]] \in Int /\ b[p[2]] \in Int
        BY <2>3
      <3> HIDE DEF T
      <3> QED  BY <2>2, <2>4, <3>1, JoinSum
    <2>6. PICK f : f = Products(a, b, {q})
      OBVIOUS
    <2>7. f[q] = a[y] * 1
      BY <2>3, <2>6 DEF Products
    <2>8. f[q] = a[y]
      BY <2>3, <2>7
    <2>9. SumOver(f, {q}) = f[q] + SumOver(f, {q} \ {q})
      BY <2>3, <2>4, <2>8, SumRemove
    <2>10. SumOver(f, {q} \ {q}) = 0
      <3>1. {q} \ {q} = {}
        OBVIOUS
      <3> QED  BY <3>1, SumEmpty
    <2> HIDE DEF W
    <2> QED  BY <2>3, <2>5, <2>6, <2>8, <2>9, <2>10
  <1> HIDE DEF W, D, S
  <1>6. {x \in D : W(x) # 0} = S
    BY <1>4, <1>5
  <1> QED  BY <1>1, <1>5, <1>6 DEF S

\* Negation is exact: subtracting the semijoin leaves exactly the entries whose key is not in the
\* distinct arrangement, with their weights, and no negative weight where there was none.
THEOREM NegationExact ==
  ASSUME NEW a, IsArrangement(a), NEW b, IsKeySet(b)
  PROVE  antijoin_arranged(a, b) = [p \in {q \in DOMAIN a : <<q[1], Unit>> \notin DOMAIN b} |-> a[p]]
  <1> DEFINE s == [p \in {q \in DOMAIN a : <<q[1], Unit>> \in DOMAIN b} |-> a[p]]
             r == [p \in {q \in DOMAIN a : <<q[1], Unit>> \notin DOMAIN b} |-> a[p]]
  <1>1. antijoin_arranged(a, b) = Minus(a, s)
    BY SemijoinSelects DEF antijoin_arranged
  <1>2. IsZSet(a) /\ IsZSet(s) /\ IsZSet(r)
    BY DEF IsArrangement, IsZSet
  <1>3. \A x : Weight(r, x) = Weight(a, x) - Weight(s, x)
    BY <1>2 DEF Weight, IsZSet
  <1> HIDE DEF s, r
  <1>4. IsZSet(Minus(a, s)) /\ \A x : Weight(Minus(a, s), x) = Weight(r, x)
    BY <1>2, <1>3, MinusWeights
  <1>5. Minus(a, s) = r
    BY <1>2, <1>4, WeightsDetermine
  <1> QED  BY <1>1, <1>5 DEF r
=============================================================================
