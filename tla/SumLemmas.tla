----------------------------- MODULE SumLemmas -----------------------------
(***************************************************************************)
(* Facts about SumFunctionOnSet(f, S), the sum of f[x] over the x of a     *)
(* finite set S, that the theorems about balances and totals cite: what it *)
(* is on the empty set, and what adding, removing or changing one element  *)
(* does to it.  The sum is defined by recursion on the subsets of S, each  *)
(* step taking away the element CHOOSE picks, so the facts come in this    *)
(* order: the recursion has a solution, two solutions agree where both are *)
(* defined, and the element taken away first makes no difference.          *)
(***************************************************************************)
EXTENDS Functions, FiniteSetTheorems, TLAPS

\* Induction on the natural numbers, for a set of them.
LEMMA NatSets ==
  ASSUME NEW K, K \subseteq Nat, 0 \in K, \A n \in K : n + 1 \in K
  PROVE  K = Nat
<1> DEFINE Missing == Nat \ K
<1> SUFFICES ASSUME Missing # {}
             PROVE  FALSE
  OBVIOUS
<1>1. PICK n \in Missing : \A m \in Missing : <<m, n>> \notin OpToRel(<, Nat)
  <2> HIDE DEF Missing
  <2> Missing \subseteq Nat
    BY DEF Missing
  <2> QED
    BY NatLessThanWellFounded, WFMin
<1>2. n \in Nat /\ n # 0
  OBVIOUS
<1>3. n - 1 \in K
  <2>1. n - 1 \in Nat /\ n - 1 < n
    BY <1>2
  <2>2. <<n - 1, n>> \in OpToRel(<, Nat)
    BY <2>1, <1>2 DEF OpToRel
  <2> QED
    BY <2>1, <2>2, <1>1
<1>4. (n - 1) + 1 = n
  BY <1>2
<1> QED
  BY <1>3, <1>4

\* Induction on the subsets of a finite set, for a set of subsets.
LEMMA SubsetSets ==
  ASSUME NEW S, IsFiniteSet(S), NEW K,
         {} \in K,
         \A T \in SUBSET S : (T # {} /\ \A x \in T : T \ {x} \in K) => T \in K
  PROVE  SUBSET S \subseteq K
<1> DEFINE Missing == (SUBSET S) \ K
<1> SUFFICES ASSUME Missing # {}
             PROVE  FALSE
  OBVIOUS
<1>1. IsWellFoundedOn(StrictSubsetOrdering(S), SUBSET S)
  BY FS_StrictSubsetOrderingWellFounded, FS_FiniteSubsetsOfFinite
<1>2. PICK T \in Missing : \A U \in Missing : <<U, T>> \notin StrictSubsetOrdering(S)
  <2> HIDE DEF Missing
  <2> Missing \subseteq SUBSET S
    BY DEF Missing
  <2> QED
    BY <1>1, WFMin
<1>3. \A x \in T : T \ {x} \in K
  <2> TAKE x \in T
  <2>1. <<T \ {x}, T>> \in StrictSubsetOrdering(S)
    BY DEF StrictSubsetOrdering
  <2> QED
    BY <2>1, <1>2
<1> QED
  BY <1>3

-----------------------------------------------------------------------------
(* The recursion behind a sum. *)

Picked(T) == CHOOSE x \in T : TRUE

\* g solves it for f on the subsets of S.
SolvesSum(g, f, S) ==
  g = [T \in SUBSET S |-> IF T = {} THEN 0
                          ELSE f[Picked(T)] + g[T \ {Picked(T)}]]

\* The recursion has a solution: there is one for the subsets of at most n
\* elements, for every n.
LEMMA SolutionExists ==
  ASSUME NEW S, IsFiniteSet(S), NEW f
  PROVE  \E g : SolvesSum(g, f, S)
<1> DEFINE Upto(n) == {T \in SUBSET S : Cardinality(T) <= n}
           Step(g, T) == IF T = {} THEN 0 ELSE f[Picked(T)] + g[T \ {Picked(T)}]
           K == {n \in Nat : \E g : g = [T \in Upto(n) |-> Step(g, T)]}
<1>1. \A T \in SUBSET S : Cardinality(T) \in Nat /\ IsFiniteSet(T)
  BY FS_Subset, FS_CardinalityType
<1>2. \A T \in SUBSET S : T # {} =>
         /\ Cardinality(T) # 0
         /\ T \ {Picked(T)} \in SUBSET S
         /\ Cardinality(T \ {Picked(T)}) = Cardinality(T) - 1
  <2> TAKE T \in SUBSET S
  <2> HAVE T # {}
  <2>1. Picked(T) \in T
    BY DEF Picked
  <2> QED
    BY <2>1, <1>1, FS_RemoveElement, FS_EmptySet
<1>3. 0 \in K
  <2> DEFINE g == [T \in Upto(0) |-> 0]
  <2>1. \A T \in Upto(0) : Step(g, T) = 0
    BY <1>1, <1>2
  <2>2. g = [T \in Upto(0) |-> Step(g, T)]
    BY <2>1
  <2> QED
    BY <2>2
<1>4. \A n \in K : n + 1 \in K
  <2> TAKE n \in K
  <2>1. PICK g : g = [T \in Upto(n) |-> Step(g, T)]
    OBVIOUS
  <2> DEFINE h == [T \in Upto(n + 1) |-> Step(g, T)]
  <2>2. \A T \in Upto(n + 1) : T # {} => T \ {Picked(T)} \in Upto(n)
    BY <1>1, <1>2
  <2>3. \A T \in Upto(n) : T \in Upto(n + 1) /\ g[T] = Step(g, T)
    <3>1. \A T \in Upto(n) : T \in Upto(n + 1)
      BY <1>1
    <3> QED
      BY <3>1, <2>1
  <2>4. \A T \in Upto(n) : h[T] = g[T]
    BY <2>3
  <2>5. \A T \in Upto(n + 1) : Step(g, T) = Step(h, T)
    BY <2>2, <2>4
  <2>6. h = [T \in Upto(n + 1) |-> Step(h, T)]
    BY <2>5
  <2>7. \E k : k = [T \in Upto(n + 1) |-> Step(k, T)]
    <3> HIDE DEF h, Step, Upto
    <3> QED
      BY <2>6
  <2>8. n + 1 \in Nat
    OBVIOUS
  <2> QED
    <3> HIDE DEF Step, Upto
    <3> QED
      BY <2>7, <2>8
<1>5. Cardinality(S) \in K
  <2> HIDE DEF K
  <2>1. K \subseteq Nat
    BY DEF K
  <2> QED
    BY <1>3, <1>4, <2>1, NatSets, FS_CardinalityType
<1>6. Upto(Cardinality(S)) = SUBSET S
  BY <1>1, FS_Subset
<1> QED
  BY <1>5, <1>6 DEF SolvesSum

\* The sum is a value of such a solution.
LEMMA SumIsSolution ==
  ASSUME NEW S, IsFiniteSet(S), NEW f
  PROVE  \E g : SolvesSum(g, f, S) /\ SumFunctionOnSet(f, S) = g[S]
<1> DEFINE g == CHOOSE g : SolvesSum(g, f, S)
<1>1. SolvesSum(g, f, S)
  BY SolutionExists
<1>2. SumFunctionOnSet(f, S) = g[S]
  BY DEF SumFunctionOnSet, FoldFunctionOnSet, MapThenFoldSet, SolvesSum, Picked
<1> QED
  BY <1>1, <1>2

\* Solutions for two sets agree on the subsets of both.
LEMMA SolutionsAgree ==
  ASSUME NEW S, NEW T, NEW U, IsFiniteSet(U), U \subseteq S, U \subseteq T,
         NEW f, NEW g, SolvesSum(g, f, S), NEW h, SolvesSum(h, f, T)
  PROVE  g[U] = h[U]
<1> DEFINE K == {V \in SUBSET U : g[V] = h[V]}
<1>1. \A V \in SUBSET S : g[V] = IF V = {} THEN 0 ELSE f[Picked(V)] + g[V \ {Picked(V)}]
  BY DEF SolvesSum
<1>2. \A V \in SUBSET T : h[V] = IF V = {} THEN 0 ELSE f[Picked(V)] + h[V \ {Picked(V)}]
  BY DEF SolvesSum
<1>3. {} \in K
  BY <1>1, <1>2
<1>4. \A V \in SUBSET U : (V # {} /\ \A x \in V : V \ {x} \in K) => V \in K
  <2> TAKE V \in SUBSET U
  <2> HAVE V # {} /\ \A x \in V : V \ {x} \in K
  <2>1. Picked(V) \in V
    BY DEF Picked
  <2> QED
    BY <2>1, <1>1, <1>2
<1> HIDE DEF K
<1>5. U \in K
  BY <1>3, <1>4, SubsetSets
<1> QED
  BY <1>5 DEF K

-----------------------------------------------------------------------------
(* What a sum is. *)

\* Nothing adds up to zero.
LEMMA SumEmpty ==
  ASSUME NEW f
  PROVE  SumFunctionOnSet(f, {}) = 0
<1>1. PICK g : SolvesSum(g, f, {}) /\ SumFunctionOnSet(f, {}) = g[{}]
  BY SumIsSolution, FS_EmptySet
<1> QED
  BY <1>1 DEF SolvesSum

\* The sum takes the picked element away first.
LEMMA SumPick ==
  ASSUME NEW S, IsFiniteSet(S), S # {}, NEW f
  PROVE  SumFunctionOnSet(f, S) = f[Picked(S)] + SumFunctionOnSet(f, S \ {Picked(S)})
<1> DEFINE R == S \ {Picked(S)}
<1>1. IsFiniteSet(R)
  BY FS_RemoveElement
<1>2. PICK g : SolvesSum(g, f, S) /\ SumFunctionOnSet(f, S) = g[S]
  BY SumIsSolution
<1>3. PICK h : SolvesSum(h, f, R) /\ SumFunctionOnSet(f, R) = h[R]
  BY <1>1, SumIsSolution
<1>4. g[R] = h[R]
  BY <1>1, <1>2, <1>3, SolutionsAgree
<1>5. g[S] = f[Picked(S)] + g[R]
  BY <1>2 DEF SolvesSum
<1> QED
  BY <1>2, <1>3, <1>4, <1>5

\* Only the values on S count.
LEMMA SumAgrees ==
  ASSUME NEW S, IsFiniteSet(S), NEW f, NEW e, \A x \in S : f[x] = e[x]
  PROVE  SumFunctionOnSet(f, S) = SumFunctionOnSet(e, S)
<1> DEFINE K == {T \in SUBSET S : SumFunctionOnSet(f, T) = SumFunctionOnSet(e, T)}
<1>1. {} \in K
  BY SumEmpty
<1>2. \A T \in SUBSET S : (T # {} /\ \A x \in T : T \ {x} \in K) => T \in K
  <2> TAKE T \in SUBSET S
  <2> HAVE T # {} /\ \A x \in T : T \ {x} \in K
  <2>1. Picked(T) \in T
    BY DEF Picked
  <2>2. SumFunctionOnSet(f, T) = f[Picked(T)] + SumFunctionOnSet(f, T \ {Picked(T)})
    BY FS_Subset, SumPick
  <2>3. SumFunctionOnSet(e, T) = e[Picked(T)] + SumFunctionOnSet(e, T \ {Picked(T)})
    BY FS_Subset, SumPick
  <2> QED
    BY <2>1, <2>2, <2>3
<1> HIDE DEF K
<1>3. S \in K
  BY <1>1, <1>2, SubsetSets
<1> QED
  BY <1>3 DEF K

\* Integers add up to an integer.
LEMMA SumInt ==
  ASSUME NEW S, IsFiniteSet(S), NEW f, \A x \in S : f[x] \in Int
  PROVE  SumFunctionOnSet(f, S) \in Int
<1> DEFINE K == {T \in SUBSET S : SumFunctionOnSet(f, T) \in Int}
<1>1. {} \in K
  BY SumEmpty
<1>2. \A T \in SUBSET S : (T # {} /\ \A x \in T : T \ {x} \in K) => T \in K
  <2> TAKE T \in SUBSET S
  <2> HAVE T # {} /\ \A x \in T : T \ {x} \in K
  <2>1. Picked(T) \in T
    BY DEF Picked
  <2>2. SumFunctionOnSet(f, T) = f[Picked(T)] + SumFunctionOnSet(f, T \ {Picked(T)})
    BY FS_Subset, SumPick
  <2> QED
    BY <2>1, <2>2
<1> HIDE DEF K
<1>3. S \in K
  BY <1>1, <1>2, SubsetSets
<1> QED
  BY <1>3 DEF K

\* Any element may be taken away first.
LEMMA SumRemove ==
  ASSUME NEW S, IsFiniteSet(S), NEW f, \A x \in S : f[x] \in Int, NEW y \in S
  PROVE  SumFunctionOnSet(f, S) = f[y] + SumFunctionOnSet(f, S \ {y})
<1> DEFINE K == {T \in SUBSET S :
                   \A x \in T : SumFunctionOnSet(f, T)
                                 = f[x] + SumFunctionOnSet(f, T \ {x})}
<1>1. {} \in K
  OBVIOUS
<1>2. \A T \in SUBSET S : (T # {} /\ \A x \in T : T \ {x} \in K) => T \in K
  <2> TAKE T \in SUBSET S
  <2> HAVE T # {} /\ \A x \in T : T \ {x} \in K
  <2> SUFFICES ASSUME NEW x \in T
               PROVE  SumFunctionOnSet(f, T) = f[x] + SumFunctionOnSet(f, T \ {x})
    OBVIOUS
  <2> DEFINE c == Picked(T)
  <2>1. c \in T
    BY DEF Picked
  <2>2. SumFunctionOnSet(f, T) = f[c] + SumFunctionOnSet(f, T \ {c})
    BY FS_Subset, SumPick
  <2>3. CASE c = x
    BY <2>2, <2>3
  <2>4. CASE c # x
    <3> DEFINE R == (T \ {c}) \ {x}
    <3>1. SumFunctionOnSet(f, T \ {c}) = f[x] + SumFunctionOnSet(f, R)
      BY <2>1, <2>4
    <3>2. (T \ {x}) \ {c} = R
      OBVIOUS
    <3>3. SumFunctionOnSet(f, T \ {x}) = f[c] + SumFunctionOnSet(f, R)
      BY <2>1, <2>4, <3>2
    <3>4. SumFunctionOnSet(f, R) \in Int
      BY FS_Subset, SumInt
    <3>5. f[c] \in Int /\ f[x] \in Int
      BY <2>1
    <3> HIDE DEF c, R
    <3> QED
      BY <2>2, <3>1, <3>3, <3>4, <3>5
  <2> QED
    BY <2>3, <2>4
<1> HIDE DEF K
<1>3. S \in K
  BY <1>1, <1>2, SubsetSets
<1> QED
  BY <1>3 DEF K

\* One more element adds its value.
LEMMA SumAdd ==
  ASSUME NEW S, IsFiniteSet(S), NEW f, \A x \in S : f[x] \in Int,
         NEW y, y \notin S, f[y] \in Int
  PROVE  SumFunctionOnSet(f, S \cup {y}) = f[y] + SumFunctionOnSet(f, S)
<1> DEFINE T == S \cup {y}
<1>1. IsFiniteSet(T) /\ y \in T /\ T \ {y} = S /\ \A x \in T : f[x] \in Int
  BY FS_AddElement
<1> HIDE DEF T
<1>2. SumFunctionOnSet(f, T) = f[y] + SumFunctionOnSet(f, T \ {y})
  BY <1>1, SumRemove
<1> QED
  BY <1>1, <1>2 DEF T

\* Changing the value of one element changes the sum by as much.
LEMMA SumPoint ==
  ASSUME NEW S, IsFiniteSet(S), NEW y \in S,
         NEW f, \A x \in S : f[x] \in Int,
         NEW e, \A x \in S : e[x] \in Int,
         \A x \in S : x # y => e[x] = f[x]
  PROVE  SumFunctionOnSet(e, S) = SumFunctionOnSet(f, S) + e[y] - f[y]
<1> DEFINE R == S \ {y}
<1>1. IsFiniteSet(R) /\ \A x \in R : x \in S /\ x # y
  BY FS_RemoveElement
<1>2. SumFunctionOnSet(f, S) = f[y] + SumFunctionOnSet(f, R)
  BY SumRemove
<1>3. SumFunctionOnSet(e, S) = e[y] + SumFunctionOnSet(e, R)
  BY SumRemove
<1> HIDE DEF R
<1>4. SumFunctionOnSet(e, R) = SumFunctionOnSet(f, R)
  <2>1. \A x \in R : e[x] = f[x]
    BY <1>1
  <2> QED
    BY <1>1, <2>1, SumAgrees
<1>5. SumFunctionOnSet(f, R) \in Int /\ f[y] \in Int /\ e[y] \in Int
  BY <1>1, SumInt
<1> QED
  BY <1>2, <1>3, <1>4, <1>5

\* The sum is monotone in the values.
LEMMA SumAtMost ==
  ASSUME NEW S, IsFiniteSet(S),
         NEW f, \A x \in S : f[x] \in Int,
         NEW e, \A x \in S : e[x] \in Int,
         \A x \in S : f[x] <= e[x]
  PROVE  SumFunctionOnSet(f, S) <= SumFunctionOnSet(e, S)
<1> DEFINE K == {T \in SUBSET S : SumFunctionOnSet(f, T) <= SumFunctionOnSet(e, T)}
<1>1. {} \in K
  BY SumEmpty
<1>2. \A T \in SUBSET S : (T # {} /\ \A x \in T : T \ {x} \in K) => T \in K
  <2> TAKE T \in SUBSET S
  <2> HAVE T # {} /\ \A x \in T : T \ {x} \in K
  <2>1. PICK c : c \in T
    OBVIOUS
  <2>2. IsFiniteSet(T) /\ IsFiniteSet(T \ {c}) /\ \A x \in T : x \in S
    BY FS_Subset
  <2>3. SumFunctionOnSet(f, T) = f[c] + SumFunctionOnSet(f, T \ {c})
    BY <2>1, <2>2, SumRemove
  <2>4. SumFunctionOnSet(e, T) = e[c] + SumFunctionOnSet(e, T \ {c})
    BY <2>1, <2>2, SumRemove
  <2>5. SumFunctionOnSet(f, T \ {c}) \in Int /\ SumFunctionOnSet(e, T \ {c}) \in Int
    BY <2>2, SumInt
  <2>6. SumFunctionOnSet(f, T \ {c}) <= SumFunctionOnSet(e, T \ {c})
    BY <2>1
  <2> QED
    BY <2>1, <2>2, <2>3, <2>4, <2>5, <2>6
<1> HIDE DEF K
<1>3. S \in K
  BY <1>1, <1>2, SubsetSets
<1> QED
  BY <1>3 DEF K

\* Zeros add up to zero.
LEMMA SumZero ==
  ASSUME NEW S, IsFiniteSet(S), NEW f, \A x \in S : f[x] = 0
  PROVE  SumFunctionOnSet(f, S) = 0
<1> DEFINE K == {T \in SUBSET S : SumFunctionOnSet(f, T) = 0}
<1>1. {} \in K
  BY SumEmpty
<1>2. \A T \in SUBSET S : (T # {} /\ \A x \in T : T \ {x} \in K) => T \in K
  <2> TAKE T \in SUBSET S
  <2> HAVE T # {} /\ \A x \in T : T \ {x} \in K
  <2>1. Picked(T) \in T
    BY DEF Picked
  <2>2. SumFunctionOnSet(f, T) = f[Picked(T)] + SumFunctionOnSet(f, T \ {Picked(T)})
    BY FS_Subset, SumPick
  <2> QED
    BY <2>1, <2>2
<1> HIDE DEF K
<1>3. S \in K
  BY <1>1, <1>2, SubsetSets
<1> QED
  BY <1>3 DEF K

\* The sum of values that are at most m.
LEMMA SumBounded ==
  ASSUME NEW S, IsFiniteSet(S), NEW m \in Int,
         NEW f, \A x \in S : f[x] \in Int /\ f[x] <= m
  PROVE  SumFunctionOnSet(f, S) <= Cardinality(S) * m
<1> DEFINE K == {T \in SUBSET S : SumFunctionOnSet(f, T) <= Cardinality(T) * m}
<1>1. {} \in K
  BY SumEmpty, FS_EmptySet
<1>2. \A T \in SUBSET S : (T # {} /\ \A x \in T : T \ {x} \in K) => T \in K
  <2> TAKE T \in SUBSET S
  <2> HAVE T # {} /\ \A x \in T : T \ {x} \in K
  <2>1. PICK c : c \in T
    OBVIOUS
  <2> DEFINE n == Cardinality(T \ {c})
             rest == SumFunctionOnSet(f, T \ {c})
  <2>2. IsFiniteSet(T) /\ IsFiniteSet(T \ {c}) /\ \A x \in T : x \in S
    BY FS_Subset
  <2>3. SumFunctionOnSet(f, T) = f[c] + rest
    BY <2>1, <2>2, SumRemove
  <2>4. rest \in Int /\ f[c] \in Int /\ f[c] <= m
    BY <2>1, <2>2, SumInt
  <2>5. n \in Nat /\ Cardinality(T) = n + 1
    BY <2>1, <2>2, FS_RemoveElement, FS_CardinalityType
  <2>6. rest <= n * m
    BY <2>1
  <2> HIDE DEF n, rest
  <2>7. (n + 1) * m = n * m + m /\ n * m \in Int
    BY <2>5
  <2>8. SumFunctionOnSet(f, T) <= Cardinality(T) * m
    BY <2>3, <2>4, <2>5, <2>6, <2>7
  <2> QED
    BY <2>8
<1> HIDE DEF K
<1>3. S \in K
  BY <1>1, <1>2, SubsetSets
<1> QED
  BY <1>3 DEF K

\* Values that are not negative add up to no less than any one of them.
LEMMA SumPart ==
  ASSUME NEW S, IsFiniteSet(S), NEW f, \A x \in S : f[x] \in Nat
  PROVE  /\ SumFunctionOnSet(f, S) \in Nat
         /\ \A y \in S : f[y] <= SumFunctionOnSet(f, S)
<1> DEFINE zero == [x \in S |-> 0]
<1>1. ASSUME NEW T \in SUBSET S
      PROVE  SumFunctionOnSet(f, T) \in Nat
  <2>1. IsFiniteSet(T)
    BY FS_Subset
  <2>2. \A x \in T : zero[x] = 0 /\ f[x] \in Int /\ zero[x] \in Int /\ zero[x] <= f[x]
    OBVIOUS
  <2> HIDE DEF zero
  <2>3. SumFunctionOnSet(zero, T) = 0
    BY <2>1, <2>2, SumZero
  <2>4. SumFunctionOnSet(zero, T) <= SumFunctionOnSet(f, T)
    BY <2>1, <2>2, SumAtMost
  <2>5. SumFunctionOnSet(f, T) \in Int
    BY <2>1, <2>2, SumInt
  <2> QED
    BY <2>3, <2>4, <2>5
<1>2. ASSUME NEW y \in S
      PROVE  f[y] <= SumFunctionOnSet(f, S)
  <2>1. SumFunctionOnSet(f, S) = f[y] + SumFunctionOnSet(f, S \ {y})
    BY SumRemove
  <2>2. SumFunctionOnSet(f, S \ {y}) \in Nat
    BY <1>1
  <2> QED
    BY <2>1, <2>2
<1> QED
  BY <1>1, <1>2

\* The sum of values that are all m.
LEMMA SumConstant ==
  ASSUME NEW S, IsFiniteSet(S), NEW m \in Int, NEW f, \A x \in S : f[x] = m
  PROVE  SumFunctionOnSet(f, S) = Cardinality(S) * m
<1> DEFINE K == {T \in SUBSET S : SumFunctionOnSet(f, T) = Cardinality(T) * m}
<1>1. {} \in K
  BY SumEmpty, FS_EmptySet
<1>2. \A T \in SUBSET S : (T # {} /\ \A x \in T : T \ {x} \in K) => T \in K
  <2> TAKE T \in SUBSET S
  <2> HAVE T # {} /\ \A x \in T : T \ {x} \in K
  <2>1. PICK c : c \in T
    OBVIOUS
  <2> DEFINE n == Cardinality(T \ {c})
             rest == SumFunctionOnSet(f, T \ {c})
  <2>2. IsFiniteSet(T) /\ IsFiniteSet(T \ {c}) /\ \A x \in T : x \in S
    BY FS_Subset
  <2>3. SumFunctionOnSet(f, T) = f[c] + rest /\ f[c] = m
    BY <2>1, <2>2, SumRemove
  <2>4. n \in Nat /\ Cardinality(T) = n + 1
    BY <2>1, <2>2, FS_RemoveElement, FS_CardinalityType
  <2>5. rest = n * m
    BY <2>1
  <2> HIDE DEF n, rest
  <2>6. (n + 1) * m = n * m + m /\ n * m \in Int
    BY <2>4
  <2>7. SumFunctionOnSet(f, T) = Cardinality(T) * m
    BY <2>3, <2>4, <2>5, <2>6
  <2> QED
    BY <2>7
<1> HIDE DEF K
<1>3. S \in K
  BY <1>1, <1>2, SubsetSets
<1> QED
  BY <1>3 DEF K

=============================================================================
