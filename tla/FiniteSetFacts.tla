----------------------------- MODULE FiniteSetFacts ---------------------------
(***************************************************************************)
(* Sums over finite sets and their greatest elements, for the proofs about *)
(* what the components count and when they meet.  The induction principle  *)
(* is stated about a set of good sets rather than about an operator, so    *)
(* that it can be cited.                                                   *)
(***************************************************************************)
EXTENDS Functions, FiniteSetsExt, FiniteSetTheorems, TLAPS

\* Induction on the subsets of a finite set.
LEMMA SubsetInduction ==
  ASSUME NEW S, IsFiniteSet(S), NEW Good,
         \A T \in SUBSET S : (\A U \in SUBSET T : U # T => U \in Good) => T \in Good
  PROVE  SUBSET S \subseteq Good
<1> DEFINE Bad == { T \in SUBSET S : T \notin Good }
           Less == StrictSubsetOrdering(S)
<1> SUFFICES ASSUME Bad # {} PROVE FALSE
  OBVIOUS
<1>1. IsWellFoundedOn(Less, SUBSET S)
  <2>1. IsWellFoundedOn(Less, FiniteSubsetsOf(S))
    BY FS_StrictSubsetOrderingWellFounded
  <2>2. FiniteSubsetsOf(S) = SUBSET S
    BY FS_FiniteSubsetsOfFinite
  <2> HIDE DEF Less
  <2> QED BY <2>1, <2>2
<1>2. Bad \subseteq SUBSET S
  OBVIOUS
<1> HIDE DEF Less, Bad
<1>3. PICK T \in Bad : \A U \in Bad : << U, T >> \notin Less
  BY <1>1, <1>2, WFMin
<1>4. T \in SUBSET S /\ T \notin Good
  BY <1>3 DEF Bad
<1>5. ASSUME NEW U \in SUBSET T, U # T PROVE U \in Good
  <2>1. U \in SUBSET S /\ << U, T >> \in Less
    BY <1>4, <1>5 DEF Less, StrictSubsetOrdering
  <2> QED BY <1>3, <2>1 DEF Bad
<1> QED BY <1>4, <1>5

---------------------------------------------------------------------------

\* The element that a sum takes next.
NextOf(T) == CHOOSE x \in T : TRUE

\* g is a table of the sums of f over the subsets of S.
SumTable(g, f, S) ==
  g = [T \in SUBSET S |-> IF T = {} THEN 0 ELSE f[NextOf(T)] + g[T \ {NextOf(T)}]]

LEMMA TableEntry ==
  ASSUME NEW f, NEW S, NEW g, SumTable(g, f, S), NEW T \in SUBSET S
  PROVE  g[T] = IF T = {} THEN 0 ELSE f[NextOf(T)] + g[T \ {NextOf(T)}]
BY DEF SumTable

\* Any two tables agree where both are defined.
LEMMA TablesAgree ==
  ASSUME NEW f, NEW S, IsFiniteSet(S), NEW U, S \subseteq U, 
         NEW g, NEW h, SumTable(g, f, S), SumTable(h, f, U)
  PROVE  \A T \in SUBSET S : g[T] = h[T]
<1> DEFINE Good == { T \in SUBSET S : g[T] = h[T] }
<1>1. ASSUME NEW T \in SUBSET S, \A V \in SUBSET T : V # T => V \in Good
      PROVE  g[T] = h[T]
  <2>1. T \in SUBSET U
    OBVIOUS
  <2>2. CASE T = {}
    BY <2>1, <2>2, TableEntry
  <2>3. CASE T # {}
    <3>1. NextOf(T) \in T
      BY <2>3 DEF NextOf
    <3>2. T \ {NextOf(T)} \in Good
      BY <1>1, <3>1
    <3>3. g[T] = f[NextOf(T)] + g[T \ {NextOf(T)}] /\ h[T] = f[NextOf(T)] + h[T \ {NextOf(T)}]
      BY <2>1, <2>3, TableEntry
    <3> QED BY <3>2, <3>3
  <2> QED BY <2>2, <2>3
<1>2. SUBSET S \subseteq Good
  <2> HIDE DEF Good
  <2>1. \A T \in SUBSET S : (\A V \in SUBSET T : V # T => V \in Good) => T \in Good
    BY <1>1 DEF Good
  <2> QED BY <2>1, SubsetInduction
<1> QED BY <1>2

\* Every finite set has a table.
LEMMA TableExists ==
  ASSUME NEW f, NEW S, IsFiniteSet(S)
  PROVE  \E g : SumTable(g, f, S)
<1> DEFINE Good == { T \in SUBSET S : \E g : SumTable(g, f, T) }
<1>1. ASSUME NEW T \in SUBSET S, \A V \in SUBSET T : V # T => V \in Good
      PROVE  \E g : SumTable(g, f, T)
  <2>1. IsFiniteSet(T)
    BY FS_Subset
  <2> DEFINE table(V) == CHOOSE g : SumTable(g, f, V)
             sum(V) == IF V = {} THEN 0 
                       ELSE f[NextOf(V)] + table(V \ {NextOf(V)})[V \ {NextOf(V)}]
             h == [V \in SUBSET T |-> sum(V)]
  <2>2. \A V \in SUBSET T : V # T => SumTable(table(V), f, V)
    BY <1>1
  <2>3. ASSUME NEW V \in SUBSET T
        PROVE  h[V] = IF V = {} THEN 0 ELSE f[NextOf(V)] + h[V \ {NextOf(V)}]
    <3>1. CASE V = {}
      BY <3>1
    <3>2. CASE V # {}
      <4> DEFINE x == NextOf(V)
                 W == V \ {x}
      <4>1. x \in V
        BY <3>2 DEF NextOf
      <4>2. W \in SUBSET T /\ W # T /\ h[W] = sum(W) /\ SumTable(table(W), f, W)
        BY <2>2, <4>1
      <4>3. h[V] = f[x] + table(W)[W]
        BY <3>2
      <4>4. table(W)[W] = sum(W)
        <5>1. table(W)[W] = IF W = {} THEN 0 ELSE f[NextOf(W)] + table(W)[W \ {NextOf(W)}]
          <6> HIDE DEF table, W
          <6> QED BY <4>2, TableEntry
        <5>2. CASE W = {}
          BY <5>1, <5>2
        <5>3. CASE W # {}
          <6> DEFINE X == W \ {NextOf(W)}
          <6>1. NextOf(W) \in W
            BY <5>3 DEF NextOf
          <6>2. X \in SUBSET T /\ X # T /\ X \subseteq W
            BY <4>2, <6>1
          <6>3. SumTable(table(X), f, X) /\ IsFiniteSet(X)
            BY <2>1, <2>2, <6>2, FS_Subset
          <6>4. table(X)[X] = table(W)[X]
            <7> HIDE DEF table, X, W
            <7>1. X \in SUBSET X
              OBVIOUS
            <7> QED BY <4>2, <6>2, <6>3, <7>1, TablesAgree
          <6>5. table(W)[W] = f[NextOf(W)] + table(W)[X]
            BY <5>1, <5>3
          <6>6. sum(W) = f[NextOf(W)] + table(X)[X]
            BY <5>3
          <6> HIDE DEF table, sum, X, W
          <6> QED BY <6>4, <6>5, <6>6
        <5> QED BY <5>2, <5>3
      <4> HIDE DEF table, sum, h
      <4> QED BY <3>2, <4>2, <4>3, <4>4
    <3> QED BY <3>1, <3>2
  <2>4. SumTable(h, f, T)
    <3>1. h = [V \in SUBSET T |-> h[V]]
      OBVIOUS
    <3> HIDE DEF h
    <3>2. h = [V \in SUBSET T |-> IF V = {} THEN 0 ELSE f[NextOf(V)] + h[V \ {NextOf(V)}]]
      BY <2>3, <3>1
    <3> QED BY <3>2 DEF SumTable
  <2> HIDE DEF h
  <2> QED BY <2>4
<1>2. SUBSET S \subseteq Good
  <2> HIDE DEF Good
  <2>1. \A T \in SUBSET S : (\A V \in SUBSET T : V # T => V \in Good) => T \in Good
    BY <1>1 DEF Good
  <2> QED BY <2>1, SubsetInduction
<1>3. S \in SUBSET S
  OBVIOUS
<1> QED BY <1>2, <1>3

---------------------------------------------------------------------------
(* What a sum of the library's SumFunctionOnSet is.                        *)

\* The sum over a finite set takes one element after the other.
LEMMA SumUnfold ==
  ASSUME NEW f, NEW S, IsFiniteSet(S)
  PROVE  SumFunctionOnSet(f, S)
           = IF S = {} THEN 0 ELSE f[NextOf(S)] + SumFunctionOnSet(f, S \ {NextOf(S)})
<1>1. ASSUME NEW T, IsFiniteSet(T)
      PROVE  \E g : SumTable(g, f, T) /\ SumFunctionOnSet(f, T) = g[T]
  <2>1. SumFunctionOnSet(f, T) = (CHOOSE g : SumTable(g, f, T))[T]
    BY DEF SumFunctionOnSet, FoldFunctionOnSet, MapThenFoldSet, SumTable, NextOf
  <2> QED BY <1>1, <2>1, TableExists
<1>2. PICK g : SumTable(g, f, S) /\ SumFunctionOnSet(f, S) = g[S]
  BY <1>1
<1>3. CASE S = {}
  BY <1>2, <1>3, TableEntry
<1>4. CASE S # {}
  <2> DEFINE T == S \ {NextOf(S)}
  <2>1. T \in SUBSET S /\ IsFiniteSet(T)
    BY FS_Subset
  <2>2. PICK h : SumTable(h, f, T) /\ SumFunctionOnSet(f, T) = h[T]
    BY <1>1, <2>1
  <2> HIDE DEF T
  <2>3. h[T] = g[T]
    <3>1. T \in SUBSET T /\ T \subseteq S
      BY <2>1
    <3> QED BY <1>2, <2>1, <2>2, <3>1, TablesAgree
  <2>4. g[S] = f[NextOf(S)] + g[T]
    BY <1>2, <1>4, TableEntry DEF T
  <2> QED BY <1>2, <1>4, <2>2, <2>3, <2>4 DEF T
<1> QED BY <1>3, <1>4

LEMMA SumEmpty == ASSUME NEW f PROVE SumFunctionOnSet(f, {}) = 0
<1>1. IsFiniteSet({})
  BY FS_EmptySet
<1> QED BY <1>1, SumUnfold

\* A sum of natural numbers is one; of integers too.
LEMMA SumType ==
  ASSUME NEW S, IsFiniteSet(S), NEW f, \A x \in S : f[x] \in Int
  PROVE  /\ SumFunctionOnSet(f, S) \in Int
         /\ (\A x \in S : f[x] \in Nat) => SumFunctionOnSet(f, S) \in Nat
<1> DEFINE Right(T) == /\ SumFunctionOnSet(f, T) \in Int
                       /\ (\A x \in S : f[x] \in Nat) => SumFunctionOnSet(f, T) \in Nat
           Good == { T \in SUBSET S : Right(T) }
<1>1. ASSUME NEW T \in SUBSET S, \A V \in SUBSET T : V # T => V \in Good
      PROVE  Right(T)
  <2>1. IsFiniteSet(T)
    BY FS_Subset
  <2>2. CASE T = {}
    <3>1. SumFunctionOnSet(f, T) = 0
      BY <2>2, SumEmpty
    <3> QED BY <3>1
  <2>3. CASE T # {}
    <3>1. NextOf(T) \in T
      BY <2>3 DEF NextOf
    <3>2. Right(T \ {NextOf(T)})
      BY <1>1, <3>1
    <3>3. SumFunctionOnSet(f, T) = f[NextOf(T)] + SumFunctionOnSet(f, T \ {NextOf(T)})
      BY <2>1, <2>3, SumUnfold
    <3>4. f[NextOf(T)] \in Int /\ ((\A x \in S : f[x] \in Nat) => f[NextOf(T)] \in Nat)
      BY <3>1
    <3> QED BY <3>2, <3>3, <3>4
  <2> QED BY <2>2, <2>3
<1> HIDE DEF Right
<1>2. SUBSET S \subseteq Good
  <2> HIDE DEF Good
  <2>1. \A T \in SUBSET S : (\A V \in SUBSET T : V # T => V \in Good) => T \in Good
    BY <1>1 DEF Good
  <2> QED BY <2>1, SubsetInduction
<1> QED BY <1>2 DEF Right

\* A sum of terms each at most m is at most m for every element.
LEMMA SumBound ==
  ASSUME NEW S, IsFiniteSet(S), NEW m \in Nat, NEW f, 
         \A x \in S : f[x] \in Int /\ f[x] <= m
  PROVE  SumFunctionOnSet(f, S) <= Cardinality(S) * m
<1> DEFINE Right(T) == SumFunctionOnSet(f, T) <= Cardinality(T) * m
           Good == { T \in SUBSET S : Right(T) }
<1>1. ASSUME NEW T \in SUBSET S, \A V \in SUBSET T : V # T => V \in Good
      PROVE  Right(T)
  <2>1. IsFiniteSet(T)
    BY FS_Subset
  <2>2. CASE T = {}
    <3>1. SumFunctionOnSet(f, T) = 0 /\ Cardinality(T) = 0
      BY <2>2, SumEmpty, FS_EmptySet
    <3> QED BY <3>1
  <2>3. CASE T # {}
    <3> DEFINE U == T \ {NextOf(T)}
    <3>1. NextOf(T) \in T
      BY <2>3 DEF NextOf
    <3>2. Right(U)
      BY <1>1, <3>1
    <3>3. SumFunctionOnSet(f, T) = f[NextOf(T)] + SumFunctionOnSet(f, U)
      BY <2>1, <2>3, SumUnfold
    <3>4. f[NextOf(T)] \in Int /\ f[NextOf(T)] <= m
      BY <3>1
    <3>5. Cardinality(U) = Cardinality(T) - 1 /\ Cardinality(T) \in Nat
      BY <2>1, <3>1, FS_RemoveElement, FS_CardinalityType
    <3>6. SumFunctionOnSet(f, U) \in Int
      <4>1. IsFiniteSet(U) /\ \A x \in U : f[x] \in Int
        BY <2>1, FS_Subset
      <4> QED BY <4>1, SumType
    <3>7. Cardinality(T) * m = Cardinality(U) * m + m
      BY <3>5
    <3> HIDE DEF U
    <3> QED BY <3>2, <3>3, <3>4, <3>5, <3>6, <3>7
  <2> QED BY <2>2, <2>3
<1> HIDE DEF Right
<1>2. SUBSET S \subseteq Good
  <2> HIDE DEF Good
  <2>1. \A T \in SUBSET S : (\A V \in SUBSET T : V # T => V \in Good) => T \in Good
    BY <1>1 DEF Good
  <2> QED BY <2>1, SubsetInduction
<1> QED BY <1>2 DEF Right

\* The order is immaterial: any element may be taken out of the sum.
LEMMA SumRemove ==
  ASSUME NEW S, IsFiniteSet(S), NEW f, \A x \in S : f[x] \in Int, NEW x \in S
  PROVE  SumFunctionOnSet(f, S) = f[x] + SumFunctionOnSet(f, S \ {x})
<1> DEFINE Right(T) == \A y \in T : SumFunctionOnSet(f, T) = f[y] + SumFunctionOnSet(f, T \ {y})
           Good == { T \in SUBSET S : Right(T) }
<1>1. ASSUME NEW T \in SUBSET S, \A V \in SUBSET T : V # T => V \in Good
      PROVE  Right(T)
  <2> SUFFICES ASSUME NEW y \in T
               PROVE  SumFunctionOnSet(f, T) = f[y] + SumFunctionOnSet(f, T \ {y})
    OBVIOUS
  <2> DEFINE z == NextOf(T)
             U == T \ {z}
             V == T \ {y}
             W == (T \ {z}) \ {y}
  <2>1. IsFiniteSet(T) /\ IsFiniteSet(V) /\ IsFiniteSet(W)
    BY FS_Subset
  <2>2. z \in T
    BY DEF NextOf
  <2>3. SumFunctionOnSet(f, T) = f[z] + SumFunctionOnSet(f, U)
    BY <2>1, SumUnfold
  <2>4. CASE y = z
    BY <2>3, <2>4
  <2>5. CASE y # z
    <3>1. y \in U /\ z \in V /\ U \in SUBSET T /\ V \in SUBSET T /\ U # T /\ V # T
      BY <2>2, <2>5
    <3>2. Right(U) /\ Right(V)
      BY <1>1, <3>1
    <3>3. U \ {y} = W /\ V \ {z} = W
      OBVIOUS
    <3>4. /\ SumFunctionOnSet(f, U) = f[y] + SumFunctionOnSet(f, W)
          /\ SumFunctionOnSet(f, V) = f[z] + SumFunctionOnSet(f, W)
      <4> HIDE DEF U, V, W, z
      <4> QED BY <3>1, <3>2, <3>3
    <3>5. f[y] \in Int /\ f[z] \in Int /\ SumFunctionOnSet(f, W) \in Int
      <4>1. f[y] \in Int /\ f[z] \in Int /\ \A w \in W : f[w] \in Int
        BY <2>2
      <4> HIDE DEF W, z
      <4> QED BY <2>1, <4>1, SumType
    <3> HIDE DEF U, V, W, z
    <3> QED BY <2>3, <3>4, <3>5 DEF V
  <2> QED BY <2>4, <2>5
<1> HIDE DEF Right
<1>2. SUBSET S \subseteq Good
  <2> HIDE DEF Good
  <2>1. \A T \in SUBSET S : (\A V \in SUBSET T : V # T => V \in Good) => T \in Good
    BY <1>1 DEF Good
  <2> QED BY <2>1, SubsetInduction
<1> QED BY <1>2 DEF Right
---------------------------------------------------------------------------

\* A function has a greatest value on a finite set.
LEMMA GreatestValue ==
  ASSUME NEW S, IsFiniteSet(S), S # {}, NEW f, \A x \in S : f[x] \in Int
  PROVE  \E x \in S : \A y \in S : f[y] <= f[x]
<1> DEFINE Right(T) == T = {} \/ \E x \in T : \A y \in T : f[y] <= f[x]
           Good == { T \in SUBSET S : Right(T) }
<1>1. ASSUME NEW T \in SUBSET S, \A V \in SUBSET T : V # T => V \in Good
      PROVE  Right(T)
  <2> SUFFICES ASSUME T # {} PROVE \E x \in T : \A y \in T : f[y] <= f[x]
    OBVIOUS
  <2>1. PICK z \in T : TRUE
    OBVIOUS
  <2>2. Right(T \ {z})
    <3>1. T \ {z} \in Good
      BY <1>1, <2>1
    <3> QED BY <3>1
  <2>3. CASE T \ {z} = {}
    BY <2>1, <2>3
  <2>4. CASE T \ {z} # {}
    <3>1. PICK x \in T \ {z} : \A y \in T \ {z} : f[y] <= f[x]
      BY <2>2, <2>4
    <3>2. f[x] \in Int /\ f[z] \in Int /\ \A y \in T : f[y] \in Int
      BY <2>1
    <3>3. CASE f[z] <= f[x]
      BY <3>1, <3>3
    <3>4. CASE ~(f[z] <= f[x])
      <4>1. \A y \in T : f[y] <= f[z]
        BY <3>1, <3>2, <3>4
      <4> QED BY <2>1, <4>1
    <3> QED BY <3>3, <3>4
  <2> QED BY <2>3, <2>4
<1> HIDE DEF Right
<1>2. \A T \in SUBSET S : (\A V \in SUBSET T : V # T => V \in Good) => T \in Good
  BY <1>1
<1> HIDE DEF Good
<1>3. SUBSET S \subseteq Good
  BY <1>2, SubsetInduction
<1>4. S \in Good
  BY <1>3
<1> QED BY <1>4 DEF Good, Right

\* Max of the values of a function.
LEMMA MaxValue ==
  ASSUME NEW S, IsFiniteSet(S), S # {}, NEW f, \A x \in S : f[x] \in Int
  PROVE  LET m == Max({ f[x] : x \in S }) IN
         /\ m \in { f[x] : x \in S } /\ m \in Int
         /\ \A x \in S : f[x] <= m
<1> DEFINE T == { f[x] : x \in S }
<1>1. PICK x \in S : \A y \in S : f[y] <= f[x]
  BY GreatestValue
<1>2. f[x] \in T /\ \A y \in T : f[x] >= y
  BY <1>1
<1>3. Max(T) \in T /\ \A y \in T : Max(T) >= y
  BY <1>2 DEF Max
<1>4. Max(T) \in Int
  BY <1>3
<1>5. \A y \in S : f[y] <= Max(T)
  BY <1>3
<1> QED BY <1>3, <1>4, <1>5

\* What Max is, is known from its value: an element above all others.
LEMMA MaxIs ==
  ASSUME NEW S, S \subseteq Int, NEW m \in S, \A x \in S : x <= m
  PROVE  Max(S) = m
<1>1. Max(S) \in S /\ \A x \in S : Max(S) >= x
  BY DEF Max
<1>2. Max(S) <= m /\ m <= Max(S) /\ Max(S) \in Int /\ m \in Int
  BY <1>1
<1> QED BY <1>2
---------------------------------------------------------------------------
(* Laws of sums.                                                           *)

\* g counts the subsets of S like a sum of f: nothing is 0, and each set has an
\* element without which it counts f of that element less.
CountsLike(g, f, S) ==
  /\ g[{}] = 0
  /\ \A T \in SUBSET S : T # {} => \E x \in T : g[T] = f[x] + g[T \ {x}]

\* A sum is known from how it grows.
LEMMA SumIs ==
  ASSUME NEW S, IsFiniteSet(S), NEW f, \A x \in S : f[x] \in Int,
         NEW g, CountsLike(g, f, S)
  PROVE  \A T \in SUBSET S : SumFunctionOnSet(f, T) = g[T]
<1> DEFINE Good == { T \in SUBSET S : SumFunctionOnSet(f, T) = g[T] }
<1>1. ASSUME NEW T \in SUBSET S, \A V \in SUBSET T : V # T => V \in Good
      PROVE  SumFunctionOnSet(f, T) = g[T]
  <2>1. CASE T = {}
    BY <2>1, SumEmpty DEF CountsLike
  <2>2. CASE T # {}
    <3>1. PICK x \in T : g[T] = f[x] + g[T \ {x}]
      BY <2>2 DEF CountsLike
    <3>2. T \ {x} \in Good
      BY <1>1, <3>1
    <3>3. IsFiniteSet(T) /\ \A y \in T : f[y] \in Int
      BY FS_Subset
    <3>4. SumFunctionOnSet(f, T) = f[x] + SumFunctionOnSet(f, T \ {x})
      BY <3>1, <3>3, SumRemove
    <3> QED BY <3>1, <3>2, <3>4
  <2> QED BY <2>1, <2>2
<1>2. \A T \in SUBSET S : (\A V \in SUBSET T : V # T => V \in Good) => T \in Good
  BY <1>1
<1> HIDE DEF Good
<1>3. SUBSET S \subseteq Good
  BY <1>2, SubsetInduction
<1> QED BY <1>3 DEF Good

\* Only the values on the set count.
LEMMA SumEqual ==
  ASSUME NEW S, IsFiniteSet(S), NEW f, \A x \in S : f[x] \in Int,
         NEW g, \A x \in S : g[x] = f[x]
  PROVE  SumFunctionOnSet(g, S) = SumFunctionOnSet(f, S)
<1> DEFINE total == [T \in SUBSET S |-> SumFunctionOnSet(g, T)]
<1>1. total[{}] = 0
  BY SumEmpty
<1>2. ASSUME NEW T \in SUBSET S, T # {}
      PROVE  \E x \in T : total[T] = f[x] + total[T \ {x}]
  <2>1. PICK x \in T : TRUE
    BY <1>2
  <2>2. IsFiniteSet(T) /\ \A y \in T : g[y] \in Int
    BY FS_Subset
  <2>3. SumFunctionOnSet(g, T) = g[x] + SumFunctionOnSet(g, T \ {x})
    BY <2>1, <2>2, SumRemove
  <2>4. T \ {x} \in SUBSET S
    OBVIOUS
  <2>5. total[T] = f[x] + total[T \ {x}]
    BY <2>3, <2>4
  <2> QED BY <2>5
<1>3. S \in SUBSET S /\ total[S] = SumFunctionOnSet(g, S)
  OBVIOUS
<1> HIDE DEF total
<1>4. CountsLike(total, f, S)
  BY <1>1, <1>2 DEF CountsLike
<1>5. \A T \in SUBSET S : SumFunctionOnSet(f, T) = total[T]
  BY <1>4, SumIs
<1> QED BY <1>3, <1>5

\* The sum of a sum.
LEMMA SumAdd ==
  ASSUME NEW S, IsFiniteSet(S), NEW f, \A x \in S : f[x] \in Int,
         NEW g, \A x \in S : g[x] \in Int, NEW h, \A x \in S : h[x] = f[x] + g[x]
  PROVE  SumFunctionOnSet(h, S) = SumFunctionOnSet(f, S) + SumFunctionOnSet(g, S)
<1> DEFINE total == [T \in SUBSET S |-> SumFunctionOnSet(f, T) + SumFunctionOnSet(g, T)]
<1>0. \A x \in S : h[x] \in Int
  OBVIOUS
<1>1. total[{}] = 0
  BY SumEmpty
<1>2. ASSUME NEW T \in SUBSET S, T # {}
      PROVE  \E x \in T : total[T] = h[x] + total[T \ {x}]
  <2>1. PICK x \in T : TRUE
    BY <1>2
  <2>2. /\ IsFiniteSet(T) /\ IsFiniteSet(T \ {x})
        /\ \A y \in T : f[y] \in Int
        /\ \A y \in T : g[y] \in Int
        /\ \A y \in T \ {x} : f[y] \in Int
        /\ \A y \in T \ {x} : g[y] \in Int
    BY FS_Subset
  <2>3. SumFunctionOnSet(f, T) = f[x] + SumFunctionOnSet(f, T \ {x})
    BY <2>1, <2>2, SumRemove
  <2>4. SumFunctionOnSet(g, T) = g[x] + SumFunctionOnSet(g, T \ {x})
    BY <2>1, <2>2, SumRemove
  <2>5. SumFunctionOnSet(f, T \ {x}) \in Int /\ SumFunctionOnSet(g, T \ {x}) \in Int
    BY <2>2, SumType
  <2>6. T \ {x} \in SUBSET S
    OBVIOUS
  <2>7. total[T] = h[x] + total[T \ {x}]
    <3>1. f[x] \in Int /\ g[x] \in Int /\ h[x] = f[x] + g[x]
      BY <2>1
    <3>2. /\ total[T] = SumFunctionOnSet(f, T) + SumFunctionOnSet(g, T)
          /\ total[T \ {x}] = SumFunctionOnSet(f, T \ {x}) + SumFunctionOnSet(g, T \ {x})
      BY <2>6
    <3> HIDE DEF total
    <3> QED BY <2>3, <2>4, <2>5, <3>1, <3>2
  <2> QED BY <2>7
<1>3. S \in SUBSET S /\ total[S] = SumFunctionOnSet(f, S) + SumFunctionOnSet(g, S)
  OBVIOUS
<1> HIDE DEF total
<1>4. CountsLike(total, h, S)
  BY <1>1, <1>2 DEF CountsLike
<1>5. \A T \in SUBSET S : SumFunctionOnSet(h, T) = total[T]
  BY <1>0, <1>4, SumIs
<1> QED BY <1>3, <1>5

\* The sum of multiples.
LEMMA SumTimes ==
  ASSUME NEW S, IsFiniteSet(S), NEW f, \A x \in S : f[x] \in Int,
         NEW m \in Int, NEW h, \A x \in S : h[x] = m * f[x]
  PROVE  SumFunctionOnSet(h, S) = m * SumFunctionOnSet(f, S)
<1> DEFINE total == [T \in SUBSET S |-> m * SumFunctionOnSet(f, T)]
<1>0. \A x \in S : h[x] \in Int
  OBVIOUS
<1>1. total[{}] = 0
  <2>1. SumFunctionOnSet(f, {}) = 0
    BY SumEmpty
  <2> QED BY <2>1
<1>2. ASSUME NEW T \in SUBSET S, T # {}
      PROVE  \E x \in T : total[T] = h[x] + total[T \ {x}]
  <2>1. PICK x \in T : TRUE
    BY <1>2
  <2>2. /\ IsFiniteSet(T) /\ IsFiniteSet(T \ {x})
        /\ \A y \in T : f[y] \in Int
        /\ \A y \in T \ {x} : f[y] \in Int
    BY FS_Subset
  <2>3. SumFunctionOnSet(f, T) = f[x] + SumFunctionOnSet(f, T \ {x})
    BY <2>1, <2>2, SumRemove
  <2>5. SumFunctionOnSet(f, T \ {x}) \in Int
    BY <2>2, SumType
  <2>6. T \ {x} \in SUBSET S
    OBVIOUS
  <2>7. total[T] = h[x] + total[T \ {x}]
    <3>1. f[x] \in Int /\ h[x] = m * f[x]
      BY <2>1
    <3>2. /\ total[T] = m * SumFunctionOnSet(f, T)
          /\ total[T \ {x}] = m * SumFunctionOnSet(f, T \ {x})
      BY <2>6
    <3>3. \A a, b \in Int : m * (a + b) = m * a + m * b
      OBVIOUS
    <3> HIDE DEF total
    <3>4. m * SumFunctionOnSet(f, T) = m * f[x] + m * SumFunctionOnSet(f, T \ {x})
      BY <2>3, <2>5, <3>1, <3>3
    <3> QED BY <3>1, <3>2, <3>4
  <2> QED BY <2>7
<1>3. S \in SUBSET S /\ total[S] = m * SumFunctionOnSet(f, S)
  OBVIOUS
<1> HIDE DEF total
<1>4. CountsLike(total, h, S)
  BY <1>1, <1>2 DEF CountsLike
<1>5. \A T \in SUBSET S : SumFunctionOnSet(h, T) = total[T]
  BY <1>0, <1>4, SumIs
<1> QED BY <1>3, <1>5

\* The sum of a constant, and of nothing.
LEMMA SumConstant ==
  ASSUME NEW S, IsFiniteSet(S), NEW m \in Int, NEW f, \A x \in S : f[x] = m
  PROVE  SumFunctionOnSet(f, S) = Cardinality(S) * m
<1> DEFINE total == [T \in SUBSET S |-> Cardinality(T) * m]
<1>0. \A x \in S : f[x] \in Int
  OBVIOUS
<1>1. total[{}] = 0
  BY FS_EmptySet
<1>2. ASSUME NEW T \in SUBSET S, T # {}
      PROVE  \E x \in T : total[T] = f[x] + total[T \ {x}]
  <2>1. PICK x \in T : TRUE
    BY <1>2
  <2>2. IsFiniteSet(T)
    BY FS_Subset
  <2>3. Cardinality(T \ {x}) = Cardinality(T) - 1 /\ Cardinality(T) \in Nat
    BY <2>1, <2>2, FS_RemoveElement, FS_CardinalityType
  <2>4. \A k \in Nat : k * m = m + (k - 1) * m
    OBVIOUS
  <2>5. T \ {x} \in SUBSET S /\ f[x] = m
    BY <2>1
  <2>6. Cardinality(T) * m = m + Cardinality(T \ {x}) * m
    BY <2>3, <2>4
  <2>7. total[T] = f[x] + total[T \ {x}]
    BY <2>5, <2>6
  <2> QED BY <2>7
<1>3. S \in SUBSET S /\ total[S] = Cardinality(S) * m
  OBVIOUS
<1> HIDE DEF total
<1>4. CountsLike(total, f, S)
  BY <1>1, <1>2 DEF CountsLike
<1>5. \A T \in SUBSET S : SumFunctionOnSet(f, T) = total[T]
  BY <1>0, <1>4, SumIs
<1> QED BY <1>3, <1>5

\* Terms that are zero may be left out.
LEMMA SumOver ==
  ASSUME NEW S, IsFiniteSet(S), NEW A \in SUBSET S, NEW f, \A x \in A : f[x] \in Int,
         NEW h, \A x \in S : h[x] = IF x \in A THEN f[x] ELSE 0
  PROVE  SumFunctionOnSet(h, S) = SumFunctionOnSet(f, A)
<1> DEFINE total == [T \in SUBSET S |-> SumFunctionOnSet(f, A \cap T)]
<1>0. \A x \in S : h[x] \in Int
  OBVIOUS
<1>1. total[{}] = 0
  <2>1. A \cap {} = {} /\ {} \in SUBSET S
    OBVIOUS
  <2>2. total[{}] = SumFunctionOnSet(f, {})
    BY <2>1
  <2> QED BY <2>2, SumEmpty
<1>2. ASSUME NEW T \in SUBSET S, T # {}
      PROVE  \E x \in T : total[T] = h[x] + total[T \ {x}]
  <2>1. PICK x \in T : TRUE
    BY <1>2
  <2> DEFINE B == A \cap T
             C == A \cap (T \ {x})
  <2>2. /\ IsFiniteSet(B) /\ IsFiniteSet(C)
        /\ \A y \in B : f[y] \in Int
        /\ \A y \in C : f[y] \in Int
    BY FS_Subset
  <2>3. total[T] = SumFunctionOnSet(f, B) /\ total[T \ {x}] = SumFunctionOnSet(f, C)
    OBVIOUS
  <2>4. SumFunctionOnSet(f, C) \in Int
    <3> HIDE DEF C
    <3> QED BY <2>2, SumType
  <2>5. CASE x \in A
    <3>1. x \in B /\ C = B \ {x} /\ h[x] = f[x]
      BY <2>1, <2>5
    <3> HIDE DEF B, C, total
    <3>2. SumFunctionOnSet(f, B) = f[x] + SumFunctionOnSet(f, C)
      BY <2>2, <3>1, SumRemove
    <3> QED BY <2>3, <3>1, <3>2
  <2>6. CASE x \notin A
    <3>1. B = C /\ h[x] = 0
      BY <2>1, <2>6
    <3>2. total[T] = h[x] + total[T \ {x}]
      <4> HIDE DEF B, C, total
      <4> QED BY <2>3, <2>4, <3>1
    <3> QED BY <2>1, <3>2
  <2> QED BY <2>5, <2>6
<1>3. S \in SUBSET S /\ total[S] = SumFunctionOnSet(f, A)
  <2>1. A \cap S = A
    OBVIOUS
  <2> QED BY <2>1
<1> HIDE DEF total
<1>4. CountsLike(total, h, S)
  BY <1>1, <1>2 DEF CountsLike
<1>5. \A T \in SUBSET S : SumFunctionOnSet(h, T) = total[T]
  BY <1>0, <1>4, SumIs
<1> QED BY <1>3, <1>5
\* A sum over two sets that share nothing.
LEMMA SumUnion ==
  ASSUME NEW A, IsFiniteSet(A), NEW B, IsFiniteSet(B), A \cap B = {},
         NEW f, \A x \in A : f[x] \in Int, \A x \in B : f[x] \in Int
  PROVE  SumFunctionOnSet(f, A \cup B) = SumFunctionOnSet(f, A) + SumFunctionOnSet(f, B)
<1> DEFINE S == A \cup B
           g == [x \in S |-> IF x \in A THEN f[x] ELSE 0]
           h == [x \in S |-> IF x \in B THEN f[x] ELSE 0]
<1>1. IsFiniteSet(S)
  BY FS_Union
<1>2. /\ A \in SUBSET S /\ B \in SUBSET S
      /\ \A x \in S : g[x] = IF x \in A THEN f[x] ELSE 0
      /\ \A x \in S : h[x] = IF x \in B THEN f[x] ELSE 0
      /\ \A x \in S : g[x] \in Int
      /\ \A x \in S : h[x] \in Int
      /\ \A x \in S : f[x] = g[x] + h[x]
  OBVIOUS
<1> HIDE DEF S, g, h
<1>3. SumFunctionOnSet(g, S) = SumFunctionOnSet(f, A)
  BY <1>1, <1>2, SumOver
<1>4. SumFunctionOnSet(h, S) = SumFunctionOnSet(f, B)
  BY <1>1, <1>2, SumOver
<1>5. SumFunctionOnSet(f, S) = SumFunctionOnSet(g, S) + SumFunctionOnSet(h, S)
  BY <1>1, <1>2, SumAdd
<1> QED BY <1>3, <1>4, <1>5 DEF S

\* The sum over one element.
LEMMA SumSingle ==
  ASSUME NEW x, NEW f, f[x] \in Int
  PROVE  SumFunctionOnSet(f, {x}) = f[x]
<1>1. IsFiniteSet({x}) /\ x \in {x} /\ {x} \ {x} = {} /\ \A y \in {x} : f[y] \in Int
  BY FS_Singleton
<1>2. SumFunctionOnSet(f, {x}) = f[x] + SumFunctionOnSet(f, {x} \ {x})
  BY <1>1, SumRemove
<1>3. SumFunctionOnSet(f, {x} \ {x}) = 0
  BY <1>1, SumEmpty
<1> QED BY <1>2, <1>3

\* The terms of a double sum may be added by rows or by columns.
LEMMA SumExchange ==
  ASSUME NEW S, IsFiniteSet(S), NEW T, IsFiniteSet(T),
         NEW f, \A x \in S : \A y \in T : f[x][y] \in Int
  PROVE  SumFunctionOnSet([x \in S |-> SumFunctionOnSet(f[x], T)], S)
           = SumFunctionOnSet([y \in T |-> SumFunctionOnSet([x \in S |-> f[x][y]], S)], T)
<1> DEFINE column(U) == [y \in T |-> SumFunctionOnSet([x \in S |-> f[x][y]], U)]
           total == [U \in SUBSET S |-> SumFunctionOnSet(column(U), T)]
           row == [x \in S |-> SumFunctionOnSet(f[x], T)]
<1>1. \A x \in S : row[x] \in Int
  <2> SUFFICES ASSUME NEW x \in S PROVE SumFunctionOnSet(f[x], T) \in Int
    OBVIOUS
  <2>1. \A y \in T : f[x][y] \in Int
    OBVIOUS
  <2> QED BY <2>1, SumType
<1>2. ASSUME NEW U \in SUBSET S PROVE \A y \in T : column(U)[y] \in Int
  <2> SUFFICES ASSUME NEW y \in T PROVE SumFunctionOnSet([x \in S |-> f[x][y]], U) \in Int
    OBVIOUS
  <2>1. IsFiniteSet(U) /\ \A x \in U : [z \in S |-> f[z][y]][x] \in Int
    BY FS_Subset
  <2> HIDE DEF column
  <2> QED BY <2>1, SumType
<1>3. total[{}] = 0
  <2>1. \A y \in T : column({})[y] = 0
    BY SumEmpty
  <2>2. total[{}] = SumFunctionOnSet(column({}), T)
    OBVIOUS
  <2> HIDE DEF column, total
  <2>3. SumFunctionOnSet(column({}), T) = Cardinality(T) * 0
    <3>1. 0 \in Int
      OBVIOUS
    <3> QED BY <2>1, <3>1, SumConstant
  <2>4. Cardinality(T) \in Nat
    BY FS_CardinalityType
  <2> QED BY <2>2, <2>3, <2>4
<1>4. ASSUME NEW U \in SUBSET S, U # {}
      PROVE  \E x \in U : total[U] = row[x] + total[U \ {x}]
  <2>1. PICK x \in U : TRUE
    BY <1>4
  <2>2. IsFiniteSet(U) /\ U \ {x} \in SUBSET S
    BY FS_Subset
  <2>3. ASSUME NEW y \in T PROVE column(U)[y] = f[x][y] + column(U \ {x})[y]
    <3> DEFINE g == [z \in S |-> f[z][y]]
    <3>1. /\ \A z \in U : g[z] \in Int
          /\ column(U)[y] = SumFunctionOnSet(g, U)
          /\ column(U \ {x})[y] = SumFunctionOnSet(g, U \ {x})
          /\ g[x] = f[x][y]
      BY <2>1
    <3> HIDE DEF g, column
    <3>2. SumFunctionOnSet(g, U) = g[x] + SumFunctionOnSet(g, U \ {x})
      BY <2>1, <2>2, <3>1, SumRemove
    <3> QED BY <3>1, <3>2
  <2>4. /\ total[U] = SumFunctionOnSet(column(U), T)
        /\ total[U \ {x}] = SumFunctionOnSet(column(U \ {x}), T)
        /\ row[x] = SumFunctionOnSet(f[x], T)
    BY <2>1, <2>2
  <2>5. \A y \in T : column(U \ {x})[y] \in Int
    BY <1>2, <2>2
  <2>6. \A y \in T : f[x][y] \in Int
    BY <2>1
  <2> HIDE DEF column, total, row
  <2>7. SumFunctionOnSet(column(U), T)
          = SumFunctionOnSet(f[x], T) + SumFunctionOnSet(column(U \ {x}), T)
    BY <2>3, <2>5, <2>6, SumAdd
  <2> QED BY <2>1, <2>4, <2>7
<1>5. S \in SUBSET S /\ total[S] = SumFunctionOnSet(column(S), T)
  OBVIOUS
<1> HIDE DEF total, row
<1>6. CountsLike(total, row, S)
  BY <1>3, <1>4 DEF CountsLike
<1>7. \A U \in SUBSET S : SumFunctionOnSet(row, U) = total[U]
  BY <1>1, <1>6, SumIs
<1>8. SumFunctionOnSet(row, S) = SumFunctionOnSet(column(S), T)
  BY <1>5, <1>7
<1> QED BY <1>8 DEF row

\* A term for each element of S, by the class of the element.
LEMMA SumFibers ==
  ASSUME NEW S, IsFiniteSet(S), NEW T, IsFiniteSet(T), NEW class \in [S -> T],
         NEW f, \A y \in T : f[y] \in Int,
         NEW m \in Int, \A y \in T : Cardinality({ x \in S : class[x] = y }) = m
  PROVE  SumFunctionOnSet([x \in S |-> f[class[x]]], S) = m * SumFunctionOnSet(f, T)
<1> DEFINE g == [x \in S |-> [y \in T |-> IF y \in {class[x]} THEN f[y] ELSE 0]]
           column == [y \in T |-> SumFunctionOnSet([x \in S |-> g[x][y]], S)]
<1>1. \A x \in S : \A y \in T : g[x][y] \in Int
  OBVIOUS
<1>2. \A x \in S : SumFunctionOnSet(g[x], T) = f[class[x]]
  <2> SUFFICES ASSUME NEW x \in S PROVE SumFunctionOnSet(g[x], T) = f[class[x]]
    OBVIOUS
  <2>1. /\ {class[x]} \in SUBSET T
        /\ \A y \in {class[x]} : f[y] \in Int
        /\ \A y \in T : g[x][y] = IF y \in {class[x]} THEN f[y] ELSE 0
        /\ f[class[x]] \in Int
    OBVIOUS
  <2> HIDE DEF g
  <2>2. SumFunctionOnSet(g[x], T) = SumFunctionOnSet(f, {class[x]})
    BY <2>1, SumOver
  <2> QED BY <2>1, <2>2, SumSingle
<1>3. \A y \in T : column[y] = m * f[y]
  <2> SUFFICES ASSUME NEW y \in T
               PROVE  SumFunctionOnSet([x \in S |-> g[x][y]], S) = m * f[y]
    OBVIOUS
  <2> DEFINE A == { x \in S : class[x] = y }
             h == [x \in S |-> g[x][y]]
             c == [x \in S |-> f[y]]
  <2>1. /\ A \in SUBSET S
        /\ \A x \in A : c[x] \in Int
        /\ \A x \in S : h[x] = IF x \in A THEN c[x] ELSE 0
        /\ \A x \in A : c[x] = f[y]
        /\ f[y] \in Int
        /\ Cardinality(A) = m
    OBVIOUS
  <2>2. IsFiniteSet(A)
    BY FS_Subset
  <2> HIDE DEF A, h, c, g
  <2>3. SumFunctionOnSet(h, S) = SumFunctionOnSet(c, A)
    BY <2>1, SumOver
  <2>4. SumFunctionOnSet(c, A) = Cardinality(A) * f[y]
    BY <2>1, <2>2, SumConstant
  <2> QED BY <2>1, <2>3, <2>4 DEF h
<1>4. SumFunctionOnSet([x \in S |-> SumFunctionOnSet(g[x], T)], S) = SumFunctionOnSet(column, T)
  <2> HIDE DEF g
  <2>1. SumFunctionOnSet([x \in S |-> SumFunctionOnSet(g[x], T)], S)
          = SumFunctionOnSet([y \in T |-> SumFunctionOnSet([x \in S |-> g[x][y]], S)], T)
    <3>1. ASSUME NEW r, \A x \in S : \A y \in T : r[x][y] \in Int
          PROVE  SumFunctionOnSet([x \in S |-> SumFunctionOnSet(r[x], T)], S)
                   = SumFunctionOnSet([y \in T |-> SumFunctionOnSet([x \in S |-> r[x][y]], S)], T)
      BY <3>1, SumExchange, ZenonT(60)
    <3> QED BY <1>1, <3>1
  <2> QED BY <2>1
<1>5. [x \in S |-> SumFunctionOnSet(g[x], T)] = [x \in S |-> f[class[x]]]
  <2> HIDE DEF g
  <2> QED BY <1>2
<1> HIDE DEF g, column
<1>6. SumFunctionOnSet(column, T) = m * SumFunctionOnSet(f, T)
  BY <1>3, SumTimes
<1> QED BY <1>4, <1>5, <1>6

\* A part of a sum of natural numbers is no greater.
LEMMA SumPart ==
  ASSUME NEW S, IsFiniteSet(S), NEW A \in SUBSET S, NEW f, \A x \in S : f[x] \in Nat
  PROVE  SumFunctionOnSet(f, A) <= SumFunctionOnSet(f, S)
<1> DEFINE B == S \ A
<1>1. /\ IsFiniteSet(A) /\ IsFiniteSet(B) /\ A \cap B = {} /\ A \cup B = S
      /\ \A x \in A : f[x] \in Int
      /\ \A x \in B : f[x] \in Int
      /\ \A x \in B : f[x] \in Nat
  BY FS_Subset, FS_Difference
<1> HIDE DEF B
<1>2. SumFunctionOnSet(f, S) = SumFunctionOnSet(f, A) + SumFunctionOnSet(f, B)
  BY <1>1, SumUnion
<1>3. SumFunctionOnSet(f, A) \in Int /\ SumFunctionOnSet(f, B) \in Nat
  BY <1>1, SumType
<1> QED BY <1>2, <1>3
---------------------------------------------------------------------------
(* Order.                                                                  *)

\* A finite set of numbers has a greatest and a smallest element.
LEMMA MaxElement ==
  ASSUME NEW S, IsFiniteSet(S), S # {}, S \subseteq Int
  PROVE  Max(S) \in S /\ \A x \in S : x <= Max(S)
<1> DEFINE f == [x \in S |-> x]
<1>1. \A x \in S : f[x] \in Int
  OBVIOUS
<1>2. PICK m \in S : \A y \in S : f[y] <= f[m]
  BY <1>1, GreatestValue
<1>3. m \in S /\ \A y \in S : m >= y
  BY <1>2
<1>4. Max(S) \in S /\ \A y \in S : Max(S) >= y
  BY <1>3 DEF Max
<1> QED BY <1>4

LEMMA MinElement ==
  ASSUME NEW S, IsFiniteSet(S), S # {}, S \subseteq Int
  PROVE  Min(S) \in S /\ \A x \in S : Min(S) <= x
<1> DEFINE f == [x \in S |-> -x]
<1>1. \A x \in S : f[x] \in Int
  OBVIOUS
<1>2. PICK m \in S : \A y \in S : f[y] <= f[m]
  BY <1>1, GreatestValue
<1>3. m \in S /\ \A y \in S : m <= y
  BY <1>2
<1>4. Min(S) \in S /\ \A y \in S : Min(S) <= y
  BY <1>3 DEF Min
<1> QED BY <1>4

\* A strict total order on a finite set: the number of elements before an element is
\* its place, and every place is taken.
LEMMA Ranking ==
  ASSUME NEW W, IsFiniteSet(W), NEW R,
         \A a \in W : << a, a >> \notin R,
         \A a, b, c \in W : << a, b >> \in R /\ << b, c >> \in R => << a, c >> \in R,
         \A a, b \in W : a # b => << a, b >> \in R \/ << b, a >> \in R
  PROVE  LET place == [a \in W |-> Cardinality({ b \in W : << b, a >> \in R })]
         IN  /\ \A a \in W : place[a] \in 0 .. Cardinality(W) - 1
             /\ \A a, b \in W : << a, b >> \in R <=> place[a] < place[b]
             /\ \A k \in 0 .. Cardinality(W) - 1 : \E a \in W : place[a] = k
<1> DEFINE ahead(a) == { b \in W : << b, a >> \in R }
           place == [a \in W |-> Cardinality(ahead(a))]
           n == Cardinality(W)
<1>1. n \in Nat
  BY FS_CardinalityType
<1>2. ASSUME NEW a \in W
      PROVE  IsFiniteSet(ahead(a)) /\ place[a] \in Nat /\ place[a] = Cardinality(ahead(a))
  <2>1. ahead(a) \in SUBSET W
    OBVIOUS
  <2>2. IsFiniteSet(ahead(a)) /\ Cardinality(ahead(a)) \in Nat
    <3> HIDE DEF ahead
    <3> QED BY <2>1, FS_Subset, FS_CardinalityType
  <2> QED BY <2>2
<1>3. \A a \in W : place[a] \in 0 .. n - 1
  <2> SUFFICES ASSUME NEW a \in W PROVE place[a] \in 0 .. n - 1
    OBVIOUS
  <2>1. ahead(a) \in SUBSET W /\ ahead(a) # W
    OBVIOUS
  <2>2. Cardinality(ahead(a)) <= n /\ Cardinality(ahead(a)) # n
    <3> HIDE DEF ahead
    <3> QED BY <2>1, FS_Subset
  <2> HIDE DEF ahead, place, n
  <2> QED BY <1>1, <1>2, <2>2
<1>4. ASSUME NEW a \in W, NEW b \in W, << a, b >> \in R PROVE place[a] < place[b]
  <2>1. ahead(a) \in SUBSET ahead(b) /\ ahead(a) # ahead(b)
    <3>1. a \in ahead(b) /\ a \notin ahead(a)
      BY <1>4
    <3>2. ahead(a) \subseteq ahead(b)
      BY <1>4
    <3> QED BY <3>1, <3>2
  <2>2. Cardinality(ahead(a)) <= Cardinality(ahead(b))
        /\ Cardinality(ahead(a)) # Cardinality(ahead(b))
    <3> HIDE DEF ahead, place
    <3> QED BY <1>2, <2>1, FS_Subset
  <2> HIDE DEF ahead, place
  <2> QED BY <1>2, <2>2
<1> HIDE DEF ahead, n
<1>5. \A a, b \in W : << a, b >> \in R <=> place[a] < place[b]
  <2> SUFFICES ASSUME NEW a \in W, NEW b \in W, place[a] < place[b] PROVE << a, b >> \in R
    BY <1>4
  <2> HIDE DEF place
  <2>1. ~(place[b] < place[a]) /\ place[a] # place[b]
    BY <1>2
  <2> QED BY <1>4, <2>1
<1>6. \A k \in 0 .. n - 1 : \E a \in W : place[a] = k
  <2>1. place \in [W -> 0 .. n - 1]
    BY <1>3
  <2> HIDE DEF place
  <2>2. \A a, b \in W : place[a] = place[b] => a = b
    <3> SUFFICES ASSUME NEW a \in W, NEW b \in W, place[a] = place[b], a # b PROVE FALSE
      OBVIOUS
    <3>1. place[a] \in Nat /\ place[b] \in Nat
      BY <1>2
    <3>2. place[a] < place[b] \/ place[b] < place[a]
      BY <1>4
    <3> QED BY <3>1, <3>2
  <2>3. place \in Injection(W, 0 .. n - 1)
    BY <2>1, <2>2 DEF Injection, IsInjective
  <2>4. IsFiniteSet(0 .. n - 1) /\ Cardinality(0 .. n - 1) = n
    <3>1. 0 \in Int /\ n - 1 \in Int
      BY <1>1
    <3> QED BY <1>1, <3>1, FS_Interval
  <2>5. place \in Surjection(W, 0 .. n - 1)
    BY <2>3, <2>4, FS_Injection DEF n
  <2> QED BY <2>5 DEF Surjection
<1> QED BY <1>3, <1>5, <1>6 DEF ahead, place, n
=============================================================================
