--------------------------- MODULE ExecutionProofs ---------------------------
(***************************************************************************)
(* Theorems about the devices that execute a decoder, for any systems, any *)
(* graphs and any costs of their calls.                                    *)
(***************************************************************************)
EXTENDS Execution, FiniteSetFacts

---------------------------------------------------------------------------
(* Folds of sequences, which the library computes from a table over the    *)
(* sets of indices: the largest index is taken last.                       *)

\* g is a table of the folds by F, from base, over the subsets of S.
FoldTable(g, F, base, S) ==
  g = [T \in SUBSET S |-> IF T = {} THEN base ELSE F[<< g[T \ {Max(T)}], Max(T) >>]]

\* A set of indices that is not empty has a largest one.
LEMMA MaxMember ==
  ASSUME NEW S, IsFiniteSet(S), S \subseteq Int, NEW T \in SUBSET S, T # {}
  PROVE  Max(T) \in T /\ \A x \in T : x <= Max(T)
<1>1. IsFiniteSet(T) /\ T \subseteq Int
  BY FS_Subset
<1> QED BY <1>1, MaxElement

\* Any two tables agree where both are defined.
LEMMA FoldsAgree ==
  ASSUME NEW F, NEW base, NEW S, IsFiniteSet(S), S \subseteq Int, NEW U, S \subseteq U,
         NEW g, NEW h, FoldTable(g, F, base, S), FoldTable(h, F, base, U)
  PROVE  \A T \in SUBSET S : g[T] = h[T]
<1> DEFINE Good == { T \in SUBSET S : g[T] = h[T] }
<1>1. ASSUME NEW T \in SUBSET S, \A V \in SUBSET T : V # T => V \in Good
      PROVE  g[T] = h[T]
  <2>1. T \in SUBSET U
    OBVIOUS
  <2>2. CASE T = {}
    BY <2>1, <2>2 DEF FoldTable
  <2>3. CASE T # {}
    <3>1. Max(T) \in T
      BY <2>3, MaxMember
    <3>2. T \ {Max(T)} \in Good
      BY <1>1, <3>1
    <3>3. /\ g[T] = F[<< g[T \ {Max(T)}], Max(T) >>]
          /\ h[T] = F[<< h[T \ {Max(T)}], Max(T) >>]
      BY <2>1, <2>3 DEF FoldTable
    <3> QED BY <3>2, <3>3
  <2> QED BY <2>2, <2>3
<1>2. \A T \in SUBSET S : (\A V \in SUBSET T : V # T => V \in Good) => T \in Good
  BY <1>1
<1> HIDE DEF Good
<1>3. SUBSET S \subseteq Good
  BY <1>2, SubsetInduction
<1> QED BY <1>3 DEF Good

\* Every finite set of indices has a table.
LEMMA FoldExists ==
  ASSUME NEW F, NEW base, NEW S, IsFiniteSet(S), S \subseteq Int
  PROVE  \E g : FoldTable(g, F, base, S)
<1> DEFINE Good == { T \in SUBSET S : \E g : FoldTable(g, F, base, T) }
<1>1. ASSUME NEW T \in SUBSET S, \A V \in SUBSET T : V # T => V \in Good
      PROVE  \E g : FoldTable(g, F, base, T)
  <2>1. IsFiniteSet(T) /\ T \subseteq Int
    BY FS_Subset
  <2> DEFINE table(V) == CHOOSE g : FoldTable(g, F, base, V)
             fold(V) == IF V = {} THEN base
                        ELSE F[<< table(V \ {Max(V)})[V \ {Max(V)}], Max(V) >>]
             h == [V \in SUBSET T |-> fold(V)]
  <2>2. \A V \in SUBSET T : V # T => FoldTable(table(V), F, base, V)
    BY <1>1
  <2>3. ASSUME NEW V \in SUBSET T
        PROVE  h[V] = IF V = {} THEN base ELSE F[<< h[V \ {Max(V)}], Max(V) >>]
    <3>1. CASE V = {}
      BY <3>1
    <3>2. CASE V # {}
      <4> DEFINE W == V \ {Max(V)}
      <4>1. Max(V) \in V
        BY <2>1, <3>2, MaxMember
      <4>2. W \in SUBSET T /\ W # T /\ h[W] = fold(W) /\ FoldTable(table(W), F, base, W)
        BY <2>2, <4>1
      <4>3. h[V] = F[<< table(W)[W], Max(V) >>]
        BY <3>2
      <4>4. table(W)[W] = fold(W)
        <5>1. table(W)[W] = IF W = {} THEN base ELSE F[<< table(W)[W \ {Max(W)}], Max(W) >>]
          <6> HIDE DEF table, W
          <6> QED BY <4>2 DEF FoldTable
        <5>2. CASE W = {}
          BY <5>1, <5>2
        <5>3. CASE W # {}
          <6> DEFINE X == W \ {Max(W)}
          <6>1. Max(W) \in W
            <7> HIDE DEF W
            <7> QED BY <2>1, <4>2, <5>3, MaxMember
          <6>2. X \in SUBSET T /\ X # T /\ X \subseteq W
            BY <4>2, <6>1
          <6>3. FoldTable(table(X), F, base, X) /\ IsFiniteSet(X) /\ X \subseteq Int
            BY <2>1, <2>2, <6>2, FS_Subset
          <6>4. table(X)[X] = table(W)[X]
            <7> HIDE DEF table, X, W
            <7>1. X \in SUBSET X
              OBVIOUS
            <7> QED BY <4>2, <6>2, <6>3, <7>1, FoldsAgree
          <6>5. table(W)[W] = F[<< table(W)[X], Max(W) >>]
            BY <5>1, <5>3
          <6>6. fold(W) = F[<< table(X)[X], Max(W) >>]
            BY <5>3
          <6> HIDE DEF table, fold, X, W
          <6> QED BY <6>4, <6>5, <6>6
        <5> QED BY <5>2, <5>3
      <4> HIDE DEF table, fold, h
      <4> QED BY <3>2, <4>2, <4>3, <4>4
    <3> QED BY <3>1, <3>2
  <2>4. FoldTable(h, F, base, T)
    <3>1. h = [V \in SUBSET T |-> h[V]]
      OBVIOUS
    <3> HIDE DEF h
    <3>2. h = [V \in SUBSET T |-> IF V = {} THEN base ELSE F[<< h[V \ {Max(V)}], Max(V) >>]]
      BY <2>3, <3>1
    <3> QED BY <3>2 DEF FoldTable
  <2> HIDE DEF h
  <2> QED BY <2>4
<1>2. \A T \in SUBSET S : (\A V \in SUBSET T : V # T => V \in Good) => T \in Good
  BY <1>1
<1> HIDE DEF Good
<1>3. SUBSET S \subseteq Good
  BY <1>2, SubsetInduction
<1>4. S \in SUBSET S
  OBVIOUS
<1> QED BY <1>3, <1>4 DEF Good
\* Induction up to a bound.
LEMMA BoundedInduction ==
  ASSUME NEW n \in Nat, NEW Good, 0 \in Good, \A j \in 0 .. n - 1 : j \in Good => j + 1 \in Good
  PROVE  \A j \in 0 .. n : j \in Good
<1> DEFINE Bad == { j \in 0 .. n : j \notin Good }
<1> SUFFICES ASSUME Bad # {} PROVE FALSE
  OBVIOUS
<1>1. IsFiniteSet(Bad) /\ Bad \subseteq Int
  <2>1. IsFiniteSet(0 .. n)
    BY FS_Interval
  <2> QED BY <2>1, FS_Subset
<1>2. PICK m \in Bad : \A j \in Bad : m <= j
  <2> HIDE DEF Bad
  <2> QED BY <1>1, MinElement
<1>3. m \in 0 .. n /\ m \notin Good /\ m # 0
  BY <1>2
<1>4. m - 1 \in 0 .. n - 1 /\ m - 1 \in 0 .. n /\ ~(m <= m - 1) /\ (m - 1) + 1 = m
  BY <1>3
<1>5. m - 1 \in Good
  BY <1>2, <1>4
<1> QED BY <1>3, <1>4, <1>5

\* The largest index of a prefix.
LEMMA MaxPrefix ==
  ASSUME NEW j \in Nat \ {0}
  PROVE  Max(1 .. j) = j /\ (1 .. j) \ {j} = 1 .. j - 1 /\ 1 .. j # {} /\ j \in 1 .. j
<1>1. 1 .. j \subseteq Int /\ j \in 1 .. j /\ \A x \in 1 .. j : x <= j
  OBVIOUS
<1>2. Max(1 .. j) = j
  BY <1>1, MaxIs
<1>3. (1 .. j) \ {j} = 1 .. j - 1
  OBVIOUS
<1> QED BY <1>1, <1>2, <1>3

\* The largest element is taken last.
LEMMA FoldLast ==
  ASSUME NEW F, NEW base, NEW S, NEW g, FoldTable(g, F, base, S), NEW T \in SUBSET S,
         T \subseteq Int, NEW m \in T, \A x \in T : x <= m
  PROVE  g[T] = F[<< g[T \ {m}], m >>]
<1>1. Max(T) = m
  BY MaxIs
<1> QED BY <1>1 DEF FoldTable

LEMMA FoldPrefix ==
  ASSUME NEW F, NEW base, NEW n \in Nat, NEW g, FoldTable(g, F, base, 1 .. n), NEW j \in 1 .. n
  PROVE  g[1 .. j] = F[<< g[1 .. j - 1], j >>]
<1>1. j \in Nat \ {0} /\ 1 .. j \in SUBSET (1 .. n)
  OBVIOUS
<1>2. Max(1 .. j) = j /\ (1 .. j) \ {j} = 1 .. j - 1 /\ 1 .. j # {}
  BY <1>1, MaxPrefix
<1> QED BY <1>1, <1>2 DEF FoldTable

\* What holds of the base and is kept by every step holds of the fold.
LEMMA FoldInduction ==
  ASSUME NEW F, NEW base, NEW n \in Nat, NEW g, FoldTable(g, F, base, 1 .. n), NEW Good,
         << 0, base >> \in Good,
         \A j \in 0 .. n - 1 : \A v : << j, v >> \in Good => << j + 1, F[<< v, j + 1 >>] >> \in Good
  PROVE  \A j \in 0 .. n : << j, g[1 .. j] >> \in Good
<1> DEFINE Fine == { j \in 0 .. n : << j, g[1 .. j] >> \in Good }
<1>1. 0 \in Fine
  <2>1. 1 .. 0 = {} /\ {} \in SUBSET (1 .. n)
    OBVIOUS
  <2>2. g[1 .. 0] = base
    BY <2>1 DEF FoldTable
  <2> QED BY <2>2
<1>2. ASSUME NEW j \in 0 .. n - 1, j \in Fine PROVE j + 1 \in Fine
  <2>1. j + 1 \in 1 .. n /\ (j + 1) - 1 = j /\ j + 1 \in 0 .. n
    OBVIOUS
  <2>4. g[1 .. j + 1] = F[<< g[1 .. (j + 1) - 1], j + 1 >>]
    <3> DEFINE i == j + 1
    <3>1. i \in 1 .. n
      BY <2>1
    <3> HIDE DEF i
    <3>2. g[1 .. i] = F[<< g[1 .. i - 1], i >>]
      BY <3>1, FoldPrefix
    <3> QED BY <3>2 DEF i
  <2>2. g[1 .. j + 1] = F[<< g[1 .. j], j + 1 >>]
    BY <2>1, <2>4
  <2>3. << j, g[1 .. j] >> \in Good
    BY <1>2
  <2> QED BY <2>1, <2>2, <2>3
<1> HIDE DEF Fine
<1>3. \A j \in 0 .. n : j \in Fine
  BY <1>1, <1>2, BoundedInduction
<1> QED BY <1>3 DEF Fine

\* A step that stays in V gives a table in V.
LEMMA FoldClosed ==
  ASSUME NEW V, NEW base \in V, NEW S, IsFiniteSet(S), S \subseteq Int,
         NEW F \in [V \X S -> V], NEW g, FoldTable(g, F, base, S)
  PROVE  \A T \in SUBSET S : g[T] \in V
<1> DEFINE Good == { T \in SUBSET S : g[T] \in V }
<1>1. ASSUME NEW T \in SUBSET S, \A U \in SUBSET T : U # T => U \in Good
      PROVE  g[T] \in V
  <2>1. CASE T = {}
    BY <2>1 DEF FoldTable
  <2>2. CASE T # {}
    <3>1. Max(T) \in T
      BY <2>2, MaxMember
    <3>2. g[T \ {Max(T)}] \in V
      BY <1>1, <3>1
    <3>3. g[T] = F[<< g[T \ {Max(T)}], Max(T) >>]
      BY <2>2 DEF FoldTable
    <3> QED BY <3>1, <3>2, <3>3
  <2> QED BY <2>1, <2>2
<1>2. \A T \in SUBSET S : (\A U \in SUBSET T : U # T => U \in Good) => T \in Good
  BY <1>1
<1> HIDE DEF Good
<1>3. SUBSET S \subseteq Good
  BY <1>2, SubsetInduction
<1> QED BY <1>3 DEF Good

\* The values in V that a loop of n steps goes through.
Closed(F, V, n) == F \in [V \X (1 .. n) -> V]
Iterates(h, F, base, V, n) ==
  h \in [0 .. n -> V] /\ h[0] = base /\ \A j \in 1 .. n : h[j] = F[<< h[j - 1], j >>]

LEMMA Iteration ==
  ASSUME NEW V, NEW base \in V, NEW n \in Nat, NEW F, Closed(F, V, n)
  PROVE  \E h : Iterates(h, F, base, V, n)
<1> DEFINE I == 1 .. n
<1>1. IsFiniteSet(I) /\ I \subseteq Int /\ F \in [V \X I -> V]
  BY FS_Interval DEF Closed
<1> HIDE DEF I
<1>2. PICK g : FoldTable(g, F, base, I)
  BY <1>1, FoldExists
<1>3. \A T \in SUBSET I : g[T] \in V
  BY <1>1, <1>2, FoldClosed
<1> DEFINE h == [j \in 0 .. n |-> g[1 .. j]]
<1>4. h \in [0 .. n -> V]
  <2>1. \A j \in 0 .. n : 1 .. j \in SUBSET I
    BY DEF I
  <2> QED BY <1>3, <2>1
<1>5. h[0] = base
  <2>1. 1 .. 0 = {} /\ {} \in SUBSET I /\ 0 \in 0 .. n
    OBVIOUS
  <2>2. g[{}] = base
    BY <1>2, <2>1 DEF FoldTable
  <2> QED BY <2>1, <2>2
<1>6. ASSUME NEW j \in 1 .. n PROVE h[j] = F[<< h[j - 1], j >>]
  <2> DEFINE T == 1 .. j
  <2>1. j \in 0 .. n /\ j - 1 \in 0 .. n
    OBVIOUS
  <2>2. h[j] = g[T] /\ h[j - 1] = g[1 .. j - 1]
    BY <2>1
  <2>3. /\ T \in SUBSET I /\ T \subseteq Int /\ j \in T /\ \A x \in T : x <= j
        /\ T \ {j} = 1 .. j - 1
    BY DEF I
  <2> HIDE DEF h, T
  <2>4. g[T] = F[<< g[T \ {j}], j >>]
    BY <1>2, <2>3, FoldLast
  <2> QED BY <2>2, <2>3, <2>4
<1> HIDE DEF h
<1> QED BY <1>4, <1>5, <1>6 DEF Iterates
---------------------------------------------------------------------------
(* What the operators of the cost model count.                             *)

\* A sum of natural numbers.
LEMMA TotalType ==
  ASSUME NEW s, IsFiniteSet(DOMAIN s)
  PROVE  /\ (\A k \in DOMAIN s : s[k] \in Nat) => Total(s) \in Nat
         /\ (\A k \in DOMAIN s : s[k] \in Int) => Total(s) \in Int
<1>1. Total(s) = SumFunctionOnSet(s, DOMAIN s)
  BY DEF Total, FoldFunction, SumFunctionOnSet
<1>2. ASSUME \A k \in DOMAIN s : s[k] \in Nat PROVE Total(s) \in Nat
  <2>1. \A k \in DOMAIN s : s[k] \in Int
    BY <1>2
  <2> QED BY <1>1, <1>2, <2>1, SumType
<1>3. ASSUME \A k \in DOMAIN s : s[k] \in Int PROVE Total(s) \in Int
  BY <1>1, <1>3, SumType
<1> QED BY <1>2, <1>3

LEMMA TotalEmpty == ASSUME NEW s, DOMAIN s = {} PROVE Total(s) = 0
<1>1. Total(s) = SumFunctionOnSet(s, {})
  BY DEF Total, FoldFunction, SumFunctionOnSet
<1> QED BY <1>1, SumEmpty

\* One more term.
LEMMA TotalAppend ==
  ASSUME NEW n \in Nat, NEW s, DOMAIN s = 1 .. n, \A k \in 1 .. n : s[k] \in Int,
         NEW t, DOMAIN t = 1 .. n + 1, \A k \in 1 .. n : t[k] = s[k], t[n + 1] \in Int
  PROVE  Total(t) = Total(s) + t[n + 1]
<1>1. Total(s) = SumFunctionOnSet(s, 1 .. n) /\ Total(t) = SumFunctionOnSet(t, 1 .. n + 1)
  BY DEF Total, FoldFunction, SumFunctionOnSet
<1>2. /\ IsFiniteSet(1 .. n) /\ IsFiniteSet(1 .. n + 1)
      /\ (1 .. n + 1) \ {n + 1} = 1 .. n /\ n + 1 \in 1 .. n + 1
      /\ \A k \in 1 .. n + 1 : t[k] \in Int
  <2>1. IsFiniteSet(1 .. n) /\ IsFiniteSet(1 .. n + 1)
    BY FS_Interval
  <2>2. (1 .. n + 1) \ {n + 1} = 1 .. n /\ n + 1 \in 1 .. n + 1
    OBVIOUS
  <2>3. ASSUME NEW k \in 1 .. n + 1 PROVE t[k] \in Int
    <3>1. k = n + 1 \/ k \in 1 .. n
      OBVIOUS
    <3> QED BY <3>1
  <2> QED BY <2>1, <2>2, <2>3
<1>3. SumFunctionOnSet(t, 1 .. n + 1) = t[n + 1] + SumFunctionOnSet(t, (1 .. n + 1) \ {n + 1})
  BY <1>2, SumRemove
<1>4. SumFunctionOnSet(t, 1 .. n) = SumFunctionOnSet(s, 1 .. n)
  BY <1>2, SumEqual
<1>5. SumFunctionOnSet(s, 1 .. n) \in Int
  BY <1>2, SumType
<1>6. t[n + 1] \in Int
  BY <1>2
<1> HIDE DEF Total
<1>7. Total(t) = t[n + 1] + SumFunctionOnSet(s, 1 .. n)
  BY <1>1, <1>2, <1>3, <1>4
<1> QED BY <1>1, <1>5, <1>6, <1>7

LEMMA SeqDomain ==
  ASSUME NEW S, NEW s \in Seq(S)
  PROVE  /\ Len(s) \in Nat /\ DOMAIN s = 1 .. Len(s) /\ IsFiniteSet(DOMAIN s)
         /\ \A k \in DOMAIN s : s[k] \in S
<1>1. Len(s) \in Nat /\ DOMAIN s = 1 .. Len(s) /\ \A k \in 1 .. Len(s) : s[k] \in S
  OBVIOUS
<1>2. IsFiniteSet(1 .. Len(s))
  BY <1>1, FS_Interval
<1> QED BY <1>1, <1>2

LEMMA HeadTail ==
  ASSUME NEW S, NEW s \in Seq(S), s # << >>
  PROVE  Head(s) \in S /\ Tail(s) \in Seq(S)
OBVIOUS

LEMMA SequenceOfFunction ==
  ASSUME NEW S, NEW n \in Nat, NEW s \in [1 .. n -> S]
  PROVE  s \in Seq(S) /\ Len(s) = n
<1>1. s \in Seq(S)
  BY DEF Seq
<1> QED BY <1>1

\* The sequences are joined one after the other.
Joins(h, S, ss) ==
  /\ h \in [0 .. Len(ss) -> Seq(S)] /\ h[0] = << >>
  /\ \A j \in 1 .. Len(ss) : h[j] = h[j - 1] \o ss[j]

LEMMA FlattenIs ==
  ASSUME NEW S, NEW ss \in Seq(Seq(S))
  PROVE  \E h : Joins(h, S, ss) /\ FlattenSeq(ss) = h[Len(ss)]
<1> DEFINE n == Len(ss)
           Flat(g, m) == g = [i \in 1 .. m |-> IF i = 1 THEN ss[i] ELSE g[i - 1] \o ss[i]]
<1>1. n \in Nat /\ \A i \in 1 .. n : ss[i] \in Seq(S)
  OBVIOUS
<1>2. CASE n = 0
  <2>1. ss = << >> /\ Len(ss) = 0
    BY <1>2
  <2> DEFINE h == [j \in 0 .. 0 |-> << >>]
  <2>2. Joins(h, S, ss) /\ h[0] = << >>
    BY <2>1 DEF Joins
  <2>3. FlattenSeq(ss) = << >>
    BY <2>1 DEF FlattenSeq
  <2> HIDE DEF h
  <2> QED BY <2>1, <2>2, <2>3
<1>3. CASE n # 0
  <2> DEFINE V == Seq(S)
             F == [z \in V \X (1 .. n) |-> IF z[2] = 1 THEN ss[1] ELSE z[1] \o ss[z[2]]]
  <2>1. << >> \in V
    OBVIOUS
  <2>2. Closed(F, V, n)
    <3>1. ASSUME NEW v \in V, NEW i \in 1 .. n
          PROVE  (IF i = 1 THEN ss[1] ELSE v \o ss[i]) \in V
      BY <1>1
    <3> QED BY <3>1 DEF Closed
  <2>3. ASSUME NEW v \in V, NEW i \in 1 .. n
        PROVE  F[<< v, i >>] = IF i = 1 THEN ss[1] ELSE v \o ss[i]
    OBVIOUS
  <2> HIDE DEF F, V, Flat
  <2>4. PICK k : Iterates(k, F, << >>, V, n)
    <3>1. n \in Nat
      BY <1>1
    <3> HIDE DEF n
    <3> QED BY <2>1, <2>2, <3>1, Iteration
  <2> DEFINE h == [i \in 1 .. n |-> k[i]]
  <2>5. ASSUME NEW i \in 1 .. n
        PROVE  h[i] = IF i = 1 THEN ss[i] ELSE h[i - 1] \o ss[i]
    <3>1. i - 1 \in 0 .. n /\ (i # 1 => i - 1 \in 1 .. n)
      BY <1>1
    <3>2. k[i - 1] \in V /\ k[i] = F[<< k[i - 1], i >>]
      BY <2>4, <3>1 DEF Iterates
    <3>3. k[i] = IF i = 1 THEN ss[1] ELSE k[i - 1] \o ss[i]
      BY <2>3, <3>2
    <3> QED BY <3>1, <3>3
  <2>6. Flat(h, n)
    <3>1. h = [i \in 1 .. n |-> h[i]]
      OBVIOUS
    <3> HIDE DEF h
    <3> QED BY <2>5, <3>1 DEF Flat
  <2> DEFINE g == CHOOSE f : Flat(f, n)
  <2>7. Flat(g, n)
    <3> HIDE DEF h
    <3> QED BY <2>6
  <2>8. FlattenSeq(ss) = g[n]
    BY <1>3 DEF FlattenSeq, Flat
  <2>9. h \in [1 .. n -> V]
    BY <2>4 DEF Iterates
  <2>10. g[n] = h[n]
    <3> DEFINE Good == { i \in 0 .. n : i # 0 => g[i] = h[i] }
    <3>1. 0 \in Good
      BY <1>1
    <3>2. ASSUME NEW j \in 0 .. n - 1, j \in Good PROVE j + 1 \in Good
      <4>1. j + 1 \in 1 .. n /\ (j + 1) - 1 = j /\ j + 1 \in 0 .. n
        BY <1>1
      <4>2. g[j + 1] = IF j + 1 = 1 THEN ss[j + 1] ELSE g[(j + 1) - 1] \o ss[j + 1]
        <5> HIDE DEF g, h, n
        <5> QED BY <2>7, <4>1 DEF Flat
      <4>3. h[j + 1] = IF j + 1 = 1 THEN ss[j + 1] ELSE h[(j + 1) - 1] \o ss[j + 1]
        <5> HIDE DEF g, h, n
        <5> QED BY <2>5, <4>1
      <4>4. j # 0 => g[j] = h[j]
        BY <3>2
      <4>5. j + 1 = 1 => j = 0
        OBVIOUS
      <4>6. g[j + 1] = h[j + 1]
        <5> HIDE DEF g, h, n, Good
        <5> QED BY <4>1, <4>2, <4>3, <4>4, <4>5
      <4> HIDE DEF g, h, n
      <4> QED BY <4>1, <4>6
    <3> HIDE DEF Good
    <3>3. \A j \in 0 .. n : j \in Good
      <4> HIDE DEF g, h, n
      <4> QED BY <1>1, <3>1, <3>2, BoundedInduction
    <3>4. n \in 0 .. n
      BY <1>1
    <3> HIDE DEF g, h
    <3> QED BY <1>3, <3>3, <3>4 DEF Good
  <2>11. n \in 1 .. n
    BY <1>1, <1>3
  <2>12. Joins(k, S, ss)
    <3>1. \A v \in Seq(S) : << >> \o v = v
      OBVIOUS
    <3>2. ASSUME NEW i \in 1 .. n PROVE k[i] = k[i - 1] \o ss[i]
      <4>1. i - 1 \in 0 .. n /\ i \in 1 .. n
        BY <1>1
      <4>2. k[i - 1] \in V /\ k[i] = F[<< k[i - 1], i >>] /\ k[0] = << >>
        BY <2>4, <4>1 DEF Iterates
      <4>3. k[i] = IF i = 1 THEN ss[1] ELSE k[i - 1] \o ss[i]
        BY <2>3, <4>2
      <4>4. i = 1 => k[i - 1] = << >> /\ ss[1] \in Seq(S)
        BY <1>1, <4>2
      <4> HIDE DEF n
      <4> QED BY <3>1, <4>3, <4>4
    <3>3. k \in [0 .. n -> V] /\ k[0] = << >>
      BY <2>4 DEF Iterates
    <3> QED BY <3>2, <3>3 DEF Joins, V
  <2>13. h[n] = k[n]
    BY <2>11
  <2> HIDE DEF g, h
  <2> QED BY <2>8, <2>10, <2>12, <2>13
<1> QED BY <1>2, <1>3

\* What is made by joining sequences is a sequence of the same things.
LEMMA FlattenType ==
  ASSUME NEW S, NEW ss \in Seq(Seq(S))
  PROVE  FlattenSeq(ss) \in Seq(S)
<1>1. PICK h : Joins(h, S, ss) /\ FlattenSeq(ss) = h[Len(ss)]
  BY FlattenIs
<1>2. Len(ss) \in 0 .. Len(ss)
  OBVIOUS
<1> QED BY <1>1, <1>2 DEF Joins
---------------------------------------------------------------------------
(* An execution, on phases that are counted as the graph's are.            *)

\* A quotient of natural numbers is one.
LEMMA QuotientType ==
  ASSUME NEW a \in Nat, NEW b \in Nat \ {0}
  PROVE  a \div b \in Nat
<1> DEFINE q == a \div b
           r == a % b
<1>1. q \in Int /\ r \in 0 .. b - 1 /\ a = b * q + r
  OBVIOUS
<1> HIDE DEF q, r
<1>2. q >= 0
  <2> SUFFICES ASSUME q <= -1 PROVE FALSE
    BY <1>1
  <2>1. b * q <= -b
    BY <1>1
  <2> QED BY <1>1, <2>1
<1>3. q \in Nat
  BY <1>1, <1>2
<1> QED BY <1>3 DEF q

LEMMA CeilType ==
  ASSUME NEW a \in Nat, NEW b \in Nat \ {0}
  PROVE  CeilDiv(a, b) \in Nat
<1>1. a + b - 1 \in Nat
  OBVIOUS
<1>2. (a + b - 1) \div b \in Nat
  BY <1>1, QuotientType
<1> QED BY <1>2 DEF CeilDiv

\* The commands of a transfer are a number of them.
LEMMA IdealType ==
  ASSUME NEW bytes \in Nat
  PROVE  run_ideal(bytes) \in Nat
<1>1. Granul \in Nat \ {0} /\ NumCube \in Nat \ {0} /\ NumChannel \in Nat \ {0}
  BY CostAssumption
<1> DEFINE toCube == CeilDiv(bytes \div Granul, NumCube)
<1>2. toCube \in Nat
  <2>1. bytes \div Granul \in Nat
    BY <1>1, QuotientType
  <2> QED BY <1>1, <2>1, CeilType
<1> HIDE DEF toCube
<1>3. CeilDiv(toCube, NumChannel) \in Nat /\ toCube \div NumChannel \in Nat
  BY <1>1, <1>2, CeilType, QuotientType
<1>4. run_ideal(bytes)
        = IF bytes = 0 THEN 0
          ELSE CeilDiv(toCube, NumChannel)
               + (IF toCube % NumChannel = 1 THEN toCube \div NumChannel
                  ELSE toCube \div NumChannel + 1)
  BY DEF run_ideal, toCube
<1> QED BY <1>3, <1>4

\* Flops and bytes of the phases, and the commands of their transfers.
LEMMA CountTypes ==
  ASSUME NEW phases, Countable(phases), NEW precision \in Nat
  PROVE  /\ Flops(phases) \in Nat /\ Bytes(phases) \in Nat
         /\ IdealCommands(precision, phases) \in Nat
<1>1. phases \in Seq(PhaseType)
  BY DEF Countable
<1>2. /\ Len(phases) \in Nat /\ DOMAIN phases = 1 .. Len(phases) /\ IsFiniteSet(DOMAIN phases)
      /\ \A k \in DOMAIN phases : phases[k] \in PhaseType
  BY <1>1, SeqDomain
<1>3. \A k \in DOMAIN phases : /\ phases[k].flops \in Nat /\ phases[k].bytes \in Nat
                               /\ phases[k].ideal \in Seq(Move)
  BY <1>2 DEF PhaseType
<1>4. Flops(phases) \in Nat
  <2> DEFINE s == [k \in DOMAIN phases |-> phases[k].flops]
  <2>1. DOMAIN s = DOMAIN phases /\ \A k \in DOMAIN s : s[k] \in Nat
    BY <1>3
  <2> HIDE DEF s
  <2>2. Total(s) \in Nat
    BY <1>2, <2>1, TotalType
  <2> QED BY <2>2 DEF s, Flops
<1>5. Bytes(phases) \in Nat
  <2> DEFINE s == [k \in DOMAIN phases |-> phases[k].bytes]
  <2>1. DOMAIN s = DOMAIN phases /\ \A k \in DOMAIN s : s[k] \in Nat
    BY <1>3
  <2> HIDE DEF s
  <2>2. Total(s) \in Nat
    BY <1>2, <2>1, TotalType
  <2> QED BY <2>2 DEF s, Bytes
<1>6. IdealCommands(precision, phases) \in Nat
  <2> DEFINE each == [k \in 1 .. Len(phases) |-> phases[k].ideal]
             moves == IdealMoves(phases)
             s == [k \in 1 .. Len(moves) |-> run_ideal(moves[k].size * precision)]
  <2>1. each \in Seq(Seq(Move))
    <3>1. each \in [1 .. Len(phases) -> Seq(Move)]
      BY <1>2, <1>3
    <3> QED BY <1>2, <3>1, SequenceOfFunction
  <2>2. moves \in Seq(Move)
    <3> HIDE DEF each
    <3>1. FlattenSeq(each) \in Seq(Move)
      BY <2>1, FlattenType
    <3> QED BY <3>1 DEF each, IdealMoves
  <2> HIDE DEF moves, each
  <2>3. /\ Len(moves) \in Nat /\ DOMAIN moves = 1 .. Len(moves) /\ IsFiniteSet(DOMAIN moves)
        /\ \A k \in DOMAIN moves : moves[k] \in Move
    BY <2>2, SeqDomain
  <2>4. ASSUME NEW k \in 1 .. Len(moves) PROVE run_ideal(moves[k].size * precision) \in Nat
    <3>1. moves[k].size \in Nat
      BY <2>3 DEF Move
    <3>2. moves[k].size * precision \in Nat
      BY <3>1
    <3> QED BY <3>2, IdealType
  <2>5. DOMAIN s = 1 .. Len(moves) /\ \A k \in DOMAIN s : s[k] \in Nat
    BY <2>4
  <2>6. IsFiniteSet(1 .. Len(moves))
    BY <2>3
  <2> HIDE DEF s
  <2>7. Total(s) \in Nat
    BY <2>5, <2>6, TotalType
  <2> QED BY <2>7 DEF s, moves, IdealCommands
<1> QED BY <1>4, <1>5, <1>6
---------------------------------------------------------------------------
(* Where the devices are.                                                  *)

PlaceInv ==
  /\ system \in Systems /\ iter \in 1 .. MaxIters /\ turn \in Devices /\ work \in Works(system)
  /\ calls = [d \in Devices |-> Calls(system, work[d])]
  /\ DOMAIN cur = Devices
  /\ \A d \in Devices : cur[d] \in 1 .. Len(calls[d]) + 1
  /\ DOMAIN trial = DOMAIN NoTrial /\ trial.step \in {"push", "try", "pop"}
  /\ trial.step = "push" => trial = NoTrial
  /\ trial.step # "push" => ~Ends(turn)
  /\ trial.step = "try" => /\ CallOf(turn).layer # "none"
                           /\ trial.left \in Seq(Range(CallOf(turn).processors))
                           /\ trial.cols \in Columns(CallOf(turn))

\* What the assumption on the graphs says of the calls of a device.
LEMMA Graphs ==
  ASSUME PlaceInv, NEW d \in Devices
  PROVE  /\ Len(calls[d]) \in Nat /\ DOMAIN calls[d] = 1 .. Len(calls[d])
         /\ \A k \in DOMAIN calls[d] :
              /\ CallType(calls[d][k], work[d].batch)
              /\ calls[d][k].waits \in {1, system.ne_tp_dg, NumDevices}
              /\ \A e \in Devices :
                   e \div calls[d][k].waits = d \div calls[d][k].waits
                     => k \in DOMAIN calls[e] /\ calls[e][k].waits = calls[d][k].waits
<1>1. system \in Systems /\ work \in Works(system)
      /\ \A e \in Devices : calls[e] = Calls(system, work[e])
  BY DEF PlaceInv
<1> DEFINE graph == Calls(system, work[d])
<1>2. /\ Len(graph) \in Nat /\ DOMAIN graph = 1 .. Len(graph)
      /\ \A k \in DOMAIN graph :
           /\ CallType(graph[k], work[d].batch)
           /\ graph[k].waits \in {1, system.ne_tp_dg, NumDevices}
           /\ \A e \in Devices :
                e \div graph[k].waits = d \div graph[k].waits
                  => /\ k \in DOMAIN Calls(system, work[e])
                     /\ Calls(system, work[e])[k].waits = graph[k].waits
  BY <1>1, CallsAssumption
<1> HIDE DEF graph
<1>3. calls[d] = graph
  BY <1>1 DEF graph
<1> QED BY <1>1, <1>2, <1>3

\* A device that is not at its end has a call.
LEMMA AtCall ==
  ASSUME PlaceInv, NEW d \in Devices, ~Ends(d)
  PROVE  cur[d] \in DOMAIN calls[d] /\ CallType(CallOf(d), work[d].batch)
<1>1. cur[d] \in 1 .. Len(calls[d]) + 1 /\ Len(calls[d]) \in Nat
      /\ DOMAIN calls[d] = 1 .. Len(calls[d])
  BY Graphs DEF PlaceInv
<1>2. cur[d] \in DOMAIN calls[d]
  BY <1>1 DEF Ends
<1> QED BY <1>2, Graphs DEF CallOf

\* A processor that is tried is one of the call's, and is left its columns.
LEMMA Tried ==
  ASSUME PlaceInv, trial.step = "try", trial.left # << >>,
         NEW i, i = [CallOf(turn).info EXCEPT !.cols = trial.cols],
         NEW p, p = Head(trial.left)
  PROVE  /\ p \in Range(CallOf(turn).processors) /\ p \in Processor /\ i.precision \in Nat
         /\ Tail(trial.left) \in Seq(Range(CallOf(turn).processors))
         /\ Countable(Phases(CallOf(turn), p, i, work[turn].batch))
         /\ (IF CallOf(turn).layer = "ATTENTION_SUM" THEN ColsAfterSum(i, p) ELSE trial.cols)
              \in Columns(CallOf(turn))
<1> DEFINE call == CallOf(turn)
           batch == work[turn].batch
<1>1. /\ turn \in Devices /\ ~Ends(turn) /\ call.layer # "none"
      /\ trial.left \in Seq(Range(call.processors)) /\ trial.cols \in Columns(call)
  BY DEF PlaceInv
<1>2. CallType(call, batch)
  BY <1>1, AtCall
<1> HIDE DEF call, batch
<1>3. p \in Range(call.processors) /\ Tail(trial.left) \in Seq(Range(call.processors))
  BY <1>1, HeadTail
<1>4. Range(call.processors) \subseteq Processor
  <2>1. call.processors \in Seq(Processor)
    BY <1>2 DEF CallType
  <2>2. \A k \in DOMAIN call.processors : call.processors[k] \in Processor
    BY <2>1
  <2> QED BY <2>2 DEF Range
<1>5. /\ {"precision", "hd", "H", "KVH", "cols"} \subseteq DOMAIN call.info
      /\ call.info.precision \in Nat
  BY <1>2 DEF CallType
<1>6. /\ i.precision = call.info.precision /\ i.hd = call.info.hd /\ i.H = call.info.H
      /\ i.KVH = call.info.KVH /\ i.cols = trial.cols
  BY <1>5 DEF call
<1>7. Countable(Phases(call, p, i, batch))
  <2>1. \A q \in Range(call.processors) : \A cols \in Columns(call) :
          Countable(Phases(call, q, [call.info EXCEPT !.cols = cols], batch))
    BY <1>1, <1>2 DEF CallType
  <2>2. i = [call.info EXCEPT !.cols = trial.cols]
    BY DEF call
  <2> QED BY <1>1, <1>3, <2>1, <2>2
<1>8. (IF call.layer = "ATTENTION_SUM" THEN ColsAfterSum(i, p) ELSE trial.cols) \in Columns(call)
  BY <1>1, <1>3, <1>4, <1>6 DEF Columns, ColsAfterSum, Processor
<1> QED BY <1>3, <1>4, <1>5, <1>6, <1>7, <1>8 DEF call, batch

LEMMA PlaceInit == Init => PlaceInv
<1> SUFFICES ASSUME Init PROVE PlaceInv
  OBVIOUS
<1>1. /\ system \in Systems /\ iter = 1 /\ turn = 0 /\ work \in Works(system)
      /\ calls = [d \in Devices |-> Calls(system, work[d])]
      /\ cur = [d \in Devices |-> 1] /\ trial = NoTrial
  BY DEF Init
<1>2. iter \in 1 .. MaxIters /\ turn \in Devices
  BY <1>1, ExecutionAssumption DEF Devices
<1>3. \A d \in Devices : cur[d] \in 1 .. Len(calls[d]) + 1
  <2> SUFFICES ASSUME NEW d \in Devices PROVE 1 \in 1 .. Len(calls[d]) + 1
    BY <1>1
  <2>1. Len(Calls(system, work[d])) \in Nat
    BY <1>1, CallsAssumption
  <2>2. Len(calls[d]) \in Nat
    BY <1>1, <2>1
  <2> QED BY <2>2
<1>4. trial.step = "push"
  BY <1>1 DEF NoTrial
<1> QED BY <1>1, <1>2, <1>3, <1>4 DEF PlaceInv

LEMMA PlacePush ==
  ASSUME PlaceInv, NEW d \in Devices, Push(d)
  PROVE  PlaceInv'
<1>1. /\ turn = d /\ ~Ends(d)
      /\ trial' = [NoTrial EXCEPT !.step = IF CallOf(d).layer = "none" THEN "pop" ELSE "try",
                                  !.left = CallOf(d).processors, !.cols = CallOf(d).info.cols]
      /\ UNCHANGED << system, iter, turn, work, calls, cur >>
  BY DEF Push, Runs
<1>2. CallType(CallOf(d), work[d].batch)
  BY <1>1, AtCall
<1>3. /\ DOMAIN trial' = DOMAIN NoTrial
      /\ trial'.step = (IF CallOf(d).layer = "none" THEN "pop" ELSE "try")
      /\ trial'.left = CallOf(d).processors /\ trial'.cols = CallOf(d).info.cols
  BY <1>1 DEF NoTrial
<1>4. CallOf(d).processors \in Seq(Range(CallOf(d).processors))
  <2> DEFINE s == CallOf(d).processors
  <2>1. s \in Seq(Processor)
    BY <1>2 DEF CallType
  <2> HIDE DEF s
  <2>2. Len(s) \in Nat /\ s \in [1 .. Len(s) -> Range(s)]
    BY <2>1 DEF Range
  <2>3. s \in Seq(Range(s))
    BY <2>2, SequenceOfFunction
  <2> QED BY <2>3 DEF s
<1>5. CallOf(d).info.cols \in Columns(CallOf(d))
  BY DEF Columns
<1>6. Ends(turn)' = Ends(turn) /\ CallOf(turn)' = CallOf(turn)
  BY <1>1 DEF Ends, CallOf
<1> QED BY <1>1, <1>3, <1>4, <1>5, <1>6 DEF PlaceInv

LEMMA PlaceTry ==
  ASSUME PlaceInv, NEW d \in Devices, Try(d)
  PROVE  PlaceInv'
<1> DEFINE p == Head(trial.left)
           i == [CallOf(d).info EXCEPT !.cols = trial.cols]
<1>1. /\ turn = d /\ ~Ends(d) /\ trial.step = "try" /\ trial.left # << >>
      /\ UNCHANGED << system, iter, turn, work, calls, cur >>
  BY DEF Try, Runs
<1>2. PICK e : trial' = [trial EXCEPT
                           !.left = Tail(@),
                           !.optimal = IF Better(@, e.status) THEN e.status ELSE @,
                           !.tried = Append(@, e.status),
                           !.cols = IF CallOf(d).layer = "ATTENTION_SUM"
                                    THEN ColsAfterSum(i, p) ELSE @]
  BY DEF Try
<1>3. /\ Tail(trial.left) \in Seq(Range(CallOf(d).processors))
      /\ (IF CallOf(d).layer = "ATTENTION_SUM" THEN ColsAfterSum(i, p) ELSE trial.cols)
           \in Columns(CallOf(d))
  BY <1>1, Tried
<1> HIDE DEF p, i
<1>4. /\ DOMAIN trial' = DOMAIN NoTrial
      /\ trial'.step = "try" /\ trial'.left \in Seq(Range(CallOf(d).processors))
      /\ trial'.cols \in Columns(CallOf(d))
  <2>1. DOMAIN trial = DOMAIN NoTrial /\ {"step", "left", "cols"} \subseteq DOMAIN trial
    BY DEF PlaceInv, NoTrial
  <2> QED BY <1>1, <1>2, <1>3, <2>1
<1>5. Ends(turn)' = Ends(turn) /\ CallOf(turn)' = CallOf(turn)
  BY <1>1 DEF Ends, CallOf
<1> QED BY <1>1, <1>4, <1>5 DEF PlaceInv

LEMMA PlaceDeliver ==
  ASSUME PlaceInv, NEW d \in Devices, Deliver(d)
  PROVE  PlaceInv'
<1>1. /\ turn = d /\ ~Ends(d) /\ trial.step = "try" /\ trial' = [trial EXCEPT !.step = "pop"]
      /\ UNCHANGED << system, iter, turn, work, calls, cur >>
  BY DEF Deliver, Runs
<1>2. DOMAIN trial' = DOMAIN NoTrial /\ trial'.step = "pop"
  <2>1. DOMAIN trial = DOMAIN NoTrial /\ "step" \in DOMAIN trial
    BY DEF PlaceInv, NoTrial
  <2> QED BY <1>1, <2>1
<1>3. Ends(turn)' = Ends(turn)
  BY <1>1 DEF Ends
<1> QED BY <1>1, <1>2, <1>3 DEF PlaceInv

LEMMA PlacePop ==
  ASSUME PlaceInv, NEW d \in Devices, Pop(d)
  PROVE  PlaceInv'
<1>1. /\ turn = d /\ ~Ends(d) /\ trial' = NoTrial /\ cur' = [cur EXCEPT ![d] = @ + 1]
      /\ UNCHANGED << system, iter, turn, work, calls >>
  BY DEF Pop, Runs
<1>2. DOMAIN cur' = Devices
  BY <1>1 DEF PlaceInv
<1>3. ASSUME NEW e \in Devices PROVE cur'[e] \in 1 .. Len(calls[e]) + 1
  <2>1. cur[e] \in 1 .. Len(calls[e]) + 1
    BY DEF PlaceInv
  <2>2. CASE e = d
    <3>1. cur[d] \in 1 .. Len(calls[d]) /\ Len(calls[d]) \in Nat
      BY <1>1, AtCall, Graphs
    <3>2. cur'[d] = cur[d] + 1
      BY <1>1 DEF PlaceInv
    <3> QED BY <2>2, <3>1, <3>2
  <2>3. CASE e # d
    <3>1. cur'[e] = cur[e]
      BY <1>1, <2>3 DEF PlaceInv
    <3> QED BY <2>1, <3>1
  <2> QED BY <2>2, <2>3
<1>4. trial'.step = "push"
  BY <1>1 DEF NoTrial
<1> QED BY <1>1, <1>2, <1>3, <1>4 DEF PlaceInv

\* The calls of the group of a call that waits.
LEMMA GroupAtCall ==
  ASSUME PlaceInv, NEW d \in Devices, ~Ends(d), Arrived(d), NEW e \in Group(d)
  PROVE  /\ e \in Devices /\ cur[e] = cur[d] /\ cur[e] \in DOMAIN calls[e] /\ ~Ends(e)
         /\ CallOf(e).waits = CallOf(d).waits
<1>1. e \in Devices /\ e \div CallOf(d).waits = d \div CallOf(d).waits /\ cur[e] = cur[d]
  BY DEF Group, Arrived
<1>2. cur[d] \in DOMAIN calls[d]
  BY AtCall
<1>3. cur[d] \in DOMAIN calls[e] /\ CallOf(e).waits = CallOf(d).waits
  BY <1>1, <1>2, Graphs DEF CallOf
<1>4. Len(calls[e]) \in Nat /\ cur[e] \in 1 .. Len(calls[e])
  BY <1>1, <1>3, Graphs
<1> QED BY <1>1, <1>3, <1>4 DEF Ends

LEMMA PlaceSynchronise ==
  ASSUME PlaceInv, NEW d \in Devices, Synchronise(d)
  PROVE  PlaceInv'
<1>1. /\ turn = d /\ ~Ends(d) /\ trial.step = "push" /\ Arrived(d)
      /\ cur' = [e \in Devices |-> IF e \in Group(d) THEN cur[e] + 1 ELSE cur[e]]
      /\ UNCHANGED << system, iter, turn, work, calls, trial >>
  BY DEF Synchronise, Runs
<1>2. DOMAIN cur' = Devices
  BY <1>1
<1>3. ASSUME NEW e \in Devices PROVE cur'[e] \in 1 .. Len(calls[e]) + 1
  <2>1. cur[e] \in 1 .. Len(calls[e]) + 1
    BY DEF PlaceInv
  <2>2. CASE e \in Group(d)
    <3>1. cur[e] \in 1 .. Len(calls[e]) /\ Len(calls[e]) \in Nat
      BY <1>1, <2>2, GroupAtCall, Graphs
    <3>2. cur'[e] = cur[e] + 1
      BY <1>1, <2>2
    <3> QED BY <3>1, <3>2
  <2>3. CASE e \notin Group(d)
    BY <1>1, <2>1, <2>3
  <2> QED BY <2>2, <2>3
<1> QED BY <1>1, <1>2, <1>3 DEF PlaceInv

LEMMA PlaceNextDevice ==
  ASSUME PlaceInv, NEW d \in Devices, NextDevice(d)
  PROVE  PlaceInv'
<1>1. /\ turn = d /\ (~Ends(d) => trial.step = "push") /\ turn' = DeviceAfter(turn)
      /\ UNCHANGED << system, iter, work, calls, cur, trial >>
  BY DEF NextDevice
<1>2. trial.step = "push"
  BY <1>1 DEF PlaceInv
<1>3. turn' \in Devices
  <2>1. turn \in Nat /\ NumDevices \in Nat \ {0}
    BY ExecutionAssumption DEF PlaceInv, Devices
  <2>2. (turn + 1) % NumDevices \in 0 .. NumDevices - 1
    BY <2>1
  <2> QED BY <1>1, <2>2 DEF DeviceAfter, Devices
<1> QED BY <1>1, <1>2, <1>3 DEF PlaceInv

LEMMA PlaceRestart ==
  ASSUME PlaceInv, Restart
  PROVE  PlaceInv'
<1>1. PICK works \in Works(system) : Ready(works)
  BY DEF Restart
<1>2. /\ AllDone /\ iter < MaxIters /\ iter' = iter + 1 /\ UNCHANGED << system, trial >>
  BY DEF Restart
<1>3. /\ work' = works /\ calls' = [d \in Devices |-> Calls(system, works[d])]
      /\ cur' = [d \in Devices |-> 1] /\ turn' = 0
  BY <1>1, <1>2 DEF Ready
<1>4. trial.step = "push"
  BY <1>2 DEF PlaceInv, AllDone
<1>5. ASSUME NEW d \in Devices PROVE cur'[d] \in 1 .. Len(calls'[d]) + 1
  <2>1. Len(Calls(system, works[d])) \in Nat
    BY <1>1, CallsAssumption DEF PlaceInv
  <2>2. Len(calls'[d]) \in Nat /\ cur'[d] = 1
    BY <1>3, <2>1
  <2> QED BY <2>2
<1>6. iter' \in 1 .. MaxIters /\ turn' \in Devices
  BY <1>2, <1>3, ExecutionAssumption DEF PlaceInv, Devices
<1> QED BY <1>1, <1>2, <1>3, <1>4, <1>5, <1>6 DEF PlaceInv

LEMMA PlaceStep == PlaceInv /\ [Next]_vars => PlaceInv'
<1> SUFFICES ASSUME PlaceInv, [Next]_vars PROVE PlaceInv'
  OBVIOUS
<1>1. ASSUME NEW d \in Devices,
             Push(d) \/ Try(d) \/ Deliver(d) \/ Pop(d) \/ Synchronise(d) \/ NextDevice(d)
      PROVE  PlaceInv'
  BY <1>1, PlacePush, PlaceTry, PlaceDeliver, PlacePop, PlaceSynchronise, PlaceNextDevice
<1>2. CASE Restart
  BY <1>2, PlaceRestart
<1>3. CASE UNCHANGED vars
  BY <1>3 DEF vars, PlaceInv, Ends, CallOf
<1> QED BY <1>1, <1>2, <1>3 DEF Next
---------------------------------------------------------------------------
(* What executions count reaches the status board once.                    *)

SumFields == {"flops", "bytes", "commands"}
Summed(e) == \A field \in SumFields : e[field] \in Nat

\* An execution is kept until the pop of its call takes it: nobody else is between
\* the two.
CountInv ==
  /\ DOMAIN exec_status = Devices /\ DOMAIN status = Devices /\ DOMAIN board = Devices
  /\ \A d \in Devices :
       /\ Summed(exec_status[d])
       /\ DOMAIN status[d] = DOMAIN ZeroBoard /\ Summed(status[d])
       /\ \E S : board[d] \in Seq(S)
       /\ \A k \in DOMAIN board[d] : Summed(board[d][k])
       /\ exec_status[d] # NoStatus => d = turn /\ trial.step = "pop"
  /\ trial.step = "try" => Summed(trial.optimal)
  /\ Collected

Delivered(b, field) == Total([k \in DOMAIN b |-> b[k][field]])

LEMMA DeliveredAppend ==
  ASSUME NEW S, NEW b \in Seq(S), NEW e, NEW field, e[field] \in Nat,
         \A k \in DOMAIN b : b[k][field] \in Nat
  PROVE  Delivered(Append(b, e), field) = Delivered(b, field) + e[field]
<1> DEFINE n == Len(b)
           c == Append(b, e)
           s == [k \in DOMAIN b |-> b[k][field]]
           t == [k \in DOMAIN c |-> c[k][field]]
<1>1. n \in Nat /\ DOMAIN b = 1 .. n
  OBVIOUS
<1>2. DOMAIN c = 1 .. n + 1 /\ c[n + 1] = e /\ \A k \in 1 .. n : c[k] = b[k]
  <2>1. b \in Seq(S \cup {e})
    <3>1. b \in [1 .. n -> S \cup {e}]
      BY <1>1
    <3> QED BY <1>1, <3>1, SequenceOfFunction
  <2>2. Len(c) = n + 1 /\ c \in Seq(S \cup {e})
    BY <2>1
  <2>3. DOMAIN c = 1 .. n + 1
    BY <2>2
  <2>4. c[n + 1] = e /\ \A k \in 1 .. n : c[k] = b[k]
    BY <2>1
  <2> QED BY <2>3, <2>4
<1> HIDE DEF n, c
<1>3. DOMAIN s = 1 .. n /\ DOMAIN t = 1 .. n + 1
  BY <1>1, <1>2
<1>4. \A k \in 1 .. n : s[k] \in Int /\ t[k] = s[k]
  BY <1>1, <1>2
<1>5. t[n + 1] = e[field] /\ t[n + 1] \in Int
  BY <1>1, <1>2
<1> HIDE DEF s, t
<1>6. Total(t) = Total(s) + t[n + 1]
  BY <1>1, <1>3, <1>4, <1>5, TotalAppend
<1> QED BY <1>5, <1>6 DEF Delivered, s, t, c

LEMMA CountInit == Init => CountInv
<1> SUFFICES ASSUME Init PROVE CountInv
  OBVIOUS
<1>1. /\ trial = NoTrial
      /\ exec_status = [d \in Devices |-> NoStatus]
      /\ status = [d \in Devices |-> ZeroBoard]
      /\ board = [d \in Devices |-> << >>]
  BY DEF Init
<1>2. Summed(NoStatus) /\ Summed(ZeroBoard)
  BY DEF Summed, SumFields, NoStatus, ZeroBoard
<1>3. trial.step # "try"
  BY <1>1 DEF NoTrial
<1>4. \A d \in Devices : board[d] = << >> /\ board[d] \in Seq({}) /\ DOMAIN board[d] = {}
  BY <1>1
<1>5. Collected
  <2> SUFFICES ASSUME NEW d \in Devices, NEW field \in SumFields
               PROVE  status[d][field] + exec_status[d][field]
                        = Total([k \in DOMAIN board[d] |-> board[d][k][field]])
    BY DEF Collected, SumFields
  <2>1. status[d][field] = 0 /\ exec_status[d][field] = 0
    BY <1>1 DEF SumFields, NoStatus, ZeroBoard
  <2>2. Total([k \in DOMAIN board[d] |-> board[d][k][field]]) = 0
    BY <1>4, TotalEmpty
  <2> QED BY <2>1, <2>2
<1> QED BY <1>1, <1>2, <1>3, <1>4, <1>5 DEF CountInv

LEMMA PushSums ==
  ASSUME NEW s, DOMAIN s = DOMAIN ZeroBoard, NEW lane, NEW call
  PROVE  LET t == Forward(set_push_status(s, lane), call)
         IN DOMAIN t = DOMAIN s /\ \A field \in SumFields : t[field] = s[field]
<1>1. {"device", "high", "low", "flops", "bytes", "commands"} \subseteq DOMAIN s
  BY DEF ZeroBoard
<1> DEFINE p == set_push_status(s, lane)
<1>2. DOMAIN p = DOMAIN s /\ \A field \in SumFields : p[field] = s[field]
  BY <1>1 DEF set_push_status, Joined, SumFields
<1> HIDE DEF p
<1>3. DOMAIN Forward(p, call) = DOMAIN p /\ \A field \in SumFields : Forward(p, call)[field] = p[field]
  BY <1>1, <1>2 DEF Forward, SumFields
<1> QED BY <1>2, <1>3 DEF p

LEMMA PopSums ==
  ASSUME NEW s, DOMAIN s = DOMAIN ZeroBoard, Summed(s), NEW lane, NEW e, Summed(e)
  PROVE  LET t == set_pop_status(s, lane, e)
         IN /\ DOMAIN t = DOMAIN s /\ Summed(t)
            /\ \A field \in SumFields : t[field] = s[field] + e[field]
<1>1. {"device", "high", "low", "flops", "bytes", "commands"} \subseteq DOMAIN s
  BY DEF ZeroBoard
<1> DEFINE p == Charged(s, lane, e)
<1>2. DOMAIN p = DOMAIN s /\ \A field \in SumFields : p[field] = s[field]
  BY <1>1 DEF Charged, SumFields
<1> HIDE DEF p
<1>3. set_pop_status(s, lane, e)
        = [p EXCEPT !.flops = @ + e.flops, !.bytes = @ + e.bytes, !.commands = @ + e.commands]
  BY DEF set_pop_status, p
<1>4. \A field \in SumFields : s[field] \in Nat /\ e[field] \in Nat
  BY DEF Summed
<1> DEFINE t == set_pop_status(s, lane, e)
<1>5. DOMAIN t = DOMAIN s /\ \A field \in SumFields : t[field] = p[field] + e[field]
  BY <1>1, <1>2, <1>3 DEF SumFields
<1> HIDE DEF t
<1>6. \A field \in SumFields : t[field] = s[field] + e[field] /\ t[field] \in Nat
  BY <1>2, <1>4, <1>5
<1> QED BY <1>5, <1>6 DEF Summed, t

\* What an execution reports is counted.
LEMMA ExecutionSums ==
  ASSUME PlaceInv, trial.step = "try", trial.left # << >>,
         NEW i, i = [CallOf(turn).info EXCEPT !.cols = trial.cols],
         NEW p, p = Head(trial.left), NEW c, NEW cache, NEW clock
  PROVE  Summed(executePType(c, CallOf(turn), p, i, work[turn].batch, cache, clock).status)
<1> DEFINE phases == Phases(CallOf(turn), p, i, work[turn].batch)
           e == executePType(c, CallOf(turn), p, i, work[turn].batch, cache, clock).status
<1>1. Countable(phases) /\ i.precision \in Nat
  BY Tried
<1> HIDE DEF phases
<1>2. Flops(phases) \in Nat /\ Bytes(phases) \in Nat /\ IdealCommands(i.precision, phases) \in Nat
  BY <1>1, CountTypes
<1>3. /\ e.flops = Flops(phases) /\ e.bytes = Bytes(phases)
      /\ e.commands = IF c.use_ramulator THEN 0 ELSE IdealCommands(i.precision, phases)
  BY DEF executePType, phases
<1> HIDE DEF e
<1>4. Summed(e)
  BY <1>2, <1>3 DEF Summed, SumFields
<1> QED BY <1>4 DEF e

LEMMA CollectedIs ==
  Collected <=> \A d \in Devices : \A field \in SumFields :
                  status[d][field] + exec_status[d][field] = Delivered(board[d], field)
BY DEF Collected, SumFields, Delivered

LEMMA CollectedNext ==
  Collected' <=> \A d \in Devices : \A field \in SumFields :
                   (status[d][field] + exec_status[d][field] = Delivered(board[d], field))'
BY DEF Collected, SumFields, Delivered

LEMMA CountPush ==
  ASSUME PlaceInv, CountInv, NEW d \in Devices, Push(d)
  PROVE  CountInv'
<1> DEFINE s == Forward(set_push_status(status[d], CallOf(d).in.lane), CallOf(d))
<1>1. /\ trial.step = "push" /\ turn = d
      /\ status' = [status EXCEPT ![d] = s]
      /\ trial' = [NoTrial EXCEPT !.step = IF CallOf(d).layer = "none" THEN "pop" ELSE "try",
                                  !.left = CallOf(d).processors, !.cols = CallOf(d).info.cols]
      /\ UNCHANGED << turn, exec_status, board >>
  BY DEF Push, Runs
<1>2. DOMAIN s = DOMAIN ZeroBoard /\ \A field \in SumFields : s[field] = status[d][field]
  BY PushSums DEF CountInv
<1> HIDE DEF s
<1>3. \A e \in Devices : /\ DOMAIN status'[e] = DOMAIN ZeroBoard
                         /\ \A field \in SumFields : status'[e][field] = status[e][field]
  BY <1>1, <1>2 DEF CountInv
<1>4. \A e \in Devices : exec_status[e] = NoStatus
  BY <1>1 DEF CountInv
<1>5. trial'.optimal = NoStatus
  BY <1>1 DEF NoTrial
<1>6. Summed(trial'.optimal)
  BY <1>5 DEF Summed, SumFields, NoStatus
<1>7. DOMAIN status' = Devices
  BY <1>1 DEF CountInv
<1>8. \A e \in Devices : Summed(status'[e])
  BY <1>3 DEF CountInv, Summed
<1>9. Collected'
  <2>1. Collected
    BY DEF CountInv
  <2>2. \A e \in Devices : \A field \in SumFields :
          (status[e][field] + exec_status[e][field] = Delivered(board[e], field))'
    BY <1>1, <1>3, <2>1, CollectedIs
  <2> QED BY <2>2, CollectedNext
<1> QED BY <1>1, <1>3, <1>4, <1>6, <1>7, <1>8, <1>9 DEF CountInv

LEMMA CountTry ==
  ASSUME PlaceInv, CountInv, NEW d \in Devices, Try(d)
  PROVE  CountInv'
<1> DEFINE p == Head(trial.left)
           i == [CallOf(d).info EXCEPT !.cols = trial.cols]
           e == executePType(system, CallOf(d), p, i, work[d].batch, execution_time_cache, dram[d])
<1>1. /\ turn = d /\ trial.step = "try" /\ trial.left # << >>
      /\ UNCHANGED << turn, exec_status, status, board >>
  BY DEF Try, Runs
<1>2. trial' = [trial EXCEPT
                  !.left = Tail(@),
                  !.optimal = IF Better(@, e.status) THEN e.status ELSE @,
                  !.tried = Append(@, e.status),
                  !.cols = IF CallOf(d).layer = "ATTENTION_SUM"
                           THEN ColsAfterSum(i, p) ELSE @]
  BY DEF Try
<1>3. Summed(e.status)
  BY <1>1, ExecutionSums
<1> HIDE DEF e, i, p
<1>4. {"step", "optimal"} \subseteq DOMAIN trial
  BY DEF PlaceInv, NoTrial
<1>5. trial'.optimal = (IF Better(trial.optimal, e.status) THEN e.status ELSE trial.optimal)
      /\ trial'.step = "try"
  BY <1>1, <1>2, <1>4
<1>6. Summed(trial'.optimal)
  BY <1>1, <1>3, <1>5 DEF CountInv
<1>7. \A x \in Devices : exec_status[x] = NoStatus
  BY <1>1 DEF CountInv
<1>8. Collected'
  BY <1>1 DEF CountInv, Collected
<1> QED BY <1>1, <1>6, <1>7, <1>8 DEF CountInv

LEMMA CountDeliver ==
  ASSUME PlaceInv, CountInv, NEW d \in Devices, Deliver(d)
  PROVE  CountInv'
<1>1. /\ turn = d /\ trial.step = "try"
      /\ exec_status' = [exec_status EXCEPT ![d] = trial.optimal]
      /\ board' = [board EXCEPT ![d] = Append(@, trial.optimal)]
      /\ trial' = [trial EXCEPT !.step = "pop"]
      /\ UNCHANGED << turn, status >>
  BY DEF Deliver, Runs
<1>2. Summed(trial.optimal) /\ trial'.step = "pop"
  <2>1. "step" \in DOMAIN trial
    BY DEF PlaceInv, NoTrial
  <2> QED BY <1>1, <2>1 DEF CountInv
<1>3. \A e \in Devices : exec_status[e] = NoStatus
  BY <1>1 DEF CountInv
<1>4. PICK S : board[d] \in Seq(S)
  BY DEF CountInv
<1>5. /\ DOMAIN exec_status' = Devices /\ DOMAIN board' = Devices
      /\ exec_status'[d] = trial.optimal /\ board'[d] = Append(board[d], trial.optimal)
      /\ \A e \in Devices : e # d => exec_status'[e] = exec_status[e] /\ board'[e] = board[e]
  BY <1>1 DEF CountInv
<1>6. /\ \E T : board'[d] \in Seq(T)
      /\ \A k \in DOMAIN board'[d] : Summed(board'[d][k])
  <2> DEFINE T == S \cup {trial.optimal}
             b == board[d]
             x == trial.optimal
  <2>1. b \in Seq(T)
    <3>1. Len(b) \in Nat /\ b \in [1 .. Len(b) -> T]
      BY <1>4
    <3> QED BY <3>1, SequenceOfFunction
  <2>2. x \in T /\ \A k \in DOMAIN b : Summed(b[k])
    BY DEF CountInv
  <2>3. Summed(x)
    BY <1>2
  <2> HIDE DEF T, b, x
  <2>4. Append(b, x) \in Seq(T) /\ DOMAIN Append(b, x) = 1 .. Len(b) + 1 /\ DOMAIN b = 1 .. Len(b)
        /\ Len(b) \in Nat
    BY <2>1, <2>2
  <2>5. ASSUME NEW k \in 1 .. Len(b) + 1 PROVE Summed(Append(b, x)[k])
    <3>1. k = Len(b) + 1 \/ k \in 1 .. Len(b)
      BY <2>4
    <3>2. k \in 1 .. Len(b) => Append(b, x)[k] = b[k]
      BY <2>1, <2>2
    <3>3. Append(b, x)[Len(b) + 1] = x
      BY <2>1, <2>2
    <3> QED BY <2>2, <2>3, <2>4, <3>1, <3>2, <3>3
  <2> QED BY <1>5, <2>4, <2>5 DEF b, x
<1>7. ASSUME NEW field \in SumFields
      PROVE  (status[d][field] + exec_status[d][field] = Delivered(board[d], field))'
  <2>1. status[d][field] + exec_status[d][field] = Delivered(board[d], field)
    BY CollectedIs DEF CountInv
  <2>2. exec_status[d][field] = 0
    BY <1>3 DEF NoStatus, SumFields
  <2>3. trial.optimal[field] \in Nat /\ \A k \in DOMAIN board[d] : board[d][k][field] \in Nat
    BY <1>2 DEF CountInv, Summed
  <2>4. Delivered(board'[d], field) = Delivered(board[d], field) + trial.optimal[field]
    BY <1>4, <1>5, <2>3, DeliveredAppend
  <2>5. status[d][field] \in Nat /\ status'[d][field] = status[d][field]
    BY <1>1 DEF CountInv, Summed
  <2> QED BY <1>5, <2>1, <2>2, <2>3, <2>4, <2>5
<1>8. Collected'
  <2>1. ASSUME NEW e \in Devices, NEW field \in SumFields
        PROVE  (status[e][field] + exec_status[e][field] = Delivered(board[e], field))'
    <3>1. CASE e = d
      BY <1>7, <3>1
    <3>2. CASE e # d
      <4>1. status[e][field] + exec_status[e][field] = Delivered(board[e], field)
        BY CollectedIs DEF CountInv
      <4> QED BY <1>1, <1>5, <3>2, <4>1
    <3> QED BY <3>1, <3>2
  <2> QED BY <2>1, CollectedNext
<1>9. ASSUME NEW e \in Devices
      PROVE  /\ Summed(exec_status'[e])
             /\ \E T : board'[e] \in Seq(T)
             /\ \A k \in DOMAIN board'[e] : Summed(board'[e][k])
             /\ exec_status'[e] # NoStatus => e = turn' /\ trial'.step = "pop"
  <2>1. CASE e = d
    BY <1>1, <1>2, <1>5, <1>6, <2>1
  <2>2. CASE e # d
    BY <1>3, <1>5, <2>2 DEF CountInv
  <2> QED BY <2>1, <2>2
<1> QED BY <1>1, <1>2, <1>5, <1>8, <1>9 DEF CountInv

LEMMA CountPop ==
  ASSUME PlaceInv, CountInv, NEW d \in Devices, Pop(d)
  PROVE  CountInv'
<1> DEFINE s == set_pop_status(status[d], CallOf(d).out.lane, exec_status[d])
<1>1. /\ turn = d /\ trial.step = "pop"
      /\ status' = [status EXCEPT ![d] = s]
      /\ exec_status' = [exec_status EXCEPT ![d] = NoStatus]
      /\ trial' = NoTrial
      /\ UNCHANGED << turn, board >>
  BY DEF Pop, Runs, Taken
<1>2. /\ DOMAIN s = DOMAIN ZeroBoard /\ Summed(s)
      /\ \A field \in SumFields : s[field] = status[d][field] + exec_status[d][field]
  BY PopSums DEF CountInv
<1> HIDE DEF s
<1>3. /\ DOMAIN status' = Devices /\ DOMAIN exec_status' = Devices
      /\ status'[d] = s /\ exec_status'[d] = NoStatus
      /\ \A e \in Devices : e # d => status'[e] = status[e] /\ exec_status'[e] = exec_status[e]
  BY <1>1 DEF CountInv
<1>4. \A e \in Devices : e # d => exec_status[e] = NoStatus
  BY <1>1 DEF CountInv
<1>5. Summed(NoStatus) /\ NoTrial.step = "push" /\ \A field \in SumFields : NoStatus[field] = 0
  BY DEF Summed, SumFields, NoStatus, NoTrial
<1>6. Collected'
  <2>1. ASSUME NEW e \in Devices, NEW field \in SumFields
        PROVE  (status[e][field] + exec_status[e][field] = Delivered(board[e], field))'
    <3>1. status[e][field] + exec_status[e][field] = Delivered(board[e], field)
      BY CollectedIs DEF CountInv
    <3>2. CASE e = d
      <4>1. s[field] + NoStatus[field] = status[e][field] + exec_status[e][field]
        <5>1. status[d][field] \in Nat /\ exec_status[d][field] \in Nat
          BY DEF CountInv, Summed
        <5> QED BY <1>2, <1>5, <3>2, <5>1
      <4> QED BY <1>1, <1>3, <3>1, <3>2, <4>1
    <3>3. CASE e # d
      BY <1>1, <1>3, <3>1, <3>3
    <3> QED BY <3>2, <3>3
  <2> QED BY <2>1, CollectedNext
<1>7. ASSUME NEW e \in Devices
      PROVE  /\ Summed(exec_status'[e])
             /\ DOMAIN status'[e] = DOMAIN ZeroBoard /\ Summed(status'[e])
             /\ exec_status'[e] = NoStatus
  BY <1>2, <1>3, <1>4, <1>5 DEF CountInv
<1> QED BY <1>1, <1>3, <1>5, <1>6, <1>7 DEF CountInv

LEMMA CountSynchronise ==
  ASSUME PlaceInv, CountInv, NEW d \in Devices, Synchronise(d)
  PROVE  CountInv'
<1>1. /\ trial.step = "push" /\ UNCHANGED << turn, trial, exec_status, board >>
  BY DEF Synchronise
<1> DEFINE after(e, latest) == [Joined(status[e]) EXCEPT !.device = latest]
<1>2. PICK latest : status' = [e \in Devices |-> IF e \in Group(d) THEN after(e, latest) ELSE status[e]]
  BY DEF Synchronise
<1>3. ASSUME NEW e \in Devices
      PROVE  /\ DOMAIN status'[e] = DOMAIN ZeroBoard
             /\ \A field \in SumFields : status'[e][field] = status[e][field]
  <2>1. DOMAIN status[e] = DOMAIN ZeroBoard
    BY DEF CountInv
  <2>2. {"device", "high", "low", "flops", "bytes", "commands"} \subseteq DOMAIN status[e]
    BY <2>1 DEF ZeroBoard
  <2> DEFINE j == Joined(status[e])
  <2>3. DOMAIN j = DOMAIN status[e] /\ \A field \in SumFields : j[field] = status[e][field]
    BY <2>2 DEF Joined, SumFields
  <2> HIDE DEF j
  <2>4. /\ DOMAIN after(e, latest) = DOMAIN j
        /\ \A field \in SumFields : after(e, latest)[field] = j[field]
    BY <2>2, <2>3 DEF SumFields, j
  <2>5. status'[e] = after(e, latest) \/ status'[e] = status[e]
    BY <1>2
  <2> HIDE DEF after
  <2> QED BY <2>1, <2>3, <2>4, <2>5
<1>4. DOMAIN status' = Devices /\ \A e \in Devices : Summed(status'[e])
  BY <1>2, <1>3 DEF CountInv, Summed
<1>5. Collected'
  <2>1. Collected
    BY DEF CountInv
  <2>2. \A e \in Devices : \A field \in SumFields :
          (status[e][field] + exec_status[e][field] = Delivered(board[e], field))'
    BY <1>1, <1>3, <2>1, CollectedIs
  <2> QED BY <2>2, CollectedNext
<1> QED BY <1>1, <1>3, <1>4, <1>5 DEF CountInv

LEMMA CountNextDevice ==
  ASSUME PlaceInv, CountInv, NEW d \in Devices, NextDevice(d)
  PROVE  CountInv'
<1>1. /\ turn = d /\ (~Ends(d) => trial.step = "push")
      /\ UNCHANGED << trial, exec_status, status, board >>
  BY DEF NextDevice
<1>2. trial.step = "push"
  BY <1>1 DEF PlaceInv
<1>3. \A e \in Devices : exec_status[e] = NoStatus
  BY <1>2 DEF CountInv
<1>4. Collected'
  BY <1>1 DEF CountInv, Collected
<1> QED BY <1>1, <1>2, <1>3, <1>4 DEF CountInv

LEMMA CountRestart ==
  ASSUME PlaceInv, CountInv, Restart
  PROVE  CountInv'
<1>1. /\ AllDone /\ UNCHANGED << trial, exec_status >>
      /\ status' = [d \in Devices |-> ZeroBoard]
      /\ board' = [d \in Devices |-> << >>]
  BY DEF Restart, Ready
<1>2. trial.step = "push"
  BY <1>1 DEF PlaceInv, AllDone
<1>3. \A d \in Devices : exec_status[d] = NoStatus
  BY <1>2 DEF CountInv
<1>4. Summed(ZeroBoard) /\ Summed(NoStatus)
  BY DEF Summed, SumFields, ZeroBoard, NoStatus
<1>5. \A d \in Devices : board'[d] = << >> /\ board'[d] \in Seq({}) /\ DOMAIN board'[d] = {}
  BY <1>1
<1>6. Collected'
  <2>1. ASSUME NEW e \in Devices, NEW field \in SumFields
        PROVE  (status[e][field] + exec_status[e][field] = Delivered(board[e], field))'
    <3>1. status'[e][field] = 0 /\ exec_status'[e][field] = 0
      BY <1>1, <1>3 DEF SumFields, NoStatus, ZeroBoard
    <3>2. Delivered(board'[e], field) = 0
      BY <1>5, TotalEmpty DEF Delivered
    <3> QED BY <3>1, <3>2
  <2> QED BY <2>1, CollectedNext
<1> QED BY <1>1, <1>2, <1>3, <1>4, <1>5, <1>6 DEF CountInv

LEMMA CountStep == PlaceInv /\ CountInv /\ [Next]_vars => CountInv'
<1> SUFFICES ASSUME PlaceInv, CountInv, [Next]_vars PROVE CountInv'
  OBVIOUS
<1>1. ASSUME NEW d \in Devices,
             Push(d) \/ Try(d) \/ Deliver(d) \/ Pop(d) \/ Synchronise(d) \/ NextDevice(d)
      PROVE  CountInv'
  BY <1>1, CountPush, CountTry, CountDeliver, CountPop, CountSynchronise, CountNextDevice
<1>2. CASE Restart
  BY <1>2, CountRestart
<1>3. CASE UNCHANGED vars
  BY <1>3 DEF vars, CountInv, Collected
<1> QED BY <1>1, <1>2, <1>3 DEF Next

\* Every execution is charged once, by the pop of its own module, whatever the
\* graphs, the processors and the costs: none is lost, none charged twice.
THEOREM CollectedHolds == Spec => []Collected
<1>1. Init => PlaceInv /\ CountInv
  BY PlaceInit, CountInit
<1>2. PlaceInv /\ CountInv /\ [Next]_vars => (PlaceInv /\ CountInv)'
  BY PlaceStep, CountStep
<1>3. PlaceInv /\ CountInv => Collected
  BY DEF CountInv
<1> QED BY <1>1, <1>2, <1>3, PTL DEF Spec
---------------------------------------------------------------------------
(* The simulated transfers: the cache only grows, and what is charged is   *)
(* what the cache then holds.                                              *)

Requests == {"kRead", "kWrite", "kGEMV"}

\* The DRAM simulator returns a time.
RamulatorTimes ==
  \A clock, bytes \in Nat : \A p \in Processor : \A req \in Requests :
    Ramulator(clock, p, req, bytes) \in Nat

\* It never takes no time for a transfer of some bytes: DRAMInterface::run ticks the
\* memory system at least once for every request.
RamulatorTakesTime ==
  \A clock \in Nat, bytes \in Nat \ {0} : \A p \in Processor : \A req \in Requests :
    Ramulator(clock, p, req, bytes) # 0

\* Then no cached time of such a transfer is zero.
Timed(cache) ==
  RamulatorTakesTime => \A key \in DOMAIN cache : key[4] # 0 => cache[key] # 0
CacheType(cache) == cache \in [DOMAIN cache -> Nat] /\ Timed(cache)
Caches(keys) == { c \in UNION { [D -> Nat] : D \in SUBSET keys } : Timed(c) }
DramStates(keys) == [cache : Caches(keys), clock : Nat, times : Seq(Nat)]
KeyOf(layer, precision, move) == CacheKey(layer, move, move.size * precision)
Grown(c, b) == DOMAIN b \subseteq DOMAIN c /\ \A k \in DOMAIN b : c[k] = b[k]

LEMMA CacheOf ==
  ASSUME NEW keys, NEW c
  PROVE  c \in Caches(keys) <=> CacheType(c) /\ DOMAIN c \subseteq keys
<1>1. ASSUME c \in UNION { [D -> Nat] : D \in SUBSET keys }
      PROVE  c \in [DOMAIN c -> Nat] /\ DOMAIN c \subseteq keys
  <2>1. PICK D \in SUBSET keys : c \in [D -> Nat]
    BY <1>1
  <2>2. DOMAIN c = D
    BY <2>1
  <2> QED BY <2>1, <2>2
<1>2. ASSUME c \in [DOMAIN c -> Nat] /\ DOMAIN c \subseteq keys
      PROVE  c \in UNION { [D -> Nat] : D \in SUBSET keys }
  <2> DEFINE E == DOMAIN c
  <2>1. E \in SUBSET keys /\ c \in [E -> Nat]
    BY <1>2
  <2> HIDE DEF E
  <2> QED BY <2>1
<1> QED BY <1>1, <1>2 DEF Caches, CacheType

LEMMA IssueOne ==
  ASSUME RamulatorTimes, NEW keys, NEW st \in DramStates(keys), NEW move \in Move,
         NEW precision \in Nat, NEW hw \in Processor, NEW layer, KeyOf(layer, precision, move) \in keys
  PROVE  LET r == issueRamulator(layer, hw, precision, st, move)
             key == KeyOf(layer, precision, move)
         IN /\ r \in DramStates(keys) /\ Grown(r.cache, st.cache)
            /\ key \in DOMAIN r.cache /\ r.times = Append(st.times, r.cache[key])
<1> DEFINE key == KeyOf(layer, precision, move)
           time == IF key \in DOMAIN st.cache THEN st.cache[key]
                   ELSE Ramulator(st.clock, hw, move.req, move.size * precision)
           r == issueRamulator(layer, hw, precision, st, move)
           old == st.cache
           new == addExecutionCache(old, key, time)
<1>1. /\ st.clock \in Nat /\ st.times \in Seq(Nat)
      /\ old \in Caches(keys)
      /\ st = [cache |-> st.cache, clock |-> st.clock, times |-> st.times]
  BY DEF DramStates
<1>2. old \in [DOMAIN old -> Nat] /\ DOMAIN old \subseteq keys /\ Timed(old)
  <2> HIDE DEF old
  <2> QED BY <1>1, CacheOf DEF CacheType
<1>3. time \in Nat /\ (RamulatorTakesTime /\ key[4] # 0 => time # 0)
  <2>1. move.size \in Nat /\ move.req \in Requests
    BY DEF Move, Requests
  <2>2. move.size * precision \in Nat
    BY <2>1
  <2>3. Ramulator(st.clock, hw, move.req, move.size * precision) \in Nat
    BY <1>1, <2>1, <2>2 DEF RamulatorTimes
  <2>4. key[4] = move.size * precision
    BY DEF KeyOf, CacheKey
  <2>5. RamulatorTakesTime /\ key[4] # 0 => Ramulator(st.clock, hw, move.req, move.size * precision) # 0
    BY <1>1, <2>1, <2>2, <2>4 DEF RamulatorTakesTime
  <2>6. RamulatorTakesTime /\ key \in DOMAIN old /\ key[4] # 0 => old[key] # 0
    BY <1>2 DEF Timed
  <2> HIDE DEF key
  <2> QED BY <1>2, <2>3, <2>5, <2>6
<1>4. CASE key \in DOMAIN old
  <2>1. r = [st EXCEPT !.times = Append(@, time)] /\ time = old[key]
    BY <1>4 DEF issueRamulator, KeyOf
  <2> HIDE DEF r, key, time
  <2>2. r.cache = old /\ r.clock = st.clock /\ r.times = Append(st.times, time)
        /\ r = [cache |-> r.cache, clock |-> r.clock, times |-> r.times]
    BY <1>1, <2>1
  <2>3. Append(st.times, time) \in Seq(Nat)
    BY <1>1, <1>3
  <2>4. r \in DramStates(keys)
    BY <1>1, <2>2, <2>3 DEF DramStates
  <2> QED BY <1>4, <2>1, <2>2, <2>4 DEF Grown, r, key
<1>5. CASE key \notin DOMAIN old
  <2>1. r = [cache |-> new, clock |-> st.clock + time, times |-> Append(st.times, time)]
    BY <1>5 DEF issueRamulator, KeyOf
  <2>2. /\ DOMAIN new = DOMAIN old \cup {key} /\ new[key] = time
        /\ \A k \in DOMAIN old : new[k] = old[k]
        /\ new \in [DOMAIN old \cup {key} -> Nat]
    <3> HIDE DEF key, time, old
    <3> QED BY <1>2, <1>3, <1>5 DEF addExecutionCache
  <2> HIDE DEF r, key, time, new, old
  <2>3. new \in Caches(keys)
    <3>1. new \in [DOMAIN new -> Nat] /\ DOMAIN new \subseteq keys
      BY <1>2, <2>2 DEF key
    <3>2. Timed(new)
      BY <1>2, <1>3, <2>2 DEF Timed
    <3> QED BY <3>1, <3>2, CacheOf DEF CacheType
  <2>4. Append(st.times, time) \in Seq(Nat) /\ st.clock + time \in Nat
    BY <1>1, <1>3
  <2>5. r \in DramStates(keys)
    BY <2>1, <2>3, <2>4 DEF DramStates
  <2>6. r.cache = new /\ r.times = Append(st.times, time)
    BY <2>1
  <2> QED BY <2>2, <2>5, <2>6 DEF Grown, r, key, old
<1> QED BY <1>4, <1>5
\* The fold of RunRamulator over the transfers of a phase, as the library has it.
IssueFold(layer, hw, precision, base, moves) ==
  (CHOOSE h : h = [T \in SUBSET DOMAIN moves |->
                     IF T = {} THEN base
                     ELSE issueRamulator(layer, hw, precision, h[T \ {Max(T)}], moves[Max(T)])])
    [DOMAIN moves]

\* What the simulated transfers of a phase leave, from an empty list of times.
IssuedBy(r, base, layer, precision, moves, keys) ==
  /\ r \in DramStates(keys) /\ Grown(r.cache, base.cache) /\ Len(r.times) = Len(moves)
  /\ \A k \in 1 .. Len(moves) : /\ KeyOf(layer, precision, moves[k]) \in DOMAIN r.cache
                                /\ r.times[k] = r.cache[KeyOf(layer, precision, moves[k])]

LEMMA IssueAll ==
  ASSUME RamulatorTimes, NEW keys, NEW base \in DramStates(keys), base.times = << >>,
         NEW moves \in Seq(Move), NEW precision \in Nat, NEW hw \in Processor, NEW layer,
         \A k \in 1 .. Len(moves) : KeyOf(layer, precision, moves[k]) \in keys
  PROVE  IssuedBy(IssueFold(layer, hw, precision, base, moves), base, layer, precision, moves, keys)
<1> DEFINE n == Len(moves)
           V == DramStates(keys)
           key(k) == KeyOf(layer, precision, moves[k])
           step(v, k) == issueRamulator(layer, hw, precision, v, moves[k])
           F == [z \in V \X (1 .. n) |-> step(z[1], z[2])]
<1>1. n \in Nat /\ DOMAIN moves = 1 .. n /\ \A k \in 1 .. n : moves[k] \in Move
  OBVIOUS
<1>2. IsFiniteSet(1 .. n) /\ 1 .. n \subseteq Int
  BY <1>1, FS_Interval
<1>3. ASSUME NEW v \in V, NEW k \in 1 .. n
      PROVE  /\ step(v, k) \in V /\ Grown(step(v, k).cache, v.cache)
             /\ key(k) \in DOMAIN step(v, k).cache
             /\ step(v, k).times = Append(v.times, step(v, k).cache[key(k)])
  <2>1. moves[k] \in Move /\ KeyOf(layer, precision, moves[k]) \in keys
    BY <1>1
  <2> QED BY <2>1, IssueOne
<1> HIDE DEF n, V
<1>4. F \in [V \X (1 .. n) -> V] /\ \A v \in V : \A k \in 1 .. n : F[<< v, k >>] = step(v, k)
  <2> HIDE DEF step
  <2> QED BY <1>3
<1>5. base \in V
  BY DEF V
<1> HIDE DEF F
<1>6. PICK g : FoldTable(g, F, base, 1 .. n)
  BY <1>2, FoldExists
<1>7. \A T \in SUBSET (1 .. n) : g[T] \in V
  BY <1>2, <1>4, <1>5, <1>6, FoldClosed
<1> DEFINE op(v, move) == issueRamulator(layer, hw, precision, v, move)
           Fold(h) == h = [T \in SUBSET (1 .. n) |->
                             IF T = {} THEN base ELSE op(h[T \ {Max(T)}], moves[Max(T)])]
           it == CHOOSE h : Fold(h)
<1>8. IssueFold(layer, hw, precision, base, moves) = it[1 .. n]
  BY <1>1 DEF IssueFold
<1>9. \A T \in SUBSET (1 .. n) : T # {} => Max(T) \in T
  BY <1>2, MaxMember
<1>10. Fold(g)
  <2>1. ASSUME NEW T \in SUBSET (1 .. n)
        PROVE  g[T] = IF T = {} THEN base ELSE op(g[T \ {Max(T)}], moves[Max(T)])
    <3>1. CASE T = {}
      BY <1>6, <3>1 DEF FoldTable
    <3>2. CASE T # {}
      <4>1. Max(T) \in 1 .. n /\ g[T \ {Max(T)}] \in V
        BY <1>7, <1>9, <3>2
      <4>2. g[T] = F[<< g[T \ {Max(T)}], Max(T) >>]
        BY <1>6, <3>2 DEF FoldTable
      <4> QED BY <1>4, <3>2, <4>1, <4>2
    <3> QED BY <3>1, <3>2
  <2>2. g = [T \in SUBSET (1 .. n) |-> g[T]]
    BY <1>6 DEF FoldTable
  <2> HIDE DEF op
  <2> QED BY <2>1, <2>2
<1>11. Fold(it)
  <2> HIDE DEF Fold
  <2> QED BY <1>10
<1>12. it[1 .. n] = g[1 .. n]
  <2> DEFINE Good == { T \in SUBSET (1 .. n) : it[T] = g[T] }
  <2>1. ASSUME NEW T \in SUBSET (1 .. n), \A U \in SUBSET T : U # T => U \in Good
        PROVE  it[T] = g[T]
    <3> HIDE DEF it, op
    <3>1. CASE T = {}
      BY <1>10, <1>11, <3>1
    <3>2. CASE T # {}
      <4>1. T \ {Max(T)} \in Good
        BY <1>9, <2>1, <3>2
      <4>2. /\ it[T] = op(it[T \ {Max(T)}], moves[Max(T)])
            /\ g[T] = op(g[T \ {Max(T)}], moves[Max(T)])
        BY <1>10, <1>11, <3>2
      <4> QED BY <4>1, <4>2
    <3> QED BY <3>1, <3>2
  <2>2. \A T \in SUBSET (1 .. n) : (\A U \in SUBSET T : U # T => U \in Good) => T \in Good
    BY <2>1
  <2> HIDE DEF Good, it
  <2> DEFINE I == 1 .. n
  <2>3. IsFiniteSet(I) /\ \A T \in SUBSET I : (\A U \in SUBSET T : U # T => U \in Good) => T \in Good
    BY <1>2, <2>2
  <2> HIDE DEF I
  <2>4. SUBSET I \subseteq Good
    BY <2>3, SubsetInduction
  <2> QED BY <2>4 DEF Good, I
<1> HIDE DEF it, op
<1> DEFINE Right(j, v) == /\ Grown(v.cache, base.cache) /\ Len(v.times) = j
                          /\ \A k \in 1 .. j : /\ key(k) \in DOMAIN v.cache
                                               /\ v.times[k] = v.cache[key(k)]
           Good == { z \in (0 .. n) \X V : Right(z[1], z[2]) }
<1>13. << 0, base >> \in Good
  <2>1. Right(0, base)
    <3>1. Grown(base.cache, base.cache) /\ Len(base.times) = 0 /\ 1 .. 0 = {}
      BY DEF Grown
    <3> QED BY <3>1
  <2> HIDE DEF Right
  <2> QED BY <1>1, <1>5, <2>1
<1>14. ASSUME NEW j \in 0 .. n - 1, NEW v, << j, v >> \in Good
       PROVE  << j + 1, F[<< v, j + 1 >>] >> \in Good
  <2> DEFINE w == step(v, j + 1)
             t == w.cache[key(j + 1)]
  <2>1. v \in V /\ Right(j, v) /\ j + 1 \in 1 .. n /\ j + 1 \in 0 .. n /\ j \in Nat
    BY <1>1, <1>14
  <2>2. /\ w \in V /\ Grown(w.cache, v.cache) /\ key(j + 1) \in DOMAIN w.cache
        /\ w.times = Append(v.times, t)
    BY <1>3, <2>1
  <2>3. F[<< v, j + 1 >>] = w
    BY <1>4, <2>1
  <2>4. v.times \in Seq(Nat) /\ w.times \in Seq(Nat) /\ w.cache \in [DOMAIN w.cache -> Nat]
    <3>1. /\ v.times \in Seq(Nat) /\ w.times \in Seq(Nat)
          /\ w.cache \in Caches(keys)
      <4> HIDE DEF w
      <4> QED BY <2>1, <2>2 DEF V, DramStates
    <3> DEFINE c == w.cache
    <3>2. c \in [DOMAIN c -> Nat]
      <4> HIDE DEF c
      <4>1. c \in Caches(keys)
        BY <3>1 DEF c
      <4> QED BY <4>1, CacheOf DEF CacheType
    <3> QED BY <3>1, <3>2
  <2> HIDE DEF w, key
  <2>5. t \in Nat
    BY <2>2, <2>4
  <2>6. Grown(w.cache, base.cache)
    BY <2>1, <2>2 DEF Grown
  <2>7. /\ Len(w.times) = j + 1 /\ w.times[j + 1] = t
        /\ \A k \in 1 .. j : w.times[k] = v.times[k]
    <3> HIDE DEF t
    <3> QED BY <2>1, <2>2, <2>4, <2>5
  <2>8. ASSUME NEW k \in 1 .. j + 1
        PROVE  key(k) \in DOMAIN w.cache /\ w.times[k] = w.cache[key(k)]
    <3>1. CASE k = j + 1
      BY <2>2, <2>7, <3>1
    <3>2. CASE k # j + 1
      <4>1. k \in 1 .. j
        BY <2>1, <3>2
      <4>2. key(k) \in DOMAIN v.cache /\ v.times[k] = v.cache[key(k)]
        BY <2>1, <4>1
      <4> QED BY <2>2, <2>7, <4>1, <4>2 DEF Grown
    <3> QED BY <3>1, <3>2
  <2>9. Right(j + 1, w)
    BY <2>6, <2>7, <2>8
  <2> HIDE DEF Right
  <2> QED BY <2>1, <2>2, <2>3, <2>9
<1> HIDE DEF Good
<1>15. \A j \in 0 .. n : << j, g[1 .. j] >> \in Good
  BY <1>1, <1>6, <1>13, <1>14, FoldInduction
<1>16. g[1 .. n] \in V /\ Right(n, g[1 .. n])
  <2>1. n \in 0 .. n
    BY <1>1
  <2> QED BY <1>15, <2>1 DEF Good
<1> DEFINE r == IssueFold(layer, hw, precision, base, moves)
<1>17. r = g[1 .. n]
  BY <1>8, <1>12
<1> HIDE DEF r
<1>18. IssuedBy(r, base, layer, precision, moves, keys)
  BY <1>16, <1>17 DEF IssuedBy, V, n
<1> QED BY <1>18 DEF r
\* What a phase costs when its simulated transfers take what the cache holds.
CachedCost(layer, precision, phase, cache) ==
  PhaseTime(phase, IF phase.charged = << >> THEN phase.memory
                   ELSE Total([k \in DOMAIN phase.charged |->
                                 cache[KeyOf(layer, precision, phase.ram[phase.charged[k]])]]))
CachedTotal(layer, precision, phases, cache) ==
  Total([k \in 1 .. Len(phases) |-> CachedCost(layer, precision, phases[k], cache)])
\* All of their transfers are in the cache.
InCache(layer, precision, phases, cache) ==
  \A k \in 1 .. Len(phases) : \A j \in 1 .. Len(phases[k].ram) :
    KeyOf(layer, precision, phases[k].ram[j]) \in DOMAIN cache

\* The step of RunRamulator.
PhaseStep(layer, hw, precision, acc, phase) ==
  LET d == IssueFold(layer, hw, precision, [acc.dram EXCEPT !.times = << >>], phase.ram)
      charged == Total([k \in DOMAIN phase.charged |-> d.times[phase.charged[k]]])
  IN [total |-> acc.total + PhaseTime(phase, IF phase.charged = << >> THEN phase.memory ELSE charged),
      dram  |-> d]

LEMMA RamulatorFold ==
  ASSUME NEW layer, NEW hw, NEW precision, NEW phases, NEW dr
  PROVE  RunRamulator(layer, hw, precision, phases, dr)
           = (CHOOSE h : h = [T \in SUBSET DOMAIN phases |->
                                IF T = {} THEN [total |-> 0, dram |-> dr]
                                ELSE PhaseStep(layer, hw, precision, h[T \ {Max(T)}], phases[Max(T)])])
               [DOMAIN phases]
BY DEF RunRamulator, FoldLeft, MapThenFoldSet, PhaseStep, IssueFold

OnePhase(phase) ==
  /\ phase \in PhaseType
  /\ \A j \in DOMAIN phase.charged : phase.charged[j] \in DOMAIN phase.ram
  /\ phase.opb # << >> => Len(phase.opb) = 2 /\ phase.opb[2] # 0

LEMMA PhaseTimeType ==
  ASSUME NEW phase, OnePhase(phase), NEW memory \in Nat
  PROVE  PhaseTime(phase, memory) \in Nat
<1>2. phase.compute \in Nat /\ phase.opb \in Seq(Nat)
      /\ (phase.opb # << >> => Len(phase.opb) = 2 /\ phase.opb[2] # 0)
  BY DEF PhaseType, OnePhase
<1>3. CASE phase.opb = << >>
  BY <1>2, <1>3 DEF PhaseTime, Larger
<1>4. CASE phase.opb # << >>
  <2>1. phase.opb[1] \in Nat /\ phase.opb[2] \in Nat \ {0}
    BY <1>2, <1>4
  <2>2. memory * phase.opb[1] \in Nat
    BY <2>1
  <2>3. (memory * phase.opb[1]) \div phase.opb[2] \in Nat
    BY <2>1, <2>2, QuotientType
  <2> QED BY <1>4, <2>3 DEF PhaseTime
<1> QED BY <1>3, <1>4

\* What is known of a phase.
LEMMA PhaseOf ==
  ASSUME NEW phases, Countable(phases), NEW k \in 1 .. Len(phases)
  PROVE  /\ phases[k].ram \in Seq(Move) /\ phases[k].ideal \in Seq(Move)
         /\ phases[k].memory \in Nat /\ phases[k].compute \in Nat
         /\ phases[k].charged \in Seq(Nat)
         /\ \A j \in DOMAIN phases[k].charged : phases[k].charged[j] \in DOMAIN phases[k].ram
         /\ OnePhase(phases[k])
<1>1. phases \in Seq(PhaseType)
  BY DEF Countable
<1>2. k \in DOMAIN phases /\ phases[k] \in PhaseType
  BY <1>1, SeqDomain
<1>3. /\ \A j \in DOMAIN phases[k].charged : phases[k].charged[j] \in DOMAIN phases[k].ram
      /\ phases[k].opb # << >> => Len(phases[k].opb) = 2 /\ phases[k].opb[2] # 0
  BY <1>2 DEF Countable
<1>4. OnePhase(phases[k])
  BY <1>2, <1>3 DEF OnePhase
<1> QED BY <1>2, <1>3, <1>4 DEF PhaseType

\* A cost is settled once its transfers are in the cache.
LEMMA CostSettled ==
  ASSUME NEW phase, phase.ram \in Seq(Move), NEW layer, NEW precision, NEW b, NEW c, Grown(c, b),
         \A j \in DOMAIN phase.charged : phase.charged[j] \in DOMAIN phase.ram,
         \A j \in 1 .. Len(phase.ram) : KeyOf(layer, precision, phase.ram[j]) \in DOMAIN b
  PROVE  CachedCost(layer, precision, phase, c) = CachedCost(layer, precision, phase, b)
<1> DEFINE key(j) == KeyOf(layer, precision, phase.ram[phase.charged[j]])
<1>2. \A j \in DOMAIN phase.charged : c[key(j)] = b[key(j)]
  <2>1. ASSUME NEW j \in DOMAIN phase.charged PROVE key(j) \in DOMAIN b
    <3>1. phase.charged[j] \in 1 .. Len(phase.ram)
      OBVIOUS
    <3> QED BY <3>1
  <2> HIDE DEF key
  <2> QED BY <2>1 DEF Grown
<1>3. [j \in DOMAIN phase.charged |-> c[key(j)]] = [j \in DOMAIN phase.charged |-> b[key(j)]]
  <2> HIDE DEF key
  <2> QED BY <1>2
<1> QED BY <1>3 DEF CachedCost

LEMMA TotalSettled ==
  ASSUME NEW phases, Countable(phases), NEW layer, NEW precision, NEW b, NEW c, Grown(c, b),
         InCache(layer, precision, phases, b)
  PROVE  /\ CachedTotal(layer, precision, phases, c) = CachedTotal(layer, precision, phases, b)
         /\ InCache(layer, precision, phases, c)
<1>1. \A k \in 1 .. Len(phases) : CachedCost(layer, precision, phases[k], c)
                                    = CachedCost(layer, precision, phases[k], b)
  <2> SUFFICES ASSUME NEW k \in 1 .. Len(phases)
               PROVE  CachedCost(layer, precision, phases[k], c)
                        = CachedCost(layer, precision, phases[k], b)
    OBVIOUS
  <2>1. \A j \in 1 .. Len(phases[k].ram) : KeyOf(layer, precision, phases[k].ram[j]) \in DOMAIN b
    BY DEF InCache
  <2> DEFINE phase == phases[k]
  <2>2. /\ phase.ram \in Seq(Move)
        /\ \A j \in DOMAIN phase.charged : phase.charged[j] \in DOMAIN phase.ram
        /\ \A j \in 1 .. Len(phase.ram) : KeyOf(layer, precision, phase.ram[j]) \in DOMAIN b
    BY <2>1, PhaseOf
  <2> HIDE DEF phase
  <2>3. CachedCost(layer, precision, phase, c) = CachedCost(layer, precision, phase, b)
    BY <2>2, CostSettled
  <2> QED BY <2>3 DEF phase
<1>2. [k \in 1 .. Len(phases) |-> CachedCost(layer, precision, phases[k], c)]
        = [k \in 1 .. Len(phases) |-> CachedCost(layer, precision, phases[k], b)]
  BY <1>1
<1>3. InCache(layer, precision, phases, c)
  BY DEF InCache, Grown
<1> QED BY <1>2, <1>3 DEF CachedTotal

\* One phase: it adds its cost.
RunStates(keys) == [total : Nat, dram : DramStates(keys)]

LEMMA PhaseOne ==
  ASSUME RamulatorTimes, NEW keys, NEW acc \in RunStates(keys), NEW phase, OnePhase(phase),
         NEW precision \in Nat, NEW hw \in Processor, NEW layer,
         \A j \in 1 .. Len(phase.ram) : KeyOf(layer, precision, phase.ram[j]) \in keys
  PROVE  LET r == PhaseStep(layer, hw, precision, acc, phase)
         IN /\ r \in RunStates(keys) /\ Grown(r.dram.cache, acc.dram.cache)
            /\ \A j \in 1 .. Len(phase.ram) :
                 KeyOf(layer, precision, phase.ram[j]) \in DOMAIN r.dram.cache
            /\ CachedCost(layer, precision, phase, r.dram.cache) \in Nat
            /\ r.total = acc.total + CachedCost(layer, precision, phase, r.dram.cache)
<1> DEFINE base == [acc.dram EXCEPT !.times = << >>]
           d == IssueFold(layer, hw, precision, base, phase.ram)
           charged == [j \in DOMAIN phase.charged |-> d.times[phase.charged[j]]]
           cached == [j \in DOMAIN phase.charged |->
                        d.cache[KeyOf(layer, precision, phase.ram[phase.charged[j]])]]
           r == PhaseStep(layer, hw, precision, acc, phase)
<1>1. /\ phase.ram \in Seq(Move) /\ phase.memory \in Nat /\ phase.charged \in Seq(Nat)
      /\ \A j \in DOMAIN phase.charged : phase.charged[j] \in DOMAIN phase.ram
  BY DEF OnePhase, PhaseType
<1>2. /\ acc.total \in Nat /\ acc.dram \in DramStates(keys)
      /\ base \in DramStates(keys) /\ base.times = << >> /\ base.cache = acc.dram.cache
  <2>1. acc.total \in Nat /\ acc.dram \in DramStates(keys)
    BY DEF RunStates
  <2> DEFINE dr == acc.dram
  <2>2. dr \in DramStates(keys)
    BY <2>1
  <2> HIDE DEF dr
  <2>3. << >> \in Seq(Nat)
    OBVIOUS
  <2>4. [dr EXCEPT !.times = << >>] \in DramStates(keys)
    BY <2>2, <2>3 DEF DramStates
  <2>5. /\ [dr EXCEPT !.times = << >>].times = << >>
        /\ [dr EXCEPT !.times = << >>].cache = dr.cache
    BY <2>2 DEF DramStates
  <2> QED BY <2>1, <2>4, <2>5 DEF dr
<1> HIDE DEF base
<1>3. IssuedBy(d, base, layer, precision, phase.ram, keys)
  BY <1>1, <1>2, IssueAll
<1>4. r = [total |-> acc.total + PhaseTime(phase, IF phase.charged = << >> THEN phase.memory
                                                  ELSE Total(charged)),
           dram |-> d]
  BY DEF PhaseStep, base
<1> HIDE DEF d
<1>5. charged = cached
  <2>1. ASSUME NEW j \in DOMAIN phase.charged PROVE charged[j] = cached[j]
    <3>1. phase.charged[j] \in 1 .. Len(phase.ram)
      BY <1>1
    <3> QED BY <1>3, <3>1 DEF IssuedBy
  <2> QED BY <2>1
<1> DEFINE memory == IF phase.charged = << >> THEN phase.memory ELSE Total(charged)
<1>6. memory \in Nat
  <2>1. /\ d.times \in Seq(Nat) /\ Len(d.times) = Len(phase.ram)
    BY <1>3 DEF IssuedBy, DramStates
  <2>2. \A j \in DOMAIN charged : charged[j] \in Nat
    <3> SUFFICES ASSUME NEW j \in DOMAIN phase.charged PROVE d.times[phase.charged[j]] \in Nat
      OBVIOUS
    <3>1. phase.charged[j] \in 1 .. Len(phase.ram)
      BY <1>1
    <3> QED BY <2>1, <3>1
  <2>3. DOMAIN charged = DOMAIN phase.charged /\ IsFiniteSet(DOMAIN phase.charged)
    <3> QED BY <1>1, SeqDomain
  <2> HIDE DEF charged
  <2>4. Total(charged) \in Nat
    BY <2>2, <2>3, TotalType
  <2> QED BY <1>1, <2>4
<1> HIDE DEF charged, cached
<1>7. PhaseTime(phase, memory) \in Nat
  <2> HIDE DEF memory
  <2> QED BY <1>6, PhaseTimeType
<1>8. CachedCost(layer, precision, phase, d.cache) = PhaseTime(phase, memory)
  BY <1>5 DEF CachedCost, cached
<1>9. r.total = acc.total + PhaseTime(phase, memory) /\ r.dram = d
  BY <1>4
<1>10. d \in DramStates(keys) /\ Grown(d.cache, acc.dram.cache)
       /\ \A j \in 1 .. Len(phase.ram) : KeyOf(layer, precision, phase.ram[j]) \in DOMAIN d.cache
  BY <1>2, <1>3 DEF IssuedBy
<1>11. r \in RunStates(keys)
  <2>1. acc.total + PhaseTime(phase, memory) \in Nat
    BY <1>2, <1>7
  <2> HIDE DEF memory, r
  <2>2. r = [total |-> acc.total + PhaseTime(phase, memory), dram |-> d]
    BY <1>4 DEF memory
  <2> QED BY <1>10, <2>1, <2>2 DEF RunStates
<1> HIDE DEF memory, r
<1> QED BY <1>7, <1>8, <1>9, <1>10, <1>11 DEF r
\* What RunRamulator returns, from the state dr of the DRAM.
RunBy(r, dr, layer, precision, phases) ==
  /\ r.total \in Nat /\ r.dram.clock \in Nat /\ CacheType(r.dram.cache)
  /\ Grown(r.dram.cache, dr.cache) /\ InCache(layer, precision, phases, r.dram.cache)
  /\ r.total = CachedTotal(layer, precision, phases, r.dram.cache)

LEMMA RamulatorRun ==
  ASSUME RamulatorTimes, NEW cache, CacheType(cache), NEW clock \in Nat,
         NEW phases, Countable(phases), NEW precision \in Nat, NEW hw \in Processor, NEW layer
  PROVE  LET dr == [cache |-> cache, clock |-> clock, times |-> << >>]
         IN RunBy(RunRamulator(layer, hw, precision, phases, dr), dr, layer, precision, phases)
<1> DEFINE n == Len(phases)
           dr == [cache |-> cache, clock |-> clock, times |-> << >>]
           base == [total |-> 0, dram |-> dr]
           keys == DOMAIN cache \cup
                   UNION { { KeyOf(layer, precision, phases[k].ram[j]) : j \in 1 .. Len(phases[k].ram) } :
                             k \in 1 .. n }
           W == RunStates(keys)
           op(v, phase) == PhaseStep(layer, hw, precision, v, phase)
           cost(k, c) == CachedCost(layer, precision, phases[k], c)
           hit(k, c) == \A j \in 1 .. Len(phases[k].ram) :
                          KeyOf(layer, precision, phases[k].ram[j]) \in DOMAIN c
           F == [z \in W \X (1 .. n) |-> op(z[1], phases[z[2]])]
           Fold(h) == h = [T \in SUBSET (1 .. n) |->
                             IF T = {} THEN base ELSE op(h[T \ {Max(T)}], phases[Max(T)])]
           it == CHOOSE h : Fold(h)
<1>1. n \in Nat /\ DOMAIN phases = 1 .. n
  <2>1. phases \in Seq(PhaseType)
    BY DEF Countable
  <2> QED BY <2>1, SeqDomain
<1>2. IsFiniteSet(1 .. n) /\ 1 .. n \subseteq Int
  BY <1>1, FS_Interval
<1>3. base \in W /\ dr.cache = cache
  <2> HIDE DEF keys
  <2>1. cache \in Caches(keys)
    <3>1. DOMAIN cache \subseteq keys
      BY DEF keys
    <3> QED BY <3>1, CacheOf
  <2>2. << >> \in Seq(Nat)
    OBVIOUS
  <2>3. dr \in DramStates(keys) /\ dr.cache = cache
    BY <2>1, <2>2 DEF DramStates
  <2> HIDE DEF dr
  <2> QED BY <2>3 DEF RunStates
<1>4. \A k \in 1 .. n : \A j \in 1 .. Len(phases[k].ram) : KeyOf(layer, precision, phases[k].ram[j]) \in keys
  OBVIOUS
<1>5. ASSUME NEW v \in W, NEW k \in 1 .. n
      PROVE  /\ op(v, phases[k]) \in W /\ Grown(op(v, phases[k]).dram.cache, v.dram.cache)
             /\ hit(k, op(v, phases[k]).dram.cache) /\ cost(k, op(v, phases[k]).dram.cache) \in Nat
             /\ op(v, phases[k]).total = v.total + cost(k, op(v, phases[k]).dram.cache)
  <2>1. \A j \in 1 .. Len(phases[k].ram) : KeyOf(layer, precision, phases[k].ram[j]) \in keys
    BY <1>4
  <2> DEFINE phase == phases[k]
             r == PhaseStep(layer, hw, precision, v, phase)
  <2>2. OnePhase(phase)
    BY PhaseOf
  <2> HIDE DEF keys
  <2>3. \A j \in 1 .. Len(phase.ram) : KeyOf(layer, precision, phase.ram[j]) \in keys
    BY <2>1
  <2> HIDE DEF phase
  <2>4. /\ r \in RunStates(keys) /\ Grown(r.dram.cache, v.dram.cache)
        /\ \A j \in 1 .. Len(phase.ram) : KeyOf(layer, precision, phase.ram[j]) \in DOMAIN r.dram.cache
        /\ CachedCost(layer, precision, phase, r.dram.cache) \in Nat
        /\ r.total = v.total + CachedCost(layer, precision, phase, r.dram.cache)
    BY <2>2, <2>3, PhaseOne
  <2> QED BY <2>4 DEF phase
<1>6. RunRamulator(layer, hw, precision, phases, dr) = it[1 .. n]
  <2> HIDE DEF dr
  <2> QED BY <1>1, RamulatorFold
<1> HIDE DEF n, keys, op, base, dr
<1>7. F \in [W \X (1 .. n) -> W] /\ \A v \in W : \A k \in 1 .. n : F[<< v, k >>] = op(v, phases[k])
  <2> HIDE DEF W
  <2> QED BY <1>5
<1> HIDE DEF W, F
<1>8. PICK g : FoldTable(g, F, base, 1 .. n)
  BY <1>2, FoldExists
<1>9. \A T \in SUBSET (1 .. n) : g[T] \in W
  BY <1>2, <1>3, <1>7, <1>8, FoldClosed
<1>10. \A T \in SUBSET (1 .. n) : T # {} => Max(T) \in T
  BY <1>2, MaxMember
<1>11. Fold(g)
  <2>1. ASSUME NEW T \in SUBSET (1 .. n)
        PROVE  g[T] = IF T = {} THEN base ELSE op(g[T \ {Max(T)}], phases[Max(T)])
    <3>1. CASE T = {}
      BY <1>8, <3>1 DEF FoldTable
    <3>2. CASE T # {}
      <4>1. Max(T) \in 1 .. n /\ g[T \ {Max(T)}] \in W
        BY <1>9, <1>10, <3>2
      <4>2. g[T] = F[<< g[T \ {Max(T)}], Max(T) >>]
        BY <1>8, <3>2 DEF FoldTable
      <4> QED BY <1>7, <3>2, <4>1, <4>2
    <3> QED BY <3>1, <3>2
  <2>2. g = [T \in SUBSET (1 .. n) |-> g[T]]
    BY <1>8 DEF FoldTable
  <2> QED BY <2>1, <2>2
<1>12. Fold(it)
  <2> HIDE DEF Fold
  <2> QED BY <1>11
<1>13. it[1 .. n] = g[1 .. n]
  <2> DEFINE Good == { T \in SUBSET (1 .. n) : it[T] = g[T] }
  <2>1. ASSUME NEW T \in SUBSET (1 .. n), \A U \in SUBSET T : U # T => U \in Good
        PROVE  it[T] = g[T]
    <3> HIDE DEF it
    <3>1. CASE T = {}
      BY <1>11, <1>12, <3>1
    <3>2. CASE T # {}
      <4>1. T \ {Max(T)} \in Good
        BY <1>10, <2>1, <3>2
      <4>2. /\ it[T] = op(it[T \ {Max(T)}], phases[Max(T)])
            /\ g[T] = op(g[T \ {Max(T)}], phases[Max(T)])
        BY <1>11, <1>12, <3>2
      <4> QED BY <4>1, <4>2
    <3> QED BY <3>1, <3>2
  <2>2. \A T \in SUBSET (1 .. n) : (\A U \in SUBSET T : U # T => U \in Good) => T \in Good
    BY <2>1
  <2> HIDE DEF Good, it
  <2> DEFINE I == 1 .. n
  <2>3. IsFiniteSet(I) /\ \A T \in SUBSET I : (\A U \in SUBSET T : U # T => U \in Good) => T \in Good
    BY <1>2, <2>2
  <2> HIDE DEF I
  <2>4. SUBSET I \subseteq Good
    BY <2>3, SubsetInduction
  <2> QED BY <2>4 DEF Good, I
<1> HIDE DEF it, Fold
<1> DEFINE sums(j, c) == [k \in 1 .. j |-> cost(k, c)]
           Right(j, v) == /\ Grown(v.dram.cache, cache)
                          /\ \A k \in 1 .. j : hit(k, v.dram.cache) /\ cost(k, v.dram.cache) \in Nat
                          /\ v.total = Total(sums(j, v.dram.cache))
           Good == { z \in (0 .. n) \X W : Right(z[1], z[2]) }
<1>14. << 0, base >> \in Good
  <2>1. base.dram.cache = cache /\ base.total = 0
    BY <1>3 DEF base
  <2>2. 1 .. 0 = {} /\ Grown(cache, cache) /\ DOMAIN sums(0, cache) = {}
    BY DEF Grown
  <2>3. Total(sums(0, cache)) = 0
    <3> HIDE DEF sums
    <3> QED BY <2>2, TotalEmpty
  <2>4. Right(0, base)
    <3> HIDE DEF sums, cost, hit
    <3> QED BY <2>1, <2>2, <2>3
  <2> HIDE DEF Right
  <2> QED BY <1>1, <1>3, <2>4
<1>15. ASSUME NEW j \in 0 .. n - 1, NEW v, << j, v >> \in Good
       PROVE  << j + 1, F[<< v, j + 1 >>] >> \in Good
  <2> DEFINE w == op(v, phases[j + 1])
             b == v.dram.cache
             c == w.dram.cache
  <2>1. v \in W /\ Right(j, v) /\ j + 1 \in 1 .. n /\ j + 1 \in 0 .. n /\ j \in Nat
    <3> HIDE DEF Right, w
    <3>1. << j, v >> \in (0 .. n) \X W /\ Right(<< j, v >>[1], << j, v >>[2])
      BY <1>15 DEF Good
    <3>2. v \in W /\ Right(j, v)
      BY <3>1
    <3> QED BY <1>1, <3>2
  <2>2. /\ w \in W /\ Grown(c, b) /\ hit(j + 1, c) /\ cost(j + 1, c) \in Nat
        /\ w.total = v.total + cost(j + 1, c)
    <3> HIDE DEF hit, cost
    <3> QED BY <1>5, <2>1
  <2>3. F[<< v, j + 1 >>] = w
    BY <1>7, <2>1
  <2>4. /\ Grown(b, cache) /\ v.total = Total(sums(j, b))
        /\ \A k \in 1 .. j : hit(k, b) /\ cost(k, b) \in Nat
    BY <2>1
  <2> HIDE DEF w, b, c, Right
  <2>5. ASSUME NEW k \in 1 .. j PROVE hit(k, c) /\ cost(k, c) = cost(k, b)
    <3> DEFINE phase == phases[k]
    <3>1. k \in 1 .. Len(phases)
      BY <1>1, <2>1 DEF n
    <3>2. /\ phase.ram \in Seq(Move)
          /\ \A i \in DOMAIN phase.charged : phase.charged[i] \in DOMAIN phase.ram
      BY <3>1, PhaseOf
    <3>3. \A i \in 1 .. Len(phase.ram) : KeyOf(layer, precision, phase.ram[i]) \in DOMAIN b
      BY <2>4
    <3> HIDE DEF phase
    <3>4. CachedCost(layer, precision, phase, c) = CachedCost(layer, precision, phase, b)
      BY <2>2, <3>2, <3>3, CostSettled
    <3>5. \A i \in 1 .. Len(phase.ram) : KeyOf(layer, precision, phase.ram[i]) \in DOMAIN c
      BY <2>2, <3>3 DEF Grown
    <3> QED BY <3>4, <3>5 DEF phase
  <2>6. Grown(c, cache)
    BY <2>2, <2>4 DEF Grown
  <2> HIDE DEF hit, cost
  <2>7. \A k \in 1 .. j + 1 : hit(k, c) /\ cost(k, c) \in Nat
    <3> SUFFICES ASSUME NEW k \in 1 .. j + 1 PROVE hit(k, c) /\ cost(k, c) \in Nat
      OBVIOUS
    <3>1. k = j + 1 \/ k \in 1 .. j
      BY <2>1
    <3> QED BY <2>2, <2>4, <2>5, <3>1
  <2>8. Total(sums(j + 1, c)) = Total(sums(j, b)) + cost(j + 1, c)
    <3> DEFINE s == sums(j, b)
               t == sums(j + 1, c)
    <3>1. /\ DOMAIN s = 1 .. j /\ DOMAIN t = 1 .. j + 1
          /\ \A k \in 1 .. j : s[k] \in Int
      BY <2>4
    <3>2. \A k \in 1 .. j : t[k] = s[k]
      <4> SUFFICES ASSUME NEW k \in 1 .. j PROVE cost(k, c) = cost(k, b) /\ k \in 1 .. j + 1
        OBVIOUS
      <4> QED BY <2>1, <2>5
    <3>3. t[j + 1] = cost(j + 1, c) /\ t[j + 1] \in Int
      <4>1. j + 1 \in 1 .. j + 1
        BY <2>1
      <4> QED BY <2>2, <4>1
    <3> HIDE DEF s, t
    <3>4. Total(t) = Total(s) + t[j + 1]
      BY <2>1, <3>1, <3>2, <3>3, TotalAppend
    <3> QED BY <3>3, <3>4 DEF s, t
  <2>9. Right(j + 1, w)
    <3> HIDE DEF sums
    <3> QED BY <2>2, <2>4, <2>6, <2>7, <2>8 DEF Right, c
  <2> QED BY <2>1, <2>2, <2>3, <2>9
<1> HIDE DEF Good
<1>16. \A j \in 0 .. n : << j, g[1 .. j] >> \in Good
  BY <1>1, <1>8, <1>14, <1>15, FoldInduction
<1> DEFINE r == g[1 .. n]
<1>17. r \in W /\ Right(n, r)
  <2>1. n \in 0 .. n
    BY <1>1
  <2> HIDE DEF Right
  <2> QED BY <1>16, <2>1 DEF Good
<1> HIDE DEF r
<1>18. /\ Grown(r.dram.cache, dr.cache) /\ InCache(layer, precision, phases, r.dram.cache)
       /\ r.total = CachedTotal(layer, precision, phases, r.dram.cache)
  BY <1>3, <1>17 DEF InCache, CachedTotal, n
<1>19. r.total \in Nat /\ r.dram.clock \in Nat /\ CacheType(r.dram.cache)
  <2>1. r.total \in Nat /\ r.dram \in DramStates(keys)
    BY <1>17 DEF W, RunStates
  <2> DEFINE c == r.dram.cache
  <2>2. r.dram.clock \in Nat /\ c \in Caches(keys)
    BY <2>1 DEF DramStates
  <2> HIDE DEF c
  <2>3. CacheType(c)
    BY <2>2, CacheOf
  <2> QED BY <2>1, <2>2, <2>3 DEF c
<1>20. RunRamulator(layer, hw, precision, phases, dr) = r
  BY <1>6, <1>13 DEF r
<1>21. RunBy(RunRamulator(layer, hw, precision, phases, dr), dr, layer, precision, phases)
  BY <1>18, <1>19, <1>20 DEF RunBy
<1> QED BY <1>21 DEF dr
\* What an execution delivers when its simulated transfers take what the cache holds.
Attempt(c, call, p, i, batch, cache) ==
  LET phases == Phases(call, p, i, batch)
  IN [processor |-> p,
      total     |-> IF c.use_ramulator THEN CachedTotal(KeyLayer(call), i.precision, phases, cache)
                    ELSE RunIdeal(phases),
      flops     |-> Flops(phases),
      bytes     |-> Bytes(phases),
      commands  |-> IF c.use_ramulator THEN 0 ELSE IdealCommands(i.precision, phases)]
Settled(c, call, p, i, batch, cache) ==
  c.use_ramulator => InCache(KeyLayer(call), i.precision, Phases(call, p, i, batch), cache)

Delivers(e, c, call, p, i, batch) ==
  /\ Settled(c, call, p, i, batch, e.dram.cache)
  /\ e.status = Attempt(c, call, p, i, batch, e.dram.cache)

LEMMA IdealRunType ==
  ASSUME NEW phases, Countable(phases)
  PROVE  RunIdeal(phases) \in Nat
<1> DEFINE s == [k \in 1 .. Len(phases) |-> PhaseTime(phases[k], phases[k].memory)]
<1>1. phases \in Seq(PhaseType)
  BY DEF Countable
<1>2. IsFiniteSet(1 .. Len(phases))
  BY <1>1, SeqDomain
<1>3. ASSUME NEW k \in 1 .. Len(phases) PROVE PhaseTime(phases[k], phases[k].memory) \in Nat
  <2> DEFINE phase == phases[k]
  <2>1. OnePhase(phase) /\ phase.memory \in Nat
    BY PhaseOf
  <2> HIDE DEF phase
  <2>2. PhaseTime(phase, phase.memory) \in Nat
    BY <2>1, PhaseTimeType
  <2> QED BY <2>2 DEF phase
<1>4. DOMAIN s = 1 .. Len(phases) /\ \A k \in DOMAIN s : s[k] \in Nat
  BY <1>3
<1> HIDE DEF s
<1>5. Total(s) \in Nat
  BY <1>2, <1>4, TotalType
<1> QED BY <1>5 DEF RunIdeal, s

\* The execution of a call on a processor it may run on.
LEMMA Executed ==
  ASSUME RamulatorTimes, PlaceInv, trial.step = "try", trial.left # << >>,
         NEW i, i = [CallOf(turn).info EXCEPT !.cols = trial.cols],
         NEW p, p = Head(trial.left), NEW c,
         NEW cache, CacheType(cache), NEW clock \in Nat
  PROVE  LET e == executePType(c, CallOf(turn), p, i, work[turn].batch, cache, clock)
         IN /\ e.status \in ExecStatus
            /\ e.dram.clock \in Nat /\ CacheType(e.dram.cache)
            /\ Grown(e.dram.cache, cache)
            /\ Delivers(e, c, CallOf(turn), p, i, work[turn].batch)
<1> DEFINE call == CallOf(turn)
           batch == work[turn].batch
           phases == Phases(call, p, i, batch)
           dr == [cache |-> cache, clock |-> clock, times |-> << >>]
           ram == RunRamulator(KeyLayer(call), p, i.precision, phases, dr)
           e == executePType(c, call, p, i, batch, cache, clock)
<1>1. Countable(phases) /\ i.precision \in Nat /\ p \in Processor
  BY Tried
<1>2. e = [status |-> [processor |-> p,
                       total     |-> IF c.use_ramulator THEN ram.total ELSE RunIdeal(phases),
                       flops     |-> Flops(phases),
                       bytes     |-> Bytes(phases),
                       commands  |-> IF c.use_ramulator THEN 0
                                     ELSE IdealCommands(i.precision, phases)],
           dram |-> IF c.use_ramulator THEN ram.dram ELSE dr]
  BY DEF executePType
<1> HIDE DEF phases
<1>3. Flops(phases) \in Nat /\ Bytes(phases) \in Nat /\ IdealCommands(i.precision, phases) \in Nat
      /\ RunIdeal(phases) \in Nat
  BY <1>1, CountTypes, IdealRunType
<1>4. RunBy(ram, dr, KeyLayer(call), i.precision, phases)
  BY <1>1, RamulatorRun
<1> HIDE DEF ram, e, call, batch
<1>5. dr.cache = cache /\ dr.clock = clock
  OBVIOUS
<1> HIDE DEF dr
<1>6. CASE c.use_ramulator
  <2>1. e.dram = ram.dram /\ e.status.total = ram.total
    BY <1>2, <1>6
  <2>2. /\ ram.total \in Nat /\ e.dram.clock \in Nat /\ CacheType(e.dram.cache)
        /\ Grown(e.dram.cache, cache) /\ InCache(KeyLayer(call), i.precision, phases, e.dram.cache)
        /\ ram.total = CachedTotal(KeyLayer(call), i.precision, phases, e.dram.cache)
    BY <1>4, <1>5, <2>1 DEF RunBy
  <2>3. e.status = [processor |-> p, total |-> ram.total, flops |-> Flops(phases),
                    bytes |-> Bytes(phases), commands |-> 0]
    BY <1>2, <1>6
  <2>4. e.status \in ExecStatus
    BY <1>1, <1>3, <2>2, <2>3 DEF ExecStatus
  <2>5. e.status = Attempt(c, call, p, i, batch, e.dram.cache)
    BY <1>6, <2>2, <2>3 DEF Attempt, phases
  <2>6. Settled(c, call, p, i, batch, e.dram.cache)
    BY <2>2 DEF Settled, phases
  <2>7. Delivers(e, c, call, p, i, batch)
    BY <2>5, <2>6 DEF Delivers
  <2> QED BY <2>2, <2>4, <2>7 DEF e, call, batch
<1>7. CASE ~c.use_ramulator
  <2>1. e.dram = dr
    BY <1>2, <1>7
  <2>2. /\ e.dram.clock \in Nat /\ e.dram.cache = cache /\ Grown(e.dram.cache, cache)
    BY <1>5, <2>1 DEF Grown
  <2>3. e.status = [processor |-> p, total |-> RunIdeal(phases), flops |-> Flops(phases),
                    bytes |-> Bytes(phases), commands |-> IdealCommands(i.precision, phases)]
    BY <1>2, <1>7
  <2>4. e.status \in ExecStatus
    BY <1>1, <1>3, <2>3 DEF ExecStatus
  <2>5. e.status = Attempt(c, call, p, i, batch, e.dram.cache)
    BY <1>7, <2>3 DEF Attempt, phases
  <2>6. Settled(c, call, p, i, batch, e.dram.cache)
    BY <1>7 DEF Settled
  <2>7. Delivers(e, c, call, p, i, batch)
    BY <2>5, <2>6 DEF Delivers
  <2> QED BY <2>2, <2>4, <2>7 DEF e, call, batch
<1> QED BY <1>6, <1>7

\* Once settled, an execution delivers the same whatever else the cache gets.
LEMMA AttemptSettled ==
  ASSUME NEW c, NEW call, NEW p, NEW i, NEW batch, Countable(Phases(call, p, i, batch)),
         NEW b, NEW d, Grown(d, b), Settled(c, call, p, i, batch, b)
  PROVE  /\ Settled(c, call, p, i, batch, d)
         /\ Attempt(c, call, p, i, batch, d) = Attempt(c, call, p, i, batch, b)
<1> DEFINE phases == Phases(call, p, i, batch)
<1>1. CASE c.use_ramulator
  <2>1. InCache(KeyLayer(call), i.precision, phases, b)
    BY <1>1 DEF Settled
  <2> HIDE DEF phases
  <2>2. /\ CachedTotal(KeyLayer(call), i.precision, phases, d)
             = CachedTotal(KeyLayer(call), i.precision, phases, b)
        /\ InCache(KeyLayer(call), i.precision, phases, d)
    BY <2>1, TotalSettled DEF phases
  <2> QED BY <1>1, <2>2 DEF Settled, Attempt, phases
<1>2. CASE ~c.use_ramulator
  BY <1>2 DEF Settled, Attempt
<1> QED BY <1>1, <1>2
---------------------------------------------------------------------------
(* Types: the clocks, the sums and the stamps of the status board.         *)

Stamp == [path : Seq(STRING), start : Nat, end : Nat, commands : Nat]
Boards == [DOMAIN ZeroBoard -> Nat]

\* Between the push and the pop of a call its stamp keeps the sums of the push.
TypeInv ==
  /\ exec_status \in [Devices -> ExecStatus]
  /\ status \in [Devices -> Boards]
  /\ board \in [Devices -> Seq(ExecStatus)]
  /\ trial.step = "try" => trial.optimal \in ExecStatus
  /\ CacheType(execution_time_cache)
  /\ dram \in [Devices -> Nat]
  /\ timeboard \in [Devices -> Seq(Stamp)]
  /\ \A d \in Devices :
       Len(timeboard[d]) = IF d = turn /\ trial.step # "push" THEN cur[d] ELSE cur[d] - 1
  /\ trial.step # "push" => timeboard[turn][cur[turn]].commands = status[turn].commands

LEMMA BoardFields ==
  ASSUME NEW s
  PROVE  s \in Boards <=> /\ s = [k \in DOMAIN ZeroBoard |-> s[k]]
                          /\ s.device \in Nat /\ s.high \in Nat /\ s.low \in Nat
                          /\ s.flops \in Nat /\ s.bytes \in Nat /\ s.commands \in Nat
<1>1. DOMAIN ZeroBoard = {"device", "high", "low", "flops", "bytes", "commands"}
  BY DEF ZeroBoard
<1> HIDE DEF ZeroBoard
<1>2. Boards = [{"device", "high", "low", "flops", "bytes", "commands"} -> Nat]
  BY <1>1 DEF Boards
<1> QED BY <1>1, <1>2

LEMMA LargerType == ASSUME NEW a \in Nat, NEW b \in Nat PROVE Larger(a, b) \in Nat
BY DEF Larger

LEMMA ZeroType == ZeroBoard \in Boards /\ NoStatus \in ExecStatus
<1>1. ZeroBoard \in Boards
  BY DEF Boards, ZeroBoard
<1>2. NoStatus \in ExecStatus
  BY DEF NoStatus, ExecStatus
<1> QED BY <1>1, <1>2

LEMMA JoinedType ==
  ASSUME NEW s \in Boards
  PROVE  Joined(s) \in Boards /\ Joined(s).commands = s.commands
<1> DEFINE latest == Larger(s.device, Larger(s.high, s.low))
<1>1. latest \in Nat
  BY BoardFields, LargerType
<1> HIDE DEF latest
<1>2. Joined(s) = [s EXCEPT !.device = latest, !.high = latest, !.low = latest]
  BY DEF Joined, latest
<1> QED BY <1>1, <1>2 DEF Boards, ZeroBoard

LEMMA PushType ==
  ASSUME NEW s \in Boards, NEW lane
  PROVE  set_push_status(s, lane) \in Boards /\ set_push_status(s, lane).commands = s.commands
<1>1. s.high \in Nat /\ s.low \in Nat
  BY BoardFields
<1>2. [s EXCEPT !.device = s.high] \in Boards /\ [s EXCEPT !.device = s.low] \in Boards
  BY <1>1 DEF Boards, ZeroBoard
<1>3. /\ [s EXCEPT !.device = s.high].commands = s.commands
      /\ [s EXCEPT !.device = s.low].commands = s.commands
  BY DEF Boards, ZeroBoard
<1>4. \/ set_push_status(s, lane) = [s EXCEPT !.device = s.high]
      \/ set_push_status(s, lane) = [s EXCEPT !.device = s.low]
      \/ set_push_status(s, lane) = Joined(s)
  BY DEF set_push_status
<1> QED BY <1>2, <1>3, <1>4, JoinedType

LEMMA ForwardType ==
  ASSUME NEW s \in Boards, NEW call, NEW batch, CallType(call, batch)
  PROVE  Forward(s, call) \in Boards /\ Forward(s, call).commands = s.commands
<1> DEFINE time == GPUTime(call)
<1>1. time \in Nat
  <2>1. call.flops \in Nat /\ call.bytes \in Nat
    BY DEF CallType
  <2>2. FlopTime["GPU"] \in Nat /\ ByteTime["GPU"] \in Nat
    BY CostAssumption DEF Processor
  <2>3. call.flops * FlopTime["GPU"] \in Nat /\ call.bytes * ByteTime["GPU"] \in Nat
    BY <2>1, <2>2
  <2> QED BY <2>3, LargerType DEF GPUTime, MemoryTime
<1> HIDE DEF time
<1> DEFINE high == IF call.in.lane = "high" THEN s.high + time ELSE s.high
           low == IF call.in.lane = "low" THEN s.low + time ELSE s.low
           device == s.device + time
<1>2. high \in Nat /\ low \in Nat /\ device \in Nat
  BY <1>1, BoardFields
<1>3. Forward(s, call) = [s EXCEPT !.device = device, !.high = high, !.low = low]
  BY DEF Forward, time, Boards, ZeroBoard
<1> HIDE DEF high, low, device
<1> QED BY <1>2, <1>3 DEF Boards, ZeroBoard

LEMMA PopType ==
  ASSUME NEW s \in Boards, NEW lane, NEW e \in ExecStatus
  PROVE  /\ set_pop_status(s, lane, e) \in Boards
         /\ set_pop_status(s, lane, e).commands = s.commands + e.commands
<1>1. e.total \in Nat /\ e.flops \in Nat /\ e.bytes \in Nat /\ e.commands \in Nat
  BY DEF ExecStatus
<1>2. s.device + e.total \in Nat /\ s.high + e.total \in Nat /\ s.low + e.total \in Nat
  BY <1>1, BoardFields
<1> DEFINE p == Charged(s, lane, e)
<1>3. p \in Boards /\ p.commands = s.commands
  <2>1. /\ [s EXCEPT !.device = s.device + e.total] \in Boards
        /\ [s EXCEPT !.low = s.low + e.total, !.device = s.low + e.total] \in Boards
        /\ [s EXCEPT !.high = s.high + e.total, !.device = s.high + e.total] \in Boards
    BY <1>2 DEF Boards, ZeroBoard
  <2>2. /\ [s EXCEPT !.device = s.device + e.total].commands = s.commands
        /\ [s EXCEPT !.low = s.low + e.total, !.device = s.low + e.total].commands = s.commands
        /\ [s EXCEPT !.high = s.high + e.total, !.device = s.high + e.total].commands = s.commands
    BY DEF Boards, ZeroBoard
  <2>3. \/ p = [s EXCEPT !.device = s.device + e.total]
        \/ p = [s EXCEPT !.low = s.low + e.total, !.device = s.low + e.total]
        \/ p = [s EXCEPT !.high = s.high + e.total, !.device = s.high + e.total]
        \/ p = s
    BY DEF Charged
  <2> HIDE DEF p
  <2> QED BY <2>1, <2>2, <2>3
<1> HIDE DEF p
<1> DEFINE flops == p.flops + e.flops
           bytes == p.bytes + e.bytes
           commands == p.commands + e.commands
<1>4. flops \in Nat /\ bytes \in Nat /\ commands \in Nat
  BY <1>1, <1>3, BoardFields
<1>5. set_pop_status(s, lane, e)
        = [p EXCEPT !.flops = flops, !.bytes = bytes, !.commands = commands]
  BY DEF set_pop_status, p
<1>6. commands = s.commands + e.commands
  BY <1>3
<1> HIDE DEF flops, bytes, commands
<1> QED BY <1>3, <1>4, <1>5, <1>6 DEF Boards, ZeroBoard

LEMMA StampType ==
  ASSUME NEW path \in Seq(STRING), NEW s \in Boards
  PROVE  push_timestamp(path, s) \in Stamp /\ push_timestamp(path, s).commands = s.commands
<1>1. s.device \in Nat /\ s.commands \in Nat
  BY BoardFields
<1> QED BY <1>1 DEF push_timestamp, Stamp

LEMMA StampedType ==
  ASSUME NEW stamp \in Stamp, NEW s \in Boards, stamp.commands <= s.commands
  PROVE  pop_timestamp(stamp, s) \in Stamp
<1>1. s.device \in Nat /\ s.commands - stamp.commands \in Nat
  <2>1. s.device \in Nat /\ s.commands \in Nat
    BY BoardFields
  <2>2. stamp.commands \in Nat
    BY DEF Stamp
  <2> QED BY <2>1, <2>2
<1> QED BY <1>1 DEF pop_timestamp, Stamp
LEMMA TypeInit == Init => TypeInv
<1> SUFFICES ASSUME Init PROVE TypeInv
  OBVIOUS
<1>1. /\ trial = NoTrial /\ cur = [d \in Devices |-> 1]
      /\ exec_status = [d \in Devices |-> NoStatus]
      /\ status = [d \in Devices |-> ZeroBoard]
      /\ timeboard = [d \in Devices |-> << >>]
      /\ board = [d \in Devices |-> << >>]
      /\ execution_time_cache = << >>
      /\ dram = [d \in Devices |-> 0]
  BY DEF Init
<1>2. trial.step = "push"
  BY <1>1 DEF NoTrial
<1>3. CacheType(execution_time_cache)
  BY <1>1 DEF CacheType, Timed
<1>4. exec_status \in [Devices -> ExecStatus] /\ status \in [Devices -> Boards]
  BY <1>1, ZeroType
<1>5. /\ board \in [Devices -> Seq(ExecStatus)] /\ timeboard \in [Devices -> Seq(Stamp)]
      /\ dram \in [Devices -> Nat]
  BY <1>1
<1>6. \A d \in Devices : Len(timeboard[d]) = cur[d] - 1
  BY <1>1
<1> QED BY <1>2, <1>3, <1>4, <1>5, <1>6 DEF TypeInv

LEMMA TypePush ==
  ASSUME PlaceInv, TypeInv, NEW d \in Devices, Push(d)
  PROVE  TypeInv'
<1> DEFINE pushed == set_push_status(status[d], CallOf(d).in.lane)
           s == Forward(pushed, CallOf(d))
           stamp == push_timestamp(CallOf(d).path, pushed)
<1>1. /\ turn = d /\ ~Ends(d) /\ trial.step = "push"
      /\ status' = [status EXCEPT ![d] = s]
      /\ timeboard' = [timeboard EXCEPT ![d] = Append(@, stamp)]
      /\ trial' = [NoTrial EXCEPT !.step = IF CallOf(d).layer = "none" THEN "pop" ELSE "try",
                                  !.left = CallOf(d).processors, !.cols = CallOf(d).info.cols]
      /\ UNCHANGED << turn, cur, exec_status, board, execution_time_cache, dram >>
  BY DEF Push, Runs
<1>2. CallType(CallOf(d), work[d].batch)
  BY <1>1, AtCall
<1>3. status[d] \in Boards
  BY DEF TypeInv
<1>4. pushed \in Boards /\ s \in Boards /\ s.commands = pushed.commands
  <2>1. pushed \in Boards
    BY <1>3, PushType
  <2> HIDE DEF pushed
  <2> QED BY <1>2, <2>1, ForwardType
<1>5. stamp \in Stamp /\ stamp.commands = pushed.commands
  <2>1. CallOf(d).path \in Seq(STRING)
    BY <1>2 DEF CallType
  <2> HIDE DEF pushed
  <2> QED BY <1>4, <2>1, StampType
<1> HIDE DEF pushed, s, stamp
<1>6. trial'.step # "push" /\ trial'.optimal = NoStatus
  BY <1>1 DEF NoTrial
<1>7. timeboard' \in [Devices -> Seq(Stamp)] /\ status' \in [Devices -> Boards]
  BY <1>1, <1>4, <1>5 DEF TypeInv
<1>8. /\ timeboard'[d] = Append(timeboard[d], stamp) /\ status'[d] = s
      /\ \A e \in Devices : e # d => timeboard'[e] = timeboard[e]
  BY <1>1 DEF TypeInv
<1>9. Len(timeboard'[d]) = cur[d] /\ timeboard'[d][cur[d]] = stamp
  <2>1. timeboard[d] \in Seq(Stamp) /\ Len(timeboard[d]) = cur[d] - 1 /\ cur[d] \in Int
    BY <1>1 DEF TypeInv, PlaceInv
  <2>2. Len(timeboard'[d]) = Len(timeboard[d]) + 1
        /\ timeboard'[d][Len(timeboard[d]) + 1] = stamp
    BY <1>5, <1>8, <2>1
  <2> QED BY <2>1, <2>2
<1>10. \A e \in Devices :
         Len(timeboard'[e]) = IF e = turn' /\ trial'.step # "push" THEN cur'[e] ELSE cur'[e] - 1
  BY <1>1, <1>6, <1>8, <1>9 DEF TypeInv
<1> QED BY <1>1, <1>4, <1>5, <1>6, <1>7, <1>8, <1>9, <1>10, ZeroType DEF TypeInv

LEMMA TypeTry ==
  ASSUME RamulatorTimes, PlaceInv, TypeInv, NEW d \in Devices, Try(d)
  PROVE  TypeInv'
<1> DEFINE p == Head(trial.left)
           i == [CallOf(d).info EXCEPT !.cols = trial.cols]
           e == executePType(system, CallOf(d), p, i, work[d].batch, execution_time_cache, dram[d])
<1>1. /\ turn = d /\ trial.step = "try" /\ trial.left # << >>
      /\ UNCHANGED << turn, cur, exec_status, status, timeboard, board >>
  BY DEF Try, Runs
<1>2. /\ trial' = [trial EXCEPT
                     !.left = Tail(@),
                     !.optimal = IF Better(@, e.status) THEN e.status ELSE @,
                     !.tried = Append(@, e.status),
                     !.cols = IF CallOf(d).layer = "ATTENTION_SUM"
                              THEN ColsAfterSum(i, p) ELSE @]
      /\ execution_time_cache' = e.dram.cache
      /\ dram' = [dram EXCEPT ![d] = e.dram.clock]
  BY DEF Try
<1>3. /\ e.status \in ExecStatus /\ e.dram.clock \in Nat
      /\ CacheType(e.dram.cache)
  <2>1. CacheType(execution_time_cache) /\ dram[d] \in Nat
    BY DEF TypeInv
  <2> QED BY <1>1, <2>1, Executed
<1> HIDE DEF e, i, p
<1>4. {"step", "optimal"} \subseteq DOMAIN trial
  BY DEF PlaceInv, NoTrial
<1>5. trial'.optimal = (IF Better(trial.optimal, e.status) THEN e.status ELSE trial.optimal)
      /\ trial'.step = "try"
  BY <1>1, <1>2, <1>4
<1>6. trial'.optimal \in ExecStatus
  BY <1>1, <1>3, <1>5 DEF TypeInv
<1>7. dram' \in [Devices -> Nat]
  BY <1>2, <1>3 DEF TypeInv
<1>8. CacheType(execution_time_cache)'
  BY <1>2, <1>3
<1>9. trial'.step # "push" /\ trial.step # "push"
  BY <1>1, <1>5
<1> QED BY <1>1, <1>6, <1>7, <1>8, <1>9 DEF TypeInv

LEMMA TypeDeliver ==
  ASSUME PlaceInv, TypeInv, NEW d \in Devices, Deliver(d)
  PROVE  TypeInv'
<1>1. /\ turn = d /\ trial.step = "try"
      /\ exec_status' = [exec_status EXCEPT ![d] = trial.optimal]
      /\ board' = [board EXCEPT ![d] = Append(@, trial.optimal)]
      /\ trial' = [trial EXCEPT !.step = "pop"]
      /\ UNCHANGED << turn, cur, status, timeboard, execution_time_cache, dram >>
  BY DEF Deliver, Runs
<1>2. trial.optimal \in ExecStatus /\ trial'.step = "pop"
  <2>1. "step" \in DOMAIN trial
    BY DEF PlaceInv, NoTrial
  <2> QED BY <1>1, <2>1 DEF TypeInv
<1>3. exec_status' \in [Devices -> ExecStatus] /\ board' \in [Devices -> Seq(ExecStatus)]
  BY <1>1, <1>2 DEF TypeInv
<1> QED BY <1>1, <1>2, <1>3 DEF TypeInv

LEMMA TypePop ==
  ASSUME PlaceInv, TypeInv, NEW d \in Devices, Pop(d)
  PROVE  TypeInv'
<1> DEFINE popped == set_pop_status(status[d], CallOf(d).out.lane, exec_status[d])
           stamp == pop_timestamp(timeboard[d][cur[d]], popped)
<1>1. /\ turn = d /\ trial.step = "pop" /\ ~Ends(d)
      /\ status' = [status EXCEPT ![d] = popped]
      /\ timeboard' = [timeboard EXCEPT ![d][cur[d]] = stamp]
      /\ exec_status' = [exec_status EXCEPT ![d] = NoStatus]
      /\ cur' = [cur EXCEPT ![d] = @ + 1]
      /\ trial' = NoTrial
      /\ UNCHANGED << turn, board, execution_time_cache, dram >>
  BY DEF Pop, Runs, Taken
<1>2. popped \in Boards /\ popped.commands = status[d].commands + exec_status[d].commands
      /\ status[d].commands <= popped.commands
  <2>1. status[d] \in Boards /\ exec_status[d] \in ExecStatus
    BY DEF TypeInv
  <2>2. status[d].commands \in Nat /\ exec_status[d].commands \in Nat
    BY <2>1, BoardFields DEF ExecStatus
  <2>3. popped \in Boards /\ popped.commands = status[d].commands + exec_status[d].commands
    BY <2>1, PopType
  <2> HIDE DEF popped
  <2> QED BY <2>2, <2>3
<1>3. /\ timeboard[d] \in Seq(Stamp) /\ Len(timeboard[d]) = cur[d] /\ cur[d] \in 1 .. Len(timeboard[d])
      /\ timeboard[d][cur[d]] \in Stamp
      /\ timeboard[d][cur[d]].commands = status[d].commands
  <2>1. timeboard[d] \in Seq(Stamp) /\ Len(timeboard[d]) = cur[d]
        /\ timeboard[d][cur[d]].commands = status[d].commands
    BY <1>1 DEF TypeInv
  <2>2. cur[d] \in Nat \ {0}
    <3>1. cur[d] \in DOMAIN calls[d] /\ DOMAIN calls[d] = 1 .. Len(calls[d]) /\ Len(calls[d]) \in Nat
      BY <1>1, AtCall, Graphs
    <3> QED BY <3>1
  <2> QED BY <2>1, <2>2
<1> HIDE DEF popped
<1>4. stamp \in Stamp
  <2>1. timeboard[d][cur[d]].commands <= popped.commands
    BY <1>2, <1>3
  <2> QED BY <1>2, <1>3, <2>1, StampedType
<1> HIDE DEF stamp
<1>5. /\ timeboard'[d] = [timeboard[d] EXCEPT ![cur[d]] = stamp]
      /\ timeboard' \in [Devices -> Seq(Stamp)] /\ Len(timeboard'[d]) = cur[d]
      /\ \A e \in Devices : e # d => timeboard'[e] = timeboard[e]
  <2> DEFINE t == timeboard[d]
             u == [t EXCEPT ![cur[d]] = stamp]
  <2>1. u \in Seq(Stamp) /\ Len(u) = Len(t)
    <3>1. t \in Seq(Stamp) /\ cur[d] \in 1 .. Len(t)
      BY <1>3
    <3> HIDE DEF t
    <3> QED BY <1>4, <3>1
  <2>2. timeboard' = [timeboard EXCEPT ![d] = u]
    BY <1>1
  <2> HIDE DEF u
  <2>3. timeboard'[d] = u /\ timeboard' \in [Devices -> Seq(Stamp)]
        /\ \A e \in Devices : e # d => timeboard'[e] = timeboard[e]
    BY <2>1, <2>2 DEF TypeInv
  <2> QED BY <1>3, <2>1, <2>3 DEF u, t
<1>6. /\ cur'[d] = cur[d] + 1 /\ cur[d] \in Int
      /\ \A e \in Devices : e # d => cur'[e] = cur[e]
  BY <1>1 DEF PlaceInv
<1>7. trial'.step = "push"
  BY <1>1 DEF NoTrial
<1>8. ASSUME NEW e \in Devices PROVE Len(timeboard'[e]) = cur'[e] - 1
  <2>1. CASE e = d
    BY <1>5, <1>6, <2>1
  <2>2. CASE e # d
    BY <1>1, <1>5, <1>6, <2>2 DEF TypeInv
  <2> QED BY <2>1, <2>2
<1>9. exec_status' \in [Devices -> ExecStatus] /\ status' \in [Devices -> Boards]
  BY <1>1, <1>2, ZeroType DEF TypeInv
<1> QED BY <1>1, <1>5, <1>7, <1>8, <1>9 DEF TypeInv
LEMMA TypeSynchronise ==
  ASSUME PlaceInv, TypeInv, NEW d \in Devices, Synchronise(d)
  PROVE  TypeInv'
<1> DEFINE joined == [e \in Devices |-> Joined(status[e])]
           times == { joined[e].device : e \in Group(d) }
           latest == Max(times)
           after(e) == [joined[e] EXCEPT !.device = latest]
           stamp(e) == pop_timestamp(push_timestamp(CallOf(e).path, joined[e]), after(e))
<1>1. /\ turn = d /\ ~Ends(d) /\ trial.step = "push" /\ Arrived(d)
      /\ status' = [e \in Devices |-> IF e \in Group(d) THEN after(e) ELSE status[e]]
      /\ timeboard' = [e \in Devices |-> IF e \in Group(d) THEN Append(timeboard[e], stamp(e))
                                         ELSE timeboard[e]]
      /\ cur' = [e \in Devices |-> IF e \in Group(d) THEN cur[e] + 1 ELSE cur[e]]
      /\ UNCHANGED << turn, trial, exec_status, board, execution_time_cache, dram >>
  BY DEF Synchronise, Runs
<1>2. \A e \in Devices : joined[e] \in Boards /\ joined[e].device \in Nat
  BY JoinedType, BoardFields DEF TypeInv
<1> HIDE DEF joined
<1>3. latest \in Nat
  <2> DEFINE G == Group(d)
             f == [e \in G |-> joined[e].device]
             g == { f[e] : e \in G }
  <2>1. IsFiniteSet(G) /\ d \in G /\ G \subseteq Devices
    <3>1. IsFiniteSet(Devices)
      BY FS_Interval, ExecutionAssumption DEF Devices
    <3>2. G \subseteq Devices /\ d \in G
      BY DEF Group
    <3> QED BY <3>1, <3>2, FS_Subset
  <2> HIDE DEF G
  <2>2. \A e \in G : f[e] \in Nat
    BY <1>2, <2>1
  <2>3. g = times
    BY DEF G
  <2> HIDE DEF f, times
  <2>4. G # {} /\ \A e \in G : f[e] \in Int
    BY <2>1, <2>2
  <2>5. Max(g) \in g
    BY <2>1, <2>4, MaxValue
  <2> QED BY <2>2, <2>3, <2>5
<1> HIDE DEF times, latest
<1>4. ASSUME NEW e \in Devices PROVE after(e) \in Boards /\ after(e).commands = joined[e].commands
  BY <1>2, <1>3 DEF Boards, ZeroBoard
<1> HIDE DEF after
<1>5. ASSUME NEW e \in Group(d)
      PROVE  /\ e \in Devices /\ stamp(e) \in Stamp
             /\ Append(timeboard[e], stamp(e)) \in Seq(Stamp)
             /\ Len(Append(timeboard[e], stamp(e))) = Len(timeboard[e]) + 1
  <2>1. e \in Devices /\ ~Ends(e)
    BY <1>1, GroupAtCall
  <2>2. CallOf(e).path \in Seq(STRING)
    BY <2>1, AtCall DEF CallType
  <2> DEFINE pushed == push_timestamp(CallOf(e).path, joined[e])
  <2>3. pushed \in Stamp /\ pushed.commands = joined[e].commands
    BY <1>2, <2>1, <2>2, StampType
  <2> HIDE DEF pushed
  <2>4. pushed.commands <= after(e).commands
    <3>1. after(e).commands \in Nat
      BY <1>4, <2>1, BoardFields
    <3> QED BY <1>4, <2>1, <2>3, <3>1
  <2>5. pop_timestamp(pushed, after(e)) \in Stamp
    BY <1>4, <2>1, <2>3, <2>4, StampedType
  <2>6. stamp(e) \in Stamp
    BY <2>5 DEF pushed
  <2> HIDE DEF stamp
  <2>7. timeboard[e] \in Seq(Stamp)
    BY <2>1 DEF TypeInv
  <2> QED BY <2>1, <2>6, <2>7
<1> HIDE DEF stamp
<1>6. status' \in [Devices -> Boards]
  BY <1>1, <1>4 DEF TypeInv
<1>7. timeboard' \in [Devices -> Seq(Stamp)]
  BY <1>1, <1>5 DEF TypeInv
<1>8. ASSUME NEW e \in Devices PROVE Len(timeboard'[e]) = cur'[e] - 1
  <2>1. Len(timeboard[e]) = cur[e] - 1 /\ cur[e] \in Int
    BY <1>1 DEF TypeInv, PlaceInv
  <2>2. CASE e \in Group(d)
    BY <1>1, <1>5, <2>1, <2>2
  <2>3. CASE e \notin Group(d)
    BY <1>1, <2>1, <2>3
  <2> QED BY <2>2, <2>3
<1> QED BY <1>1, <1>6, <1>7, <1>8 DEF TypeInv

LEMMA TypeNextDevice ==
  ASSUME PlaceInv, TypeInv, NEW d \in Devices, NextDevice(d)
  PROVE  TypeInv'
<1>1. /\ turn = d /\ (~Ends(d) => trial.step = "push")
      /\ UNCHANGED << cur, trial, exec_status, status, timeboard, board, execution_time_cache, dram >>
  BY DEF NextDevice
<1>2. trial.step = "push"
  BY <1>1 DEF PlaceInv
<1> QED BY <1>1, <1>2 DEF TypeInv

LEMMA TypeRestart ==
  ASSUME PlaceInv, TypeInv, Restart
  PROVE  TypeInv'
<1>1. /\ AllDone /\ UNCHANGED << trial, exec_status, execution_time_cache, dram >>
      /\ cur' = [d \in Devices |-> 1] /\ status' = [d \in Devices |-> ZeroBoard]
      /\ timeboard' = [d \in Devices |-> << >>] /\ board' = [d \in Devices |-> << >>]
  BY DEF Restart, Ready
<1>2. trial.step = "push"
  BY <1>1 DEF PlaceInv, AllDone
<1>3. /\ status' \in [Devices -> Boards] /\ board' \in [Devices -> Seq(ExecStatus)]
      /\ timeboard' \in [Devices -> Seq(Stamp)]
  BY <1>1, ZeroType
<1>4. \A d \in Devices : Len(timeboard'[d]) = cur'[d] - 1
  BY <1>1
<1> QED BY <1>1, <1>2, <1>3, <1>4 DEF TypeInv

LEMMA TypeStep ==
  ASSUME RamulatorTimes
  PROVE  PlaceInv /\ TypeInv /\ [Next]_vars => TypeInv'
<1> SUFFICES ASSUME PlaceInv, TypeInv, [Next]_vars PROVE TypeInv'
  OBVIOUS
<1>1. ASSUME NEW d \in Devices,
             Push(d) \/ Try(d) \/ Deliver(d) \/ Pop(d) \/ Synchronise(d) \/ NextDevice(d)
      PROVE  TypeInv'
  BY <1>1, TypePush, TypeTry, TypeDeliver, TypePop, TypeSynchronise, TypeNextDevice
<1>2. CASE Restart
  BY <1>2, TypeRestart
<1>3. CASE UNCHANGED vars
  BY <1>3 DEF vars, TypeInv
<1> QED BY <1>1, <1>2, <1>3 DEF Next

LEMMA TypesImplied == PlaceInv /\ TypeInv => TypeOK
<1> SUFFICES ASSUME PlaceInv, TypeInv PROVE TypeOK
  OBVIOUS
<1>1. ASSUME NEW d \in Devices, NEW k \in DOMAIN timeboard[d]
      PROVE  timeboard[d][k].commands \in Nat
  <2>1. timeboard[d] \in Seq(Stamp)
    BY DEF TypeInv
  <2>2. timeboard[d][k] \in Stamp
    BY <2>1, SeqDomain
  <2> QED BY <2>2 DEF Stamp
<1>2. \A d \in Devices : board[d] \in Seq(ExecStatus)
  BY DEF TypeInv
<1>3. execution_time_cache \in [DOMAIN execution_time_cache -> Nat]
  BY DEF TypeInv, CacheType
<1> QED BY <1>1, <1>2, <1>3 DEF PlaceInv, TypeInv, TypeOK, Boards

\* The clocks and the sums of a status board are never negative, nor is what an
\* execution delivers, what a stamp is left with at the pop, or a cached time.
THEOREM ExecutionTypes == RamulatorTimes => (Spec => []TypeOK)
<1> SUFFICES ASSUME RamulatorTimes PROVE Spec => []TypeOK
  OBVIOUS
<1>1. Init => PlaceInv /\ TypeInv
  BY PlaceInit, TypeInit
<1>2. PlaceInv /\ TypeInv /\ [Next]_vars => (PlaceInv /\ TypeInv)'
  BY PlaceStep, TypeStep
<1>3. PlaceInv /\ TypeInv => TypeOK
  BY TypesImplied
<1> QED BY <1>1, <1>2, <1>3, PTL DEF Spec
---------------------------------------------------------------------------
(* What an execution delivers is a function of the call, the batch and the *)
(* cache, and does not change when the cache grows.                        *)

\* An attempt starts from the columns and the best status that the ones before it left.
Info(call, x) == [call.info EXCEPT !.cols = x[1]]
AttemptAt(c, call, batch, cache, x, p) == Attempt(c, call, p, Info(call, x), batch, cache)
After(c, call, batch, cache, x, p) ==
  LET tried == AttemptAt(c, call, batch, cache, x, p)
  IN << IF call.layer = "ATTENTION_SUM" THEN ColsAfterSum(Info(call, x), p) ELSE x[1],
        IF Better(x[2], tried) THEN tried ELSE x[2] >>

\* s is what the first m attempts start from and what the last of them leaves.
Loop(c, call, batch, cache, m, s) ==
  /\ s[0] = << call.info.cols, NoStatus >>
  /\ \A k \in 0 .. m - 1 :
       /\ s[k][1] \in Columns(call)
       /\ Settled(c, call, call.processors[k + 1], Info(call, s[k]), batch, cache)
       /\ s[k + 1] = After(c, call, batch, cache, s[k], call.processors[k + 1])

LEMMA LoopUnique ==
  ASSUME NEW c, NEW call, NEW batch, NEW cache, NEW m \in Nat,
         NEW s, Loop(c, call, batch, cache, m, s), NEW t, Loop(c, call, batch, cache, m, t)
  PROVE  \A k \in 0 .. m : s[k] = t[k]
<1> DEFINE Good == { k \in 0 .. m : s[k] = t[k] }
<1>1. 0 \in Good
  BY DEF Loop
<1>2. ASSUME NEW j \in 0 .. m - 1, j \in Good PROVE j + 1 \in Good
  <2>1. s[j] = t[j] /\ j + 1 \in 0 .. m
    BY <1>2
  <2>2. s[j + 1] = After(c, call, batch, cache, s[j], call.processors[j + 1])
        /\ t[j + 1] = After(c, call, batch, cache, t[j], call.processors[j + 1])
    BY DEF Loop
  <2> QED BY <2>1, <2>2
<1> HIDE DEF Good
<1>3. \A k \in 0 .. m : k \in Good
  BY <1>1, <1>2, BoundedInduction
<1> QED BY <1>3 DEF Good

\* The phases of an attempt are counted as the graph's are.
LEMMA AttemptPhases ==
  ASSUME NEW call, NEW batch, CallType(call, batch), call.layer # "none",
         NEW k \in DOMAIN call.processors, NEW x, x[1] \in Columns(call)
  PROVE  Countable(Phases(call, call.processors[k], Info(call, x), batch))
<1> DEFINE p == call.processors[k]
           cols == x[1]
<1>1. p \in Range(call.processors)
  BY DEF Range
<1>2. \A q \in Range(call.processors) : \A z \in Columns(call) :
        Countable(Phases(call, q, [call.info EXCEPT !.cols = z], batch))
  BY DEF CallType
<1> HIDE DEF p
<1>3. Countable(Phases(call, p, [call.info EXCEPT !.cols = cols], batch))
  BY <1>1, <1>2
<1> QED BY <1>3 DEF Info, p

LEMMA LoopGrown ==
  ASSUME NEW c, NEW call, NEW batch, CallType(call, batch), call.layer # "none",
         NEW m \in 0 .. Len(call.processors), NEW s, NEW b, Loop(c, call, batch, b, m, s),
         NEW d, Grown(d, b)
  PROVE  Loop(c, call, batch, d, m, s)
<1>1. Len(call.processors) \in Nat /\ DOMAIN call.processors = 1 .. Len(call.processors)
  <2>1. call.processors \in Seq(Processor)
    BY DEF CallType
  <2> QED BY <2>1
<1>2. ASSUME NEW k \in 0 .. m - 1
      PROVE  /\ s[k][1] \in Columns(call)
             /\ Settled(c, call, call.processors[k + 1], Info(call, s[k]), batch, d)
             /\ s[k + 1] = After(c, call, batch, d, s[k], call.processors[k + 1])
  <2> DEFINE p == call.processors[k + 1]
             i == Info(call, s[k])
  <2>1. k + 1 \in DOMAIN call.processors
    BY <1>1
  <2>2. /\ s[k][1] \in Columns(call) /\ Settled(c, call, p, i, batch, b)
        /\ s[k + 1] = After(c, call, batch, b, s[k], p)
    BY DEF Loop
  <2>3. Countable(Phases(call, p, i, batch))
    BY <2>1, <2>2, AttemptPhases
  <2> HIDE DEF p, i
  <2>4. Settled(c, call, p, i, batch, d) /\ Attempt(c, call, p, i, batch, d) = Attempt(c, call, p, i, batch, b)
    BY <2>2, <2>3, AttemptSettled
  <2>5. AttemptAt(c, call, batch, d, s[k], p) = AttemptAt(c, call, batch, b, s[k], p)
    BY <2>4 DEF AttemptAt, i
  <2>6. After(c, call, batch, d, s[k], p) = After(c, call, batch, b, s[k], p)
    BY <2>5 DEF After
  <2> QED BY <2>2, <2>4, <2>6 DEF p, i
<1> QED BY <1>2 DEF Loop

\* One more attempt.
LEMMA LoopAttempt ==
  ASSUME NEW c, NEW call, NEW batch, NEW cache, NEW m \in Nat, NEW s,
         Loop(c, call, batch, cache, m, s), s[m][1] \in Columns(call),
         Settled(c, call, call.processors[m + 1], Info(call, s[m]), batch, cache)
  PROVE  \E t : /\ Loop(c, call, batch, cache, m + 1, t)
                /\ t[m + 1] = After(c, call, batch, cache, s[m], call.processors[m + 1])
<1> DEFINE last == After(c, call, batch, cache, s[m], call.processors[m + 1])
           t == [k \in 0 .. m + 1 |-> IF k = m + 1 THEN last ELSE s[k]]
<1>1. t[m + 1] = last /\ \A k \in 0 .. m : t[k] = s[k]
  OBVIOUS
<1>2. t[0] = << call.info.cols, NoStatus >>
  BY <1>1 DEF Loop
<1>3. ASSUME NEW k \in 0 .. m
      PROVE  /\ t[k][1] \in Columns(call)
             /\ Settled(c, call, call.processors[k + 1], Info(call, t[k]), batch, cache)
             /\ t[k + 1] = After(c, call, batch, cache, t[k], call.processors[k + 1])
  <2> HIDE DEF t
  <2>1. CASE k = m
    BY <1>1, <2>1
  <2>2. CASE k # m
    <3>1. k \in 0 .. m - 1 /\ k + 1 \in 0 .. m
      BY <2>2
    <3>2. /\ s[k][1] \in Columns(call)
          /\ Settled(c, call, call.processors[k + 1], Info(call, s[k]), batch, cache)
          /\ s[k + 1] = After(c, call, batch, cache, s[k], call.processors[k + 1])
      BY <3>1 DEF Loop
    <3> HIDE DEF last
    <3> QED BY <1>1, <3>1, <3>2
  <2> QED BY <2>1, <2>2
<1> HIDE DEF t, last
<1>4. 0 .. (m + 1) - 1 = 0 .. m
  OBVIOUS
<1>5. Loop(c, call, batch, cache, m + 1, t)
  BY <1>2, <1>3, <1>4 DEF Loop
<1> QED BY <1>1, <1>5 DEF last

\* What the loop over all processors delivers.
Outcome(c, call, batch, cache, o) ==
  \E s : /\ Loop(c, call, batch, cache, Len(call.processors), s)
         /\ o = s[Len(call.processors)][2]

\* What the pop of a call takes.
Result(c, call, batch, cache, o) ==
  IF Executes(call) THEN Outcome(c, call, batch, cache, o) ELSE o = NoStatus

LEMMA ResultUnique ==
  ASSUME NEW c, NEW call, NEW batch, CallType(call, batch), NEW cache,
         NEW o, Result(c, call, batch, cache, o), NEW q, Result(c, call, batch, cache, q)
  PROVE  o = q
<1>1. CASE Executes(call)
  <2> DEFINE n == Len(call.processors)
  <2>1. n \in Nat
    <3>1. call.processors \in Seq(Processor)
      BY DEF CallType
    <3> QED BY <3>1
  <2>2. PICK s : Loop(c, call, batch, cache, n, s) /\ o = s[n][2]
    BY <1>1 DEF Result, Outcome
  <2>3. PICK t : Loop(c, call, batch, cache, n, t) /\ q = t[n][2]
    BY <1>1 DEF Result, Outcome
  <2> HIDE DEF n
  <2>4. \A k \in 0 .. n : s[k] = t[k]
    BY <2>1, <2>2, <2>3, LoopUnique
  <2>5. n \in 0 .. n
    BY <2>1
  <2> QED BY <2>2, <2>3, <2>4, <2>5
<1>2. CASE ~Executes(call)
  BY <1>2 DEF Result
<1> QED BY <1>1, <1>2

LEMMA ResultGrown ==
  ASSUME NEW c, NEW call, NEW batch, CallType(call, batch), NEW b, NEW d, Grown(d, b),
         NEW o, Result(c, call, batch, b, o)
  PROVE  Result(c, call, batch, d, o)
<1>1. CASE Executes(call)
  <2> DEFINE n == Len(call.processors)
  <2>1. n \in 0 .. Len(call.processors) /\ call.layer # "none"
    <3>1. call.processors \in Seq(Processor)
      BY DEF CallType
    <3> QED BY <1>1, <3>1 DEF Executes
  <2>2. PICK s : Loop(c, call, batch, b, n, s) /\ o = s[n][2]
    BY <1>1 DEF Result, Outcome
  <2>3. Loop(c, call, batch, d, n, s)
    <3> HIDE DEF n
    <3> QED BY <2>1, <2>2, LoopGrown
  <2> QED BY <1>1, <2>2, <2>3 DEF Result, Outcome
<1>2. CASE ~Executes(call)
  BY <1>2 DEF Result
<1> QED BY <1>1, <1>2

---------------------------------------------------------------------------
(* What the calls of a device do to its board and to its clocks, call by   *)
(* call.                                                                   *)

\* A call adds the status it finds to the board, and to the clocks from its push to its pop.
Adds(what, call, o, x) ==
  CASE what = "board"  -> IF Executes(call) THEN Append(x, o) ELSE x
    [] what = "status" ->
         set_pop_status(Forward(set_push_status(x, call.in.lane), call), call.out.lane, o)

\* h goes through the calls from l to n of the graph of w.
Course(what, c, w, l, n, cache, h) ==
  \A k \in l + 1 .. n :
    \E o : /\ Result(c, Calls(c, w)[k], w.batch, cache, o)
           /\ h[k] = Adds(what, Calls(c, w)[k], o, h[k - 1])
Reaches(what, c, w, l, x, n, cache, y) ==
  \E h : h[l] = x /\ Course(what, c, w, l, n, cache, h) /\ y = h[n]

WorkIn(c, w) == c \in Systems /\ \E works \in Works(c) : \E d \in Devices : w = works[d]

LEMMA WorkGraph ==
  ASSUME NEW c, NEW w, WorkIn(c, w)
  PROVE  /\ Len(Calls(c, w)) \in Nat /\ DOMAIN Calls(c, w) = 1 .. Len(Calls(c, w))
         /\ \A k \in 1 .. Len(Calls(c, w)) : CallType(Calls(c, w)[k], w.batch)
<1>1. PICK works \in Works(c), d \in Devices : c \in Systems /\ w = works[d]
  BY DEF WorkIn
<1> DEFINE graph == Calls(c, works[d])
<1>2. /\ Len(graph) \in Nat /\ DOMAIN graph = 1 .. Len(graph)
      /\ \A k \in DOMAIN graph : CallType(graph[k], works[d].batch)
  BY <1>1, CallsAssumption
<1>3. graph = Calls(c, w)
  BY <1>1
<1> HIDE DEF graph
<1> QED BY <1>1, <1>2, <1>3

LEMMA ReachesUnique ==
  ASSUME NEW what, NEW c, NEW w, WorkIn(c, w), NEW n \in 0 .. Len(Calls(c, w)), NEW l \in 0 .. n,
         NEW x, NEW cache, NEW y, Reaches(what, c, w, l, x, n, cache, y),
         NEW z, Reaches(what, c, w, l, x, n, cache, z)
  PROVE  y = z
<1> DEFINE graph == Calls(c, w)
<1>1. Len(graph) \in Nat /\ \A k \in 1 .. Len(graph) : CallType(graph[k], w.batch)
  BY WorkGraph
<1>2. PICK h : h[l] = x /\ Course(what, c, w, l, n, cache, h) /\ y = h[n]
  BY DEF Reaches
<1>3. PICK g : g[l] = x /\ Course(what, c, w, l, n, cache, g) /\ z = g[n]
  BY DEF Reaches
<1>4. ASSUME NEW k \in l + 1 .. n, h[k - 1] = g[k - 1] PROVE h[k] = g[k]
  <2>1. PICK o : Result(c, graph[k], w.batch, cache, o) /\ h[k] = Adds(what, graph[k], o, h[k - 1])
    BY <1>2 DEF Course
  <2>2. PICK q : Result(c, graph[k], w.batch, cache, q) /\ g[k] = Adds(what, graph[k], q, g[k - 1])
    BY <1>3 DEF Course
  <2>3. CallType(graph[k], w.batch)
    BY <1>1
  <2> DEFINE call == graph[k]
  <2> HIDE DEF call
  <2>4. o = q
    BY <2>1, <2>2, <2>3, ResultUnique DEF call
  <2> QED BY <1>4, <2>1, <2>2, <2>4
<1> HIDE DEF graph
<1> DEFINE Good == { j \in 0 .. n - l : h[l + j] = g[l + j] }
<1>5. n \in Nat /\ l \in Nat /\ n - l \in Nat
  BY <1>1 DEF graph
<1>6. 0 \in Good
  BY <1>2, <1>3, <1>5
<1>7. ASSUME NEW j \in 0 .. (n - l) - 1, j \in Good PROVE j + 1 \in Good
  <2> DEFINE k == l + j + 1
  <2>1. k \in l + 1 .. n /\ k - 1 = l + j /\ k = l + (j + 1) /\ j + 1 \in 0 .. n - l
    BY <1>5
  <2>2. h[l + j] = g[l + j]
    BY <1>7
  <2> HIDE DEF k
  <2>3. h[k] = g[k]
    BY <1>4, <2>1, <2>2
  <2> QED BY <2>1, <2>3
<1> DEFINE m == n - l
<1>8. \A j \in 0 .. m : j \in Good
  <2>1. m \in Nat /\ 0 \in Good /\ \A j \in 0 .. m - 1 : j \in Good => j + 1 \in Good
    BY <1>5, <1>6, <1>7
  <2> HIDE DEF Good, m
  <2> QED BY <2>1, BoundedInduction
<1>9. n - l \in Good
  BY <1>5, <1>8
<1>10. h[l + (n - l)] = g[l + (n - l)] /\ l + (n - l) = n
  BY <1>5, <1>9
<1> QED BY <1>2, <1>3, <1>10

LEMMA ReachesGrown ==
  ASSUME NEW what, NEW c, NEW w, WorkIn(c, w), NEW n \in 0 .. Len(Calls(c, w)), NEW l \in Nat,
         NEW x, NEW b, NEW y, Reaches(what, c, w, l, x, n, b, y), NEW d, Grown(d, b)
  PROVE  Reaches(what, c, w, l, x, n, d, y)
<1> DEFINE graph == Calls(c, w)
<1>1. Len(graph) \in Nat /\ \A k \in 1 .. Len(graph) : CallType(graph[k], w.batch)
  BY WorkGraph
<1>2. PICK h : h[l] = x /\ Course(what, c, w, l, n, b, h) /\ y = h[n]
  BY DEF Reaches
<1>3. ASSUME NEW k \in l + 1 .. n
      PROVE  \E o : Result(c, graph[k], w.batch, d, o) /\ h[k] = Adds(what, graph[k], o, h[k - 1])
  <2>1. PICK o : Result(c, graph[k], w.batch, b, o) /\ h[k] = Adds(what, graph[k], o, h[k - 1])
    BY <1>2 DEF Course
  <2>2. CallType(graph[k], w.batch)
    <3>1. k \in 1 .. Len(graph)
      BY <1>1
    <3> QED BY <1>1, <3>1
  <2> DEFINE call == graph[k]
  <2> HIDE DEF call
  <2>3. Result(c, call, w.batch, d, o)
    BY <2>1, <2>2, ResultGrown DEF call
  <2> QED BY <2>1, <2>3 DEF call
<1>4. Course(what, c, w, l, n, d, h)
  BY <1>3 DEF Course
<1> QED BY <1>2, <1>4 DEF Reaches

LEMMA ReachesStart ==
  ASSUME NEW what, NEW c, NEW w, NEW l \in Nat, NEW x, NEW cache
  PROVE  Reaches(what, c, w, l, x, l, cache, x)
<1> DEFINE h == [k \in {l} |-> x]
<1>1. h[l] = x /\ l + 1 .. l = {}
  OBVIOUS
<1> HIDE DEF h
<1>2. Course(what, c, w, l, l, cache, h)
  BY <1>1 DEF Course
<1> QED BY <1>1, <1>2 DEF Reaches

LEMMA ReachesNext ==
  ASSUME NEW what, NEW c, NEW w, NEW n \in Nat, NEW l \in 0 .. n, NEW x, NEW cache,
         NEW y, Reaches(what, c, w, l, x, n, cache, y),
         NEW call, call = Calls(c, w)[n + 1], NEW o, Result(c, call, w.batch, cache, o)
  PROVE  Reaches(what, c, w, l, x, n + 1, cache, Adds(what, call, o, y))
<1>1. PICK h : h[l] = x /\ Course(what, c, w, l, n, cache, h) /\ y = h[n]
  BY DEF Reaches
<1> DEFINE z == Adds(what, call, o, y)
           g == [k \in 0 .. n + 1 |-> IF k = n + 1 THEN z ELSE h[k]]
<1>2. g[n + 1] = z /\ \A k \in 0 .. n : g[k] = h[k]
  OBVIOUS
<1> HIDE DEF g, z
<1>3. g[l] = x /\ g[n] = y
  BY <1>1, <1>2
<1>4. ASSUME NEW k \in l + 1 .. n + 1
      PROVE  \E q : /\ Result(c, Calls(c, w)[k], w.batch, cache, q)
                    /\ g[k] = Adds(what, Calls(c, w)[k], q, g[k - 1])
  <2>1. CASE k = n + 1
    <3>1. k - 1 = n
      BY <2>1
    <3> QED BY <1>2, <1>3, <2>1, <3>1 DEF z
  <2>2. CASE k # n + 1
    <3>1. k \in l + 1 .. n /\ k \in 0 .. n /\ k - 1 \in 0 .. n
      BY <2>2
    <3>2. PICK q : /\ Result(c, Calls(c, w)[k], w.batch, cache, q)
                   /\ h[k] = Adds(what, Calls(c, w)[k], q, h[k - 1])
      BY <1>1, <3>1 DEF Course
    <3> QED BY <1>2, <3>1, <3>2
  <2> QED BY <2>1, <2>2
<1>5. Course(what, c, w, l, n + 1, cache, g)
  BY <1>4 DEF Course
<1> QED BY <1>2, <1>3, <1>5 DEF Reaches, z

---------------------------------------------------------------------------
(* Equal work, equal boards.                                               *)

\* How many of its calls a device has on its board.
Done(d) == IF d = turn /\ trial.step = "pop" THEN cur[d] ELSE cur[d] - 1

Trying(call, batch) ==
  \E m \in 0 .. Len(call.processors) : \E s :
    /\ Loop(system, call, batch, execution_time_cache, m, s)
    /\ s[m] = << trial.cols, trial.optimal >>
    /\ Len(trial.left) = Len(call.processors) - m
    /\ \A k \in 1 .. Len(trial.left) : trial.left[k] = call.processors[m + k]

\* Whatever was delivered so far, in this iteration or before, is what the cache
\* makes of the same calls now.
BoardsInv ==
  /\ trial.step # "push" => CallOf(turn).waits = 1
  /\ trial.step = "try" => Trying(CallOf(turn), work[turn].batch)
  /\ trial.step = "pop" => Result(system, CallOf(turn), work[turn].batch, execution_time_cache,
                                  exec_status[turn])
  /\ \A d \in Devices :
       Reaches("board", system, work[d], 0, << >>, Done(d), execution_time_cache, board[d])
  /\ \A ended \in past : \A d \in Devices :
       /\ WorkIn(system, ended.work[d])
       /\ Reaches("board", system, ended.work[d], 0, << >>, Len(Calls(system, ended.work[d])),
                  execution_time_cache, ended.board[d])

LEMMA DeviceAt ==
  ASSUME PlaceInv, NEW d \in Devices
  PROVE  /\ WorkIn(system, work[d]) /\ calls[d] = Calls(system, work[d])
         /\ Len(calls[d]) \in Nat /\ cur[d] \in 1 .. Len(calls[d]) + 1
         /\ cur[d] - 1 \in 0 .. Len(calls[d])
<1>1. Len(calls[d]) \in Nat /\ cur[d] \in 1 .. Len(calls[d]) + 1
  BY Graphs DEF PlaceInv
<1>2. WorkIn(system, work[d]) /\ calls[d] = Calls(system, work[d])
  BY DEF PlaceInv, WorkIn
<1> QED BY <1>1, <1>2

\* A call that delivers nothing leaves the board.
LEMMA BoardSkips ==
  ASSUME PlaceInv, NEW d \in Devices, ~Ends(d), ~Executes(CallOf(d)), NEW cache, NEW b,
         Reaches("board", system, work[d], 0, << >>, cur[d] - 1, cache, b)
  PROVE  Reaches("board", system, work[d], 0, << >>, cur[d], cache, b)
<1> DEFINE n == cur[d] - 1
           call == CallOf(d)
<1>1. n \in Nat /\ n + 1 = cur[d] /\ 0 \in 0 .. n
  BY DeviceAt
<1>2. call = Calls(system, work[d])[n + 1]
  BY <1>1, DeviceAt DEF CallOf
<1>3. Result(system, call, work[d].batch, cache, NoStatus)
  BY DEF Result
<1>4. Adds("board", call, NoStatus, b) = b
  BY DEF Adds
<1> HIDE DEF n, call
<1>5. Reaches("board", system, work[d], 0, << >>, n, cache, b)
  BY DEF n
<1>6. Reaches("board", system, work[d], 0, << >>, n + 1, cache, Adds("board", call, NoStatus, b))
  BY <1>1, <1>2, <1>3, <1>5, ReachesNext
<1> QED BY <1>1, <1>4, <1>6

LEMMA BoardsInit == Init => BoardsInv
<1> SUFFICES ASSUME Init PROVE BoardsInv
  OBVIOUS
<1>1. /\ trial = NoTrial /\ cur = [d \in Devices |-> 1] /\ board = [d \in Devices |-> << >>]
      /\ past = {}
  BY DEF Init
<1>2. trial.step = "push"
  BY <1>1 DEF NoTrial
<1>3. \A d \in Devices : Done(d) = 0 /\ board[d] = << >>
  BY <1>1, <1>2 DEF Done
<1>4. ASSUME NEW d \in Devices
      PROVE  Reaches("board", system, work[d], 0, << >>, 0, execution_time_cache, << >>)
  BY ReachesStart
<1> QED BY <1>1, <1>2, <1>3, <1>4 DEF BoardsInv

LEMMA BoardsPush ==
  ASSUME PlaceInv, CountInv, BoardsInv, NEW d \in Devices, Push(d)
  PROVE  BoardsInv'
<1> DEFINE call == CallOf(d)
<1>1. /\ turn = d /\ ~Ends(d) /\ trial.step = "push" /\ call.waits = 1
      /\ trial' = [NoTrial EXCEPT !.step = IF call.layer = "none" THEN "pop" ELSE "try",
                                  !.left = call.processors, !.cols = call.info.cols]
      /\ UNCHANGED << system, turn, work, calls, cur, exec_status, board, execution_time_cache, past >>
  BY DEF Push, Runs
<1>2. /\ trial'.step = IF call.layer = "none" THEN "pop" ELSE "try"
      /\ trial'.left = call.processors /\ trial'.cols = call.info.cols
      /\ trial'.optimal = NoStatus
  BY <1>1 DEF NoTrial
<1>3. CallOf(turn)' = call /\ CallOf(turn) = call
  BY <1>1 DEF CallOf
<1>4. exec_status[d] = NoStatus
  BY <1>1 DEF CountInv
<1>5. ASSUME trial'.step = "try" PROVE Trying(CallOf(turn), work[turn].batch)'
  <2> DEFINE s == [k \in {0} |-> << call.info.cols, NoStatus >>]
             n == Len(call.processors)
  <2>1. n \in Nat
    <3>1. call.processors \in Seq(Processor)
      BY <1>1, AtCall DEF CallType
    <3> QED BY <3>1
  <2>2. s[0] = << call.info.cols, NoStatus >> /\ 0 .. 0 - 1 = {}
    OBVIOUS
  <2> HIDE DEF s
  <2>3. Loop(system, call, work[d].batch, execution_time_cache, 0, s)
    BY <2>2 DEF Loop
  <2>4. 0 \in 0 .. n /\ n = n - 0
    BY <2>1
  <2>5. \A k \in 1 .. n : call.processors[k] = call.processors[0 + k]
    BY <2>1
  <2> HIDE DEF call
  <2> QED BY <1>1, <1>2, <1>3, <2>2, <2>3, <2>4, <2>5 DEF Trying
<1>6. ASSUME trial'.step = "pop"
      PROVE  Result(system, CallOf(turn), work[turn].batch, execution_time_cache, exec_status[turn])'
  <2>1. ~Executes(call)
    BY <1>2, <1>6 DEF Executes
  <2> HIDE DEF call
  <2>2. Result(system, call, work[d].batch, execution_time_cache, exec_status[d])
    BY <1>4, <2>1 DEF Result
  <2> QED BY <1>1, <1>3, <2>2
<1>7. ASSUME NEW e \in Devices
      PROVE  Reaches("board", system, work[e], 0, << >>, Done(e), execution_time_cache, board[e])'
  <2>1. Reaches("board", system, work[e], 0, << >>, cur[e] - 1, execution_time_cache, board[e])
    BY <1>1 DEF BoardsInv, Done
  <2>2. CASE e = d /\ call.layer = "none"
    <3>1. ~Executes(call)
      BY <2>2 DEF Executes
    <3>2. Reaches("board", system, work[d], 0, << >>, cur[d], execution_time_cache, board[d])
      BY <1>1, <2>1, <2>2, <3>1, BoardSkips
    <3>3. Done(e)' = cur[d]
      BY <1>1, <1>2, <2>2 DEF Done
    <3> QED BY <1>1, <2>2, <3>2, <3>3
  <2>3. CASE ~(e = d /\ call.layer = "none")
    <3>1. Done(e)' = cur[e] - 1
      BY <1>1, <1>2, <2>3 DEF Done
    <3> QED BY <1>1, <2>1, <3>1
  <2> QED BY <2>2, <2>3
<1> HIDE DEF call
<1> QED BY <1>1, <1>3, <1>5, <1>6, <1>7 DEF BoardsInv

\* A larger cache.
LEMMA BoardsGrown ==
  ASSUME PlaceInv, BoardsInv, NEW cache, Grown(cache, execution_time_cache)
  PROVE  /\ \A d \in Devices : trial.step # "pop" =>
              Reaches("board", system, work[d], 0, << >>, cur[d] - 1, cache, board[d])
         /\ \A ended \in past : \A d \in Devices :
              /\ WorkIn(system, ended.work[d])
              /\ Reaches("board", system, ended.work[d], 0, << >>,
                         Len(Calls(system, ended.work[d])), cache, ended.board[d])
<1>1. ASSUME NEW d \in Devices, trial.step # "pop"
      PROVE  Reaches("board", system, work[d], 0, << >>, cur[d] - 1, cache, board[d])
  <2>1. WorkIn(system, work[d]) /\ cur[d] - 1 \in 0 .. Len(Calls(system, work[d]))
    BY DeviceAt
  <2>2. Reaches("board", system, work[d], 0, << >>, cur[d] - 1, execution_time_cache, board[d])
    BY <1>1 DEF BoardsInv, Done
  <2> QED BY <2>1, <2>2, ReachesGrown
<1>2. ASSUME NEW ended \in past, NEW d \in Devices
      PROVE  /\ WorkIn(system, ended.work[d])
             /\ Reaches("board", system, ended.work[d], 0, << >>,
                        Len(Calls(system, ended.work[d])), cache, ended.board[d])
  <2> DEFINE w == ended.work[d]
             b == ended.board[d]
             n == Len(Calls(system, w))
  <2>1. WorkIn(system, w) /\ Reaches("board", system, w, 0, << >>, n, execution_time_cache, b)
    BY DEF BoardsInv
  <2> HIDE DEF w, b
  <2>2. n \in 0 .. Len(Calls(system, w))
    BY <2>1, WorkGraph
  <2>3. Reaches("board", system, w, 0, << >>, n, cache, b)
    <3> HIDE DEF n
    <3> QED BY <2>1, <2>2, ReachesGrown
  <2> QED BY <2>1, <2>3 DEF w, b
<1> QED BY <1>1, <1>2
LEMMA BoardsTry ==
  ASSUME RamulatorTimes, PlaceInv, TypeInv, BoardsInv, NEW d \in Devices, Try(d)
  PROVE  BoardsInv'
<1> DEFINE call == CallOf(turn)
           batch == work[turn].batch
           p == Head(trial.left)
           i == [call.info EXCEPT !.cols = trial.cols]
           e == executePType(system, call, p, i, batch, execution_time_cache, dram[turn])
           n == Len(call.processors)
<1>1. /\ turn = d /\ ~Ends(d) /\ trial.step = "try" /\ trial.left # << >>
      /\ UNCHANGED << system, turn, work, calls, cur, exec_status, board, past >>
  BY DEF Try, Runs
<1>2. /\ trial' = [trial EXCEPT
                     !.left = Tail(@),
                     !.optimal = IF Better(@, e.status) THEN e.status ELSE @,
                     !.tried = Append(@, e.status),
                     !.cols = IF call.layer = "ATTENTION_SUM"
                              THEN ColsAfterSum(i, p) ELSE @]
      /\ execution_time_cache' = e.dram.cache
  BY <1>1 DEF Try
<1>3. /\ Grown(e.dram.cache, execution_time_cache)
      /\ Settled(system, call, p, i, batch, e.dram.cache)
      /\ e.status = Attempt(system, call, p, i, batch, e.dram.cache)
  <2>1. CacheType(execution_time_cache) /\ dram[turn] \in Nat
    BY <1>1 DEF TypeInv
  <2>2. Grown(e.dram.cache, execution_time_cache)
    BY <1>1, <2>1, Executed
  <2>3. Delivers(e, system, call, p, i, batch)
    BY <1>1, <2>1, Executed
  <2> HIDE DEF e, i, p, call, batch
  <2> QED BY <2>2, <2>3 DEF Delivers
<1>4. /\ (IF call.layer = "ATTENTION_SUM" THEN ColsAfterSum(i, p) ELSE trial.cols)
           \in Columns(call)
      /\ trial.cols \in Columns(call) /\ call.layer # "none"
      /\ trial.left \in Seq(Range(call.processors))
  BY <1>1, Tried DEF PlaceInv
<1>5. CallType(call, batch) /\ n \in Nat
  <2>1. CallType(call, batch)
    BY <1>1, AtCall
  <2>2. call.processors \in Seq(Processor)
    BY <2>1 DEF CallType
  <2> QED BY <2>1, <2>2
<1>6. /\ {"step", "left", "optimal", "cols"} \subseteq DOMAIN trial
  BY DEF PlaceInv, NoTrial
<1>7. CallOf(turn)' = call /\ work[turn].batch' = batch
  BY <1>1 DEF CallOf
<1> DEFINE cache == e.dram.cache
           result == e.status
<1>8. PICK m \in 0 .. n : \E s :
        /\ Loop(system, call, batch, execution_time_cache, m, s)
        /\ s[m] = << trial.cols, trial.optimal >>
        /\ Len(trial.left) = n - m
        /\ \A k \in 1 .. Len(trial.left) : trial.left[k] = call.processors[m + k]
  BY <1>1 DEF BoardsInv, Trying
<1>9. PICK s :
        /\ Loop(system, call, batch, execution_time_cache, m, s)
        /\ s[m] = << trial.cols, trial.optimal >>
        /\ Len(trial.left) = n - m
        /\ \A k \in 1 .. Len(trial.left) : trial.left[k] = call.processors[m + k]
  BY <1>8
<1>10. /\ m + 1 \in 0 .. n /\ m \in Nat /\ p = call.processors[m + 1]
       /\ Len(Tail(trial.left)) = n - (m + 1)
       /\ \A k \in 1 .. n - (m + 1) : Tail(trial.left)[k] = call.processors[(m + 1) + k]
  <2> DEFINE left == trial.left
  <2>1. left \in Seq(Range(call.processors)) /\ left # << >>
    BY <1>1, <1>4
  <2>2. Len(left) \in Nat \ {0} /\ Len(Tail(left)) = Len(left) - 1 /\ Head(left) = left[1]
        /\ \A k \in 1 .. Len(left) - 1 : Tail(left)[k] = left[k + 1]
    <3> HIDE DEF left
    <3> QED BY <2>1
  <2>3. Len(left) = n - m /\ \A k \in 1 .. Len(left) : left[k] = call.processors[m + k]
    BY <1>9
  <2> HIDE DEF left, n, call
  <2>4. n - m >= 1 /\ m + 1 \in 0 .. n /\ Len(Tail(left)) = n - (m + 1)
    BY <1>5, <2>2, <2>3
  <2>5. left[1] = call.processors[m + 1]
    BY <2>3, <2>4
  <2>6. ASSUME NEW k \in 1 .. n - (m + 1)
        PROVE  Tail(left)[k] = call.processors[(m + 1) + k]
    <3>1. k \in 1 .. Len(left) - 1 /\ k + 1 \in 1 .. Len(left) /\ m + (k + 1) = (m + 1) + k
      BY <1>5, <2>3, <2>4
    <3> QED BY <2>2, <2>3, <3>1
  <2> QED BY <2>2, <2>4, <2>5, <2>6 DEF left
<1> HIDE DEF cache, result, e, n
<1>11. Loop(system, call, batch, cache, m, s)
  <2> HIDE DEF call, batch
  <2> QED BY <1>3, <1>4, <1>5, <1>9, LoopGrown DEF cache, n
<1>12. Info(call, s[m]) = i /\ s[m][1] = trial.cols /\ s[m][2] = trial.optimal
  BY <1>9 DEF Info
<1> HIDE DEF i, p, call, batch
<1>13. s[m][1] \in Columns(call) /\ Settled(system, call, call.processors[m + 1], Info(call, s[m]), batch, cache)
  BY <1>3, <1>4, <1>10, <1>12 DEF cache
<1>14. PICK t : /\ Loop(system, call, batch, cache, m + 1, t)
                /\ t[m + 1] = After(system, call, batch, cache, s[m], call.processors[m + 1])
  BY <1>10, <1>11, <1>13, LoopAttempt
<1>15. result = AttemptAt(system, call, batch, cache, s[m], call.processors[m + 1])
  BY <1>3, <1>10, <1>12 DEF AttemptAt, result, cache
<1>16. t[m + 1] = << trial'.cols, trial'.optimal >>
  <2>1. /\ trial'.cols = (IF call.layer = "ATTENTION_SUM" THEN ColsAfterSum(i, p)
                          ELSE trial.cols)
        /\ trial'.optimal = (IF Better(trial.optimal, result) THEN result ELSE trial.optimal)
    BY <1>2, <1>6 DEF result
  <2> QED BY <1>10, <1>12, <1>14, <1>15, <2>1 DEF After
<1>17. trial'.step = "try" /\ trial'.left = Tail(trial.left) /\ execution_time_cache' = cache
  BY <1>1, <1>2, <1>6 DEF cache
<1>18. Trying(CallOf(turn), work[turn].batch)'
  <2> DEFINE k == m + 1
  <2>1. k \in 0 .. Len(call.processors) /\ Len(Tail(trial.left)) = Len(call.processors) - k
        /\ \A j \in 1 .. Len(Tail(trial.left)) : Tail(trial.left)[j] = call.processors[k + j]
    BY <1>10 DEF n
  <2>2. Loop(system, call, batch, cache, k, t) /\ t[k] = << trial'.cols, trial'.optimal >>
    BY <1>14, <1>16
  <2> HIDE DEF k
  <2> QED BY <1>1, <1>7, <1>17, <2>1, <2>2 DEF Trying
<1>19. ASSUME NEW b \in Devices
       PROVE  Reaches("board", system, work[b], 0, << >>, Done(b), execution_time_cache, board[b])'
  <2>1. Reaches("board", system, work[b], 0, << >>, cur[b] - 1, cache, board[b])
    BY <1>1, <1>3, BoardsGrown DEF cache
  <2>2. Done(b)' = cur[b] - 1
    BY <1>1, <1>17 DEF Done
  <2> QED BY <1>1, <1>17, <2>1, <2>2
<1>20. \A ended \in past : \A b \in Devices :
         /\ WorkIn(system, ended.work[b])
         /\ Reaches("board", system, ended.work[b], 0, << >>, Len(Calls(system, ended.work[b])),
                    cache, ended.board[b])
  BY <1>3, BoardsGrown DEF cache
<1>21. CallOf(turn)'.waits = 1
  <2>1. call.waits = 1
    BY <1>1 DEF BoardsInv, call
  <2> QED BY <1>7, <2>1
<1> QED BY <1>1, <1>17, <1>18, <1>19, <1>20, <1>21 DEF BoardsInv
LEMMA BoardsDeliver ==
  ASSUME PlaceInv, TypeInv, BoardsInv, NEW d \in Devices, Deliver(d)
  PROVE  BoardsInv'
<1> DEFINE call == CallOf(turn)
           batch == work[turn].batch
           n == Len(call.processors)
           o == trial.optimal
<1>1. /\ turn = d /\ ~Ends(d) /\ trial.step = "try" /\ trial.left = << >>
      /\ exec_status' = [exec_status EXCEPT ![d] = o]
      /\ board' = [board EXCEPT ![d] = Append(@, o)]
      /\ trial' = [trial EXCEPT !.step = "pop"]
      /\ UNCHANGED << system, turn, work, calls, cur, execution_time_cache, past >>
  BY DEF Deliver, Runs
<1>2. trial'.step = "pop" /\ exec_status'[d] = o
      /\ board'[d] = Append(board[d], o) /\ \A b \in Devices : b # d => board'[b] = board[b]
  <2>1. "step" \in DOMAIN trial
    BY DEF PlaceInv, NoTrial
  <2> QED BY <1>1, <2>1 DEF TypeInv
<1>3. CallOf(turn)' = call /\ work[turn].batch' = batch
  BY <1>1 DEF CallOf
<1>4. call.waits = 1 /\ call.layer # "none"
  BY <1>1 DEF BoardsInv, PlaceInv
<1>5. n \in Nat
  <2>1. CallType(call, batch)
    BY <1>1, AtCall
  <2>2. call.processors \in Seq(Processor)
    BY <2>1 DEF CallType
  <2> QED BY <2>2
<1>6. Outcome(system, call, batch, execution_time_cache, o)
  <2>1. PICK m \in 0 .. n : \E s :
          /\ Loop(system, call, batch, execution_time_cache, m, s)
          /\ s[m] = << trial.cols, trial.optimal >>
          /\ Len(trial.left) = n - m
    BY <1>1 DEF BoardsInv, Trying
  <2>2. m = n
    <3>1. Len(trial.left) = 0 /\ Len(trial.left) = n - m
      BY <1>1, <2>1
    <3> HIDE DEF n
    <3> QED BY <1>5, <3>1
  <2>3. PICK s : /\ Loop(system, call, batch, execution_time_cache, n, s)
                 /\ s[n] = << trial.cols, trial.optimal >>
    BY <2>1, <2>2
  <2>4. o = s[n][2]
    BY <2>3
  <2> HIDE DEF call, batch, o
  <2> QED BY <2>3, <2>4 DEF Outcome
<1>7. Result(system, call, batch, execution_time_cache, o) /\ Executes(call)
  BY <1>4, <1>6 DEF Result, Executes
<1>8. ASSUME NEW e \in Devices
      PROVE  Reaches("board", system, work[e], 0, << >>, Done(e), execution_time_cache, board[e])'
  <2>1. Reaches("board", system, work[e], 0, << >>, cur[e] - 1, execution_time_cache, board[e])
    BY <1>1 DEF BoardsInv, Done
  <2>2. CASE e = d
    <3> DEFINE k == cur[d] - 1
    <3>1. k \in Nat /\ k + 1 = cur[d] /\ 0 \in 0 .. k
      BY DeviceAt
    <3>2. call = Calls(system, work[d])[k + 1]
      BY <1>1, <3>1, DeviceAt DEF CallOf
    <3>3. Adds("board", call, o, board[d]) = Append(board[d], o)
      BY <1>7 DEF Adds
    <3>4. Reaches("board", system, work[d], 0, << >>, k, execution_time_cache, board[d])
      BY <2>1, <2>2
    <3>5. Result(system, call, work[d].batch, execution_time_cache, o)
      BY <1>1, <1>7
    <3> HIDE DEF k, call, o, batch
    <3>6. Reaches("board", system, work[d], 0, << >>, k + 1, execution_time_cache,
                  Adds("board", call, o, board[d]))
      BY <3>1, <3>2, <3>4, <3>5, ReachesNext
    <3>7. Done(e)' = cur[d]
      BY <1>1, <1>2, <2>2 DEF Done
    <3> QED BY <1>1, <1>2, <2>2, <3>1, <3>3, <3>6, <3>7
  <2>3. CASE e # d
    <3>1. Done(e)' = cur[e] - 1
      BY <1>1, <1>2, <2>3 DEF Done
    <3> QED BY <1>1, <1>2, <2>1, <2>3, <3>1
  <2> QED BY <2>2, <2>3
<1>9. Result(system, CallOf(turn), work[turn].batch, execution_time_cache, exec_status[turn])'
  <2> HIDE DEF call, o, batch
  <2> QED BY <1>1, <1>2, <1>3, <1>7
<1>10. CallOf(turn)'.waits = 1
  BY <1>3, <1>4
<1> HIDE DEF call, o, batch
<1> QED BY <1>1, <1>2, <1>8, <1>9, <1>10 DEF BoardsInv

LEMMA BoardsPop ==
  ASSUME PlaceInv, BoardsInv, NEW d \in Devices, Pop(d)
  PROVE  BoardsInv'
<1>1. /\ turn = d /\ trial.step = "pop" /\ cur' = [cur EXCEPT ![d] = @ + 1]
      /\ trial'.step = "push"
      /\ UNCHANGED << system, turn, work, calls, board, execution_time_cache, past >>
  BY DEF Pop, Runs, NoTrial
<1>2. ASSUME NEW e \in Devices
      PROVE  Reaches("board", system, work[e], 0, << >>, Done(e), execution_time_cache, board[e])'
  <2>1. Done(e)' = Done(e)
    <3>1. Done(e)' = cur'[e] - 1
      BY <1>1 DEF Done
    <3>2. cur'[e] = (IF e = d THEN cur[e] + 1 ELSE cur[e])
      BY <1>1 DEF PlaceInv
    <3>3. cur[d] \in Nat
      BY DeviceAt
    <3> QED BY <1>1, <3>1, <3>2, <3>3 DEF Done
  <2> QED BY <1>1, <2>1 DEF BoardsInv
<1> QED BY <1>1, <1>2 DEF BoardsInv

LEMMA BoardsSynchronise ==
  ASSUME PlaceInv, BoardsInv, NEW d \in Devices, Synchronise(d)
  PROVE  BoardsInv'
<1>1. /\ turn = d /\ ~Ends(d) /\ trial.step = "push" /\ CallOf(d).waits > 1 /\ Arrived(d)
      /\ cur' = [e \in Devices |-> IF e \in Group(d) THEN cur[e] + 1 ELSE cur[e]]
      /\ UNCHANGED << system, turn, work, calls, trial, board, execution_time_cache, past >>
  BY DEF Synchronise, Runs
<1>2. ASSUME NEW e \in Devices
      PROVE  Reaches("board", system, work[e], 0, << >>, Done(e), execution_time_cache, board[e])'
  <2>1. Reaches("board", system, work[e], 0, << >>, cur[e] - 1, execution_time_cache, board[e])
    BY <1>1 DEF BoardsInv, Done
  <2>2. Done(e)' = cur'[e] - 1
    BY <1>1 DEF Done
  <2>3. CASE e \in Group(d)
    <3>1. ~Ends(e) /\ CallOf(e).waits = CallOf(d).waits
      BY <1>1, <2>3, GroupAtCall
    <3>2. ~Executes(CallOf(e))
      BY <1>1, <3>1 DEF Executes
    <3>3. Reaches("board", system, work[e], 0, << >>, cur[e], execution_time_cache, board[e])
      BY <2>1, <3>1, <3>2, BoardSkips
    <3>4. cur'[e] - 1 = cur[e]
      <4>1. cur[e] \in Nat
        BY DeviceAt
      <4> QED BY <1>1, <2>3, <4>1
    <3> QED BY <1>1, <2>2, <3>3, <3>4
  <2>4. CASE e \notin Group(d)
    BY <1>1, <2>1, <2>2, <2>4
  <2> QED BY <2>3, <2>4
<1> QED BY <1>1, <1>2 DEF BoardsInv

LEMMA BoardsNextDevice ==
  ASSUME PlaceInv, BoardsInv, NEW d \in Devices, NextDevice(d)
  PROVE  BoardsInv'
<1>1. /\ turn = d /\ (~Ends(d) => trial.step = "push")
      /\ UNCHANGED << system, work, calls, cur, trial, board, execution_time_cache, past >>
  BY DEF NextDevice
<1>2. trial.step = "push"
  BY <1>1 DEF PlaceInv
<1>3. \A e \in Devices : Done(e)' = Done(e)
  BY <1>1, <1>2 DEF Done
<1> QED BY <1>1, <1>2, <1>3 DEF BoardsInv

LEMMA BoardsRestart ==
  ASSUME PlaceInv, BoardsInv, Restart
  PROVE  BoardsInv'
<1>1. /\ \A d \in Devices : Ends(d)
      /\ UNCHANGED << system, trial, execution_time_cache >>
      /\ cur' = [d \in Devices |-> 1] /\ board' = [d \in Devices |-> << >>]
      /\ past' = past \cup { [work |-> work, board |-> board, status |-> status] }
  BY DEF Restart, Ready, AllDone
<1>2. trial.step = "push"
  BY <1>1 DEF PlaceInv
<1>3. ASSUME NEW d \in Devices
      PROVE  Reaches("board", system, work[d], 0, << >>, Done(d), execution_time_cache, board[d])'
  <2>1. Done(d)' = 0 /\ board'[d] = << >>
    BY <1>1, <1>2 DEF Done
  <2>2. Reaches("board", system', work'[d], 0, << >>, 0, execution_time_cache', << >>)
    BY ReachesStart
  <2> QED BY <2>1, <2>2
<1>4. ASSUME NEW d \in Devices
      PROVE  /\ WorkIn(system, work[d])
             /\ Reaches("board", system, work[d], 0, << >>, Len(Calls(system, work[d])),
                        execution_time_cache, board[d])
  <2>1. WorkIn(system, work[d]) /\ calls[d] = Calls(system, work[d])
        /\ cur[d] \in 1 .. Len(calls[d]) + 1 /\ Len(calls[d]) \in Nat
    BY DeviceAt
  <2>2. cur[d] - 1 = Len(Calls(system, work[d]))
    BY <1>1, <2>1 DEF Ends
  <2>3. Reaches("board", system, work[d], 0, << >>, cur[d] - 1, execution_time_cache, board[d])
    BY <1>2 DEF BoardsInv, Done
  <2> QED BY <2>1, <2>2, <2>3
<1>5. ASSUME NEW ended \in past', NEW d \in Devices
      PROVE  /\ WorkIn(system, ended.work[d])
             /\ Reaches("board", system, ended.work[d], 0, << >>, Len(Calls(system, ended.work[d])),
                        execution_time_cache, ended.board[d])
  <2>1. CASE ended \in past
    BY <2>1 DEF BoardsInv
  <2>2. CASE ended = [work |-> work, board |-> board, status |-> status]
    <3>1. ended.work = work /\ ended.board = board
      BY <2>2
    <3> QED BY <1>4, <3>1
  <2> QED BY <1>1, <2>1, <2>2
<1> QED BY <1>1, <1>2, <1>3, <1>5 DEF BoardsInv

LEMMA BoardsStep ==
  ASSUME RamulatorTimes
  PROVE  PlaceInv /\ CountInv /\ TypeInv /\ BoardsInv /\ [Next]_vars => BoardsInv'
<1> SUFFICES ASSUME PlaceInv, CountInv, TypeInv, BoardsInv, [Next]_vars PROVE BoardsInv'
  OBVIOUS
<1>1. ASSUME NEW d \in Devices,
             Push(d) \/ Try(d) \/ Deliver(d) \/ Pop(d) \/ Synchronise(d) \/ NextDevice(d)
      PROVE  BoardsInv'
  BY <1>1, BoardsPush, BoardsTry, BoardsDeliver, BoardsPop, BoardsSynchronise, BoardsNextDevice
<1>2. CASE Restart
  BY <1>2, BoardsRestart
<1>3. CASE UNCHANGED vars
  <2>1. \A d \in Devices : Done(d)' = Done(d)
    BY <1>3 DEF vars, Done
  <2>2. CallOf(turn)' = CallOf(turn)
    BY <1>3 DEF vars, CallOf
  <2>3. Trying(CallOf(turn), work[turn].batch) => Trying(CallOf(turn), work[turn].batch)'
    BY <1>3, <2>2 DEF vars, Trying
  <2> QED BY <1>3, <2>1, <2>2, <2>3 DEF vars, BoardsInv
<1> QED BY <1>1, <1>2, <1>3 DEF Next
---------------------------------------------------------------------------
(* Equal work, equal clocks in a group: what has been added to the clocks  *)
(* since the last time the devices waited.                                 *)

Twins(d, e) == d \div system.ne_tp_dg = e \div system.ne_tp_dg /\ work[d] = work[e]

\* Between the push and the pop of a call the board is as the push left it.
Pushed(d, x) ==
  IF d = turn /\ trial.step # "push"
  THEN Forward(set_push_status(x, CallOf(d).in.lane), CallOf(d)) ELSE x

\* Call l left the status b, and the calls since have made of it the status of d.
Clock(d, l, b) ==
  /\ l \in 0 .. cur[d] - 1
  /\ \E x : /\ Reaches("status", system, work[d], l, b, cur[d] - 1, execution_time_cache, x)
            /\ status[d] = Pushed(d, x)

ClockInv == \A d, e \in Devices : Twins(d, e) => \E l, b : Clock(d, l, b) /\ Clock(e, l, b)

\* Twins whose clocks started together are together again.
LEMMA TwinClocks ==
  ASSUME PlaceInv, NEW d \in Devices, NEW e \in Devices, Twins(d, e), cur[d] = cur[e],
         trial.step = "push", NEW l, NEW b, Clock(d, l, b), Clock(e, l, b)
  PROVE  status[d] = status[e]
<1> DEFINE n == cur[d] - 1
           w == work[d]
<1>1. PICK x : Reaches("status", system, w, l, b, n, execution_time_cache, x) /\ status[d] = x
  BY DEF Clock, Pushed
<1>2. PICK y : Reaches("status", system, w, l, b, n, execution_time_cache, y) /\ status[e] = y
  BY DEF Clock, Pushed, Twins
<1>3. WorkIn(system, w) /\ n \in 0 .. Len(Calls(system, w)) /\ l \in 0 .. n
  BY DeviceAt DEF Clock
<1> HIDE DEF n, w
<1> QED BY <1>1, <1>2, <1>3, ReachesUnique

\* A step that leaves the work and does not let a device wait.
LEMMA ClockSteps ==
  ASSUME ClockInv, UNCHANGED << system, work >>,
         \A d \in Devices : \A l, b : Clock(d, l, b) => Clock(d, l, b)'
  PROVE  ClockInv'
<1> SUFFICES ASSUME NEW d \in Devices, NEW e \in Devices, Twins(d, e)'
             PROVE  \E l, b : Clock(d, l, b)' /\ Clock(e, l, b)'
  BY DEF ClockInv
<1>1. Twins(d, e)
  BY DEF Twins
<1>2. PICK l, b : Clock(d, l, b) /\ Clock(e, l, b)
  BY <1>1 DEF ClockInv
<1> QED BY <1>2

\* A device that the step does not move, with a larger cache.
LEMMA ClockStays ==
  ASSUME PlaceInv, NEW d \in Devices, NEW l, NEW b, Clock(d, l, b),
         system' = system, work'[d] = work[d], cur'[d] = cur[d], status'[d] = status[d],
         Grown(execution_time_cache', execution_time_cache),
         \A x : Pushed(d, x)' = Pushed(d, x)
  PROVE  Clock(d, l, b)'
<1> DEFINE n == cur[d] - 1
           w == work[d]
<1>1. PICK x : /\ Reaches("status", system, w, l, b, n, execution_time_cache, x)
               /\ status[d] = Pushed(d, x)
  BY DEF Clock
<1>2. WorkIn(system, w) /\ n \in 0 .. Len(Calls(system, w)) /\ l \in 0 .. n /\ l \in Nat
  BY DeviceAt DEF Clock
<1>3. w' = w /\ n' = n
  OBVIOUS
<1>4. Reaches("status", system, w, l, b, n, execution_time_cache', x)
  <2> HIDE DEF n, w
  <2> QED BY <1>1, <1>2, ReachesGrown
<1> QED BY <1>1, <1>2, <1>3, <1>4 DEF Clock

LEMMA ClockInit == Init => ClockInv
<1> SUFFICES ASSUME Init, NEW d \in Devices, NEW e \in Devices
             PROVE  \E l, b : Clock(d, l, b) /\ Clock(e, l, b)
  BY DEF ClockInv
<1>1. ASSUME NEW f \in Devices PROVE Clock(f, 0, ZeroBoard)
  <2>1. cur[f] = 1 /\ status[f] = ZeroBoard /\ trial.step = "push"
    BY DEF Init, NoTrial
  <2>2. Reaches("status", system, work[f], 0, ZeroBoard, 0, execution_time_cache, ZeroBoard)
    BY ReachesStart
  <2>3. Pushed(f, ZeroBoard) = ZeroBoard
    BY <2>1 DEF Pushed
  <2> QED BY <2>1, <2>2, <2>3 DEF Clock
<1> QED BY <1>1

LEMMA GrownSame == ASSUME NEW c PROVE Grown(c, c)
BY DEF Grown

LEMMA ClockPush ==
  ASSUME PlaceInv, TypeInv, ClockInv, NEW d \in Devices, Push(d)
  PROVE  ClockInv'
<1> DEFINE call == CallOf(d)
<1>1. /\ turn = d /\ trial.step = "push"
      /\ status' = [status EXCEPT ![d] = Forward(set_push_status(status[d], call.in.lane), call)]
      /\ trial'.step # "push"
      /\ UNCHANGED << system, turn, work, calls, cur, execution_time_cache >>
  BY DEF Push, Runs, NoTrial
<1>2. call' = call
  BY <1>1 DEF CallOf
<1>3. ASSUME NEW e \in Devices, NEW l, NEW b, Clock(e, l, b) PROVE Clock(e, l, b)'
  <2>1. CASE e = d
    <3>1. PICK x : /\ Reaches("status", system, work[d], l, b, cur[d] - 1, execution_time_cache, x)
                   /\ status[d] = x
      BY <1>1, <1>3, <2>1 DEF Clock, Pushed
    <3>2. status'[d] = Forward(set_push_status(x, call.in.lane), call)
      BY <1>1, <3>1 DEF TypeInv
    <3>3. status'[d] = Pushed(d, x)'
      BY <1>1, <1>2, <3>2 DEF Pushed
    <3>4. l \in 0 .. cur[d] - 1
      BY <1>3, <2>1 DEF Clock
    <3> QED BY <1>1, <2>1, <3>1, <3>3, <3>4 DEF Clock
  <2>2. CASE e # d
    <3>1. status'[e] = status[e] /\ \A x : Pushed(e, x)' = Pushed(e, x)
      BY <1>1, <2>2 DEF TypeInv, Pushed
    <3> QED BY <1>1, <1>3, <3>1, ClockStays, GrownSame
  <2> QED BY <2>1, <2>2
<1> QED BY <1>1, <1>3, ClockSteps

LEMMA ClockTry ==
  ASSUME RamulatorTimes, PlaceInv, TypeInv, ClockInv, NEW d \in Devices, Try(d)
  PROVE  ClockInv'
<1> DEFINE p == Head(trial.left)
           i == [CallOf(turn).info EXCEPT !.cols = trial.cols]
           e == executePType(system, CallOf(turn), p, i, work[turn].batch, execution_time_cache,
                             dram[turn])
<1>1. /\ turn = d /\ trial.step = "try" /\ trial.left # << >>
      /\ UNCHANGED << system, turn, work, calls, cur, status >>
  BY DEF Try, Runs
<1>2. execution_time_cache' = e.dram.cache /\ trial'.step = "try"
  <2>1. "step" \in DOMAIN trial
    BY DEF PlaceInv, NoTrial
  <2> QED BY <1>1, <2>1 DEF Try
<1>3. Grown(e.dram.cache, execution_time_cache)
  <2>1. CacheType(execution_time_cache) /\ dram[turn] \in Nat
    BY <1>1 DEF TypeInv
  <2> QED BY <1>1, <2>1, Executed
<1> HIDE DEF e
<1>4. ASSUME NEW f \in Devices PROVE \A x : Pushed(f, x)' = Pushed(f, x)
  <2>1. CallOf(f)' = CallOf(f)
    BY <1>1 DEF CallOf
  <2> QED BY <1>1, <1>2, <2>1 DEF Pushed
<1>5. ASSUME NEW f \in Devices, NEW l, NEW b, Clock(f, l, b) PROVE Clock(f, l, b)'
  BY <1>1, <1>2, <1>3, <1>4, <1>5, ClockStays
<1> QED BY <1>1, <1>5, ClockSteps

LEMMA ClockDeliver ==
  ASSUME PlaceInv, ClockInv, NEW d \in Devices, Deliver(d)
  PROVE  ClockInv'
<1>1. /\ turn = d /\ trial.step = "try"
      /\ UNCHANGED << system, turn, work, calls, cur, status, execution_time_cache >>
  BY DEF Deliver, Runs
<1>2. trial'.step = "pop"
  <2>1. "step" \in DOMAIN trial
    BY DEF PlaceInv, NoTrial
  <2> QED BY <2>1 DEF Deliver
<1>3. ASSUME NEW f \in Devices PROVE \A x : Pushed(f, x)' = Pushed(f, x)
  <2>1. CallOf(f)' = CallOf(f)
    BY <1>1 DEF CallOf
  <2> QED BY <1>1, <1>2, <2>1 DEF Pushed
<1>4. ASSUME NEW f \in Devices, NEW l, NEW b, Clock(f, l, b) PROVE Clock(f, l, b)'
  BY <1>1, <1>3, <1>4, ClockStays, GrownSame
<1> QED BY <1>1, <1>4, ClockSteps

LEMMA ClockPop ==
  ASSUME PlaceInv, TypeInv, BoardsInv, ClockInv, NEW d \in Devices, Pop(d)
  PROVE  ClockInv'
<1> DEFINE call == CallOf(d)
           o == exec_status[d]
           n == cur[d] - 1
<1>1. /\ turn = d /\ trial.step = "pop" /\ trial'.step = "push"
      /\ status' = [status EXCEPT ![d] = set_pop_status(status[d], call.out.lane, o)]
      /\ cur' = [cur EXCEPT ![d] = @ + 1]
      /\ UNCHANGED << system, turn, work, calls, execution_time_cache >>
  BY DEF Pop, Runs, NoTrial
<1>2. /\ cur'[d] = cur[d] + 1 /\ n \in Nat /\ n + 1 = cur[d]
      /\ \A e \in Devices : e # d => cur'[e] = cur[e] /\ status'[e] = status[e]
      /\ status'[d] = set_pop_status(status[d], call.out.lane, o)
  <2>1. cur[d] - 1 \in Nat /\ (cur[d] - 1) + 1 = cur[d]
    BY DeviceAt
  <2> QED BY <1>1, <2>1 DEF PlaceInv, TypeInv
<1>3. call = Calls(system, work[d])[n + 1]
  BY <1>1, <1>2, DeviceAt DEF CallOf
<1>4. Result(system, call, work[d].batch, execution_time_cache, o)
  BY <1>1 DEF BoardsInv
<1>5. ASSUME NEW e \in Devices, NEW l, NEW b, Clock(e, l, b) PROVE Clock(e, l, b)'
  <2>1. CASE e = d
    <3>1. PICK x : /\ Reaches("status", system, work[d], l, b, n, execution_time_cache, x)
                   /\ status[d] = Forward(set_push_status(x, call.in.lane), call)
      BY <1>1, <1>5, <2>1 DEF Clock, Pushed
    <3>2. l \in 0 .. n
      BY <1>5, <2>1 DEF Clock
    <3>3. status'[d] = Adds("status", call, o, x)
      BY <1>2, <3>1 DEF Adds
    <3>4. Reaches("status", system, work[d], l, b, n + 1, execution_time_cache,
                  Adds("status", call, o, x))
      <4> HIDE DEF n, call, o
      <4> QED BY <1>2, <1>3, <1>4, <3>1, <3>2, ReachesNext
    <3>5. \A x1 : Pushed(d, x1)' = x1
      BY <1>1 DEF Pushed
    <3>6. cur'[d] - 1 = n + 1 /\ l \in 0 .. n + 1
      BY <1>2, <3>2
    <3> HIDE DEF n, call, o
    <3>7. Reaches("status", system', work'[d], l, b, cur'[d] - 1, execution_time_cache', status'[d])
      BY <1>1, <3>3, <3>4, <3>6
    <3> QED BY <2>1, <3>5, <3>6, <3>7 DEF Clock
  <2>2. CASE e # d
    <3>1. \A x : Pushed(e, x)' = Pushed(e, x)
      BY <1>1, <2>2 DEF Pushed
    <3> QED BY <1>1, <1>2, <1>5, <2>2, <3>1, ClockStays, GrownSame
  <2> QED BY <2>1, <2>2
<1> QED BY <1>1, <1>5, ClockSteps
\* Twins are in the same group of every call that waits.
LEMMA TwinsTogether ==
  ASSUME PlaceInv, NEW d \in Devices, ~Ends(d), CallOf(d).waits > 1,
         NEW x \in Devices, NEW y \in Devices, Twins(x, y), x \in Group(d)
  PROVE  y \in Group(d)
<1> DEFINE n == CallOf(d).waits
<1>1. n \in {1, system.ne_tp_dg, NumDevices} /\ n # 1
  BY AtCall, Graphs DEF CallOf
<1>2. x \div n = d \div n
  BY DEF Group
<1>3. CASE n = system.ne_tp_dg
  <2>1. y \div n = x \div n
    BY <1>3 DEF Twins
  <2> QED BY <1>2, <2>1 DEF Group
<1>4. CASE n = NumDevices
  <2>1. \A z \in Devices : z \div n = 0
    <3>1. NumDevices \in Nat \ {0}
      BY ExecutionAssumption
    <3>2. ASSUME NEW m \in Nat \ {0}, NEW z \in 0 .. m - 1 PROVE z \div m = 0
      <4> DEFINE q == z \div m
                 r == z % m
      <4>1. q \in Nat
        BY QuotientType
      <4>2. r \in 0 .. m - 1 /\ z = m * q + r
        OBVIOUS
      <4> HIDE DEF q, r
      <4>3. SUFFICES ASSUME q >= 1 PROVE FALSE
        BY <4>1 DEF q
      <4>4. m * q >= m
        BY <4>1, <4>3
      <4> QED BY <4>1, <4>2, <4>4
    <3> HIDE DEF n
    <3> QED BY <1>4, <3>1, <3>2 DEF Devices
  <2>2. y \div n = 0 /\ d \div n = 0
    BY <2>1
  <2> HIDE DEF n
  <2> QED BY <2>2 DEF Group, n
<1> QED BY <1>1, <1>3, <1>4

LEMMA ClockSynchronise ==
  ASSUME PlaceInv, ClockInv, NEW d \in Devices, Synchronise(d)
  PROVE  ClockInv'
<1> DEFINE joined == [e \in Devices |-> Joined(status[e])]
           latest == Max({ joined[e].device : e \in Group(d) })
           after(e) == [joined[e] EXCEPT !.device = latest]
<1>1. /\ turn = d /\ ~Ends(d) /\ trial.step = "push" /\ CallOf(d).waits > 1 /\ Arrived(d)
      /\ status' = [e \in Devices |-> IF e \in Group(d) THEN after(e) ELSE status[e]]
      /\ cur' = [e \in Devices |-> IF e \in Group(d) THEN cur[e] + 1 ELSE cur[e]]
      /\ UNCHANGED << system, turn, work, calls, trial, execution_time_cache >>
  BY DEF Synchronise, Runs
<1> HIDE DEF latest
<1> SUFFICES ASSUME NEW x \in Devices, NEW y \in Devices, Twins(x, y)'
             PROVE  \E l, b : Clock(x, l, b)' /\ Clock(y, l, b)'
  BY DEF ClockInv
<1>2. Twins(x, y) /\ Twins(y, x)
  BY <1>1 DEF Twins
<1>3. PICK l, b : Clock(x, l, b) /\ Clock(y, l, b)
  BY <1>2 DEF ClockInv
<1>4. \A z \in Devices : \A s : Pushed(z, s)' = s /\ Pushed(z, s) = s
  BY <1>1 DEF Pushed
<1>5. CASE x \in Group(d)
  <2>1. y \in Group(d)
    BY <1>1, <1>2, <1>5, TwinsTogether
  <2>2. cur[x] = cur[d] /\ cur[y] = cur[d]
    BY <1>1, <1>5, <2>1 DEF Arrived
  <2>3. status[x] = status[y]
    BY <1>1, <1>2, <1>3, <2>2, TwinClocks
  <2>4. after(x) = after(y)
    BY <2>3
  <2>5. cur'[x] = cur[d] + 1 /\ cur'[y] = cur[d] + 1 /\ cur[d] \in Nat
        /\ status'[x] = after(x) /\ status'[y] = after(x)
    BY <1>1, <1>5, <2>1, <2>2, <2>4, DeviceAt
  <2> PICK m, s : m = cur[d] /\ s = after(x)
    OBVIOUS
  <2>6. ASSUME NEW z \in {x, y} PROVE Clock(z, m, s)'
    <3>1. cur'[z] = m + 1 /\ m \in Nat /\ status'[z] = s /\ z \in Devices
      BY <2>5
    <3>2. cur'[z] - 1 = m /\ m \in 0 .. cur'[z] - 1
      BY <3>1
    <3>3. Reaches("status", system', work'[z], m, s, m, execution_time_cache', s)
      BY <3>1, ReachesStart
    <3>4. Reaches("status", system', work'[z], m, s, cur'[z] - 1, execution_time_cache', s)
      BY <3>2, <3>3
    <3>5. status'[z] = Pushed(z, s)'
      BY <1>4, <3>1
    <3>6. \E t : /\ Reaches("status", system', work'[z], m, s, cur'[z] - 1, execution_time_cache', t)
                 /\ status'[z] = Pushed(z, t)'
      BY <3>4, <3>5
    <3> QED BY <3>2, <3>6 DEF Clock
  <2> QED BY <2>6
<1>6. CASE x \notin Group(d)
  <2>1. y \notin Group(d)
    BY <1>1, <1>2, <1>6, TwinsTogether
  <2>2. ASSUME NEW z \in {x, y} PROVE Clock(z, l, b)'
    <3>1. z \in Devices /\ cur'[z] = cur[z] /\ status'[z] = status[z]
      BY <1>1, <1>6, <2>1
    <3>2. \A s : Pushed(z, s)' = Pushed(z, s)
      BY <1>4, <3>1
    <3> QED BY <1>1, <1>3, <3>1, <3>2, ClockStays, GrownSame
  <2> QED BY <2>2
<1> QED BY <1>5, <1>6

LEMMA ClockNextDevice ==
  ASSUME PlaceInv, ClockInv, NEW d \in Devices, NextDevice(d)
  PROVE  ClockInv'
<1>1. /\ turn = d /\ (~Ends(d) => trial.step = "push")
      /\ UNCHANGED << system, work, calls, cur, trial, status, execution_time_cache >>
  BY DEF NextDevice
<1>2. trial.step = "push"
  BY <1>1 DEF PlaceInv
<1>3. ASSUME NEW f \in Devices PROVE \A x : Pushed(f, x)' = Pushed(f, x)
  BY <1>1, <1>2 DEF Pushed
<1>4. ASSUME NEW f \in Devices, NEW l, NEW b, Clock(f, l, b) PROVE Clock(f, l, b)'
  BY <1>1, <1>3, <1>4, ClockStays, GrownSame
<1> QED BY <1>1, <1>4, ClockSteps

LEMMA ClockRestart ==
  ASSUME PlaceInv, Restart
  PROVE  ClockInv'
<1>1. /\ \A d \in Devices : Ends(d)
      /\ UNCHANGED << system, trial, execution_time_cache >>
      /\ cur' = [d \in Devices |-> 1] /\ status' = [d \in Devices |-> ZeroBoard]
  BY DEF Restart, Ready, AllDone
<1>2. trial'.step = "push"
  BY <1>1 DEF PlaceInv
<1>3. ASSUME NEW d \in Devices PROVE Clock(d, 0, ZeroBoard)'
  <2>1. cur'[d] - 1 = 0 /\ status'[d] = ZeroBoard /\ 0 \in 0 .. cur'[d] - 1
    BY <1>1
  <2>2. Reaches("status", system', work'[d], 0, ZeroBoard, 0, execution_time_cache', ZeroBoard)
    BY ReachesStart
  <2>3. Pushed(d, ZeroBoard)' = ZeroBoard
    BY <1>2 DEF Pushed
  <2> QED BY <2>1, <2>2, <2>3 DEF Clock
<1> QED BY <1>3 DEF ClockInv

LEMMA ClockStep ==
  ASSUME RamulatorTimes
  PROVE  PlaceInv /\ TypeInv /\ BoardsInv /\ ClockInv /\ [Next]_vars => ClockInv'
<1> SUFFICES ASSUME PlaceInv, TypeInv, BoardsInv, ClockInv, [Next]_vars PROVE ClockInv'
  OBVIOUS
<1>1. ASSUME NEW d \in Devices,
             Push(d) \/ Try(d) \/ Deliver(d) \/ Pop(d) \/ Synchronise(d) \/ NextDevice(d)
      PROVE  ClockInv'
  BY <1>1, ClockPush, ClockTry, ClockDeliver, ClockPop, ClockSynchronise, ClockNextDevice
<1>2. CASE Restart
  BY <1>2, ClockRestart
<1>3. CASE UNCHANGED vars
  <2>1. ASSUME NEW f \in Devices PROVE \A x : Pushed(f, x)' = Pushed(f, x)
    <3>1. CallOf(f)' = CallOf(f)
      BY <1>3 DEF vars, CallOf
    <3> QED BY <1>3, <3>1 DEF vars, Pushed
  <2>2. ASSUME NEW f \in Devices, NEW l, NEW b, Clock(f, l, b) PROVE Clock(f, l, b)'
    BY <1>3, <2>1, <2>2, ClockStays, GrownSame DEF vars
  <2>3. UNCHANGED << system, work >>
    BY <1>3 DEF vars
  <2> QED BY <2>2, <2>3, ClockSteps
<1> QED BY <1>1, <1>2, <1>3 DEF Next

LEMMA Agreement == PlaceInv /\ BoardsInv /\ ClockInv => DevicesAgree
<1> SUFFICES ASSUME PlaceInv, BoardsInv, ClockInv, AllDone, NEW d \in Devices, NEW e \in Devices
             PROVE  /\ SameBoard(d, e, [work |-> work, board |-> board])
                    /\ \A ended \in past : SameBoard(d, e, ended)
                    /\ d \div system.ne_tp_dg = e \div system.ne_tp_dg /\ work[d] = work[e]
                         => status[d] = status[e]
  BY DEF DevicesAgree
<1>1. trial.step = "push"
  BY DEF PlaceInv, AllDone
<1>2. ASSUME NEW f \in Devices
      PROVE  cur[f] = Len(Calls(system, work[f])) + 1
  BY DeviceAt DEF AllDone, Ends
<1>3. ASSUME NEW w, WorkIn(system, w), NEW b, NEW c,
             Reaches("board", system, w, 0, << >>, Len(Calls(system, w)), execution_time_cache, b),
             Reaches("board", system, w, 0, << >>, Len(Calls(system, w)), execution_time_cache, c)
      PROVE  b = c
  <2> DEFINE n == Len(Calls(system, w))
  <2>1. n \in 0 .. Len(Calls(system, w)) /\ 0 \in 0 .. n
    BY <1>3, WorkGraph
  <2> HIDE DEF n
  <2>2. Reaches("board", system, w, 0, << >>, n, execution_time_cache, b)
        /\ Reaches("board", system, w, 0, << >>, n, execution_time_cache, c)
    BY <1>3 DEF n
  <2> QED BY <1>3, <2>1, <2>2, ReachesUnique
<1>4. ASSUME NEW f \in Devices
      PROVE  Reaches("board", system, work[f], 0, << >>, Len(Calls(system, work[f])),
                     execution_time_cache, board[f])
  <2>1. Reaches("board", system, work[f], 0, << >>, Done(f), execution_time_cache, board[f])
    BY DEF BoardsInv
  <2>2. Len(Calls(system, work[f])) \in Nat
    BY DeviceAt
  <2>3. Done(f) = Len(Calls(system, work[f]))
    BY <1>1, <1>2, <2>2 DEF Done
  <2> QED BY <2>1, <2>3
<1>5. WorkIn(system, work[d])
  BY DeviceAt
<1>6. ASSUME work[e] = work[d] PROVE board[e] = board[d]
  <2> DEFINE w == work[d]
  <2>1. Reaches("board", system, w, 0, << >>, Len(Calls(system, w)), execution_time_cache, board[d])
        /\ Reaches("board", system, w, 0, << >>, Len(Calls(system, w)), execution_time_cache, board[e])
    BY <1>4, <1>6
  <2> HIDE DEF w
  <2> QED BY <1>3, <1>5, <2>1 DEF w
<1>7. ASSUME NEW ended \in past, ended.work[e] = work[d] PROVE ended.board[e] = board[d]
  <2> DEFINE w == work[d]
  <2>1. Reaches("board", system, w, 0, << >>, Len(Calls(system, w)), execution_time_cache, board[d])
    BY <1>4
  <2>2. Reaches("board", system, w, 0, << >>, Len(Calls(system, w)), execution_time_cache,
                ended.board[e])
    BY <1>7 DEF BoardsInv
  <2> HIDE DEF w
  <2> QED BY <1>3, <1>5, <2>1, <2>2 DEF w
<1>8. ASSUME Twins(d, e) PROVE status[d] = status[e]
  <2>1. cur[d] = cur[e]
    BY <1>2, <1>8 DEF Twins
  <2>2. PICK l, b : Clock(d, l, b) /\ Clock(e, l, b)
    BY <1>8 DEF ClockInv
  <2>3. PlaceInv /\ trial.step = "push"
    BY <1>1
  <2> QED BY <1>8, <2>1, <2>2, <2>3, TwinClocks
<1> QED BY <1>6, <1>7, <1>8 DEF SameBoard, Twins

\* Equal work costs the same on every device and in every iteration, whatever a
\* DRAM simulator makes of its state: the devices share the cache, which only
\* grows, and an execution leaves all its transfers in it.  Devices of one group
\* then end at the same time.
THEOREM DevicesAgreeHolds == RamulatorTimes => (Spec => []DevicesAgree)
<1> SUFFICES ASSUME RamulatorTimes PROVE Spec => []DevicesAgree
  OBVIOUS
<1> DEFINE Inv == PlaceInv /\ CountInv /\ TypeInv /\ BoardsInv /\ ClockInv
<1>1. Init => Inv
  BY PlaceInit, CountInit, TypeInit, BoardsInit, ClockInit
<1>2. Inv /\ [Next]_vars => Inv'
  BY PlaceStep, CountStep, TypeStep, BoardsStep, ClockStep
<1>3. Inv => DevicesAgree
  BY Agreement
<1> QED BY <1>1, <1>2, <1>3, PTL DEF Spec
---------------------------------------------------------------------------
(* What is charged to the processors, and the clocks of the lanes.         *)

Latest(s) == Larger(s.device, Larger(s.high, s.low))
Times == [Processor -> Int]

\* Each processor within the clock of its lane, within the clock of the device, or
\* within one of the three.
Apart(b, s) == b["GPU"] <= s.high /\ b["LOGIC"] <= s.low /\ b["PIM"] <= s.low
Joint(b, s) == \A p \in Processor : b[p] <= s.device
Within(b, s) == \A p \in Processor : b[p] <= Latest(s)

InALane(call) == call.in.lane \in {"high", "low"}

LEMMA ApartWithin ==
  ASSUME NEW b \in Times, NEW s \in Boards, Apart(b, s)
  PROVE  Within(b, s)
<1>1. s.device \in Nat /\ s.high \in Nat /\ s.low \in Nat
  BY BoardFields
<1>2. \A p \in Processor : p = "GPU" \/ p = "LOGIC" \/ p = "PIM"
  BY DEF Processor
<1>3. b["GPU"] \in Int /\ b["LOGIC"] \in Int /\ b["PIM"] \in Int
  BY DEF Times, Processor
<1>4. s.high <= Latest(s) /\ s.low <= Latest(s) /\ Latest(s) \in Nat
  BY <1>1 DEF Latest, Larger
<1>5. b["GPU"] <= Latest(s) /\ b["LOGIC"] <= Latest(s) /\ b["PIM"] <= Latest(s)
  BY <1>1, <1>3, <1>4 DEF Apart
<1> QED BY <1>2, <1>5 DEF Within

\* Where the lanes are joined nothing is ahead of them.
LEMMA JoinedApart ==
  ASSUME NEW b \in Times, NEW s \in Boards, Within(b, s), NEW t \in Boards,
         t.high >= Latest(s), t.low >= Latest(s)
  PROVE  Apart(b, t)
<1>1. s.device \in Nat /\ s.high \in Nat /\ s.low \in Nat /\ t.high \in Nat /\ t.low \in Nat
  BY BoardFields
<1>2. Latest(s) \in Nat
  BY <1>1, LargerType DEF Latest
<1>3. b["GPU"] \in Int /\ b["LOGIC"] \in Int /\ b["PIM"] \in Int
  BY DEF Times, Processor
<1>4. b["GPU"] <= Latest(s) /\ b["LOGIC"] <= Latest(s) /\ b["PIM"] <= Latest(s)
  BY DEF Within, Processor
<1> QED BY <1>1, <1>2, <1>3, <1>4 DEF Apart

LEMMA JoinedClocks ==
  ASSUME NEW s \in Boards
  PROVE  /\ Joined(s).device = Latest(s) /\ Joined(s).high = Latest(s)
         /\ Joined(s).low = Latest(s)
BY DEF Joined, Latest, Boards, ZeroBoard

\* Norms and residuals add to the clocks.
LEMMA ForwardClocks ==
  ASSUME NEW s \in Boards, NEW call, NEW batch, CallType(call, batch)
  PROVE  /\ Forward(s, call) \in Boards /\ Forward(s, call).device >= s.device
         /\ Forward(s, call).high >= s.high /\ Forward(s, call).low >= s.low
<1> DEFINE time == GPUTime(call)
<1>1. time \in Nat
  <2>1. call.flops \in Nat /\ call.bytes \in Nat
    BY DEF CallType
  <2>2. FlopTime["GPU"] \in Nat /\ ByteTime["GPU"] \in Nat
    BY CostAssumption DEF Processor
  <2>3. call.flops * FlopTime["GPU"] \in Nat /\ call.bytes * ByteTime["GPU"] \in Nat
    BY <2>1, <2>2
  <2> QED BY <2>3, LargerType DEF GPUTime, MemoryTime
<1>2. s.device \in Nat /\ s.high \in Nat /\ s.low \in Nat
  BY BoardFields
<1> HIDE DEF time
<1> DEFINE high == IF call.in.lane = "high" THEN s.high + time ELSE s.high
           low == IF call.in.lane = "low" THEN s.low + time ELSE s.low
           device == s.device + time
<1>3. high >= s.high /\ low >= s.low /\ device >= s.device
  BY <1>1, <1>2
<1>4. Forward(s, call) = [s EXCEPT !.device = device, !.high = high, !.low = low]
  BY DEF Forward, time, Boards, ZeroBoard
<1> HIDE DEF high, low, device
<1>5. /\ Forward(s, call).device = device /\ Forward(s, call).high = high
      /\ Forward(s, call).low = low
  BY <1>4 DEF Boards, ZeroBoard
<1> QED BY <1>3, <1>5, ForwardType

\* A call starts with nothing ahead of the clocks of the lanes, and one in no lane
\* with nothing ahead of the clock of the device.
LEMMA LanePush ==
  ASSUME NEW b \in Times, NEW s \in Boards, NEW call, NEW batch, CallType(call, batch),
         Within(b, s), InALane(call) => Apart(b, s)
  PROVE  LET t == Forward(set_push_status(s, call.in.lane), call)
         IN t \in Boards /\ Apart(b, t) /\ (~InALane(call) => Joint(b, t))
<1> DEFINE lane == call.in.lane
           x == set_push_status(s, lane)
           t == Forward(x, call)
<1>1. x \in Boards
  BY PushType
<1> HIDE DEF x
<1>2. t \in Boards /\ t.device >= x.device /\ t.high >= x.high /\ t.low >= x.low
  BY <1>1, ForwardClocks
<1> HIDE DEF t
<1>3. /\ s.high \in Nat /\ s.low \in Nat /\ s.device \in Nat
      /\ x.high \in Nat /\ x.low \in Nat /\ x.device \in Nat
      /\ t.high \in Nat /\ t.low \in Nat /\ t.device \in Nat
  BY <1>1, <1>2, BoardFields
<1>4. b["GPU"] \in Int /\ b["LOGIC"] \in Int /\ b["PIM"] \in Int
  BY DEF Times, Processor
<1>5. CASE InALane(call)
  <2>1. x = [s EXCEPT !.device = s.high] \/ x = [s EXCEPT !.device = s.low]
    BY <1>5 DEF InALane, x, set_push_status
  <2>2. x.high = s.high /\ x.low = s.low
    BY <2>1 DEF Boards, ZeroBoard
  <2>3. Apart(b, t)
    BY <1>2, <1>3, <1>4, <1>5, <2>2 DEF Apart
  <2> QED BY <1>2, <1>5, <2>3 DEF t, x
<1>6. CASE ~InALane(call)
  <2>1. x = Joined(s)
    BY <1>6 DEF InALane, x, set_push_status
  <2>2. x.device = Latest(s) /\ x.high = Latest(s) /\ x.low = Latest(s)
    BY <2>1, JoinedClocks
  <2>3. t.high >= Latest(s) /\ t.low >= Latest(s) /\ t.device >= Latest(s)
    BY <1>2, <2>2
  <2>4. Apart(b, t)
    BY <1>2, <2>3, JoinedApart
  <2>5. Joint(b, t)
    <3>1. \A p \in Processor : b[p] <= Latest(s) /\ b[p] \in Int
      BY DEF Within, Times
    <3>2. Latest(s) \in Nat
      BY <1>3, LargerType DEF Latest
    <3> QED BY <1>3, <2>3, <3>1, <3>2 DEF Joint
  <2> QED BY <1>2, <2>4, <2>5 DEF t, x
<1> QED BY <1>5, <1>6

\* What an execution adds to the processors, its pop adds to the clocks.
LEMMA LanePop ==
  ASSUME NEW b \in Times, NEW s \in Boards, NEW lane, NEW e \in ExecStatus, Apart(b, s),
         lane = "none" => Joint(b, s) \/ e = NoStatus
  PROVE  LET t == set_pop_status(s, lane, e)
             c == [p \in Processor |-> b[p] + TimeOn(p, e)]
         IN /\ c \in Times /\ Within(c, t)
            /\ lane # "none" \/ e = NoStatus => Apart(c, t)
<1> DEFINE t == set_pop_status(s, lane, e)
           x == Charged(s, lane, e)
           c == [p \in Processor |-> b[p] + TimeOn(p, e)]
<1>1. e.total \in Nat /\ e.processor \in Processor \cup {"none"}
  BY DEF ExecStatus
<1>2. t \in Boards /\ t.device = x.device /\ t.high = x.high /\ t.low = x.low
  <2>1. t = [x EXCEPT !.flops = @ + e.flops, !.bytes = @ + e.bytes,
                      !.commands = @ + e.commands]
    BY DEF set_pop_status
  <2>2. t \in Boards
    BY PopType
  <2>3. x = s \/ \E device, high, low :
          x = [s EXCEPT !.device = device, !.high = high, !.low = low]
    <3>1. \/ x = [s EXCEPT !.device = @ + e.total]
          \/ x = [s EXCEPT !.low = @ + e.total, !.device = s.low + e.total]
          \/ x = [s EXCEPT !.high = @ + e.total, !.device = s.high + e.total]
          \/ x = s
      BY DEF Charged
    <3> HIDE DEF x
    <3>2. DOMAIN x = {"device", "high", "low", "flops", "bytes", "commands"}
      BY <3>1 DEF Boards, ZeroBoard
    <3>3. x = [s EXCEPT !.device = x.device, !.high = x.high, !.low = x.low]
      BY <3>1, <3>2 DEF Boards, ZeroBoard
    <3> QED BY <3>3
  <2> HIDE DEF t, x
  <2>4. DOMAIN x = {"device", "high", "low", "flops", "bytes", "commands"}
    BY <2>3 DEF Boards, ZeroBoard
  <2> QED BY <2>1, <2>2, <2>4
<1>3. /\ s.device \in Nat /\ s.high \in Nat /\ s.low \in Nat
      /\ t.device \in Nat /\ t.high \in Nat /\ t.low \in Nat
  BY <1>2, BoardFields
<1>4. \A p \in Processor : b[p] \in Int /\ TimeOn(p, e) \in Nat /\ c[p] = b[p] + TimeOn(p, e)
  BY <1>1 DEF Times, TimeOn
<1>5. c \in Times
  BY <1>4 DEF Times
<1> HIDE DEF t, c
<1>6. \A p \in Processor : p = "GPU" \/ p = "LOGIC" \/ p = "PIM"
  BY DEF Processor
<1>7. "GPU" \in Processor /\ "LOGIC" \in Processor /\ "PIM" \in Processor
  BY DEF Processor
<1>8. CASE e = NoStatus
  <2>1. \A p \in Processor : TimeOn(p, e) = 0
    BY <1>8 DEF TimeOn, NoStatus
  <2>2. e.total = 0 /\ e.processor = "none"
    BY <1>8 DEF NoStatus
  <2>3. x.high = s.high /\ x.low = s.low
    BY <1>3, <2>2 DEF Charged, Boards, ZeroBoard
  <2>4. Apart(c, t)
    BY <1>2, <1>3, <1>4, <1>7, <2>1, <2>3 DEF Apart
  <2> QED BY <1>2, <1>5, <2>4, ApartWithin DEF t, c
<1>9. CASE lane = "none" /\ e # NoStatus
  <2>1. x = [s EXCEPT !.device = @ + e.total]
    BY <1>9 DEF Charged
  <2>2. t.device = s.device + e.total
    <3> HIDE DEF x
    <3> QED BY <1>2, <2>1 DEF Boards, ZeroBoard
  <2>3. \A p \in Processor : TimeOn(p, e) <= e.total
    BY <1>1 DEF TimeOn
  <2>4. \A p \in Processor : b[p] <= s.device
    BY <1>9 DEF Joint
  <2>5. \A p \in Processor : c[p] <= t.device
    BY <1>1, <1>3, <1>4, <2>2, <2>3, <2>4
  <2>6. t.device <= Latest(t) /\ Latest(t) \in Nat
    BY <1>3 DEF Latest, Larger
  <2>7. Within(c, t)
    BY <1>3, <1>5, <2>5, <2>6 DEF Within, Times
  <2> QED BY <1>5, <1>9, <2>7 DEF t, c
<1>10. CASE lane # "none" /\ e # NoStatus
  <2>1. CASE e.processor \in {"LOGIC", "PIM"}
    <3>1. x = [s EXCEPT !.low = @ + e.total, !.device = s.low + e.total]
      BY <1>10, <2>1 DEF Charged
    <3>2. t.low = s.low + e.total /\ t.high = s.high
      <4> HIDE DEF x
      <4> QED BY <1>2, <3>1 DEF Boards, ZeroBoard
    <3>3. TimeOn("GPU", e) = 0 /\ TimeOn("LOGIC", e) <= e.total /\ TimeOn("PIM", e) <= e.total
      BY <1>1, <2>1 DEF TimeOn
    <3>4. Apart(c, t)
      BY <1>1, <1>3, <1>4, <1>7, <3>2, <3>3 DEF Apart
    <3> QED BY <1>2, <1>5, <3>4, ApartWithin DEF t, c
  <2>2. CASE e.processor = "GPU"
    <3>1. x = [s EXCEPT !.high = @ + e.total, !.device = s.high + e.total]
      BY <1>10, <2>2 DEF Charged
    <3>2. t.high = s.high + e.total /\ t.low = s.low
      <4> HIDE DEF x
      <4> QED BY <1>2, <3>1 DEF Boards, ZeroBoard
    <3>3. TimeOn("LOGIC", e) = 0 /\ TimeOn("PIM", e) = 0 /\ TimeOn("GPU", e) <= e.total
      BY <1>1, <2>2 DEF TimeOn
    <3>4. Apart(c, t)
      BY <1>1, <1>3, <1>4, <1>7, <3>2, <3>3 DEF Apart
    <3> QED BY <1>2, <1>5, <3>4, ApartWithin DEF t, c
  <2>3. CASE e.processor = "none"
    <3>1. x = s
      BY <1>10, <2>3 DEF Charged
    <3>2. t.high = s.high /\ t.low = s.low
      BY <1>2, <3>1
    <3>3. \A p \in Processor : TimeOn(p, e) = 0
      BY <1>6, <2>3 DEF TimeOn
    <3>4. Apart(c, t)
      BY <1>3, <1>4, <1>7, <3>2, <3>3 DEF Apart
    <3> QED BY <1>2, <1>5, <3>4, ApartWithin DEF t, c
  <2> QED BY <1>1, <2>1, <2>2, <2>3 DEF Processor
<1> QED BY <1>8, <1>9, <1>10
Spent(b, p) == Total([k \in DOMAIN b |-> TimeOn(p, b[k])])
BusyOf(d) == [p \in Processor |-> Busy(d, p)]

Mid(d) == d = turn /\ trial.step # "push"
Fresh(d) == cur[d] = 1 \/ ~Serial(calls[d][cur[d] - 1])

\* A clock of a lane is behind its processor only after a call that charged the
\* device alone; the next one in no lane joins them again.
LaneAt(d) ==
  /\ Within(BusyOf(d), status[d])
  /\ IF Mid(d) THEN /\ Apart(BusyOf(d), status[d])
                    /\ ~InALane(CallOf(d)) => Joint(BusyOf(d), status[d])
     ELSE Fresh(d) => Apart(BusyOf(d), status[d])
LaneInv == \A d \in Devices : LaneAt(d)

LEMMA TimeType ==
  ASSUME NEW p, NEW e \in ExecStatus
  PROVE  TimeOn(p, e) \in Nat /\ (p \in Processor => TimeOn(p, NoStatus) = 0)
BY DEF TimeOn, ExecStatus, NoStatus

LEMMA SpentType ==
  ASSUME NEW b \in Seq(ExecStatus), NEW p
  PROVE  Spent(b, p) \in Nat
<1> DEFINE s == [k \in DOMAIN b |-> TimeOn(p, b[k])]
<1>1. IsFiniteSet(DOMAIN b) /\ \A k \in DOMAIN b : b[k] \in ExecStatus
  BY SeqDomain
<1>2. DOMAIN s = DOMAIN b /\ \A k \in DOMAIN s : s[k] \in Nat
  BY <1>1, TimeType
<1> HIDE DEF s
<1>3. Total(s) \in Nat
  BY <1>1, <1>2, TotalType
<1> QED BY <1>3 DEF Spent, s

LEMMA SpentAppend ==
  ASSUME NEW b \in Seq(ExecStatus), NEW e \in ExecStatus, NEW p
  PROVE  Spent(Append(b, e), p) = Spent(b, p) + TimeOn(p, e)
<1> DEFINE n == Len(b)
           c == Append(b, e)
           s == [k \in DOMAIN b |-> TimeOn(p, b[k])]
           t == [k \in DOMAIN c |-> TimeOn(p, c[k])]
<1>1. n \in Nat /\ DOMAIN b = 1 .. n /\ \A k \in 1 .. n : b[k] \in ExecStatus
  OBVIOUS
<1>2. DOMAIN c = 1 .. n + 1 /\ c[n + 1] = e /\ \A k \in 1 .. n : c[k] = b[k]
  OBVIOUS
<1> HIDE DEF n, c
<1>3. DOMAIN s = 1 .. n /\ DOMAIN t = 1 .. n + 1
  BY <1>1, <1>2
<1>4. \A k \in 1 .. n : s[k] \in Int /\ t[k] = s[k]
  <2>1. \A k \in 1 .. n : s[k] = TimeOn(p, b[k]) /\ t[k] = TimeOn(p, b[k])
    BY <1>1, <1>2
  <2> HIDE DEF s, t
  <2>2. \A k \in 1 .. n : TimeOn(p, b[k]) \in Int
    BY <1>1, TimeType
  <2> QED BY <2>1, <2>2
<1>5. t[n + 1] = TimeOn(p, e) /\ t[n + 1] \in Int
  BY <1>1, <1>2, TimeType
<1> HIDE DEF s, t
<1>6. Total(t) = Total(s) + t[n + 1]
  BY <1>1, <1>3, <1>4, <1>5, TotalAppend
<1> QED BY <1>5, <1>6 DEF Spent, s, t, c

LEMMA BusyType ==
  ASSUME TypeInv, NEW d \in Devices
  PROVE  /\ BusyOf(d) \in Times
         /\ \A p \in Processor : BusyOf(d)[p] = Spent(board[d], p) - TimeOn(p, exec_status[d])
<1>1. board[d] \in Seq(ExecStatus) /\ exec_status[d] \in ExecStatus
  BY DEF TypeInv
<1>2. \A p \in Processor : BusyOf(d)[p] = Spent(board[d], p) - TimeOn(p, exec_status[d])
  BY DEF BusyOf, Busy, Spent
<1>3. \A p \in Processor : Spent(board[d], p) - TimeOn(p, exec_status[d]) \in Int
  BY <1>1, SpentType, TimeType
<1>4. BusyOf(d) = [p \in Processor |-> BusyOf(d)[p]]
  BY DEF BusyOf
<1> QED BY <1>2, <1>3, <1>4 DEF Times

LEMMA BusyStays ==
  ASSUME NEW d \in Devices, board'[d] = board[d], exec_status'[d] = exec_status[d]
  PROVE  BusyOf(d)' = BusyOf(d)
BY DEF BusyOf, Busy

\* A device that the step does not move.
LEMMA LaneStays ==
  ASSUME LaneInv, NEW d \in Devices, board'[d] = board[d], exec_status'[d] = exec_status[d],
         status'[d] = status[d], cur'[d] = cur[d], calls'[d] = calls[d], Mid(d)' = Mid(d)
  PROVE  LaneAt(d)'
<1>1. BusyOf(d)' = BusyOf(d)
  BY BusyStays
<1>2. CallOf(d)' = CallOf(d) /\ Fresh(d)' = Fresh(d)
  BY DEF CallOf, Fresh
<1>3. LaneAt(d)
  BY DEF LaneInv
<1> QED BY <1>1, <1>2, <1>3 DEF LaneAt

\* What the graphs say of lanes.
LEMMA Lanes ==
  ASSUME PlaceInv, NEW d \in Devices, ~Ends(d), InALane(CallOf(d))
  PROVE  ~Serial(CallOf(d)) /\ Fresh(d)
<1>1. LanesFit(calls[d])
  <2>1. system \in Systems /\ work \in Works(system) /\ calls[d] = Calls(system, work[d])
    BY DEF PlaceInv
  <2> QED BY <2>1, LanesAssumption
<1>2. cur[d] \in DOMAIN calls[d] /\ cur[d] \in Nat \ {0}
  BY AtCall, DeviceAt
<1>3. calls[d][cur[d]].in.lane \in {"high", "low"}
  BY DEF InALane, CallOf
<1>4. ~Serial(calls[d][cur[d]]) /\ (cur[d] > 1 => ~Serial(calls[d][cur[d] - 1]))
  BY <1>1, <1>2, <1>3 DEF LanesFit
<1> QED BY <1>2, <1>4 DEF CallOf, Fresh

LEMMA LaneInit == Init => LaneInv
<1> SUFFICES ASSUME Init, NEW d \in Devices PROVE LaneAt(d)
  BY DEF LaneInv
<1>1. TypeInv
  BY TypeInit
<1>2. board[d] = << >> /\ exec_status[d] = NoStatus /\ status[d] = ZeroBoard
      /\ trial.step = "push"
  BY DEF Init, NoTrial
<1>3. \A p \in Processor : BusyOf(d)[p] = 0
  <2>1. \A p \in Processor : Spent(board[d], p) = 0
    BY <1>2, TotalEmpty DEF Spent
  <2>2. \A p \in Processor : TimeOn(p, exec_status[d]) = 0
    BY <1>2, ZeroType, TimeType
  <2> QED BY <1>1, <2>1, <2>2, BusyType
<1>4. BusyOf(d) \in Times /\ ZeroBoard \in Boards
  BY <1>1, BusyType, ZeroType
<1>5. Apart(BusyOf(d), ZeroBoard)
  BY <1>3 DEF Apart, Processor, ZeroBoard
<1> QED BY <1>2, <1>4, <1>5, ApartWithin DEF LaneAt, Mid

LEMMA LanePushed ==
  ASSUME PlaceInv, CountInv, TypeInv, LaneInv, NEW d \in Devices, Push(d)
  PROVE  LaneInv'
<1> DEFINE call == CallOf(d)
           t == Forward(set_push_status(status[d], call.in.lane), call)
<1>1. /\ turn = d /\ ~Ends(d) /\ trial.step = "push" /\ status' = [status EXCEPT ![d] = t]
      /\ trial'.step # "push"
      /\ UNCHANGED << turn, calls, cur, exec_status, board >>
  BY DEF Push, Runs, NoTrial
<1>2. CallType(call, work[d].batch) /\ status[d] \in Boards /\ BusyOf(d) \in Times
      /\ status'[d] = t /\ \A e \in Devices : e # d => status'[e] = status[e]
  BY <1>1, AtCall, BusyType DEF TypeInv
<1>3. Within(BusyOf(d), status[d]) /\ (InALane(call) => Apart(BusyOf(d), status[d]))
  <2>1. LaneAt(d) /\ ~Mid(d)
    BY <1>1 DEF LaneInv, Mid
  <2> QED BY <1>1, <2>1, Lanes DEF LaneAt
<1>4. t \in Boards /\ Apart(BusyOf(d), t) /\ (~InALane(call) => Joint(BusyOf(d), t))
  <2> HIDE DEF call
  <2> QED BY <1>2, <1>3, LanePush
<1>5. LaneAt(d)'
  <2>1. CallOf(d)' = call /\ Mid(d)' /\ BusyOf(d)' = BusyOf(d)
    BY <1>1, BusyStays DEF CallOf, Mid
  <2>2. Within(BusyOf(d), t)
    BY <1>2, <1>4, ApartWithin
  <2> HIDE DEF t, call
  <2> QED BY <1>2, <1>4, <2>1, <2>2 DEF LaneAt
<1>6. ASSUME NEW e \in Devices, e # d PROVE LaneAt(e)'
  <2>1. Mid(e)' = Mid(e)
    BY <1>1, <1>6 DEF Mid
  <2> QED BY <1>1, <1>2, <1>6, <2>1, LaneStays
<1> QED BY <1>5, <1>6 DEF LaneInv

LEMMA LaneTry ==
  ASSUME PlaceInv, LaneInv, NEW d \in Devices, Try(d)
  PROVE  LaneInv'
<1>1. turn = d /\ trial.step = "try" /\ UNCHANGED << turn, calls, cur, exec_status, status, board >>
  BY DEF Try, Runs
<1>2. trial'.step = "try"
  <2>1. "step" \in DOMAIN trial
    BY DEF PlaceInv, NoTrial
  <2> QED BY <1>1, <2>1 DEF Try
<1>3. \A e \in Devices : Mid(e)' = Mid(e)
  BY <1>1, <1>2 DEF Mid
<1> QED BY <1>1, <1>3, LaneStays DEF LaneInv

LEMMA LaneDeliver ==
  ASSUME PlaceInv, CountInv, TypeInv, LaneInv, NEW d \in Devices, Deliver(d)
  PROVE  LaneInv'
<1> DEFINE o == trial.optimal
<1>1. /\ turn = d /\ trial.step = "try"
      /\ exec_status' = [exec_status EXCEPT ![d] = o]
      /\ board' = [board EXCEPT ![d] = Append(@, o)]
      /\ trial' = [trial EXCEPT !.step = "pop"]
      /\ UNCHANGED << turn, calls, cur, status >>
  BY DEF Deliver, Runs
<1>2. /\ trial'.step = "pop" /\ o \in ExecStatus /\ board[d] \in Seq(ExecStatus)
      /\ exec_status'[d] = o /\ board'[d] = Append(board[d], o)
      /\ \A e \in Devices : e # d => exec_status'[e] = exec_status[e] /\ board'[e] = board[e]
  <2>1. "step" \in DOMAIN trial
    BY DEF PlaceInv, NoTrial
  <2> QED BY <1>1, <2>1 DEF TypeInv
<1>3. exec_status[d] = NoStatus
  BY <1>1 DEF CountInv
<1>4. \A e \in Devices : Mid(e)' = Mid(e)
  BY <1>1, <1>2 DEF Mid
<1>5. BusyOf(d)' = BusyOf(d)
  <2>1. ASSUME NEW p \in Processor PROVE Busy(d, p)' = Busy(d, p)
    <3>1. Busy(d, p)' = Spent(Append(board[d], o), p) - TimeOn(p, o)
      BY <1>2 DEF Busy, Spent
    <3>2. Busy(d, p) = Spent(board[d], p) - 0
      BY <1>3, ZeroType, TimeType DEF Busy, Spent
    <3>3. Spent(Append(board[d], o), p) = Spent(board[d], p) + TimeOn(p, o)
      BY <1>2, SpentAppend
    <3>4. Spent(board[d], p) \in Nat /\ TimeOn(p, o) \in Nat
      BY <1>2, SpentType, TimeType
    <3> HIDE DEF o
    <3> QED BY <3>1, <3>2, <3>3, <3>4
  <2> QED BY <2>1 DEF BusyOf
<1>6. LaneAt(d)'
  <2>1. LaneAt(d) /\ Mid(d) /\ Mid(d)' /\ CallOf(d)' = CallOf(d) /\ status'[d] = status[d]
    BY <1>1, <1>4 DEF LaneInv, Mid, CallOf
  <2> QED BY <1>5, <2>1 DEF LaneAt
<1>7. ASSUME NEW e \in Devices, e # d PROVE LaneAt(e)'
  BY <1>1, <1>2, <1>4, <1>7, LaneStays
<1> QED BY <1>6, <1>7 DEF LaneInv

LEMMA LanePopped ==
  ASSUME PlaceInv, TypeInv, BoardsInv, LaneInv, NEW d \in Devices, Pop(d)
  PROVE  LaneInv'
<1> DEFINE call == CallOf(d)
           o == exec_status[d]
           b == BusyOf(d)
           t == set_pop_status(status[d], call.out.lane, o)
           c == [p \in Processor |-> b[p] + TimeOn(p, o)]
<1>1. /\ turn = d /\ ~Ends(d) /\ trial.step = "pop" /\ trial'.step = "push"
      /\ status' = [status EXCEPT ![d] = t]
      /\ exec_status' = [exec_status EXCEPT ![d] = NoStatus]
      /\ cur' = [cur EXCEPT ![d] = @ + 1]
      /\ UNCHANGED << turn, calls, board >>
  BY DEF Pop, Runs, NoTrial, Taken
<1>2. /\ status[d] \in Boards /\ o \in ExecStatus /\ b \in Times /\ board[d] \in Seq(ExecStatus)
      /\ status'[d] = t /\ exec_status'[d] = NoStatus
      /\ cur'[d] = cur[d] + 1 /\ cur[d] \in Nat \ {0}
      /\ \A e \in Devices : e # d => status'[e] = status[e] /\ exec_status'[e] = exec_status[e]
                                     /\ cur'[e] = cur[e]
  <2>1. cur[d] \in Nat \ {0} /\ b \in Times
    BY DeviceAt, BusyType
  <2> QED BY <1>1, <2>1 DEF TypeInv, PlaceInv
<1>3. Apart(b, status[d]) /\ (~InALane(call) => Joint(b, status[d]))
  <2>1. LaneAt(d) /\ Mid(d)
    BY <1>1 DEF LaneInv, Mid
  <2> QED BY <2>1 DEF LaneAt
<1>4. call.waits = 1 /\ (call.layer = "none" => o = NoStatus)
  BY <1>1 DEF BoardsInv, Result, Executes
<1>5. call.out.lane = "none" => Joint(b, status[d]) \/ o = NoStatus
  <2>1. CASE InALane(call)
    BY <1>1, <1>4, <2>1, Lanes DEF Serial, Executes
  <2>2. CASE ~InALane(call)
    BY <1>3, <2>2
  <2> QED BY <2>1, <2>2
<1>6. c \in Times /\ Within(c, t) /\ (call.out.lane # "none" \/ o = NoStatus => Apart(c, t))
  <2> HIDE DEF b, o, call
  <2> QED BY <1>2, <1>3, <1>5, LanePop
<1>7. BusyOf(d)' = c
  <2>1. ASSUME NEW p \in Processor PROVE Busy(d, p)' = b[p] + TimeOn(p, o)
    <3>1. Busy(d, p)' = Spent(board[d], p) - TimeOn(p, NoStatus)
      BY <1>1, <1>2 DEF Busy, Spent
    <3>2. b[p] = Spent(board[d], p) - TimeOn(p, o)
      BY BusyType
    <3>3. TimeOn(p, NoStatus) = 0 /\ TimeOn(p, o) \in Nat /\ Spent(board[d], p) \in Nat
      BY <1>2, SpentType, TimeType
    <3> HIDE DEF b, o
    <3> QED BY <3>1, <3>2, <3>3
  <2> QED BY <2>1 DEF BusyOf
<1>8. LaneAt(d)'
  <2>1. ~Mid(d)'
    BY <1>1 DEF Mid
  <2>2. ASSUME Fresh(d)' PROVE call.out.lane # "none" \/ o = NoStatus
    <3>1. calls[d][cur[d]] = call /\ cur'[d] - 1 = cur[d] /\ cur'[d] # 1
      BY <1>2 DEF CallOf
    <3>2. ~Serial(call)
      BY <1>1, <2>2, <3>1 DEF Fresh
    <3> QED BY <1>4, <3>2 DEF Serial, Executes
  <2> HIDE DEF c, t, b, o, call
  <2> QED BY <1>2, <1>6, <1>7, <2>1, <2>2 DEF LaneAt
<1>9. ASSUME NEW e \in Devices, e # d PROVE LaneAt(e)'
  <2>1. Mid(e)' = Mid(e)
    BY <1>1, <1>9 DEF Mid
  <2> QED BY <1>1, <1>2, <1>9, <2>1, LaneStays
<1> QED BY <1>8, <1>9 DEF LaneInv

LEMMA LaneSynchronise ==
  ASSUME PlaceInv, TypeInv, TypeInv', LaneInv, NEW d \in Devices, Synchronise(d)
  PROVE  LaneInv'
<1> DEFINE joined == [e \in Devices |-> Joined(status[e])]
           latest == Max({ joined[e].device : e \in Group(d) })
           after(e) == [joined[e] EXCEPT !.device = latest]
<1>1. /\ turn = d /\ trial.step = "push"
      /\ status' = [e \in Devices |-> IF e \in Group(d) THEN after(e) ELSE status[e]]
      /\ cur' = [e \in Devices |-> IF e \in Group(d) THEN cur[e] + 1 ELSE cur[e]]
      /\ UNCHANGED << turn, calls, trial, exec_status, board >>
  BY DEF Synchronise, Runs
<1> HIDE DEF latest
<1>2. \A e \in Devices : ~Mid(e) /\ ~Mid(e)'
  BY <1>1 DEF Mid
<1>3. ASSUME NEW e \in Group(d) PROVE LaneAt(e)'
  <2>1. e \in Devices /\ status'[e] = after(e)
    BY <1>1 DEF Group
  <2>2. status[e] \in Boards /\ status'[e] \in Boards /\ BusyOf(e) \in Times
    BY <2>1, BusyType DEF TypeInv
  <2>3. status'[e].high = Latest(status[e]) /\ status'[e].low = Latest(status[e])
    <3>1. /\ Joined(status[e]).high = Latest(status[e]) /\ Joined(status[e]).low = Latest(status[e])
          /\ Joined(status[e]) \in Boards
      BY <2>2, JoinedClocks, JoinedType
    <3>2. status'[e] = [Joined(status[e]) EXCEPT !.device = latest]
      BY <2>1
    <3> QED BY <3>1, <3>2 DEF Boards, ZeroBoard
  <2>4. Within(BusyOf(e), status[e])
    BY <2>1 DEF LaneInv, LaneAt
  <2>5. Latest(status[e]) >= Latest(status[e])
    <3>1. Latest(status[e]) \in Nat
      BY <2>2, BoardFields, LargerType DEF Latest
    <3> QED BY <3>1
  <2>6. Apart(BusyOf(e), status'[e])
    BY <2>2, <2>3, <2>4, <2>5, JoinedApart
  <2>7. BusyOf(e)' = BusyOf(e) /\ Within(BusyOf(e), status'[e])
    BY <1>1, <2>1, <2>2, <2>6, ApartWithin, BusyStays
  <2> QED BY <1>2, <2>1, <2>6, <2>7 DEF LaneAt
<1>4. ASSUME NEW e \in Devices, e \notin Group(d) PROVE LaneAt(e)'
  <2>1. status'[e] = status[e] /\ cur'[e] = cur[e]
    BY <1>1, <1>4
  <2>2. Mid(e)' = Mid(e)
    BY <1>1 DEF Mid
  <2> QED BY <1>1, <2>1, <2>2, LaneStays
<1> QED BY <1>3, <1>4 DEF LaneInv

LEMMA LaneNextDevice ==
  ASSUME PlaceInv, LaneInv, NEW d \in Devices, NextDevice(d)
  PROVE  LaneInv'
<1>1. /\ turn = d /\ (~Ends(d) => trial.step = "push")
      /\ UNCHANGED << calls, cur, trial, exec_status, status, board >>
  BY DEF NextDevice
<1>2. trial.step = "push"
  BY <1>1 DEF PlaceInv
<1>3. \A e \in Devices : Mid(e)' = Mid(e)
  BY <1>1, <1>2 DEF Mid
<1> QED BY <1>1, <1>3, LaneStays DEF LaneInv

LEMMA LaneRestart ==
  ASSUME PlaceInv, CountInv, TypeInv', Restart
  PROVE  LaneInv'
<1> SUFFICES ASSUME NEW d \in Devices PROVE LaneAt(d)'
  BY DEF LaneInv
<1>1. /\ \A e \in Devices : Ends(e)
      /\ UNCHANGED << trial, exec_status >>
      /\ board' = [e \in Devices |-> << >>] /\ status' = [e \in Devices |-> ZeroBoard]
  BY DEF Restart, Ready, AllDone
<1>2. trial'.step = "push" /\ exec_status'[d] = NoStatus
  BY <1>1 DEF PlaceInv, CountInv
<1>3. \A p \in Processor : BusyOf(d)'[p] = 0
  <2>1. ASSUME NEW p \in Processor PROVE Busy(d, p)' = 0
    <3>1. Busy(d, p)' = Spent(<< >>, p) - TimeOn(p, NoStatus)
      BY <1>1, <1>2 DEF Busy, Spent
    <3>2. Spent(<< >>, p) = 0 /\ TimeOn(p, NoStatus) = 0
      BY TotalEmpty, ZeroType, TimeType DEF Spent
    <3> QED BY <3>1, <3>2
  <2> QED BY <2>1 DEF BusyOf
<1>4. BusyOf(d)' \in Times
  BY <1>3 DEF BusyOf, Times
<1>5. Apart(BusyOf(d)', ZeroBoard) /\ ZeroBoard \in Boards
  BY <1>3, ZeroType DEF Apart, Processor, ZeroBoard
<1>6. Within(BusyOf(d)', ZeroBoard)
  BY <1>4, <1>5, ApartWithin
<1> QED BY <1>1, <1>2, <1>5, <1>6 DEF LaneAt, Mid

LEMMA LaneStep ==
  ASSUME RamulatorTimes
  PROVE  PlaceInv /\ CountInv /\ TypeInv /\ BoardsInv /\ LaneInv /\ [Next]_vars => LaneInv'
<1> SUFFICES ASSUME PlaceInv, CountInv, TypeInv, BoardsInv, LaneInv, [Next]_vars PROVE LaneInv'
  OBVIOUS
<1>1. TypeInv'
  BY TypeStep
<1>2. ASSUME NEW d \in Devices,
             Push(d) \/ Try(d) \/ Deliver(d) \/ Pop(d) \/ Synchronise(d) \/ NextDevice(d)
      PROVE  LaneInv'
  BY <1>1, <1>2, LanePushed, LaneTry, LaneDeliver, LanePopped, LaneSynchronise, LaneNextDevice
<1>3. CASE Restart
  BY <1>1, <1>3, LaneRestart
<1>4. CASE UNCHANGED vars
  <2>1. \A d \in Devices : Mid(d)' = Mid(d)
    BY <1>4 DEF vars, Mid
  <2> QED BY <1>4, <2>1, LaneStays DEF vars, LaneInv
<1> QED BY <1>2, <1>3, <1>4 DEF Next

\* A processor does one thing at a time: whatever the graphs and the costs, no device
\* is done before each of its processors has had time for all that was charged to it.
THEOREM OneThingAtATimeHolds == RamulatorTimes => (Spec => []OneThingAtATime)
<1> SUFFICES ASSUME RamulatorTimes PROVE Spec => []OneThingAtATime
  OBVIOUS
<1> DEFINE Inv == PlaceInv /\ CountInv /\ TypeInv /\ BoardsInv /\ LaneInv
<1>1. Init => Inv
  BY PlaceInit, CountInit, TypeInit, BoardsInit, LaneInit
<1>2. Inv /\ [Next]_vars => Inv'
  BY PlaceStep, CountStep, TypeStep, BoardsStep, LaneStep
<1>3. Inv => OneThingAtATime
  BY DEF LaneInv, LaneAt, Within, BusyOf, Latest, OneThingAtATime
<1> QED BY <1>1, <1>2, <1>3, PTL DEF Spec
---------------------------------------------------------------------------
(* The choice among processors.                                            *)

\* e is one of the statuses tried, and the first of the fastest.
Fastest(e, tried) ==
  /\ \E k \in DOMAIN tried : tried[k] = e
  /\ \A k \in DOMAIN tried : e.total <= tried[k].total

ChoiceInv ==
  /\ trial.step # "push" => trial.tried \in Seq(ExecStatus)
  /\ trial.step = "try" => IF trial.tried = << >> THEN trial.optimal = NoStatus
                           ELSE Fastest(trial.optimal, trial.tried)
  /\ trial.step = "pop" /\ trial.tried # << >> =>
       /\ board[turn] # << >>
       /\ Fastest(board[turn][Len(board[turn])], trial.tried)

\* Zero stands for "none yet", and does no harm where all of the attempts take none.
LEMMA BetterFastest ==
  ASSUME NEW tried \in Seq(ExecStatus), NEW optimal \in ExecStatus, NEW e \in ExecStatus,
         IF tried = << >> THEN optimal = NoStatus ELSE Fastest(optimal, tried),
         \A j, k \in DOMAIN Append(tried, e) :
           Append(tried, e)[j].total = 0 => Append(tried, e)[k].total = 0
  PROVE  Fastest(IF Better(optimal, e) THEN e ELSE optimal, Append(tried, e))
<1> DEFINE n == Len(tried)
           all == Append(tried, e)
<1>1. n \in Nat /\ DOMAIN tried = 1 .. n /\ \A k \in 1 .. n : tried[k] \in ExecStatus
  OBVIOUS
<1>2. DOMAIN all = 1 .. n + 1 /\ all[n + 1] = e /\ \A k \in 1 .. n : all[k] = tried[k]
  OBVIOUS
<1>3. \A j, k \in DOMAIN all : all[j].total = 0 => all[k].total = 0
  OBVIOUS
<1>4. \A s \in ExecStatus : s.total \in Nat
  BY DEF ExecStatus
<1> HIDE DEF all
<1>5. CASE tried = << >>
  <2>1. n = 0 /\ Better(optimal, e)
    BY <1>5 DEF Better, NoStatus
  <2>2. DOMAIN all = {1} /\ all[1] = e
    BY <1>2, <2>1
  <2> QED BY <1>4, <2>1, <2>2 DEF Fastest, all
<1>6. CASE tried # << >>
  <2>1. PICK j \in 1 .. n : tried[j] = optimal
    BY <1>1, <1>6 DEF Fastest
  <2>2. \A k \in 1 .. n : optimal.total <= tried[k].total
    BY <1>1, <1>6 DEF Fastest
  <2>3. j \in DOMAIN all /\ all[j] = optimal /\ n + 1 \in DOMAIN all
    BY <1>1, <1>2, <2>1
  <2>4. CASE Better(optimal, e)
    <3>1. \A k \in 1 .. n : e.total <= tried[k].total
      <4>1. CASE optimal.total = 0
        <5>1. e.total = 0
          BY <1>2, <1>3, <2>3, <4>1
        <5> QED BY <1>1, <1>4, <5>1
      <4>2. CASE optimal.total > e.total
        BY <1>1, <1>4, <2>2, <4>2
      <4> QED BY <2>4, <4>1, <4>2 DEF Better
    <3>2. ASSUME NEW k \in DOMAIN all PROVE e.total <= all[k].total
      <4>1. k = n + 1 \/ k \in 1 .. n
        BY <1>1, <1>2
      <4> QED BY <1>2, <1>4, <3>1, <4>1
    <3> QED BY <1>2, <2>3, <2>4, <3>2 DEF Fastest, all
  <2>5. CASE ~Better(optimal, e)
    <3>1. optimal.total <= e.total
      BY <1>4, <2>5 DEF Better
    <3>2. ASSUME NEW k \in DOMAIN all PROVE optimal.total <= all[k].total
      <4>1. k = n + 1 \/ k \in 1 .. n
        BY <1>1, <1>2
      <4> QED BY <1>2, <2>2, <3>1, <4>1
    <3> QED BY <2>3, <2>5, <3>2 DEF Fastest, all
  <2> QED BY <2>4, <2>5
<1> QED BY <1>5, <1>6

LEMMA ChoiceTry ==
  ASSUME RamulatorTimes, PlaceInv, TypeInv, ChoiceInv, ZeroTogether', NEW d \in Devices, Try(d)
  PROVE  ChoiceInv'
<1> DEFINE p == Head(trial.left)
           i == [CallOf(turn).info EXCEPT !.cols = trial.cols]
           e == executePType(system, CallOf(turn), p, i, work[turn].batch, execution_time_cache,
                             dram[turn])
           result == e.status
<1>1. turn = d /\ trial.step = "try" /\ trial.left # << >>
  BY DEF Try, Runs
<1>2. result \in ExecStatus
  <2>1. CacheType(execution_time_cache) /\ dram[turn] \in Nat
    BY <1>1 DEF TypeInv
  <2> QED BY <1>1, <2>1, Executed
<1>3. /\ trial'.step = "try" /\ trial'.tried = Append(trial.tried, result)
      /\ trial'.optimal = (IF Better(trial.optimal, result) THEN result ELSE trial.optimal)
  <2>1. {"step", "tried", "optimal"} \subseteq DOMAIN trial
    BY DEF PlaceInv, NoTrial
  <2>2. trial' = [trial EXCEPT
                    !.left = Tail(@),
                    !.optimal = IF Better(@, result) THEN result ELSE @,
                    !.tried = Append(@, result),
                    !.cols = IF CallOf(d).layer = "ATTENTION_SUM"
                             THEN ColsAfterSum(i, p) ELSE @]
    BY <1>1 DEF Try
  <2> HIDE DEF result, e, i, p
  <2> QED BY <1>1, <2>1, <2>2
<1> HIDE DEF result, e, i, p
<1>4. trial.tried \in Seq(ExecStatus) /\ trial.optimal \in ExecStatus
      /\ (IF trial.tried = << >> THEN trial.optimal = NoStatus
          ELSE Fastest(trial.optimal, trial.tried))
  BY <1>1 DEF TypeInv, ChoiceInv
<1> DEFINE all == Append(trial.tried, result)
<1>5. \A j, k \in DOMAIN all : all[j].total = 0 => all[k].total = 0
  BY <1>3 DEF ZeroTogether
<1>6. Fastest(trial'.optimal, all)
  BY <1>2, <1>3, <1>4, <1>5, BetterFastest
<1>7. all \in Seq(ExecStatus) /\ all # << >>
  BY <1>2, <1>4
<1> HIDE DEF all
<1>8. trial'.tried = all
  BY <1>3 DEF all
<1> QED BY <1>3, <1>6, <1>7, <1>8 DEF ChoiceInv

LEMMA ChoiceDeliver ==
  ASSUME PlaceInv, TypeInv, ChoiceInv, NEW d \in Devices, Deliver(d)
  PROVE  ChoiceInv'
<1> DEFINE o == trial.optimal
<1>1. /\ turn = d /\ trial.step = "try" /\ turn' = turn
      /\ board' = [board EXCEPT ![d] = Append(@, o)]
      /\ trial' = [trial EXCEPT !.step = "pop"]
  BY DEF Deliver, Runs
<1>2. /\ trial'.step = "pop" /\ trial'.tried = trial.tried
      /\ board[d] \in Seq(ExecStatus) /\ o \in ExecStatus /\ board'[d] = Append(board[d], o)
  <2>1. {"step", "tried"} \subseteq DOMAIN trial
    BY DEF PlaceInv, NoTrial
  <2> QED BY <1>1, <2>1 DEF TypeInv
<1>3. board'[d] # << >> /\ board'[d][Len(board'[d])] = o
  <2> DEFINE b == board[d]
  <2> HIDE DEF b, o
  <2>1. b \in Seq(ExecStatus) /\ o \in ExecStatus /\ board'[d] = Append(b, o)
    BY <1>2 DEF b
  <2>2. Len(Append(b, o)) = Len(b) + 1 /\ Append(b, o)[Len(b) + 1] = o /\ Append(b, o) # << >>
    BY <2>1
  <2> QED BY <2>1, <2>2
<1>4. trial.tried \in Seq(ExecStatus) /\ (trial.tried # << >> => Fastest(o, trial.tried))
  BY <1>1 DEF ChoiceInv
<1> HIDE DEF o
<1> QED BY <1>1, <1>2, <1>3, <1>4 DEF ChoiceInv

LEMMA ChoiceStep ==
  ASSUME RamulatorTimes
  PROVE  PlaceInv /\ TypeInv /\ ChoiceInv /\ ZeroTogether' /\ [Next]_vars => ChoiceInv'
<1> SUFFICES ASSUME PlaceInv, TypeInv, ChoiceInv, ZeroTogether', [Next]_vars PROVE ChoiceInv'
  OBVIOUS
<1>1. ASSUME NEW d \in Devices, Push(d) PROVE ChoiceInv'
  <2>1. trial'.tried = << >> /\ trial'.optimal = NoStatus
    BY <1>1 DEF Push, NoTrial
  <2> QED BY <2>1 DEF ChoiceInv
<1>2. ASSUME NEW d \in Devices, Pop(d) PROVE ChoiceInv'
  <2>1. trial'.step = "push"
    BY <1>2 DEF Pop, NoTrial
  <2> QED BY <2>1 DEF ChoiceInv
<1>3. ASSUME NEW d \in Devices, Synchronise(d) PROVE ChoiceInv'
  BY <1>3 DEF Synchronise, ChoiceInv
<1>4. ASSUME NEW d \in Devices, NextDevice(d) PROVE ChoiceInv'
  <2>1. trial.step = "push" /\ trial' = trial
    BY <1>4 DEF NextDevice, PlaceInv
  <2> QED BY <2>1 DEF ChoiceInv
<1>5. CASE Restart
  <2>1. trial.step = "push" /\ trial' = trial
    BY <1>5 DEF Restart, AllDone, PlaceInv
  <2> QED BY <2>1 DEF ChoiceInv
<1>6. CASE UNCHANGED vars
  BY <1>6 DEF vars, ChoiceInv
<1> QED BY <1>1, <1>2, <1>3, <1>4, <1>5, <1>6, ChoiceTry, ChoiceDeliver DEF Next

\* Executor::execution keeps the fastest of the processors it tried, in every system
\* where work that takes no time on one of them takes none on the others: then a
\* duration of zero can stand for "none tried yet".
THEOREM ChosenFastestHolds ==
  RamulatorTimes => (Spec /\ []ZeroTogether => []ChosenFastest)
<1> SUFFICES ASSUME RamulatorTimes PROVE Spec /\ []ZeroTogether => []ChosenFastest
  OBVIOUS
<1> DEFINE Inv == PlaceInv /\ TypeInv /\ ChoiceInv
<1>1. Init => Inv
  <2>1. Init => ChoiceInv
    BY DEF Init, NoTrial, ChoiceInv
  <2> QED BY <2>1, PlaceInit, TypeInit
<1>2. Inv /\ ZeroTogether' /\ [Next]_vars => Inv'
  BY PlaceStep, TypeStep, ChoiceStep
<1>3. Inv => ChosenFastest
  BY DEF ChoiceInv, Fastest, ChosenFastest
<1> QED BY <1>1, <1>2, <1>3, PTL DEF Spec
=============================================================================
