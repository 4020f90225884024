---------------------------- MODULE DecoderProofs ---------------------------
(***************************************************************************)
(* The operations that the devices do for a decoder: the graph of a rank   *)
(* and the whole one go together call by call, every call is its share of  *)
(* the whole one, and the processors are compared on the same work.        *)
(***************************************************************************)
EXTENDS DecoderExecution, ExecutionProofs, SequenceTheorems

---------------------------------------------------------------------------
(* Sums of sequences.                                                      *)

\* n numbers.
Numbers(s, n) == n \in Nat /\ DOMAIN s = 1 .. n /\ \A k \in 1 .. n : s[k] \in Nat

LEMMA TotalSum ==
  ASSUME NEW s, NEW n, Numbers(s, n)
  PROVE  /\ Total(s) = SumFunctionOnSet(s, 1 .. n) /\ IsFiniteSet(1 .. n)
         /\ \A k \in 1 .. n : s[k] \in Int
         /\ Total(s) \in Nat
<1>1. IsFiniteSet(1 .. n) /\ DOMAIN s = 1 .. n /\ \A k \in DOMAIN s : s[k] \in Nat
  BY FS_Interval DEF Numbers
<1>2. Total(s) \in Nat
  BY <1>1, TotalType
<1>3. Total(s) = SumFunctionOnSet(s, 1 .. n)
  BY <1>1 DEF Total, FoldFunction, SumFunctionOnSet
<1> QED BY <1>1, <1>2, <1>3

LEMMA TotalEqual ==
  ASSUME NEW s, NEW n, Numbers(s, n), NEW t, DOMAIN t = 1 .. n, \A k \in 1 .. n : t[k] = s[k]
  PROVE  Total(t) = Total(s)
<1>1. Numbers(t, n)
  BY DEF Numbers
<1>2. SumFunctionOnSet(t, 1 .. n) = SumFunctionOnSet(s, 1 .. n)
  BY TotalSum, SumEqual
<1> QED BY <1>1, <1>2, TotalSum

\* A multiple of each is a multiple of the sum.
Multiple(t, s, n, m) == m \in Nat /\ DOMAIN t = 1 .. n /\ \A k \in 1 .. n : t[k] = m * s[k]

LEMMA TotalTimes ==
  ASSUME NEW s, NEW n, Numbers(s, n), NEW m, NEW t, Multiple(t, s, n, m)
  PROVE  Total(t) = m * Total(s) /\ Numbers(t, n)
<1>1. Numbers(t, n)
  BY DEF Numbers, Multiple
<1>2. /\ IsFiniteSet(1 .. n) /\ \A k \in 1 .. n : s[k] \in Int
      /\ m \in Int /\ \A k \in 1 .. n : t[k] = m * s[k]
  BY TotalSum DEF Multiple
<1>3. SumFunctionOnSet(t, 1 .. n) = m * SumFunctionOnSet(s, 1 .. n)
  BY <1>2, SumTimes
<1> QED BY <1>1, <1>3, TotalSum

SumOfTwo(u, s, t, n) == DOMAIN u = 1 .. n /\ \A k \in 1 .. n : u[k] = s[k] + t[k]

LEMMA TotalAdd ==
  ASSUME NEW s, NEW n, Numbers(s, n), NEW t, Numbers(t, n), NEW u, SumOfTwo(u, s, t, n)
  PROVE  Total(u) = Total(s) + Total(t) /\ Numbers(u, n)
<1>1. Numbers(u, n)
  BY DEF Numbers, SumOfTwo
<1>2. /\ IsFiniteSet(1 .. n) /\ \A k \in 1 .. n : s[k] \in Int
      /\ \A k \in 1 .. n : t[k] \in Int
      /\ \A k \in 1 .. n : u[k] = s[k] + t[k]
  BY TotalSum DEF SumOfTwo
<1>3. SumFunctionOnSet(u, 1 .. n) = SumFunctionOnSet(s, 1 .. n) + SumFunctionOnSet(t, 1 .. n)
  BY <1>2, SumAdd
<1> QED BY <1>1, <1>3, TotalSum

\* What is added to the numbers makes the sum no smaller.
LEMMA TotalMonotone ==
  ASSUME NEW s, NEW n, Numbers(s, n), NEW t, Numbers(t, n), \A k \in 1 .. n : s[k] <= t[k]
  PROVE  Total(s) <= Total(t)
<1> DEFINE u == [k \in 1 .. n |-> t[k] - s[k]]
<1>1. Numbers(u, n) /\ DOMAIN u = 1 .. n
  BY DEF Numbers
<1>2. SumOfTwo(t, s, u, n)
  BY DEF Numbers, SumOfTwo
<1> HIDE DEF u
<1>3. Total(t) = Total(s) + Total(u)
  BY <1>1, <1>2, TotalAdd
<1> QED BY <1>1, <1>3, TotalSum

\* A sum is zero only if all its terms are.
LEMMA TotalZero ==
  ASSUME NEW s, NEW n, Numbers(s, n)
  PROVE  /\ (\A k \in 1 .. n : s[k] = 0) => Total(s) = 0
         /\ \A k \in 1 .. n : s[k] <= Total(s)
<1>1. ASSUME \A k \in 1 .. n : s[k] = 0 PROVE Total(s) = 0
  <2>1. Multiple(s, s, n, 0)
    BY <1>1 DEF Numbers, Multiple
  <2>2. Total(s) = 0 * Total(s)
    BY <2>1, TotalTimes
  <2> QED BY <2>2, TotalSum
<1>2. ASSUME NEW k \in 1 .. n PROVE s[k] <= Total(s)
  <2>1. SumFunctionOnSet(s, {k}) = s[k]
    BY SumSingle, TotalSum
  <2>2. SumFunctionOnSet(s, {k}) <= SumFunctionOnSet(s, 1 .. n)
    BY SumPart, TotalSum DEF Numbers
  <2> QED BY <2>1, <2>2, TotalSum
<1> QED BY <1>1, <1>2

\* One sequence of numbers after the other.
Joining(u, s, n, t, m) ==
  /\ DOMAIN u = 1 .. n + m
  /\ \A k \in 1 .. n : u[k] = s[k]
  /\ \A k \in 1 .. m : u[n + k] = t[k]

LEMMA TotalAfter ==
  ASSUME NEW s, NEW n, Numbers(s, n), NEW t, NEW m, Numbers(t, m), NEW u, Joining(u, s, n, t, m)
  PROVE  Total(u) = Total(s) + Total(t) /\ Numbers(u, n + m)
<1> DEFINE left(j) == [k \in 1 .. n + j |-> u[k]]
           right(j) == [k \in 1 .. j |-> t[k]]
           Good == { j \in 0 .. m : Total(left(j)) = Total(s) + Total(right(j)) }
<1>1. /\ n \in Nat /\ m \in Nat /\ \A k \in 1 .. n + m : u[k] \in Nat
      /\ \A k \in 1 .. m : t[k] \in Nat
  <2>1. \A k \in 1 .. n + m : k \in 1 .. n \/ (k - n \in 1 .. m /\ k = n + (k - n))
    BY DEF Numbers
  <2> QED BY <2>1 DEF Numbers, Joining
<1>2. \A j \in 0 .. m : Numbers(left(j), n + j) /\ Numbers(right(j), j)
  BY <1>1 DEF Numbers
<1>3. 0 \in Good
  <2>1. Total(left(0)) = Total(s)
    <3>1. DOMAIN left(0) = 1 .. n /\ \A k \in 1 .. n : left(0)[k] = s[k]
      BY <1>1 DEF Joining
    <3> HIDE DEF left
    <3> QED BY <3>1, TotalEqual
  <2>2. Total(right(0)) = 0
    BY TotalEmpty
  <2>3. Total(s) \in Nat
    BY TotalSum
  <2> HIDE DEF left, right
  <2> QED BY <1>1, <2>1, <2>2, <2>3
<1>4. ASSUME NEW j \in 0 .. m - 1, j \in Good PROVE j + 1 \in Good
  <2>1. Total(left(j + 1)) = Total(left(j)) + u[n + j + 1]
    <3>1. /\ DOMAIN left(j) = 1 .. n + j /\ DOMAIN left(j + 1) = 1 .. (n + j) + 1
          /\ \A k \in 1 .. n + j : left(j)[k] \in Int /\ left(j + 1)[k] = left(j)[k]
          /\ left(j + 1)[(n + j) + 1] = u[n + j + 1] /\ u[n + j + 1] \in Int /\ n + j \in Nat
      BY <1>1
    <3> HIDE DEF left
    <3> QED BY <3>1, TotalAppend
  <2>2. Total(right(j + 1)) = Total(right(j)) + t[j + 1]
    <3>1. /\ DOMAIN right(j) = 1 .. j /\ DOMAIN right(j + 1) = 1 .. j + 1 /\ j \in Nat
          /\ \A k \in 1 .. j : right(j)[k] \in Int /\ right(j + 1)[k] = right(j)[k]
          /\ right(j + 1)[j + 1] = t[j + 1] /\ t[j + 1] \in Int
      BY <1>1
    <3> HIDE DEF right
    <3> QED BY <3>1, TotalAppend
  <2>3. u[n + j + 1] = t[j + 1] /\ t[j + 1] \in Nat
    BY <1>1 DEF Joining
  <2>4. Total(s) \in Nat /\ Total(right(j)) \in Nat
    <3>1. Numbers(right(j), j)
      BY <1>1 DEF Numbers
    <3> HIDE DEF right
    <3> QED BY <3>1, TotalSum
  <2>5. Total(left(j)) = Total(s) + Total(right(j))
    BY <1>4
  <2> HIDE DEF left, right
  <2>6. Total(left(j + 1)) = Total(s) + Total(right(j + 1))
    BY <2>1, <2>2, <2>3, <2>4, <2>5
  <2> QED BY <1>1, <2>6
<1>5. m \in Good
  <2>1. \A j \in 0 .. m : j \in Good
    <3> HIDE DEF Good
    <3> QED BY <1>1, <1>3, <1>4, BoundedInduction
  <2> QED BY <1>1, <2>1
<1>6. Numbers(u, n + m)
  BY <1>1 DEF Numbers, Joining
<1>7. Total(left(m)) = Total(u)
  <2>1. DOMAIN left(m) = 1 .. n + m /\ \A k \in 1 .. n + m : left(m)[k] = u[k]
    OBVIOUS
  <2> HIDE DEF left
  <2> QED BY <1>6, <2>1, TotalEqual
<1>8. Total(right(m)) = Total(t)
  <2>1. DOMAIN right(m) = 1 .. m /\ \A k \in 1 .. m : right(m)[k] = t[k]
    OBVIOUS
  <2> HIDE DEF right
  <2> QED BY <2>1, TotalEqual
<1> QED BY <1>5, <1>6, <1>7, <1>8

---------------------------------------------------------------------------
(* What the phases of an execution add up to.                              *)

\* ps is a sequence of n phases.
Phased(ps, n) == n \in Nat /\ ps = [k \in 1 .. n |-> ps[k]]

\* A field of the phases adds up to x.
Sums(ps, field, x) ==
  \E n, f : /\ Phased(ps, n) /\ Numbers(f, n)
            /\ \A k \in 1 .. n : ps[k][field] = f[k]
            /\ x = Total(f)

LEMMA SumsNat ==
  ASSUME NEW ps, NEW field, NEW x, Sums(ps, field, x)
  PROVE  x \in Nat
BY TotalSum DEF Sums

LEMMA SumsAre ==
  ASSUME NEW ps, NEW field, NEW x, Sums(ps, field, x)
  PROVE  Total([k \in DOMAIN ps |-> ps[k][field]]) = x
<1>1. PICK n, f : /\ Phased(ps, n) /\ Numbers(f, n)
                  /\ \A k \in 1 .. n : ps[k][field] = f[k]
                  /\ x = Total(f)
  BY DEF Sums
<1> DEFINE t == [k \in DOMAIN ps |-> ps[k][field]]
<1>2. DOMAIN ps = 1 .. n
  BY <1>1 DEF Phased
<1>3. DOMAIN t = 1 .. n /\ \A k \in 1 .. n : t[k] = f[k]
  BY <1>1, <1>2
<1> HIDE DEF t
<1>4. Total(t) = Total(f)
  BY <1>1, <1>3, TotalEqual
<1>5. Total(t) = x
  BY <1>1, <1>4
<1> QED BY <1>5 DEF t

LEMMA FlopsAre ==
  ASSUME NEW ps, NEW x, Sums(ps, "flops", x)
  PROVE  Flops(ps) = x /\ x \in Nat
BY SumsAre, SumsNat DEF Flops

LEMMA BytesAre ==
  ASSUME NEW ps, NEW x, Sums(ps, "bytes", x)
  PROVE  Bytes(ps) = x /\ x \in Nat
BY SumsAre, SumsNat DEF Bytes

LEMMA PhasedJoin ==
  ASSUME NEW ps, NEW n, Phased(ps, n), NEW qs, NEW m, Phased(qs, m)
  PROVE  Phased(ps \o qs, n + m) /\ Joining(ps \o qs, ps, n, qs, m)
<1> DEFINE S == { ps[k] : k \in 1 .. n } \cup { qs[k] : k \in 1 .. m }
<1>1. n \in Nat /\ m \in Nat /\ ps \in [1 .. n -> S] /\ qs \in [1 .. m -> S]
  BY DEF Phased
<1> HIDE DEF S
<1>2. ps \in Seq(S) /\ Len(ps) = n /\ qs \in Seq(S) /\ Len(qs) = m
  BY <1>1, SequenceOfFunction
<1>3. /\ ps \o qs \in Seq(S) /\ Len(ps \o qs) = n + m
      /\ \A k \in 1 .. n + m : (ps \o qs)[k] = IF k <= n THEN ps[k] ELSE qs[k - n]
  BY <1>2, ConcatProperties
<1>4. ps \o qs = [k \in 1 .. n + m |-> (ps \o qs)[k]]
  <2> DEFINE u == ps \o qs
             v == [k \in 1 .. n + m |-> u[k]]
  <2>1. DOMAIN u = 1 .. n + m /\ \A k \in 1 .. n + m : u[k] \in S
    BY <1>3, SeqDomain
  <2>2. v \in [1 .. n + m -> S] /\ n + m \in Nat
    BY <1>1, <2>1
  <2>3. v \in Seq(S) /\ Len(v) = n + m
    <3> HIDE DEF v
    <3> QED BY <2>2, SequenceOfFunction
  <2>4. u \in Seq(S) /\ Len(u) = n + m /\ \A k \in 1 .. n + m : u[k] = v[k]
    BY <1>3
  <2> HIDE DEF u, v
  <2>5. u = v
    BY <2>3, <2>4, SeqEqual
  <2> QED BY <2>5 DEF u, v
<1>5. \A k \in 1 .. n : k \in 1 .. n + m /\ k <= n
  BY <1>1
<1>6. \A k \in 1 .. m : n + k \in 1 .. n + m /\ ~(n + k <= n) /\ (n + k) - n = k
  BY <1>1
<1>7. DOMAIN (ps \o qs) = 1 .. n + m
  BY <1>3, SeqDomain
<1>8. Phased(ps \o qs, n + m)
  BY <1>1, <1>4 DEF Phased
<1> QED BY <1>1, <1>3, <1>5, <1>6, <1>7, <1>8 DEF Joining

\* Phases after phases.
LEMMA SumsJoin ==
  ASSUME NEW ps, NEW field, NEW x, Sums(ps, field, x), NEW qs, NEW y, Sums(qs, field, y)
  PROVE  Sums(ps \o qs, field, x + y)
<1>1. PICK n, f : /\ Phased(ps, n) /\ Numbers(f, n)
                  /\ \A k \in 1 .. n : ps[k][field] = f[k]
                  /\ x = Total(f)
  BY DEF Sums
<1>2. PICK m, g : /\ Phased(qs, m) /\ Numbers(g, m)
                  /\ \A k \in 1 .. m : qs[k][field] = g[k]
                  /\ y = Total(g)
  BY DEF Sums
<1> DEFINE u == [k \in 1 .. n + m |-> (ps \o qs)[k][field]]
<1>3. Phased(ps \o qs, n + m) /\ Joining(ps \o qs, ps, n, qs, m)
  BY <1>1, <1>2, PhasedJoin
<1>4. Joining(u, f, n, g, m)
  <2>1. n \in Nat /\ m \in Nat
    BY <1>1, <1>2 DEF Phased
  <2>2. \A k \in 1 .. n : u[k] = f[k]
    BY <1>1, <1>3, <2>1 DEF Joining
  <2>3. \A k \in 1 .. m : u[n + k] = g[k]
    BY <1>2, <1>3, <2>1 DEF Joining
  <2> QED BY <2>2, <2>3 DEF Joining
<1>5. \A k \in 1 .. n + m : (ps \o qs)[k][field] = u[k]
  OBVIOUS
<1> HIDE DEF u
<1>6. Total(u) = Total(f) + Total(g) /\ Numbers(u, n + m)
  BY <1>1, <1>2, <1>4, TotalAfter
<1> QED BY <1>1, <1>2, <1>3, <1>5, <1>6 DEF Sums

LEMMA SumsOne ==
  ASSUME NEW phase, NEW field, NEW x \in Nat, phase[field] = x
  PROVE  Sums(<< phase >>, field, x)
<1> DEFINE f == << x >>
           ps == << phase >>
<1>1. Phased(ps, 1) /\ Numbers(f, 1) /\ f[1] = x /\ \A k \in 1 .. 1 : ps[k][field] = f[k]
  BY DEF Phased, Numbers
<1>2. SumFunctionOnSet(f, {1}) = x /\ 1 .. 1 = {1}
  BY <1>1, SumSingle
<1> HIDE DEF f, ps
<1>3. Total(f) = x
  BY <1>1, <1>2, TotalSum
<1> QED BY <1>1, <1>3 DEF Sums, ps

LEMMA SumsNone ==
  ASSUME NEW field
  PROVE  Sums(<< >>, field, 0)
<1> DEFINE f == << >>
<1>1. Phased(f, 0) /\ Numbers(f, 0) /\ \A k \in 1 .. 0 : f[k][field] = f[k]
  BY DEF Phased, Numbers
<1>2. Total(f) = 0
  BY TotalEmpty
<1> HIDE DEF f
<1>3. Sums(f, field, 0)
  BY <1>1, <1>2 DEF Sums
<1> QED BY <1>3 DEF f

\* A phase for each of n sequences, h times what g has.
Each(ps, field, g, h, n) ==
  /\ Phased(ps, n) /\ Numbers(g, n) /\ h \in Nat
  /\ \A k \in 1 .. n : ps[k][field] = h * g[k]

LEMMA SumsEach ==
  ASSUME NEW ps, NEW field, NEW g, NEW h, NEW n, Each(ps, field, g, h, n)
  PROVE  Sums(ps, field, h * Total(g))
<1> DEFINE f == [k \in 1 .. n |-> h * g[k]]
<1>1. n \in Nat /\ Phased(ps, n) /\ Numbers(g, n) /\ Multiple(f, g, n, h)
      /\ \A k \in 1 .. n : ps[k][field] = f[k]
  BY DEF Each, Phased, Multiple
<1> HIDE DEF f
<1>2. Total(f) = h * Total(g) /\ Numbers(f, n)
  BY <1>1, TotalTimes
<1> QED BY <1>1, <1>2 DEF Sums

---------------------------------------------------------------------------
(* A decoder, sharded and whole: the two graphs go together, call by call. *)

CallFields == {"layer", "in", "w", "out", "processors", "info", "flops", "bytes", "waits", "fits",
               "path"}
TensorFields == {"shape", "lane", "optimal"}

\* Two tensors in the same lane.
Alike(t, u) ==
  /\ DOMAIN t = TensorFields /\ DOMAIN u = TensorFields
  /\ t.lane = u.lane /\ t.optimal = u.optimal

\* The rows and the columns of two such tensors.
Tensors(t, u, m, k, l) ==
  /\ Alike(t, u) /\ m \in Nat /\ k \in Positive /\ l \in Positive
  /\ t.shape = << m, k >> /\ u.shape = << m, l >>

\* What a call and the whole one compute, in `share` parts.
Projection(a, b, share) ==
  \E m \in Nat, k, n, l, r \in Positive :
    /\ a.in.shape = << m, k >> /\ a.w = << k, n >>
    /\ b.in.shape = << m, l >> /\ b.w = << l, r >>
    /\ share * (k * n) = l * r
HeadProjection(a, b, share) ==
  \E m \in Nat, h, g, k, n \in Positive :
    /\ a.in.shape = << h, m, k >> /\ a.w = << h, k, n >>
    /\ b.in.shape = << g, m, k >> /\ b.w = << g, k, n >>
    /\ share * h = g
Activates(a, b, share) ==
  \E m \in Nat, f, k, l \in Positive :
    /\ a.in.shape = << m, k * f >> /\ a.out.shape = << m, k >>
    /\ b.in.shape = << m, l * f >> /\ b.out.shape = << m, l >>
    /\ share * k = l
InfoFields == {"precision", "hd", "H", "KVH", "group", "rope", "rank", "cols",
               "use_flash_attention", "use_flash_mla", "nearbank", "duplicated_input"}
SharedFields == {"precision", "hd", "rope", "rank", "use_flash_attention", "use_flash_mla",
                 "nearbank"}
Attends(c, a, b) ==
  /\ a.info.H \in Positive /\ a.info.KVH \in Positive
  /\ c.ne_tp_dg * a.info.H = b.info.H /\ c.ne_tp_dg * a.info.KVH = b.info.KVH
  /\ a.info.KVH <= a.info.H
  /\ a.info.group = b.info.group
  /\ a.layer = "ATTENTION_GEN" => a.info.group = a.info.H \div a.info.KVH
  /\ a.layer \in {"ATTENTION_SUM", "ATTENTION_GEN"} => c.model.qk_rope_head_dim = 0
  /\ a.layer # "ATTENTION_GEN" /\ a.layer # "ATTENTION_SUM" =>
       a.info.KVH = a.info.H /\ a.info.rank \in Positive /\ a.info.rope \in Positive
  /\ {a.info.cols, b.info.cols} \subseteq Nat

Computes(c, a, b) ==
  \/ a.layer = "none"
  \/ a.layer = "LINEAR" /\ \E share \in {1, c.ne_tp_dg, c.e_tp_dg} : Projection(a, b, share)
  \/ a.layer = "BATCHED_LINEAR" /\ HeadProjection(a, b, c.ne_tp_dg)
     /\ a.info.duplicated_input = b.info.duplicated_input
  \/ a.layer = "ACTIVATION" /\ \E share \in {1, c.ne_tp_dg, c.e_tp_dg} : Activates(a, b, share)
  \/ a.layer \in AttentionLayers /\ Attends(c, a, b)

\* What all calls have in common.
Described(c, a, b) ==
  /\ DOMAIN a.info = InfoFields /\ DOMAIN b.info = InfoFields
  /\ \A f \in SharedFields : a.info[f] = b.info[f]
  /\ a.info.precision = c.model.precision_byte /\ a.info.hd = c.model.head_dim
  /\ a.info.rope = c.model.qk_rope_head_dim /\ a.info.nearbank = c.nearbank
  /\ a.info.use_flash_attention => c.use_flash_attention
  /\ {a.info.use_flash_attention, a.info.use_flash_mla} \subseteq BOOLEAN

Fits(a) == a.fits = TRUE

Pair(c, a, b) ==
  /\ DOMAIN a = CallFields /\ DOMAIN b = CallFields
  /\ Fits(a) /\ a.layer = b.layer
  /\ a.processors = b.processors /\ a.processors \in Seq(Processor)
  /\ a.layer # "none" => a.processors # << >>
  /\ Described(c, a, b) /\ Computes(c, a, b)

\* A division that leaves nothing.
LEMMA Exact ==
  ASSUME NEW a \in Nat, NEW n \in Positive, a % n = 0
  PROVE  a \div n \in Nat /\ n * (a \div n) = a /\ (a # 0 => a \div n # 0)
BY DEF Positive

LEMMA ExactIs ==
  ASSUME NEW q \in Nat, NEW n \in Positive
  PROVE  (n * q) \div n = q /\ (n * q) % n = 0
BY DEF Positive

LEMMA ProductType ==
  ASSUME NEW a \in Nat, NEW b \in Nat
  PROVE  a * b \in Nat /\ (a # 0 /\ b # 0 => a * b # 0) /\ a * b = b * a
OBVIOUS

LEMMA Product3 ==
  ASSUME NEW a \in Int, NEW b \in Int, NEW c \in Int
  PROVE  (a * b) * c = a * (b * c)
OBVIOUS

LEMMA Product4 ==
  ASSUME NEW a \in Int, NEW b \in Int, NEW c \in Int, NEW d \in Int
  PROVE  a * ((b * c) * d) = ((a * b) * c) * d
OBVIOUS

\* The part of a product is the product of the part.
LEMMA PartOfProduct ==
  ASSUME NEW a \in Nat, NEW f \in Nat, NEW n \in Positive, a % n = 0
  PROVE  (a * f) % n = 0 /\ (a * f) \div n = (a \div n) * f
<1>1. a \div n \in Nat /\ n * (a \div n) = a
  BY Exact
<1> DEFINE q == a \div n
<1> HIDE DEF q
<1>2. q \in Nat /\ n \in Nat /\ n * q = a
  BY <1>1 DEF q, Positive
<1>3. a * f = n * (q * f) /\ q * f \in Nat
  BY <1>2, Product3, ProductType
<1> QED BY <1>3, ExactIs DEF q
\* What sharding leaves of a system.
LEMMA UnshardedFields ==
  ASSUME NEW c, SystemType(c)
  PROVE  LET s == Unsharded(c)
         IN /\ s.model = c.model /\ s.processor_type = c.processor_type
            /\ s.high = c.high /\ s.low = c.low
            /\ s.parallel_execution = c.parallel_execution
            /\ s.hetero_subbatch = c.hetero_subbatch
            /\ s.use_low_unit_moe_only = c.use_low_unit_moe_only
            /\ s.use_flash_mla = c.use_flash_mla
            /\ s.use_flash_attention = c.use_flash_attention
            /\ s.nearbank = c.nearbank /\ s.num_total_device = c.num_total_device
            /\ s.ne_tp_dg = 1 /\ s.e_tp_dg = 1
BY DEF Unsharded, SystemType

LEMMA LayerInfoIs ==
  ASSUME NEW c, SystemType(c)
  PROVE  /\ LayerInfo(Unsharded(c)) = LayerInfo(c)
         /\ DOMAIN LayerInfo(c) = InfoFields
         /\ LayerInfo(c).precision = c.model.precision_byte
         /\ LayerInfo(c).hd = c.model.head_dim
         /\ LayerInfo(c).rope = c.model.qk_rope_head_dim
         /\ LayerInfo(c).nearbank = c.nearbank
         /\ LayerInfo(c).use_flash_attention = FALSE
         /\ LayerInfo(c).use_flash_mla = FALSE
BY UnshardedFields DEF LayerInfo, InfoFields

\* The processors of a call depend on its lane alone.
LEMMA ProcessorsAre ==
  ASSUME NEW c, SystemType(c), NEW t, NEW u, Alike(t, u)
  PROVE  /\ SubbatchProcessors(Unsharded(c), u) = SubbatchProcessors(c, t)
         /\ HeadProcessors(Unsharded(c), u) = HeadProcessors(c, t)
         /\ SubbatchProcessors(c, t) \in Seq(Processor) /\ SubbatchProcessors(c, t) # << >>
         /\ HeadProcessors(c, t) \in Seq(Processor) /\ HeadProcessors(c, t) # << >>
<1> DEFINE s == Unsharded(c)
           even(x) == [x EXCEPT !.hetero_subbatch = FALSE]
<1>1. /\ s.processor_type = c.processor_type /\ s.high = c.high /\ s.low = c.low
      /\ s.hetero_subbatch = c.hetero_subbatch
      /\ even(s).processor_type = c.processor_type /\ even(s).high = c.high
      /\ even(s).low = c.low /\ ~even(s).hetero_subbatch
      /\ even(c).processor_type = c.processor_type /\ even(c).high = c.high
      /\ even(c).low = c.low /\ ~even(c).hetero_subbatch
  BY DEF SystemType, Unsharded
<1>2. /\ << c.high >> \in Seq(Processor) /\ << c.high >> # << >>
      /\ << c.low >> \in Seq(Processor) /\ << c.low >> # << >>
      /\ c.processor_type \in Seq(Processor) /\ c.processor_type # << >>
  BY DEF SystemType
<1>3. t.lane = u.lane /\ t.optimal = u.optimal
  BY DEF Alike
<1> HIDE DEF s, even
<1>4. /\ SubbatchProcessors(s, u) = SubbatchProcessors(c, t)
      /\ SubbatchProcessors(c, t) \in Seq(Processor) /\ SubbatchProcessors(c, t) # << >>
  BY <1>1, <1>2, <1>3 DEF SubbatchProcessors, LaneProcessors
<1>5. /\ SubbatchProcessors(even(s), u) = SubbatchProcessors(even(c), t)
      /\ SubbatchProcessors(even(c), t) \in Seq(Processor)
      /\ SubbatchProcessors(even(c), t) # << >>
  BY <1>1, <1>2, <1>3 DEF SubbatchProcessors, LaneProcessors
<1> QED BY <1>4, <1>5 DEF HeadProcessors, s, even

LEMMA PlainDescribed ==
  ASSUME NEW c, SystemType(c), NEW a, NEW b, a.info = LayerInfo(c),
         b.info = LayerInfo(Unsharded(c))
  PROVE  Described(c, a, b)
BY LayerInfoIs DEF Described, SharedFields

\* A product of k x n is a share of one of l x r.
ShareOf(c, share, k, n, l, r) ==
  /\ share \in {1, c.ne_tp_dg, c.e_tp_dg} /\ {k, n, l, r} \subseteq Positive
  /\ share * (k * n) = l * r

LEMMA LinearPair ==
  ASSUME NEW c, SystemType(c), NEW t, NEW u, NEW m, NEW k, NEW n, NEW l, NEW r, NEW share,
         Tensors(t, u, m, k, l), ShareOf(c, share, k, n, l, r)
  PROVE  LET a == Linear(c, t, k, n)
             b == Linear(Unsharded(c), u, l, r)
         IN Pair(c, a, b) /\ Tensors(a.out, b.out, m, n, r) /\ a.out.lane = t.lane
<1> DEFINE a == Linear(c, t, k, n)
           b == Linear(Unsharded(c), u, l, r)
<1>1. DOMAIN a = CallFields /\ DOMAIN b = CallFields
  BY DEF Linear, Execute, Plain, CallFields
<1>2. /\ m \in Nat /\ {k, n, l, r} \subseteq Positive /\ Alike(t, u)
      /\ t.shape = << m, k >> /\ u.shape = << m, l >>
  BY DEF Tensors, ShareOf
<1>3. (t.shape[2] = k) = TRUE
  BY <1>2
<1>4. /\ a.fits = TRUE /\ a.layer = "LINEAR" /\ b.layer = "LINEAR"
      /\ a.in = t /\ b.in = u /\ a.w = << k, n >> /\ b.w = << l, r >>
  BY <1>3 DEF Linear, Execute, Plain
<1>5. /\ a.info = LayerInfo(c) /\ b.info = LayerInfo(Unsharded(c))
      /\ a.processors = SubbatchProcessors(c, t)
      /\ b.processors = SubbatchProcessors(Unsharded(c), u)
  BY DEF Linear, Execute, Plain
<1>6. /\ Alike(a.out, b.out) /\ a.out.shape = << m, n >> /\ b.out.shape = << m, r >>
      /\ a.out.lane = t.lane
  BY <1>2 DEF Linear, Execute, Plain, Alike, TensorFields
<1> HIDE DEF a, b
<1>7. Projection(a, b, share)
  BY <1>2, <1>4 DEF Projection, ShareOf
<1>8. Computes(c, a, b)
  BY <1>4, <1>7 DEF Computes, ShareOf
<1>9. Described(c, a, b)
  BY <1>5, PlainDescribed
<1>10. Pair(c, a, b)
  BY <1>1, <1>2, <1>4, <1>5, <1>8, <1>9, ProcessorsAre DEF Pair, Fits
<1>11. Tensors(a.out, b.out, m, n, r)
  BY <1>2, <1>6 DEF Tensors
<1> QED BY <1>6, <1>10, <1>11 DEF a, b

\* x is a, but for its name and its assertion.
Renamed(x, a) ==
  DOMAIN x = CallFields /\ \A f \in CallFields \ {"fits", "path"} : x[f] = a[f]

LEMMA PairKept ==
  ASSUME NEW c, NEW a, NEW b, Pair(c, a, b), NEW x, NEW y, Renamed(x, a), Renamed(y, b),
         Fits(x)
  PROVE  Pair(c, x, y) /\ x.out = a.out /\ y.out = b.out /\ x.layer = a.layer
<1>1. /\ DOMAIN x = CallFields /\ DOMAIN y = CallFields
      /\ x.layer = a.layer /\ y.layer = b.layer /\ x.info = a.info /\ y.info = b.info
      /\ x.processors = a.processors /\ y.processors = b.processors
      /\ x.in = a.in /\ y.in = b.in /\ x.w = a.w /\ y.w = b.w /\ x.out = a.out /\ y.out = b.out
  BY DEF CallFields, Renamed
<1>2. Described(c, x, y)
  BY <1>1 DEF Pair, Described
<1>3. Computes(c, x, y)
  <2>1. \A share : /\ Projection(a, b, share) => Projection(x, y, share)
                   /\ HeadProjection(a, b, share) => HeadProjection(x, y, share)
                   /\ Activates(a, b, share) => Activates(x, y, share)
    BY <1>1 DEF Projection, HeadProjection, Activates
  <2>2. Attends(c, a, b) => Attends(c, x, y)
    BY <1>1 DEF Attends
  <2> QED BY <1>1, <2>1, <2>2 DEF Pair, Computes
<1> QED BY <1>1, <1>2, <1>3 DEF Pair

LEMMA PairAs ==
  ASSUME NEW c, NEW a, NEW b, Pair(c, a, b), NEW name, NEW other
  PROVE  /\ Pair(c, As(name, a), As(other, b))
         /\ As(name, a).out = a.out /\ As(other, b).out = b.out
<1> DEFINE v == As(name, a)
           z == As(other, b)
<1>1. DOMAIN a = CallFields /\ DOMAIN b = CallFields /\ a.fits = TRUE
  BY DEF Pair, Fits
<1>2. Renamed(v, a) /\ Renamed(z, b) /\ Fits(v)
  BY <1>1 DEF CallFields, As, Renamed, Fits
<1> HIDE DEF v, z
<1>3. Pair(c, v, z) /\ v.out = a.out /\ z.out = b.out
  BY <1>2, PairKept
<1> QED BY <1>3 DEF v, z

\* The degree of a layer, and of the whole one.
Degree(c, n) == n \in {1, c.ne_tp_dg, c.e_tp_dg}

LEMMA DegreePositive ==
  ASSUME NEW c, SystemType(c), NEW n, Degree(c, n)
  PROVE  n \in Positive
BY DEF Degree, SystemType, Shardable, Positive

LEMMA ColumnPair ==
  ASSUME NEW c, SystemType(c), NEW t, NEW u, NEW n, NEW m, NEW k, NEW r \in Positive,
         Degree(c, n), r % n = 0, Tensors(t, u, m, k, k)
  PROVE  LET a == ColumnParallelLinear(c, t, n, k, r)
             b == ColumnParallelLinear(Unsharded(c), u, 1, k, r)
         IN Pair(c, a, b) /\ Tensors(a.out, b.out, m, r \div n, r) /\ a.out.lane = t.lane
<1> DEFINE q == r \div n
           a == Linear(c, t, k, q)
           b == Linear(Unsharded(c), u, k, r)
<1>1. n \in Positive /\ n \in {1, c.ne_tp_dg, c.e_tp_dg} /\ k \in Positive
  BY DegreePositive DEF Degree, Tensors
<1>2. ShareOf(c, n, k, q, k, r) /\ r \div 1 = r
  <2>1. q \in Nat /\ n * q = r /\ q # 0
    BY <1>1, Exact DEF Positive
  <2> HIDE DEF q
  <2>2. n * (k * q) = k * (n * q)
    BY <1>1, <2>1 DEF Positive
  <2> QED BY <1>1, <2>1, <2>2 DEF Positive, ShareOf
<1> HIDE DEF q
<1>3. Pair(c, a, b) /\ Tensors(a.out, b.out, m, q, r) /\ a.out.lane = t.lane
  BY <1>2, LinearPair
<1> DEFINE v == [a EXCEPT !.fits = a.fits /\ r % n = 0]
           z == [b EXCEPT !.fits = b.fits /\ r % 1 = 0]
<1>4. v = ColumnParallelLinear(c, t, n, k, r) /\ z = ColumnParallelLinear(Unsharded(c), u, 1, k, r)
  BY <1>2 DEF ColumnParallelLinear, q
<1> HIDE DEF a, b
<1>5. (a.fits /\ r % n = 0) = TRUE
  <2>1. a.fits = TRUE
    BY <1>3 DEF Pair, Fits
  <2> QED BY <2>1
<1>6. DOMAIN a = CallFields /\ DOMAIN b = CallFields
  BY <1>3 DEF Pair
<1>7. Renamed(v, a) /\ Renamed(z, b) /\ Fits(v)
  BY <1>5, <1>6 DEF CallFields, Renamed, Fits
<1> HIDE DEF v, z
<1>8. Pair(c, v, z) /\ v.out = a.out /\ z.out = b.out
  BY <1>3, <1>7, PairKept
<1> QED BY <1>3, <1>4, <1>8 DEF q

LEMMA RowPair ==
  ASSUME NEW c, SystemType(c), NEW t, NEW u, NEW n, NEW m, NEW k \in Positive, NEW r \in Positive,
         Degree(c, n), k % n = 0, r % n = 0, Tensors(t, u, m, k \div n, k)
  PROVE  LET a == RowParallelLinear(c, t, n, k, r)
             b == RowParallelLinear(Unsharded(c), u, 1, k, r)
         IN Pair(c, a, b) /\ Tensors(a.out, b.out, m, r, r) /\ a.out.lane = t.lane
<1> DEFINE q == k \div n
           a == Linear(c, t, q, r)
           b == Linear(Unsharded(c), u, k, r)
<1>1. n \in Positive /\ n \in {1, c.ne_tp_dg, c.e_tp_dg} /\ Tensors(t, u, m, q, k)
  BY DegreePositive DEF Degree
<1>2. ShareOf(c, n, q, r, k, r) /\ k \div 1 = k
  <2>1. q \in Nat /\ n * q = k /\ q # 0
    BY <1>1, Exact DEF Positive
  <2> HIDE DEF q
  <2>2. n * (q * r) = (n * q) * r
    BY <1>1, <2>1 DEF Positive
  <2> QED BY <1>1, <2>1, <2>2 DEF Positive, ShareOf
<1> HIDE DEF q
<1>3. Pair(c, a, b) /\ Tensors(a.out, b.out, m, r, r) /\ a.out.lane = t.lane
  BY <1>1, <1>2, LinearPair
<1> DEFINE v == [a EXCEPT !.fits = a.fits /\ r % n = 0]
           z == [b EXCEPT !.fits = b.fits /\ r % 1 = 0]
<1>4. v = RowParallelLinear(c, t, n, k, r) /\ z = RowParallelLinear(Unsharded(c), u, 1, k, r)
  BY <1>2 DEF RowParallelLinear, q
<1> HIDE DEF a, b
<1>5. (a.fits /\ r % n = 0) = TRUE
  <2>1. a.fits = TRUE
    BY <1>3 DEF Pair, Fits
  <2> QED BY <2>1
<1>6. DOMAIN a = CallFields /\ DOMAIN b = CallFields
  BY <1>3 DEF Pair
<1>7. Renamed(v, a) /\ Renamed(z, b) /\ Fits(v)
  BY <1>5, <1>6 DEF CallFields, Renamed, Fits
<1> HIDE DEF v, z
<1>8. Pair(c, v, z) /\ v.out = a.out /\ z.out = b.out
  BY <1>3, <1>7, PairKept
<1> QED BY <1>3, <1>4, <1>8 DEF q

LEMMA BatchedParts ==
  ASSUME NEW c, NEW t, NEW h, NEW k, NEW r, NEW duplicated
  PROVE  LET a == BatchedLinear(c, t, h, k, r, duplicated)
         IN /\ a.processors = HeadProcessors(c, t) /\ DOMAIN a.info = InfoFields
            /\ a.info.duplicated_input = duplicated
            /\ \A f \in InfoFields \ {"duplicated_input"} : a.info[f] = LayerInfo(c)[f]
<1> DEFINE a == BatchedLinear(c, t, h, k, r, duplicated)
<1>1. a.processors = HeadProcessors(c, t)
  BY DEF BatchedLinear, Execute, Plain
<1>2. a.info = [LayerInfo(c) EXCEPT !.duplicated_input = duplicated]
  BY DEF BatchedLinear, Execute, Plain
<1>3. DOMAIN LayerInfo(c) = InfoFields
  BY DEF LayerInfo, InfoFields
<1> HIDE DEF a
<1>4. /\ DOMAIN a.info = InfoFields /\ a.info.duplicated_input = duplicated
      /\ \A f \in InfoFields \ {"duplicated_input"} : a.info[f] = LayerInfo(c)[f]
  BY <1>2, <1>3 DEF InfoFields
<1> QED BY <1>1, <1>4 DEF a

LEMMA BatchedShapes ==
  ASSUME NEW c, NEW t, NEW h, NEW k, NEW r, NEW duplicated, NEW m, NEW x,
         DOMAIN t = TensorFields, t.shape = << m, x >>
  PROVE  LET a == BatchedLinear(c, t, h, k, r, duplicated)
         IN /\ a.in.shape = << h, m, x >> /\ a.out.shape = << m, r >>
            /\ a.w = << h, k, r >> /\ DOMAIN a = CallFields /\ a.layer = "BATCHED_LINEAR"
            /\ DOMAIN a.out = TensorFields /\ a.out.lane = t.lane /\ a.out.optimal = t.optimal
<1> DEFINE a == BatchedLinear(c, t, h, k, r, duplicated)
           in == [t EXCEPT !.shape = << h >> \o @]
           out == [t EXCEPT !.shape = << t.shape[1], r >>]
<1>1. /\ a.in = in /\ a.out = out /\ a.w = << h, k, r >> /\ DOMAIN a = CallFields
      /\ a.layer = "BATCHED_LINEAR"
  BY DEF BatchedLinear, Execute, Plain, CallFields
<1>2. in.shape = << h, m, x >>
  <2>1. << h >> \o << m, x >> = << h, m, x >>
    <3> DEFINE S == {h, m, x}
    <3>1. << h >> \in Seq(S) /\ << m, x >> \in Seq(S) /\ << h, m, x >> \in Seq(S)
      OBVIOUS
    <3>2. Len(<< h >>) = 1 /\ Len(<< m, x >>) = 2 /\ Len(<< h, m, x >>) = 3
      OBVIOUS
    <3> DEFINE v == << h >> \o << m, x >>
    <3>3. /\ v \in Seq(S) /\ Len(v) = 3
          /\ \A i \in 1 .. 3 : v[i] = IF i <= 1 THEN << h >>[i] ELSE << m, x >>[i - 1]
      <4> HIDE DEF S
      <4> QED BY <3>1, <3>2, ConcatProperties, 1 + 2 = 3
    <3>4. v[1] = h /\ v[2] = m /\ v[3] = x
      <4> HIDE DEF v
      <4> QED BY <3>3
    <3>5. \A i \in 1 .. 3 : v[i] = << h, m, x >>[i]
      <4> HIDE DEF v
      <4>1. \A i \in 1 .. 3 : i = 1 \/ i = 2 \/ i = 3
        OBVIOUS
      <4> QED BY <3>4, <4>1
    <3> HIDE DEF v, S
    <3>6. v = << h, m, x >>
      BY <3>1, <3>2, <3>3, <3>5, SeqEqual
    <3> QED BY <3>6 DEF v
  <2> QED BY <2>1 DEF TensorFields
<1>3. /\ out.shape = << m, r >> /\ DOMAIN out = TensorFields
      /\ out.lane = t.lane /\ out.optimal = t.optimal
  BY DEF TensorFields
<1> HIDE DEF a, in, out
<1>4. /\ a.in.shape = << h, m, x >> /\ a.out.shape = << m, r >>
      /\ DOMAIN a.out = TensorFields /\ a.out.lane = t.lane /\ a.out.optimal = t.optimal
  BY <1>1, <1>2, <1>3
<1> QED BY <1>1, <1>4 DEF a

\* A product for each head of a share h of g heads.
LEMMA BatchedPair ==
  ASSUME NEW c, SystemType(c), NEW t, NEW u, NEW m, NEW k, NEW r \in Positive,
         NEW h \in Positive, NEW g \in Positive, c.ne_tp_dg * h = g, NEW duplicated,
         Tensors(t, u, m, k, k)
  PROVE  LET a == BatchedLinear(c, t, h, k, r, duplicated)
             b == BatchedLinear(Unsharded(c), u, g, k, r, duplicated)
         IN Pair(c, a, b) /\ Tensors(a.out, b.out, m, r, r) /\ a.out.lane = t.lane
<1> DEFINE a == BatchedLinear(c, t, h, k, r, duplicated)
           b == BatchedLinear(Unsharded(c), u, g, k, r, duplicated)
<1>1. /\ m \in Nat /\ k \in Positive /\ Alike(t, u)
      /\ t.shape = << m, k >> /\ u.shape = << m, k >>
      /\ DOMAIN t = TensorFields /\ DOMAIN u = TensorFields
      /\ t.lane = u.lane /\ t.optimal = u.optimal
  BY DEF Tensors, Alike
<1>2. /\ a.in.shape = << h, m, k >> /\ a.out.shape = << m, r >> /\ a.w = << h, k, r >>
      /\ DOMAIN a = CallFields /\ DOMAIN a.out = TensorFields /\ a.layer = "BATCHED_LINEAR"
      /\ a.out.lane = t.lane /\ a.out.optimal = t.optimal
  BY <1>1, BatchedShapes
<1>3. /\ b.in.shape = << g, m, k >> /\ b.out.shape = << m, r >> /\ b.w = << g, k, r >>
      /\ DOMAIN b = CallFields /\ DOMAIN b.out = TensorFields /\ b.layer = "BATCHED_LINEAR"
      /\ b.out.lane = u.lane /\ b.out.optimal = u.optimal
  BY <1>1, BatchedShapes
<1>4. /\ a.processors = HeadProcessors(c, t) /\ DOMAIN a.info = InfoFields
      /\ a.info.duplicated_input = duplicated
      /\ \A f \in InfoFields \ {"duplicated_input"} : a.info[f] = LayerInfo(c)[f]
  BY BatchedParts
<1>5. /\ b.processors = HeadProcessors(Unsharded(c), u) /\ DOMAIN b.info = InfoFields
      /\ b.info.duplicated_input = duplicated
      /\ \A f \in InfoFields \ {"duplicated_input"} : b.info[f] = LayerInfo(Unsharded(c))[f]
  BY BatchedParts
<1>6. a.fits = TRUE
  <2>1. (t.shape[2] = k) = TRUE
    BY <1>1
  <2> QED BY <2>1 DEF BatchedLinear, Execute, Plain
<1> HIDE DEF a, b
<1>7. Described(c, a, b)
  <2>1. SharedFields \subseteq InfoFields \ {"duplicated_input"}
    BY DEF SharedFields, InfoFields
  <2>2. {"precision", "hd", "rope", "nearbank", "use_flash_attention", "use_flash_mla"}
          \subseteq InfoFields \ {"duplicated_input"}
    BY DEF InfoFields
  <2>3. a.info.precision = LayerInfo(c).precision /\ a.info.hd = LayerInfo(c).hd
        /\ a.info.rope = LayerInfo(c).rope /\ a.info.nearbank = LayerInfo(c).nearbank
        /\ a.info.use_flash_attention = LayerInfo(c).use_flash_attention
        /\ a.info.use_flash_mla = LayerInfo(c).use_flash_mla
    BY <1>4, <2>2
  <2>4. \A f \in SharedFields : a.info[f] = b.info[f]
    BY <1>4, <1>5, <2>1, LayerInfoIs
  <2> QED BY <1>4, <1>5, <2>3, <2>4, LayerInfoIs DEF Described
<1>8. Computes(c, a, b)
  <2>1. HeadProjection(a, b, c.ne_tp_dg)
    BY <1>1, <1>2, <1>3 DEF HeadProjection
  <2> QED BY <1>2, <1>4, <1>5, <2>1 DEF Computes
<1>9. Pair(c, a, b)
  BY <1>1, <1>2, <1>3, <1>4, <1>5, <1>6, <1>7, <1>8, ProcessorsAre DEF Pair, Fits
<1>10. Tensors(a.out, b.out, m, r, r)
  BY <1>1, <1>2, <1>3 DEF Tensors, Alike
<1> QED BY <1>2, <1>9, <1>10 DEF a, b
\* The heads of a rank, and all of them.
LEMMA HeadShare ==
  ASSUME NEW c, SystemType(c)
  PROVE  /\ c.ne_tp_dg \in Positive /\ Degree(c, c.ne_tp_dg)
         /\ c.model.num_heads \in Positive /\ c.model.num_heads % c.ne_tp_dg = 0
         /\ Heads(c, c.ne_tp_dg) \in Positive
         /\ c.ne_tp_dg * Heads(c, c.ne_tp_dg) = c.model.num_heads
         /\ Heads(Unsharded(c), 1) = c.model.num_heads
<1>1. /\ c.ne_tp_dg \in Positive /\ c.model.num_heads \in Positive
      /\ c.model.num_heads % c.ne_tp_dg = 0
  BY DEF SystemType, Model, Shardable
<1> DEFINE h == c.model.num_heads
<1>2. h \div c.ne_tp_dg \in Positive /\ c.ne_tp_dg * (h \div c.ne_tp_dg) = h
  BY <1>1, Exact DEF Positive
<1>3. h \div 1 = h /\ Unsharded(c).model = c.model
  BY <1>1, UnshardedFields DEF Positive
<1> QED BY <1>1, <1>2, <1>3 DEF Heads, Degree

\* The product of a count and a positive number, divided by the count.
LEMMA Shared ==
  ASSUME NEW h \in Positive, NEW d \in Positive, NEW n \in Positive, h % n = 0
  PROVE  /\ (h * d) \div h = d /\ (h * d) % n = 0 /\ (h * d) % 1 = 0
         /\ (h * d) \div n = (h \div n) * d /\ (d * h) \div n = (h \div n) * d
         /\ (h * d) \div 1 = h * d /\ (d * h) % n = 0 /\ (d * h) \div h = d
         /\ h * d \in Positive /\ d * h \in Positive /\ h * d = d * h
         /\ (h \div n) * d \in Positive /\ (d * h) \div 1 = h * d
<1>1. h * d \in Nat /\ h * d = d * h /\ h * d # 0
  BY ProductType DEF Positive
<1>2. (h * d) \div h = d
  BY ExactIs DEF Positive
<1>3. (h * d) % n = 0 /\ (h * d) \div n = (h \div n) * d
  BY PartOfProduct DEF Positive
<1>4. (h * d) % 1 = 0 /\ (h * d) \div 1 = h * d
  BY <1>1
<1>5. h \div n \in Nat /\ h \div n # 0
  BY Exact DEF Positive
<1>6. (h \div n) * d \in Nat /\ (h \div n) * d # 0
  BY <1>5, ProductType DEF Positive
<1> QED BY <1>1, <1>2, <1>3, <1>4, <1>6 DEF Positive

LEMMA BatchedColumnPair ==
  ASSUME NEW c, SystemType(c), NEW t, NEW u, NEW m, NEW k, NEW d \in Positive, NEW duplicated,
         Tensors(t, u, m, k, k)
  PROVE  LET r == c.model.num_heads * d
             a == BatchedColumnParallelLinear(c, t, c.ne_tp_dg, k, r, duplicated)
             b == BatchedColumnParallelLinear(Unsharded(c), u, 1, k, r, duplicated)
         IN Pair(c, a, b) /\ Tensors(a.out, b.out, m, d, d)
<1> DEFINE n == c.ne_tp_dg
           h == c.model.num_heads
           a == BatchedLinear(c, t, h \div n, k, d, duplicated)
           b == BatchedLinear(Unsharded(c), u, h, k, d, duplicated)
           v == [a EXCEPT !.fits = a.fits /\ (h * d) % n = 0]
           z == [b EXCEPT !.fits = b.fits /\ (h * d) % 1 = 0]
<1>1. /\ h \in Positive /\ n \in Positive /\ h % n = 0
      /\ h \div n \in Positive /\ n * (h \div n) = h /\ h \div 1 = h
  BY HeadShare DEF Heads, Positive
<1>2. (h * d) \div h = d /\ (h * d) % n = 0
  BY <1>1, Shared
<1>3. Unsharded(c).model = c.model
  BY UnshardedFields
<1>4. /\ v = BatchedColumnParallelLinear(c, t, n, k, h * d, duplicated)
      /\ z = BatchedColumnParallelLinear(Unsharded(c), u, 1, k, h * d, duplicated)
  BY <1>1, <1>2, <1>3 DEF BatchedColumnParallelLinear
<1>5. Pair(c, a, b) /\ Tensors(a.out, b.out, m, d, d)
  <2> DEFINE g == h \div n
  <2> HIDE DEF h, g
  <2> QED BY <1>1, BatchedPair DEF g
<1> HIDE DEF a, b
<1>6. (a.fits /\ (h * d) % n = 0) = TRUE
  <2>1. a.fits = TRUE
    BY <1>5 DEF Pair, Fits
  <2> QED BY <1>2, <2>1
<1>7. DOMAIN a = CallFields /\ DOMAIN b = CallFields
  BY <1>5 DEF Pair
<1>8. Renamed(v, a) /\ Renamed(z, b) /\ Fits(v)
  BY <1>6, <1>7 DEF CallFields, Renamed, Fits
<1> HIDE DEF v, z
<1>9. Pair(c, v, z) /\ v.out = a.out /\ z.out = b.out
  BY <1>5, <1>8, PairKept
<1> QED BY <1>4, <1>5, <1>9

LEMMA BatchedRowPair ==
  ASSUME NEW c, SystemType(c), NEW t, NEW u, NEW m, NEW d \in Positive, NEW r \in Positive,
         Tensors(t, u, m, d, d)
  PROVE  LET k == d * c.model.num_heads
             a == BatchedRowParallelLinear(c, t, c.ne_tp_dg, k, r)
             b == BatchedRowParallelLinear(Unsharded(c), u, 1, k, r)
         IN Pair(c, a, b) /\ Tensors(a.out, b.out, m, r, r)
<1> DEFINE n == c.ne_tp_dg
           h == c.model.num_heads
           a == BatchedLinear(c, t, h \div n, d, r, FALSE)
           b == BatchedLinear(Unsharded(c), u, h, d, r, FALSE)
           v == [a EXCEPT !.fits = a.fits /\ (d * h) % n = 0]
           z == [b EXCEPT !.fits = b.fits /\ (d * h) % 1 = 0]
<1>1. /\ h \in Positive /\ n \in Positive /\ h % n = 0
      /\ h \div n \in Positive /\ n * (h \div n) = h /\ h \div 1 = h
  BY HeadShare DEF Heads, Positive
<1>2. (d * h) \div h = d /\ (d * h) % n = 0
  BY <1>1, Shared
<1>3. Unsharded(c).model = c.model
  BY UnshardedFields
<1>4. /\ v = BatchedRowParallelLinear(c, t, n, d * h, r)
      /\ z = BatchedRowParallelLinear(Unsharded(c), u, 1, d * h, r)
  BY <1>1, <1>2, <1>3 DEF BatchedRowParallelLinear
<1>5. Pair(c, a, b) /\ Tensors(a.out, b.out, m, r, r)
  <2> DEFINE g == h \div n
  <2> HIDE DEF h, g
  <2> QED BY <1>1, BatchedPair DEF g
<1> HIDE DEF a, b
<1>6. (a.fits /\ (d * h) % n = 0) = TRUE
  <2>1. a.fits = TRUE
    BY <1>5 DEF Pair, Fits
  <2> QED BY <1>2, <2>1
<1>7. DOMAIN a = CallFields /\ DOMAIN b = CallFields
  BY <1>5 DEF Pair
<1>8. Renamed(v, a) /\ Renamed(z, b) /\ Fits(v)
  BY <1>6, <1>7 DEF CallFields, Renamed, Fits
<1> HIDE DEF v, z
<1>9. Pair(c, v, z) /\ v.out = a.out /\ z.out = b.out
  BY <1>5, <1>8, PairKept
<1> QED BY <1>4, <1>5, <1>9
\* x is a, on other processors.
Moved(x, a, processors) ==
  /\ DOMAIN x = CallFields /\ x.processors = processors
  /\ \A f \in CallFields \ {"fits", "path", "processors"} : x[f] = a[f]

LEMMA PairMoved ==
  ASSUME NEW c, NEW a, NEW b, Pair(c, a, b), NEW processors \in Seq(Processor), processors # << >>,
         NEW x, NEW y, Moved(x, a, processors), Moved(y, b, processors), Fits(x)
  PROVE  Pair(c, x, y) /\ x.out = a.out /\ y.out = b.out
<1>1. /\ DOMAIN x = CallFields /\ DOMAIN y = CallFields
      /\ x.layer = a.layer /\ y.layer = b.layer /\ x.info = a.info /\ y.info = b.info
      /\ x.processors = processors /\ y.processors = processors
      /\ x.in = a.in /\ y.in = b.in /\ x.w = a.w /\ y.w = b.w /\ x.out = a.out /\ y.out = b.out
  BY DEF CallFields, Moved
<1>2. Described(c, x, y)
  BY <1>1 DEF Pair, Described
<1>3. Computes(c, x, y)
  <2>1. \A share : /\ Projection(a, b, share) => Projection(x, y, share)
                   /\ HeadProjection(a, b, share) => HeadProjection(x, y, share)
                   /\ Activates(a, b, share) => Activates(x, y, share)
    BY <1>1 DEF Projection, HeadProjection, Activates
  <2>2. Attends(c, a, b) => Attends(c, x, y)
    BY <1>1 DEF Attends
  <2> QED BY <1>1, <2>1, <2>2 DEF Pair, Computes
<1> QED BY <1>1, <1>2, <1>3 DEF Pair

\* The heads side by side, projected together.
LEMMA PlainRowPair ==
  ASSUME NEW c, SystemType(c), NEW t, NEW u, NEW m, NEW d \in Positive, NEW r \in Positive,
         Tensors(t, u, m, d, d)
  PROVE  LET k == c.model.num_heads * d
             a == PlainRowParallelLinear(c, t, c.ne_tp_dg, k, r)
             b == PlainRowParallelLinear(Unsharded(c), u, 1, k, r)
         IN Pair(c, a, b) /\ Tensors(a.out, b.out, m, r, r)
<1> DEFINE s == Unsharded(c)
           n == c.ne_tp_dg
           h == c.model.num_heads
           g == h \div n
           T == [t EXCEPT !.shape = << t.shape[1], t.shape[2] * g >>]
           U == [u EXCEPT !.shape = << u.shape[1], u.shape[2] * h >>]
           a == Linear(c, T, g * d, r)
           b == Linear(s, U, h * d, r)
           x == [a EXCEPT !.processors = HeadProcessors(c, t)]
           y == [b EXCEPT !.processors = HeadProcessors(s, u)]
           v == [x EXCEPT !.fits = x.fits /\ (h * d) % n = 0]
           z == [y EXCEPT !.fits = y.fits /\ (h * d) % 1 = 0]
<1>1. /\ h \in Positive /\ n \in Positive /\ h % n = 0
      /\ g \in Positive /\ n * g = h /\ h \div 1 = h
  BY HeadShare DEF Heads, Positive
<1>2. /\ (h * d) % n = 0 /\ (h * d) \div n = g * d /\ (h * d) \div 1 = h * d
      /\ h * d \in Positive /\ g * d \in Positive
  BY <1>1, Shared
<1>3. s.model = c.model
  BY UnshardedFields
<1>4. /\ v = PlainRowParallelLinear(c, t, n, h * d, r)
      /\ z = PlainRowParallelLinear(s, u, 1, h * d, r)
  BY <1>1, <1>2, <1>3 DEF PlainRowParallelLinear, PlainLinear
<1>5. /\ Alike(t, u) /\ t.shape = << m, d >> /\ u.shape = << m, d >> /\ m \in Nat
      /\ DOMAIN t = TensorFields /\ DOMAIN u = TensorFields
  BY DEF Tensors, Alike
<1>6. d * g = g * d /\ d * h = h * d
  BY <1>1 DEF Positive
<1>7. Tensors(T, U, m, g * d, h * d)
  <2> HIDE DEF g, h
  <2>1. T.shape = << m, g * d >> /\ U.shape = << m, h * d >>
    BY <1>5, <1>6 DEF TensorFields
  <2>2. Alike(T, U)
    BY <1>5 DEF Alike, TensorFields
  <2> HIDE DEF T, U
  <2> QED BY <1>2, <1>5, <2>1, <2>2 DEF Tensors
<1>8. ShareOf(c, n, g * d, r, h * d, r)
  <2> HIDE DEF g, h
  <2>1. n * ((g * d) * r) = ((n * g) * d) * r
    BY <1>1, Product4 DEF Positive
  <2> QED BY <1>1, <1>2, <2>1 DEF ShareOf
<1> HIDE DEF T, U, g, s
<1>9. Pair(c, a, b) /\ Tensors(a.out, b.out, m, r, r)
  <2>1. Pair(c, Linear(c, T, g * d, r), Linear(Unsharded(c), U, h * d, r))
        /\ Tensors(Linear(c, T, g * d, r).out, Linear(Unsharded(c), U, h * d, r).out, m, r, r)
    <3> DEFINE k == g * d
               l == h * d
    <3>1. Tensors(T, U, m, k, l) /\ ShareOf(c, n, k, r, l, r)
      BY <1>7, <1>8
    <3> HIDE DEF k, l
    <3>2. Pair(c, Linear(c, T, k, r), Linear(Unsharded(c), U, l, r))
          /\ Tensors(Linear(c, T, k, r).out, Linear(Unsharded(c), U, l, r).out, m, r, r)
      BY <3>1, LinearPair
    <3> QED BY <3>2 DEF k, l
  <2> QED BY <2>1 DEF s
<1> HIDE DEF a, b
<1>10. /\ HeadProcessors(s, u) = HeadProcessors(c, t)
       /\ HeadProcessors(c, t) \in Seq(Processor) /\ HeadProcessors(c, t) # << >>
  BY <1>5, ProcessorsAre DEF s
<1>11. DOMAIN a = CallFields /\ DOMAIN b = CallFields /\ a.fits = TRUE
  BY <1>9 DEF Pair, Fits
<1>12. (x.fits /\ (h * d) % n = 0) = TRUE
  <2>1. x.fits = TRUE
    BY <1>11 DEF CallFields
  <2> HIDE DEF x
  <2> QED BY <1>2, <2>1
<1>13. /\ Moved(v, a, HeadProcessors(c, t)) /\ Moved(z, b, HeadProcessors(c, t)) /\ Fits(v)
  BY <1>10, <1>11, <1>12 DEF CallFields, Moved, Fits
<1> HIDE DEF v, z, x, y
<1>14. Pair(c, v, z) /\ v.out = a.out /\ z.out = b.out
  BY <1>9, <1>10, <1>13, PairMoved
<1> QED BY <1>4, <1>9, <1>14 DEF s

\* Tensors of which a row is a share of n.
LEMMA ActivationPair ==
  ASSUME NEW c, SystemType(c), NEW t, NEW u, NEW m, NEW k \in Positive, NEW l \in Positive,
         NEW share \in {1, c.ne_tp_dg, c.e_tp_dg}, share * k = l,
         Tensors(t, u, m, k * c.model.activation_factor, l * c.model.activation_factor)
  PROVE  LET a == Activation(c, t)
             b == Activation(Unsharded(c), u)
         IN Pair(c, a, b) /\ Tensors(a.out, b.out, m, k, l)
<1> DEFINE a == Activation(c, t)
           b == Activation(Unsharded(c), u)
           f == c.model.activation_factor
<1>1. f \in Positive /\ Unsharded(c).model = c.model
  BY UnshardedFields DEF SystemType, Model
<1>2. /\ m \in Nat /\ Alike(t, u) /\ DOMAIN t = TensorFields /\ DOMAIN u = TensorFields
      /\ t.lane = u.lane /\ t.optimal = u.optimal
      /\ t.shape = << m, k * f >> /\ u.shape = << m, l * f >>
  BY DEF Tensors, Alike
<1> HIDE DEF f
<1>3. (k * f) \div f = k /\ (l * f) \div f = l /\ (k * f) % f = 0
  <2>1. k * f = f * k /\ l * f = f * l /\ k \in Nat /\ l \in Nat
    BY <1>1 DEF Positive
  <2> QED BY <1>1, <2>1, ExactIs
<1>4. DOMAIN a = CallFields /\ DOMAIN b = CallFields /\ a.layer = "ACTIVATION"
      /\ b.layer = "ACTIVATION" /\ a.in = t /\ b.in = u
  BY DEF Activation, Execute, Plain, CallFields
<1>5. /\ a.info = LayerInfo(c) /\ b.info = LayerInfo(Unsharded(c))
      /\ a.processors = SubbatchProcessors(c, t)
      /\ b.processors = SubbatchProcessors(Unsharded(c), u)
  BY DEF Activation, Execute, Plain
<1>6. a.fits = TRUE
  <2>1. (t.shape[2] % c.model.activation_factor = 0) = TRUE
    <3>1. t.shape[2] = k * f
      BY <1>2
    <3> QED BY <1>3, <3>1 DEF f
  <2> QED BY <2>1 DEF Activation, Execute, Plain
<1>7. /\ a.out = [t EXCEPT !.shape = << t.shape[1], t.shape[2] \div f >>]
      /\ b.out = [u EXCEPT !.shape = << u.shape[1], u.shape[2] \div f >>]
  BY <1>1 DEF Activation, Execute, Plain, f
<1> HIDE DEF a, b
<1>8. Alike(a.out, b.out) /\ a.out.shape = << m, k >> /\ b.out.shape = << m, l >>
  BY <1>2, <1>3, <1>7 DEF Alike, TensorFields
<1>9. Activates(a, b, share)
  BY <1>1, <1>2, <1>4, <1>8 DEF Activates
<1>10. Computes(c, a, b)
  BY <1>4, <1>9 DEF Computes
<1>11. Described(c, a, b)
  BY <1>5, PlainDescribed
<1>12. Pair(c, a, b)
  BY <1>2, <1>4, <1>5, <1>6, <1>10, <1>11, ProcessorsAre DEF Pair, Fits
<1>13. Tensors(a.out, b.out, m, k, l)
  BY <1>2, <1>8 DEF Tensors
<1> QED BY <1>12, <1>13 DEF a, b
(* Calls that execute nothing.                                             *)

Idle(c, a) ==
  /\ DOMAIN a = CallFields /\ a.layer = "none" /\ a.processors = << >>
  /\ a.info = LayerInfo(c) /\ Fits(a)

LEMMA IdlePair ==
  ASSUME NEW c, SystemType(c), NEW a, NEW b, Idle(c, a), Idle(Unsharded(c), b)
  PROVE  Pair(c, a, b)
<1>1. << >> \in Seq(Processor)
  OBVIOUS
<1>2. Described(c, a, b)
  BY PlainDescribed DEF Idle
<1> QED BY <1>1, <1>2 DEF Idle, Pair, Computes

LEMMA PlainIdle ==
  ASSUME NEW c, NEW t, NEW out
  PROVE  Idle(c, Plain(c, t, out)) /\ Plain(c, t, out).out = out
BY DEF Plain, Idle, CallFields, Fits

LEMMA ChargeIdle ==
  ASSUME NEW c, NEW t, NEW flops, NEW elements
  PROVE  Idle(c, Charge(c, t, flops, elements)) /\ Charge(c, t, flops, elements).out = t
<1> DEFINE a == Plain(c, t, t)
           x == Charge(c, t, flops, elements)
<1>1. Idle(c, a) /\ a.out = t
  BY PlainIdle
<1>2. x = a \/ x = [a EXCEPT !.flops = flops, !.bytes = elements * c.model.precision_byte]
  BY DEF Charge
<1> HIDE DEF a, x
<1>3. Idle(c, x) /\ x.out = t
  BY <1>1, <1>2 DEF Idle, CallFields, Fits
<1> QED BY <1>3 DEF x

LEMMA ChargedIdle ==
  ASSUME NEW c, NEW t, NEW batch, NEW heads
  PROVE  /\ Idle(c, Residual(c, t)) /\ Idle(c, RoPE(c, t, batch))
         /\ Idle(c, BatchedRoPE(c, t, heads, batch))
BY ChargeIdle DEF Residual, RoPE, BatchedRoPE

LEMMA NormIdle ==
  ASSUME NEW c, NEW t, NEW d, t.shape[2] = d
  PROVE  Idle(c, LayerNorm(c, t, d)) /\ LayerNorm(c, t, d).out = t
<1> DEFINE a == Charge(c, t, 4 * Size(t.shape), 2 * Size(t.shape) + t.shape[2])
           x == LayerNorm(c, t, d)
<1>1. Idle(c, a) /\ a.out = t
  BY ChargeIdle
<1>2. (t.shape[2] = d) = TRUE
  OBVIOUS
<1>3. x = [a EXCEPT !.fits = (t.shape[2] = d)]
  BY DEF LayerNorm
<1>4. x = [a EXCEPT !.fits = TRUE]
  BY <1>2, <1>3
<1> HIDE DEF a, x
<1>5. Idle(c, x) /\ x.out = t
  BY <1>1, <1>4 DEF Idle, CallFields, Fits
<1> QED BY <1>5 DEF x

LEMMA WaitIdle ==
  ASSUME NEW c, NEW t, NEW n
  PROVE  /\ Idle(c, AllReduce(c, t, n)) /\ Idle(c, Sync(c, t))
         /\ AllReduce(c, t, n).out = t /\ Sync(c, t).out = t
<1> DEFINE a == Plain(c, t, t)
<1>1. Idle(c, a) /\ a.out = t
  BY PlainIdle
<1>2. ASSUME NEW k PROVE Idle(c, [a EXCEPT !.waits = k]) /\ [a EXCEPT !.waits = k].out = t
  <2> HIDE DEF a
  <2> QED BY <1>1 DEF Idle, CallFields, Fits
<1> QED BY <1>2 DEF AllReduce, Sync

---------------------------------------------------------------------------
(* Two sequences of calls that go together.                                *)

Matched(c, as, bs) ==
  /\ \E S : as \in Seq(S) /\ bs \in Seq(S)
  /\ Len(as) = Len(bs) /\ \A k \in 1 .. Len(as) : Pair(c, as[k], bs[k])

LEMMA MatchedOne ==
  ASSUME NEW c, NEW a, NEW b, Pair(c, a, b)
  PROVE  Matched(c, << a >>, << b >>)
<1>1. << a >> \in Seq({a, b}) /\ << b >> \in Seq({a, b})
  OBVIOUS
<1>2. Len(<< a >>) = 1 /\ Len(<< b >>) = 1 /\ \A k \in 1 .. 1 : k = 1
  OBVIOUS
<1>3. << a >>[1] = a /\ << b >>[1] = b
  OBVIOUS
<1>4. \A k \in 1 .. 1 : Pair(c, << a >>[k], << b >>[k])
  BY <1>2, <1>3
<1> QED BY <1>1, <1>2, <1>4 DEF Matched

LEMMA MatchedTwo ==
  ASSUME NEW c, NEW a1, NEW b1, Pair(c, a1, b1), NEW a2, NEW b2, Pair(c, a2, b2)
  PROVE  Matched(c, << a1, a2 >>, << b1, b2 >>)
<1> DEFINE S == {a1, a2, b1, b2}
<1>1. << a1, a2 >> \in Seq(S) /\ << b1, b2 >> \in Seq(S)
  OBVIOUS
<1>2. /\ Len(<< a1, a2 >>) = 2 /\ Len(<< b1, b2 >>) = 2
      /\ \A k \in 1 .. 2 : k = 1 \/ k = 2
  OBVIOUS
<1> HIDE DEF S
<1> QED BY <1>1, <1>2 DEF Matched

LEMMA MatchedThree ==
  ASSUME NEW c, NEW a1, NEW b1, Pair(c, a1, b1), NEW a2, NEW b2, Pair(c, a2, b2),
         NEW a3, NEW b3, Pair(c, a3, b3)
  PROVE  Matched(c, << a1, a2, a3 >>, << b1, b2, b3 >>)
<1> DEFINE S == {a1, a2, a3, b1, b2, b3}
<1>1. << a1, a2, a3 >> \in Seq(S) /\ << b1, b2, b3 >> \in Seq(S)
  OBVIOUS
<1>2. /\ Len(<< a1, a2, a3 >>) = 3 /\ Len(<< b1, b2, b3 >>) = 3
      /\ \A k \in 1 .. 3 : k = 1 \/ k = 2 \/ k = 3
  OBVIOUS
<1> HIDE DEF S
<1> QED BY <1>1, <1>2 DEF Matched

LEMMA MatchedFour ==
  ASSUME NEW c, NEW a1, NEW b1, Pair(c, a1, b1), NEW a2, NEW b2, Pair(c, a2, b2),
         NEW a3, NEW b3, Pair(c, a3, b3), NEW a4, NEW b4, Pair(c, a4, b4)
  PROVE  Matched(c, << a1, a2, a3, a4 >>, << b1, b2, b3, b4 >>)
<1> DEFINE S == {a1, a2, a3, a4, b1, b2, b3, b4}
<1>1. << a1, a2, a3, a4 >> \in Seq(S) /\ << b1, b2, b3, b4 >> \in Seq(S)
  OBVIOUS
<1>2. /\ Len(<< a1, a2, a3, a4 >>) = 4 /\ Len(<< b1, b2, b3, b4 >>) = 4
      /\ \A k \in 1 .. 4 : k = 1 \/ k = 2 \/ k = 3 \/ k = 4
  OBVIOUS
<1> HIDE DEF S
<1> QED BY <1>1, <1>2 DEF Matched

LEMMA MatchedSix ==
  ASSUME NEW c, NEW a1, NEW b1, Pair(c, a1, b1), NEW a2, NEW b2, Pair(c, a2, b2),
         NEW a3, NEW b3, Pair(c, a3, b3), NEW a4, NEW b4, Pair(c, a4, b4),
         NEW a5, NEW b5, Pair(c, a5, b5), NEW a6, NEW b6, Pair(c, a6, b6)
  PROVE  Matched(c, << a1, a2, a3, a4, a5, a6 >>, << b1, b2, b3, b4, b5, b6 >>)
<1> DEFINE S == {a1, a2, a3, a4, a5, a6, b1, b2, b3, b4, b5, b6}
<1>1. << a1, a2, a3, a4, a5, a6 >> \in Seq(S) /\ << b1, b2, b3, b4, b5, b6 >> \in Seq(S)
  OBVIOUS
<1>2. /\ Len(<< a1, a2, a3, a4, a5, a6 >>) = 6 /\ Len(<< b1, b2, b3, b4, b5, b6 >>) = 6
      /\ \A k \in 1 .. 6 : k = 1 \/ k = 2 \/ k = 3 \/ k = 4 \/ k = 5 \/ k = 6
  OBVIOUS
<1> HIDE DEF S
<1> QED BY <1>1, <1>2 DEF Matched

LEMMA MatchedJoin ==
  ASSUME NEW c, NEW as, NEW bs, Matched(c, as, bs), NEW cs, NEW ds, Matched(c, cs, ds)
  PROVE  Matched(c, as \o cs, bs \o ds)
<1>1. PICK S : as \in Seq(S) /\ bs \in Seq(S)
  BY DEF Matched
<1>2. PICK T : cs \in Seq(T) /\ ds \in Seq(T)
  BY DEF Matched
<1> DEFINE V == S \cup T
<1>3. as \in Seq(V) /\ bs \in Seq(V) /\ cs \in Seq(V) /\ ds \in Seq(V)
  BY <1>1, <1>2, SeqMonotonic
<1> HIDE DEF V
<1> DEFINE x == as \o cs
           y == bs \o ds
<1>4. /\ Len(as) \in Nat /\ Len(cs) \in Nat /\ Len(as) = Len(bs) /\ Len(cs) = Len(ds)
      /\ \A k \in 1 .. Len(as) : Pair(c, as[k], bs[k])
      /\ \A k \in 1 .. Len(cs) : Pair(c, cs[k], ds[k])
  BY <1>3, LenProperties DEF Matched
<1>5. /\ x \in Seq(V) /\ Len(x) = Len(as) + Len(cs)
      /\ \A k \in 1 .. Len(as) + Len(cs) :
           x[k] = IF k <= Len(as) THEN as[k] ELSE cs[k - Len(as)]
  BY <1>3, ConcatProperties
<1>6. /\ y \in Seq(V) /\ Len(y) = Len(bs) + Len(ds)
      /\ \A k \in 1 .. Len(bs) + Len(ds) :
           y[k] = IF k <= Len(bs) THEN bs[k] ELSE ds[k - Len(bs)]
  BY <1>3, ConcatProperties
<1> HIDE DEF x, y
<1>7. ASSUME NEW k \in 1 .. Len(x) PROVE Pair(c, x[k], y[k])
  <2>1. k <= Len(as) => k \in 1 .. Len(as)
    BY <1>4, <1>5
  <2>2. ~(k <= Len(as)) => k - Len(as) \in 1 .. Len(cs)
    BY <1>4, <1>5
  <2> QED BY <1>4, <1>5, <1>6, <2>1, <2>2
<1>8. Matched(c, x, y)
  BY <1>4, <1>5, <1>6, <1>7 DEF Matched
<1> QED BY <1>8 DEF x, y

\* The calls of a module, and of the modules in it.
LEMMA MatchedIn ==
  ASSUME NEW c, NEW as, NEW bs, Matched(c, as, bs), NEW name
  PROVE  /\ Matched(c, InModule(name, as), InModule(name, bs))
         /\ DOMAIN InModule(name, as) = DOMAIN as
<1> DEFINE x == InModule(name, as)
           y == InModule(name, bs)
<1>1. PICK S : as \in Seq(S) /\ bs \in Seq(S)
  BY DEF Matched
<1> DEFINE n == Len(as)
<1>2. /\ n \in Nat /\ Len(bs) = n /\ DOMAIN as = 1 .. n /\ DOMAIN bs = 1 .. n
      /\ \A k \in 1 .. n : Pair(c, as[k], bs[k])
  BY <1>1, LenProperties DEF Matched
<1>3. /\ DOMAIN x = 1 .. n /\ DOMAIN y = 1 .. n
      /\ \A k \in 1 .. n : x[k] = As(name, as[k]) /\ y[k] = As(name, bs[k])
  <2> HIDE DEF n
  <2> QED BY <1>2 DEF InModule
<1> DEFINE V == { x[k] : k \in 1 .. n } \cup { y[k] : k \in 1 .. n }
<1>4. x \in [1 .. n -> V] /\ y \in [1 .. n -> V]
  <2>1. x = [k \in 1 .. n |-> x[k]] /\ y = [k \in 1 .. n |-> y[k]]
    <3> HIDE DEF n
    <3> QED BY <1>2 DEF InModule
  <2> HIDE DEF x, y, n
  <2> QED BY <2>1
<1> HIDE DEF x, y, n, V
<1>5. x \in Seq(V) /\ y \in Seq(V) /\ Len(x) = n /\ Len(y) = n
  BY <1>2, <1>4, SequenceOfFunction
<1>6. ASSUME NEW k \in 1 .. n PROVE Pair(c, x[k], y[k])
  <2>1. Pair(c, as[k], bs[k])
    BY <1>2
  <2>2. Pair(c, As(name, as[k]), As(name, bs[k]))
    BY <2>1, PairAs
  <2> QED BY <1>3, <2>2
<1>7. Matched(c, x, y)
  BY <1>5, <1>6 DEF Matched
<1> QED BY <1>2, <1>3, <1>7 DEF x, y

---------------------------------------------------------------------------
(* The requests that are chosen from a batch, and the sizes of tensors.    *)

\* The elements in S, one after the other.
Keeps(h, R, seq, S) ==
  /\ h \in [0 .. Len(seq) -> Seq(R)] /\ h[0] = << >>
  /\ \A j \in 1 .. Len(seq) : h[j] = IF seq[j] \in S THEN Append(h[j - 1], seq[j]) ELSE h[j - 1]

LEMMA AmongIs ==
  ASSUME NEW R, NEW seq \in Seq(R), NEW S
  PROVE  \E h : Keeps(h, R, seq, S) /\ Among(seq, S) = h[Len(seq)]
<1> DEFINE n == Len(seq)
           V == Seq(R)
           op(v, j) == IF seq[j] \in S THEN Append(v, seq[j]) ELSE v
           F == [z \in V \X (1 .. n) |-> op(z[1], z[2])]
           Fold(h) == h = [T \in SUBSET (1 .. n) |->
                             IF T = {} THEN << >> ELSE op(h[T \ {Max(T)}], Max(T))]
           it == CHOOSE h : Fold(h)
           h == [j \in 0 .. n |-> it[1 .. j]]
<1>1. n \in Nat /\ DOMAIN seq = 1 .. n /\ \A j \in 1 .. n : seq[j] \in R
  BY SeqDomain
<1>2. IsFiniteSet(1 .. n) /\ 1 .. n \subseteq Int
  BY <1>1, FS_Interval
<1>3. Among(seq, S) = it[1 .. n]
  BY <1>1 DEF Among, FoldLeft, MapThenFoldSet
<1>4. << >> \in V /\ \A v \in V : \A j \in 1 .. n : op(v, j) \in V
  BY <1>1
<1>5. F \in [V \X (1 .. n) -> V] /\ \A v \in V : \A k \in 1 .. n : F[<< v, k >>] = op(v, k)
  <2> HIDE DEF V, op
  <2> QED BY <1>4
<1> HIDE DEF F, op, V, n
<1>6. PICK g : FoldTable(g, F, << >>, 1 .. n)
  BY <1>2, FoldExists
<1>7. \A T \in SUBSET (1 .. n) : g[T] \in V
  BY <1>2, <1>4, <1>5, <1>6, FoldClosed
<1>8. \A T \in SUBSET (1 .. n) : T # {} => Max(T) \in T
  BY <1>2, MaxMember
<1>9. Fold(g)
  <2>1. ASSUME NEW T \in SUBSET (1 .. n)
        PROVE  g[T] = IF T = {} THEN << >> ELSE op(g[T \ {Max(T)}], Max(T))
    <3>1. CASE T = {}
      BY <1>6, <3>1 DEF FoldTable
    <3>2. CASE T # {}
      <4>1. Max(T) \in 1 .. n /\ g[T \ {Max(T)}] \in V
        BY <1>7, <1>8, <3>2
      <4>2. g[T] = F[<< g[T \ {Max(T)}], Max(T) >>]
        BY <1>6, <3>2 DEF FoldTable
      <4> QED BY <1>5, <3>2, <4>1, <4>2
    <3> QED BY <3>1, <3>2
  <2>2. g = [T \in SUBSET (1 .. n) |-> g[T]]
    BY <1>6 DEF FoldTable
  <2> QED BY <2>1, <2>2
<1>10. Fold(it)
  <2> HIDE DEF Fold
  <2> QED BY <1>9
<1> HIDE DEF it
<1>11. h[0] = << >>
  <2>1. 1 .. 0 = {} /\ {} \in SUBSET (1 .. n) /\ 0 \in 0 .. n
    BY <1>1
  <2> QED BY <1>10, <2>1
<1>12. ASSUME NEW j \in 1 .. n PROVE h[j] = op(h[j - 1], j)
  <2>1. /\ j \in Nat \ {0} /\ j \in 0 .. n /\ j - 1 \in 0 .. n
        /\ 1 .. j \in SUBSET (1 .. n)
    BY <1>1
  <2>2. Max(1 .. j) = j /\ (1 .. j) \ {j} = 1 .. j - 1 /\ 1 .. j # {}
    BY <2>1, MaxPrefix
  <2>3. it[1 .. j] = op(it[(1 .. j) \ {Max(1 .. j)}], Max(1 .. j))
    BY <1>10, <2>1, <2>2
  <2> QED BY <2>1, <2>2, <2>3
<1>13. \A j \in 0 .. n : h[j] \in V
  <2> DEFINE Good == { j \in 0 .. n : h[j] \in V }
  <2> HIDE DEF h
  <2>1. 0 \in Good
    BY <1>1, <1>4, <1>11
  <2>2. ASSUME NEW j \in 0 .. n - 1, j \in Good PROVE j + 1 \in Good
    <3>1. j + 1 \in 1 .. n /\ (j + 1) - 1 = j /\ j + 1 \in 0 .. n /\ h[j] \in V
      BY <1>1, <2>2
    <3>2. h[j + 1] = op(h[(j + 1) - 1], j + 1)
      BY <1>12, <3>1
    <3> QED BY <1>4, <3>1, <3>2
  <2> HIDE DEF Good
  <2>3. \A j \in 0 .. n : j \in Good
    BY <1>1, <2>1, <2>2, BoundedInduction
  <2> QED BY <2>3 DEF Good
<1>14. h \in [0 .. n -> V]
  <2>1. h = [j \in 0 .. n |-> h[j]]
    OBVIOUS
  <2> HIDE DEF h
  <2> QED BY <1>13, <2>1
<1>15. h[n] = it[1 .. n]
  BY <1>1
<1> HIDE DEF h
<1>16. Keeps(h, R, seq, S)
  BY <1>11, <1>12, <1>14 DEF Keeps, op, n, V
<1> QED BY <1>3, <1>15, <1>16 DEF n

\* The elements are those of the sequence that are in S.
LEMMA AmongType ==
  ASSUME NEW R, NEW seq \in Seq(R), NEW S
  PROVE  Among(seq, S) \in Seq(R \cap S) /\ Among(seq, S) \in Seq(R)
<1>1. PICK h : Keeps(h, R, seq, S) /\ Among(seq, S) = h[Len(seq)]
  BY AmongIs
<1> DEFINE n == Len(seq)
           V == Seq(R \cap S)
           Good == { j \in 0 .. n : h[j] \in V }
<1>2. n \in Nat /\ \A j \in 1 .. n : seq[j] \in R
  BY SeqDomain
<1>3. << >> \in V /\ \A v \in V : \A e \in R \cap S : Append(v, e) \in V
  OBVIOUS
<1> HIDE DEF V, n
<1>4. 0 \in Good
  BY <1>1, <1>2, <1>3 DEF Keeps
<1>5. ASSUME NEW j \in 0 .. n - 1, j \in Good PROVE j + 1 \in Good
  <2>1. j + 1 \in 1 .. n /\ (j + 1) - 1 = j /\ j + 1 \in 0 .. n /\ h[j] \in V
    BY <1>2, <1>5
  <2>2. h[j + 1] = IF seq[j + 1] \in S THEN Append(h[j], seq[j + 1]) ELSE h[j]
    BY <1>1, <2>1 DEF Keeps, n
  <2>3. seq[j + 1] \in R
    BY <1>2, <2>1
  <2> QED BY <1>3, <2>1, <2>2, <2>3
<1> HIDE DEF Good
<1>6. \A j \in 0 .. n : j \in Good
  BY <1>2, <1>4, <1>5, BoundedInduction
<1>7. h[n] \in V
  BY <1>2, <1>6 DEF Good
<1>8. R \cap S \subseteq R
  OBVIOUS
<1> QED BY <1>1, <1>7, <1>8, SeqMonotonic DEF V, n

\* The dimensions are multiplied one after the other.
Multiplies(h, shape) ==
  /\ h[0] = 1 /\ \A j \in 1 .. Len(shape) : h[j] = h[j - 1] * shape[j]

LEMMA SizeIs ==
  ASSUME NEW shape \in Seq(Nat)
  PROVE  \E h : Multiplies(h, shape) /\ Size(shape) = h[Len(shape)]
<1> DEFINE n == Len(shape)
           op(v, j) == v * shape[j]
           F == [z \in Nat \X (1 .. n) |-> op(z[1], z[2])]
           Fold(h) == h = [T \in SUBSET (1 .. n) |->
                             IF T = {} THEN 1 ELSE op(h[T \ {Max(T)}], Max(T))]
           it == CHOOSE h : Fold(h)
           h == [j \in 0 .. n |-> it[1 .. j]]
<1>1. n \in Nat /\ DOMAIN shape = 1 .. n /\ \A j \in 1 .. n : shape[j] \in Nat
  BY SeqDomain
<1>2. IsFiniteSet(1 .. n) /\ 1 .. n \subseteq Int /\ 1 \in Nat
  BY <1>1, FS_Interval
<1>3. Size(shape) = it[1 .. n]
  BY <1>1 DEF Size, FoldLeft, MapThenFoldSet
<1>4. \A v \in Nat : \A j \in 1 .. n : op(v, j) \in Nat
  BY <1>1, ProductType
<1>5. F \in [Nat \X (1 .. n) -> Nat] /\ \A v \in Nat : \A k \in 1 .. n : F[<< v, k >>] = op(v, k)
  <2> HIDE DEF op
  <2> QED BY <1>4
<1> HIDE DEF F, op, n
<1>6. PICK g : FoldTable(g, F, 1, 1 .. n)
  BY <1>2, FoldExists
<1>7. \A T \in SUBSET (1 .. n) : g[T] \in Nat
  BY <1>2, <1>5, <1>6, FoldClosed
<1>8. \A T \in SUBSET (1 .. n) : T # {} => Max(T) \in T
  BY <1>2, MaxMember
<1>9. Fold(g)
  <2>1. ASSUME NEW T \in SUBSET (1 .. n)
        PROVE  g[T] = IF T = {} THEN 1 ELSE op(g[T \ {Max(T)}], Max(T))
    <3>1. CASE T = {}
      BY <1>6, <3>1 DEF FoldTable
    <3>2. CASE T # {}
      <4>1. Max(T) \in 1 .. n /\ g[T \ {Max(T)}] \in Nat
        BY <1>7, <1>8, <3>2
      <4>2. g[T] = F[<< g[T \ {Max(T)}], Max(T) >>]
        BY <1>6, <3>2 DEF FoldTable
      <4> QED BY <1>5, <3>2, <4>1, <4>2
    <3> QED BY <3>1, <3>2
  <2>2. g = [T \in SUBSET (1 .. n) |-> g[T]]
    BY <1>6 DEF FoldTable
  <2> QED BY <2>1, <2>2
<1>10. Fold(it)
  <2> HIDE DEF Fold
  <2> QED BY <1>9
<1> HIDE DEF it
<1>11. h[0] = 1
  <2>1. 1 .. 0 = {} /\ {} \in SUBSET (1 .. n) /\ 0 \in 0 .. n
    BY <1>1
  <2> QED BY <1>10, <2>1
<1>12. ASSUME NEW j \in 1 .. n PROVE h[j] = op(h[j - 1], j)
  <2>1. /\ j \in Nat \ {0} /\ j \in 0 .. n /\ j - 1 \in 0 .. n
        /\ 1 .. j \in SUBSET (1 .. n)
    BY <1>1
  <2>2. Max(1 .. j) = j /\ (1 .. j) \ {j} = 1 .. j - 1 /\ 1 .. j # {}
    BY <2>1, MaxPrefix
  <2>3. it[1 .. j] = op(it[(1 .. j) \ {Max(1 .. j)}], Max(1 .. j))
    BY <1>10, <2>1, <2>2
  <2> QED BY <2>1, <2>2, <2>3
<1>13. h[n] = it[1 .. n]
  BY <1>1
<1> HIDE DEF h
<1>14. Multiplies(h, shape)
  BY <1>11, <1>12 DEF Multiplies, op, n
<1> QED BY <1>3, <1>13, <1>14 DEF n

\* The size of a matrix.
LEMMA MatrixSize ==
  ASSUME NEW m \in Nat, NEW k \in Nat
  PROVE  Size(<< m, k >>) = m * k
<1> DEFINE s == << m, k >>
<1>1. s \in Seq(Nat) /\ Len(s) = 2 /\ s[1] = m /\ s[2] = k
  OBVIOUS
<1> HIDE DEF s
<1>2. PICK h : Multiplies(h, s) /\ Size(s) = h[2]
  BY <1>1, SizeIs
<1>3. 1 \in 1 .. 2 /\ 2 \in 1 .. 2 /\ 1 - 1 = 0 /\ 2 - 1 = 1
  OBVIOUS
<1>4. h[2] = h[1] * k /\ h[1] = h[0] * m /\ h[0] = 1
  BY <1>1, <1>2, <1>3 DEF Multiplies
<1>5. Size(s) = m * k
  BY <1>2, <1>4
<1> QED BY <1>5 DEF s

\* The size of a matrix for each head.
LEMMA HeadsSize ==
  ASSUME NEW h \in Nat, NEW m \in Nat, NEW k \in Nat
  PROVE  Size(<< h, m, k >>) = (h * m) * k
<1> DEFINE s == << h, m, k >>
<1>1. s \in Seq(Nat) /\ Len(s) = 3 /\ s[1] = h /\ s[2] = m /\ s[3] = k
  OBVIOUS
<1> HIDE DEF s
<1>2. PICK g : Multiplies(g, s) /\ Size(s) = g[3]
  BY <1>1, SizeIs
<1>3. 1 \in 1 .. 3 /\ 2 \in 1 .. 3 /\ 3 \in 1 .. 3 /\ 1 - 1 = 0 /\ 2 - 1 = 1 /\ 3 - 1 = 2
  OBVIOUS
<1>4. g[3] = g[2] * k /\ g[2] = g[1] * m /\ g[1] = g[0] * h /\ g[0] = 1
  BY <1>1, <1>2, <1>3 DEF Multiplies
<1>5. Size(s) = (h * m) * k
  BY <1>2, <1>4
<1> QED BY <1>5 DEF s

\* The requests of a batch, and the tokens to process.
LEMMA BatchType ==
  ASSUME NEW batch \in Seq(RequestType)
  PROVE  /\ get_sum(batch) \in Seq(RequestType) /\ get_gen(batch) \in Seq(RequestType)
         /\ Tokens(batch) \in Nat /\ Tokens(get_sum(batch)) \in Nat
         /\ Tokens(get_gen(batch)) \in Nat
         /\ Started(batch) \in Seq(RequestType)
<1>1. /\ get_sum(batch) \in Seq(RequestType) /\ get_gen(batch) \in Seq(RequestType)
      /\ Started(batch) \in Seq(RequestType)
  BY AmongType DEF get_sum, get_gen, Started
<1>2. ASSUME NEW seqs \in Seq(RequestType) PROVE Tokens(seqs) \in Nat
  <2> DEFINE s == [k \in 1 .. Len(seqs) |-> seqs[k].m]
  <2>1. DOMAIN s = 1 .. Len(seqs) /\ IsFiniteSet(DOMAIN s)
    BY SeqDomain
  <2>2. \A k \in 1 .. Len(seqs) : seqs[k] \in RequestType
    OBVIOUS
  <2>4. \A k \in DOMAIN s : s[k] \in Nat
    BY <2>2 DEF RequestType
  <2>3. Tokens(seqs) = Total(s)
    BY DEF Tokens, OverSequences
  <2> HIDE DEF s
  <2> QED BY <2>1, <2>3, <2>4, TotalType
<1> QED BY <1>1, <1>2

---------------------------------------------------------------------------
(* The calls of attention.                                                 *)

\* A rank's share of the heads, and the options of its kind of attention.
AttendsFor(c, n, a) ==
  /\ DOMAIN a = CallFields /\ Fits(a) /\ a.layer \in AttentionLayers
  /\ DOMAIN a.info = InfoFields
  /\ a.info.H = Heads(c, n) /\ a.info.KVH = KVHeads(c, n)
  /\ a.info.precision = c.model.precision_byte /\ a.info.hd = c.model.head_dim
  /\ a.info.rope = c.model.qk_rope_head_dim /\ a.info.rank = c.model.kv_lora_rank
  /\ a.info.nearbank = c.nearbank /\ a.info.cols \in Nat
  /\ a.layer = "MLA_SUM" => a.info.use_flash_attention = c.use_flash_attention
  /\ a.layer # "MLA_SUM" => a.info.use_flash_attention = FALSE
  /\ a.layer \in {"MLA_GEN", "ABSORBED_MLA_GEN"} => a.info.use_flash_mla = c.use_flash_mla
  /\ a.layer \notin {"MLA_GEN", "ABSORBED_MLA_GEN"} => a.info.use_flash_mla = FALSE
  /\ a.info.group = IF a.layer = "ATTENTION_GEN" THEN Heads(c, n) \div KVHeads(c, n) ELSE 0

LEMMA KVHeadShare ==
  ASSUME NEW c, SystemType(c)
  PROVE  /\ c.model.num_kv_heads \in Positive /\ c.model.num_kv_heads % c.ne_tp_dg = 0
         /\ KVHeads(c, c.ne_tp_dg) \in Positive
         /\ c.ne_tp_dg * KVHeads(c, c.ne_tp_dg) = c.model.num_kv_heads
         /\ KVHeads(Unsharded(c), 1) = c.model.num_kv_heads
         /\ c.model.num_kv_heads <= c.model.num_heads
<1>1. /\ c.ne_tp_dg \in Positive /\ c.model.num_kv_heads \in Positive
      /\ c.model.num_kv_heads % c.ne_tp_dg = 0 /\ c.model.num_kv_heads <= c.model.num_heads
  BY DEF SystemType, Model, Shardable
<1> DEFINE h == c.model.num_kv_heads
<1>2. h \div c.ne_tp_dg \in Positive /\ c.ne_tp_dg * (h \div c.ne_tp_dg) = h
  BY <1>1, Exact DEF Positive
<1>3. h \div 1 = h /\ Unsharded(c).model = c.model
  BY <1>1, UnshardedFields DEF Positive
<1> QED BY <1>1, <1>2, <1>3 DEF KVHeads

\* The heads that share a head of keys are as many in a rank as in the model.
LEMMA QuotientOfProducts ==
  ASSUME NEW n \in Positive, NEW h \in Positive, NEW k \in Positive
  PROVE  (n * h) \div (n * k) = h \div k /\ (k <= h <=> n * k <= n * h)
<1> DEFINE q == h \div k
           r == h % k
<1>1. q \in Nat /\ r \in Nat /\ r <= k - 1 /\ h = k * q + r
  BY DEF Positive
<1> HIDE DEF q, r
<1>2. n * h = (n * k) * q + n * r /\ n * k \in Nat \ {0} /\ n * r \in Nat
  BY <1>1 DEF Positive
<1>3. n * r <= n * (k - 1) /\ n * (k - 1) = n * k - n
  BY <1>1 DEF Positive
<1>4. n * r < n * k
  BY <1>2, <1>3 DEF Positive
<1> DEFINE b == n * k
           e == n * r
           a == n * h
<1>5. b \in Nat \ {0} /\ e \in Nat /\ e < b /\ a = b * q + e /\ q \in Nat
  BY <1>1, <1>2, <1>4
<1> HIDE DEF a, b, e
<1>6. a \div b = q
  BY <1>5
<1>7. k <= h => n * k <= n * h
  BY DEF Positive
<1>8. n * k <= n * h => k <= h
  <2> SUFFICES ASSUME ~(k <= h) PROVE ~(n * k <= n * h)
    OBVIOUS
  <2>1. h + 1 <= k /\ n * (h + 1) <= n * k /\ n * (h + 1) = n * h + n
    BY DEF Positive
  <2> QED BY <2>1 DEF Positive
<1> QED BY <1>6, <1>7, <1>8 DEF a, b, q

LEMMA GroupShare ==
  ASSUME NEW c, SystemType(c)
  PROVE  /\ Heads(c, c.ne_tp_dg) \div KVHeads(c, c.ne_tp_dg)
              = Heads(Unsharded(c), 1) \div KVHeads(Unsharded(c), 1)
         /\ KVHeads(c, c.ne_tp_dg) <= Heads(c, c.ne_tp_dg)
         /\ c.model.num_heads = c.model.num_kv_heads =>
              KVHeads(c, c.ne_tp_dg) = Heads(c, c.ne_tp_dg)
<1> DEFINE n == c.ne_tp_dg
           h == Heads(c, n)
           k == KVHeads(c, n)
<1>1. /\ n \in Positive /\ h \in Positive /\ k \in Positive
      /\ n * h = c.model.num_heads /\ n * k = c.model.num_kv_heads
      /\ c.model.num_kv_heads <= c.model.num_heads
      /\ Heads(Unsharded(c), 1) = n * h /\ KVHeads(Unsharded(c), 1) = n * k
  BY HeadShare, KVHeadShare
<1>2. c.model.num_heads = c.model.num_kv_heads => k = h
  BY DEF Heads, KVHeads
<1> HIDE DEF n, h, k
<1>3. (n * h) \div (n * k) = h \div k /\ k <= h
  BY <1>1, QuotientOfProducts
<1> QED BY <1>1, <1>2, <1>3 DEF n, h, k

LEMMA AttentionPair ==
  ASSUME NEW c, SystemType(c), NEW a, AttendsFor(c, c.ne_tp_dg, a),
         NEW b, AttendsFor(Unsharded(c), 1, b), a.layer = b.layer,
         a.processors = b.processors, a.processors \in Seq(Processor), a.processors # << >>,
         a.layer \in {"ATTENTION_SUM", "ATTENTION_GEN"} <=> c.model.qk_rope_head_dim = 0
  PROVE  Pair(c, a, b)
<1> DEFINE s == Unsharded(c)
           n == c.ne_tp_dg
<1>1. /\ s.model = c.model /\ s.nearbank = c.nearbank /\ s.use_flash_mla = c.use_flash_mla
      /\ s.use_flash_attention = c.use_flash_attention
  BY UnshardedFields
<1>2. {c.use_flash_attention, c.use_flash_mla} \subseteq BOOLEAN
  BY DEF SystemType
<1> HIDE DEF s
<1>3. Described(c, a, b)
  <2>1. /\ DOMAIN a.info = InfoFields /\ DOMAIN b.info = InfoFields
        /\ a.info.precision = c.model.precision_byte /\ a.info.hd = c.model.head_dim
        /\ a.info.rope = c.model.qk_rope_head_dim /\ a.info.nearbank = c.nearbank
    BY DEF AttendsFor
  <2>2. /\ a.info.precision = b.info.precision /\ a.info.hd = b.info.hd
        /\ a.info.rope = b.info.rope /\ a.info.rank = b.info.rank
        /\ a.info.nearbank = b.info.nearbank
    BY <1>1 DEF AttendsFor, s
  <2>3. /\ a.info.use_flash_attention = b.info.use_flash_attention
        /\ a.info.use_flash_mla = b.info.use_flash_mla
        /\ a.info.use_flash_attention = FALSE \/ a.info.use_flash_attention = c.use_flash_attention
        /\ a.info.use_flash_mla = FALSE \/ a.info.use_flash_mla = c.use_flash_mla
    BY <1>1 DEF AttendsFor, s
  <2>4. /\ {a.info.use_flash_attention, a.info.use_flash_mla} \subseteq BOOLEAN
        /\ a.info.use_flash_attention => c.use_flash_attention
    BY <1>2, <2>3
  <2> QED BY <2>1, <2>2, <2>3, <2>4 DEF Described, SharedFields
<1>4. Attends(c, a, b)
  <2>1. /\ a.info.H = Heads(c, n) /\ a.info.KVH = KVHeads(c, n)
        /\ b.info.H = Heads(s, 1) /\ b.info.KVH = KVHeads(s, 1)
        /\ {a.info.cols, b.info.cols} \subseteq Nat
        /\ a.info.rank = c.model.kv_lora_rank /\ a.info.rope = c.model.qk_rope_head_dim
    BY DEF AttendsFor, s
  <2>2. /\ Heads(c, n) \in Positive /\ KVHeads(c, n) \in Positive
        /\ n * Heads(c, n) = Heads(s, 1) /\ n * KVHeads(c, n) = KVHeads(s, 1)
        /\ KVHeads(c, n) <= Heads(c, n)
    BY HeadShare, KVHeadShare, GroupShare DEF s
  <2>3. /\ a.info.group = b.info.group
        /\ a.layer = "ATTENTION_GEN" => a.info.group = Heads(c, n) \div KVHeads(c, n)
    BY GroupShare DEF AttendsFor, s
  <2>4. c.model.qk_rope_head_dim # 0 =>
          /\ KVHeads(c, n) = Heads(c, n) /\ c.model.kv_lora_rank \in Positive
          /\ c.model.qk_rope_head_dim \in Positive
    BY GroupShare DEF SystemType, Model, Positive
  <2> HIDE DEF n
  <2> QED BY <2>1, <2>2, <2>3, <2>4 DEF Attends, n
<1>5. a.layer \in AttentionLayers /\ a.layer # "none"
  BY DEF AttendsFor, AttentionLayers, DecodeLayers
<1>6. DOMAIN a = CallFields /\ DOMAIN b = CallFields /\ Fits(a)
  BY DEF AttendsFor
<1> QED BY <1>3, <1>4, <1>5, <1>6 DEF Pair, Computes

LEMMA HeadInfoIs ==
  ASSUME NEW c, NEW n
  PROVE  LET i == HeadInfo(c, n)
         IN /\ DOMAIN i = InfoFields /\ i.H = Heads(c, n) /\ i.KVH = KVHeads(c, n)
            /\ i.precision = c.model.precision_byte /\ i.hd = c.model.head_dim
            /\ i.rope = c.model.qk_rope_head_dim /\ i.rank = c.model.kv_lora_rank
            /\ i.nearbank = c.nearbank /\ i.cols = 0 /\ i.group = 0
            /\ i.use_flash_attention = FALSE /\ i.use_flash_mla = FALSE
BY DEF HeadInfo, LayerInfo, InfoFields

\* The calls with the attention of each head's keys.
LEMMA SelfAttentionFor ==
  ASSUME NEW c, NEW n, NEW t, t.shape[2] \in Nat
  PROVE  LET sum == SelfAttentionSum(c, t, n)
             gen == SelfAttentionGen(c, t, n)
         IN /\ AttendsFor(c, n, sum) /\ sum.layer = "ATTENTION_SUM"
            /\ sum.processors = IF t.lane = "none" THEN c.processor_type ELSE << c.high >>
            /\ sum.out = HeadOutput(c, t, n, t.lane)
            /\ AttendsFor(c, n, gen) /\ gen.layer = "ATTENTION_GEN"
            /\ gen.processors = IF t.lane = "none" THEN c.processor_type ELSE << c.low >>
            /\ gen.out = HeadOutput(c, t, n, t.lane)
<1> DEFINE sum == SelfAttentionSum(c, t, n)
           gen == SelfAttentionGen(c, t, n)
           i == HeadInfo(c, n)
<1>1. /\ DOMAIN sum = CallFields /\ sum.fits = TRUE /\ sum.layer = "ATTENTION_SUM"
      /\ sum.processors = IF t.lane = "none" THEN c.processor_type ELSE << c.high >>
      /\ sum.out = HeadOutput(c, t, n, t.lane) /\ sum.info = [i EXCEPT !.cols = t.shape[2]]
  BY DEF SelfAttentionSum, Execute, Plain, CallFields
<1>2. /\ DOMAIN gen = CallFields /\ gen.fits = TRUE /\ gen.layer = "ATTENTION_GEN"
      /\ gen.processors = IF t.lane = "none" THEN c.processor_type ELSE << c.low >>
      /\ gen.out = HeadOutput(c, t, n, t.lane)
      /\ gen.info = [i EXCEPT !.group = Heads(c, n) \div KVHeads(c, n)]
  BY DEF SelfAttentionGen, Execute, Plain, CallFields
<1> HIDE DEF sum, gen, i
<1>3. /\ DOMAIN i = InfoFields /\ i.H = Heads(c, n) /\ i.KVH = KVHeads(c, n)
      /\ i.precision = c.model.precision_byte /\ i.hd = c.model.head_dim
      /\ i.rope = c.model.qk_rope_head_dim /\ i.rank = c.model.kv_lora_rank
      /\ i.nearbank = c.nearbank /\ i.cols = 0 /\ i.group = 0
      /\ i.use_flash_attention = FALSE /\ i.use_flash_mla = FALSE
  BY HeadInfoIs DEF i
<1>4. AttendsFor(c, n, sum)
  BY <1>1, <1>3 DEF AttendsFor, AttentionLayers, DecodeLayers, InfoFields, Fits
<1>5. AttendsFor(c, n, gen)
  BY <1>2, <1>3 DEF AttendsFor, AttentionLayers, DecodeLayers, InfoFields, Fits
<1> QED BY <1>1, <1>2, <1>4, <1>5 DEF sum, gen

\* The calls of latent attention.
LEMMA LatentAttentionFor ==
  ASSUME NEW c, NEW n, NEW t
  PROVE  LET sum == MultiLatentAttentionSum(c, t, n)
             gen == MultiLatentAttentionGen(c, t, n)
         IN /\ AttendsFor(c, n, sum) /\ sum.layer = "MLA_SUM"
            /\ sum.processors = ForcedProcessors(c, t)
            /\ sum.out = InLane(t, HighIfForced(c, t))
            /\ AttendsFor(c, n, gen) /\ gen.layer = "MLA_GEN"
            /\ gen.processors = IF t.lane # "none" THEN << c.low >> ELSE ForcedProcessors(c, t)
            /\ gen.out = HeadOutput(c, t, n, IF t.lane # "none" THEN "low" ELSE HighIfForced(c, t))
<1> DEFINE sum == MultiLatentAttentionSum(c, t, n)
           gen == MultiLatentAttentionGen(c, t, n)
           i == HeadInfo(c, n)
<1>1. /\ DOMAIN sum = CallFields /\ sum.fits = TRUE /\ sum.layer = "MLA_SUM"
      /\ sum.processors = ForcedProcessors(c, t)
      /\ sum.out = InLane(t, HighIfForced(c, t))
      /\ sum.info = [i EXCEPT !.use_flash_attention = c.use_flash_attention]
  BY DEF MultiLatentAttentionSum, Execute, Plain, CallFields
<1>2. /\ DOMAIN gen = CallFields /\ gen.fits = TRUE /\ gen.layer = "MLA_GEN"
      /\ gen.processors = IF t.lane # "none" THEN << c.low >> ELSE ForcedProcessors(c, t)
      /\ gen.out = HeadOutput(c, t, n, IF t.lane # "none" THEN "low" ELSE HighIfForced(c, t))
      /\ gen.info = [i EXCEPT !.use_flash_mla = c.use_flash_mla]
  BY DEF MultiLatentAttentionGen, Execute, Plain, CallFields
<1> HIDE DEF sum, gen, i
<1>3. /\ DOMAIN i = InfoFields /\ i.H = Heads(c, n) /\ i.KVH = KVHeads(c, n)
      /\ i.precision = c.model.precision_byte /\ i.hd = c.model.head_dim
      /\ i.rope = c.model.qk_rope_head_dim /\ i.rank = c.model.kv_lora_rank
      /\ i.nearbank = c.nearbank /\ i.cols = 0 /\ i.group = 0
      /\ i.use_flash_attention = FALSE /\ i.use_flash_mla = FALSE
  BY HeadInfoIs DEF i
<1>4. AttendsFor(c, n, sum)
  BY <1>1, <1>3 DEF AttendsFor, AttentionLayers, DecodeLayers, InfoFields, Fits
<1>5. AttendsFor(c, n, gen)
  BY <1>2, <1>3 DEF AttendsFor, AttentionLayers, DecodeLayers, InfoFields, Fits
<1> QED BY <1>1, <1>2, <1>4, <1>5 DEF sum, gen

LEMMA AbsorbedAttentionFor ==
  ASSUME NEW c, NEW n, NEW t
  PROVE  LET sum == AbsorbMLASum(c, t, n)
             gen == AbsorbMLAGen(c, t, n)
         IN /\ AttendsFor(c, n, sum) /\ sum.layer = "ABSORBED_MLA_SUM"
            /\ sum.processors = ForcedProcessors(c, t)
            /\ AttendsFor(c, n, gen) /\ gen.layer = "ABSORBED_MLA_GEN"
            /\ gen.processors = ForcedProcessors(c, t)
<1> DEFINE sum == AbsorbMLASum(c, t, n)
           gen == AbsorbMLAGen(c, t, n)
           i == HeadInfo(c, n)
<1>1. /\ DOMAIN sum = CallFields /\ sum.fits = TRUE /\ sum.layer = "ABSORBED_MLA_SUM"
      /\ sum.processors = ForcedProcessors(c, t) /\ sum.info = i
  BY DEF AbsorbMLASum, Execute, Plain, CallFields
<1>2. /\ DOMAIN gen = CallFields /\ gen.fits = TRUE /\ gen.layer = "ABSORBED_MLA_GEN"
      /\ gen.processors = ForcedProcessors(c, t)
      /\ gen.info = [i EXCEPT !.use_flash_mla = c.use_flash_mla]
  BY DEF AbsorbMLAGen, Execute, Plain, CallFields
<1> HIDE DEF sum, gen, i
<1>3. /\ DOMAIN i = InfoFields /\ i.H = Heads(c, n) /\ i.KVH = KVHeads(c, n)
      /\ i.precision = c.model.precision_byte /\ i.hd = c.model.head_dim
      /\ i.rope = c.model.qk_rope_head_dim /\ i.rank = c.model.kv_lora_rank
      /\ i.nearbank = c.nearbank /\ i.cols = 0 /\ i.group = 0
      /\ i.use_flash_attention = FALSE /\ i.use_flash_mla = FALSE
  BY HeadInfoIs DEF i
<1>4. AttendsFor(c, n, sum)
  BY <1>1, <1>3 DEF AttendsFor, AttentionLayers, DecodeLayers, InfoFields, Fits
<1>5. AttendsFor(c, n, gen)
  BY <1>2, <1>3 DEF AttendsFor, AttentionLayers, DecodeLayers, InfoFields, Fits
<1> QED BY <1>1, <1>2, <1>4, <1>5 DEF sum, gen

---------------------------------------------------------------------------
(* The tensors of an attention and the calls it is made of.                *)

LEMMA TensorIs ==
  ASSUME NEW c, NEW m, NEW k, NEW lane
  PROVE  /\ DOMAIN Tensor(<< m, k >>) = TensorFields /\ Tensor(<< m, k >>).shape = << m, k >>
         /\ Tensor(<< m, k >>).lane = "none"
         /\ InLane(Tensor(<< m, k >>), lane).shape = << m, k >>
         /\ InLane(Tensor(<< m, k >>), lane).lane = lane
BY DEF Tensor, InLane, TensorFields

LEMMA PlainTensors ==
  ASSUME NEW m \in Nat, NEW k \in Positive, NEW l \in Positive
  PROVE  Tensors(Tensor(<< m, k >>), Tensor(<< m, l >>), m, k, l)
BY DEF Tensor, Tensors, Alike, TensorFields

\* The tensors that the split makes, and where they are processed.
Beside(t, u, m, k, l) ==
  t.shape = << m, k >> /\ u.shape = << m, l >> /\ t.lane = u.lane

LEMMA SplitTensors ==
  ASSUME NEW c, SystemType(c), NEW batch, NEW k, NEW l
  PROVE  /\ Beside(SumTensor(c, batch, k), SumTensor(Unsharded(c), batch, l),
                   Tokens(get_sum(batch)), k, l)
         /\ Beside(GenTensor(c, batch, k), GenTensor(Unsharded(c), batch, l),
                   Tokens(get_gen(batch)), k, l)
BY UnshardedFields DEF SumTensor, GenTensor, InLane, Tensor, SplitLane, Beside

LEMMA ForcedIs ==
  ASSUME NEW c, SystemType(c), NEW t, NEW u, t.lane = u.lane
  PROVE  /\ ForcedProcessors(Unsharded(c), u) = ForcedProcessors(c, t)
         /\ ForcedProcessors(c, t) \in Seq(Processor) /\ ForcedProcessors(c, t) # << >>
         /\ HighIfForced(Unsharded(c), u) = HighIfForced(c, t)
         /\ << c.high >> \in Seq(Processor) /\ << c.low >> \in Seq(Processor)
         /\ << c.high >> # << >> /\ << c.low >> # << >>
         /\ c.processor_type \in Seq(Processor) /\ c.processor_type # << >>
         /\ Unsharded(c).processor_type = c.processor_type
         /\ Unsharded(c).high = c.high /\ Unsharded(c).low = c.low
<1>1. /\ Unsharded(c).processor_type = c.processor_type
      /\ Unsharded(c).high = c.high /\ Unsharded(c).low = c.low
  BY UnshardedFields
<1>2. /\ << c.high >> \in Seq(Processor) /\ << c.low >> \in Seq(Processor)
      /\ << c.high >> # << >> /\ << c.low >> # << >>
      /\ c.processor_type \in Seq(Processor) /\ c.processor_type # << >>
  BY DEF SystemType
<1> QED BY <1>1, <1>2 DEF ForcedProcessors, HighIfForced, Forced

LEMMA SelfAttentionPairs ==
  ASSUME NEW c, SystemType(c), c.model.qk_rope_head_dim = 0, NEW t, NEW u, t.lane = u.lane,
         t.shape[2] \in Nat, u.shape[2] \in Nat
  PROVE  LET n == c.ne_tp_dg
         IN /\ Pair(c, SelfAttentionSum(c, t, n), SelfAttentionSum(Unsharded(c), u, 1))
            /\ Pair(c, SelfAttentionGen(c, t, n), SelfAttentionGen(Unsharded(c), u, 1))
<1> DEFINE s == Unsharded(c)
           n == c.ne_tp_dg
           a == SelfAttentionSum(c, t, n)
           b == SelfAttentionSum(Unsharded(c), u, 1)
           x == SelfAttentionGen(c, t, n)
           y == SelfAttentionGen(Unsharded(c), u, 1)
<1>1. /\ AttendsFor(c, n, a) /\ a.layer = "ATTENTION_SUM"
      /\ a.processors = IF t.lane = "none" THEN c.processor_type ELSE << c.high >>
      /\ AttendsFor(c, n, x) /\ x.layer = "ATTENTION_GEN"
      /\ x.processors = IF t.lane = "none" THEN c.processor_type ELSE << c.low >>
  BY SelfAttentionFor
<1>2. /\ AttendsFor(Unsharded(c), 1, b) /\ b.layer = "ATTENTION_SUM"
      /\ b.processors = IF u.lane = "none" THEN s.processor_type ELSE << s.high >>
      /\ AttendsFor(Unsharded(c), 1, y) /\ y.layer = "ATTENTION_GEN"
      /\ y.processors = IF u.lane = "none" THEN s.processor_type ELSE << s.low >>
  BY SelfAttentionFor
<1> HIDE DEF a, b, x, y, s
<1>3. /\ a.processors = b.processors /\ a.processors \in Seq(Processor) /\ a.processors # << >>
      /\ x.processors = y.processors /\ x.processors \in Seq(Processor) /\ x.processors # << >>
  BY <1>1, <1>2, ForcedIs DEF s
<1>4. Pair(c, a, b) /\ Pair(c, x, y)
  BY <1>1, <1>2, <1>3, AttentionPair
<1> QED BY <1>4 DEF a, b, x, y

LEMMA LatentAttentionPairs ==
  ASSUME NEW c, SystemType(c), c.model.qk_rope_head_dim # 0, NEW t, NEW u, t.lane = u.lane
  PROVE  LET n == c.ne_tp_dg
         IN /\ Pair(c, MultiLatentAttentionSum(c, t, n), MultiLatentAttentionSum(Unsharded(c), u, 1))
            /\ Pair(c, MultiLatentAttentionGen(c, t, n), MultiLatentAttentionGen(Unsharded(c), u, 1))
            /\ Pair(c, AbsorbMLASum(c, t, n), AbsorbMLASum(Unsharded(c), u, 1))
            /\ Pair(c, AbsorbMLAGen(c, t, n), AbsorbMLAGen(Unsharded(c), u, 1))
<1> DEFINE s == Unsharded(c)
           n == c.ne_tp_dg
           a == MultiLatentAttentionSum(c, t, n)
           b == MultiLatentAttentionSum(Unsharded(c), u, 1)
           x == MultiLatentAttentionGen(c, t, n)
           y == MultiLatentAttentionGen(Unsharded(c), u, 1)
           d == AbsorbMLASum(c, t, n)
           e == AbsorbMLASum(Unsharded(c), u, 1)
           v == AbsorbMLAGen(c, t, n)
           w == AbsorbMLAGen(Unsharded(c), u, 1)
<1>1. /\ AttendsFor(c, n, a) /\ a.layer = "MLA_SUM" /\ a.processors = ForcedProcessors(c, t)
      /\ AttendsFor(c, n, x) /\ x.layer = "MLA_GEN"
      /\ x.processors = IF t.lane # "none" THEN << c.low >> ELSE ForcedProcessors(c, t)
      /\ AttendsFor(c, n, d) /\ d.layer = "ABSORBED_MLA_SUM"
      /\ d.processors = ForcedProcessors(c, t)
      /\ AttendsFor(c, n, v) /\ v.layer = "ABSORBED_MLA_GEN"
      /\ v.processors = ForcedProcessors(c, t)
  BY LatentAttentionFor, AbsorbedAttentionFor
<1>2. /\ AttendsFor(Unsharded(c), 1, b) /\ b.layer = "MLA_SUM"
      /\ b.processors = ForcedProcessors(s, u)
      /\ AttendsFor(Unsharded(c), 1, y) /\ y.layer = "MLA_GEN"
      /\ y.processors = IF u.lane # "none" THEN << s.low >> ELSE ForcedProcessors(s, u)
      /\ AttendsFor(Unsharded(c), 1, e) /\ e.layer = "ABSORBED_MLA_SUM"
      /\ e.processors = ForcedProcessors(s, u)
      /\ AttendsFor(Unsharded(c), 1, w) /\ w.layer = "ABSORBED_MLA_GEN"
      /\ w.processors = ForcedProcessors(s, u)
  BY LatentAttentionFor, AbsorbedAttentionFor
<1> HIDE DEF a, b, x, y, d, e, v, w, s
<1>3. /\ a.processors = b.processors /\ a.processors \in Seq(Processor) /\ a.processors # << >>
      /\ x.processors = y.processors /\ x.processors \in Seq(Processor) /\ x.processors # << >>
      /\ d.processors = e.processors /\ d.processors \in Seq(Processor) /\ d.processors # << >>
      /\ v.processors = w.processors /\ v.processors \in Seq(Processor) /\ v.processors # << >>
  BY <1>1, <1>2, ForcedIs DEF s
<1>4. Pair(c, a, b) /\ Pair(c, x, y)
  BY <1>1, <1>2, <1>3, AttentionPair
<1>5. Pair(c, d, e) /\ Pair(c, v, w)
  BY <1>1, <1>2, <1>3, AttentionPair
<1> QED BY <1>4, <1>5 DEF a, b, x, y, d, e, v, w

\* The merge finds the tokens that the split gave away.
LEMMA MergeIdle ==
  ASSUME NEW c, NEW sum, NEW gen, NEW batch, NEW columns,
         sum.out.shape[1] = Tokens(get_sum(batch)), gen.out.shape[1] = Tokens(get_gen(batch))
  PROVE  LET a == AttentionMerge(c, sum, gen, batch, columns)
         IN Idle(c, a) /\ a.out = Tensor(<< Tokens(batch), columns >>)
<1> DEFINE out == Tensor(<< Tokens(batch), columns >>)
           p == Plain(c, InLane(sum.out, "none"), out)
           a == AttentionMerge(c, sum, gen, batch, columns)
<1>1. Idle(c, p) /\ p.out = out
  BY PlainIdle
<1>2. (/\ sum.out.shape[1] = Tokens(get_sum(batch))
       /\ gen.out.shape[1] = Tokens(get_gen(batch))) = TRUE
  OBVIOUS
<1>3. a = [p EXCEPT !.fits = (/\ sum.out.shape[1] = Tokens(get_sum(batch))
                              /\ gen.out.shape[1] = Tokens(get_gen(batch)))]
  BY DEF AttentionMerge
<1>4. a = [p EXCEPT !.fits = TRUE]
  BY <1>2, <1>3
<1> HIDE DEF a, p, out
<1>5. Idle(c, a) /\ a.out = out
  BY <1>1, <1>4 DEF Idle, CallFields, Fits
<1> QED BY <1>5 DEF a, out

\* A further assertion that holds.
LEMMA IdleStill ==
  ASSUME NEW c, NEW a, Idle(c, a)
  PROVE  Idle(c, [a EXCEPT !.fits = TRUE]) /\ [a EXCEPT !.fits = TRUE].out = a.out
BY DEF Idle, CallFields, Fits

---------------------------------------------------------------------------
(* An attention, from its split to its merge.                              *)

\* The split, the two attentions and the merge.
LEMMA FourCalls ==
  ASSUME NEW c, SystemType(c), NEW a1, NEW b1, Idle(c, a1), Idle(Unsharded(c), b1),
         NEW a2, NEW b2, Pair(c, a2, b2), NEW a3, NEW b3, Pair(c, a3, b3),
         NEW a4, NEW b4, Idle(c, a4), Idle(Unsharded(c), b4)
  PROVE  LET as == << As("AttentionSplit", a1), As("AttentionSum", a2), As("AttentionGen", a3),
                      As("AttentionMerge", a4) >>
             bs == << As("AttentionSplit", b1), As("AttentionSum", b2), As("AttentionGen", b3),
                      As("AttentionMerge", b4) >>
         IN Matched(c, as, bs) /\ Output(as) = a4.out /\ Output(bs) = b4.out
<1> DEFINE v1 == As("AttentionSplit", a1)
           v2 == As("AttentionSum", a2)
           v3 == As("AttentionGen", a3)
           v4 == As("AttentionMerge", a4)
           w1 == As("AttentionSplit", b1)
           w2 == As("AttentionSum", b2)
           w3 == As("AttentionGen", b3)
           w4 == As("AttentionMerge", b4)
<1>1. Pair(c, a1, b1) /\ Pair(c, a4, b4)
  BY IdlePair
<1>2. Pair(c, v1, w1) /\ Pair(c, v2, w2) /\ Pair(c, v3, w3)
  BY <1>1, PairAs
<1>3. Pair(c, v4, w4) /\ v4.out = a4.out /\ w4.out = b4.out
  BY <1>1, PairAs
<1> HIDE DEF v1, v2, v3, v4, w1, w2, w3, w4
<1>4. Matched(c, << v1, v2, v3, v4 >>, << w1, w2, w3, w4 >>)
  BY <1>2, <1>3, MatchedFour
<1>5. Output(<< v1, v2, v3, v4 >>) = v4.out /\ Output(<< w1, w2, w3, w4 >>) = w4.out
  BY DEF Output
<1> QED BY <1>3, <1>4, <1>5 DEF v1, v2, v3, v4, w1, w2, w3, w4

\* The columns of the heads, in a rank and in the whole.
LEMMA HeadColumns ==
  ASSUME NEW c, SystemType(c)
  PROVE  LET n == c.ne_tp_dg
             s == Unsharded(c)
         IN /\ Heads(c, n) * c.model.head_dim \in Positive
            /\ Heads(s, 1) * s.model.head_dim = c.model.num_heads * c.model.head_dim
            /\ c.model.num_heads * c.model.head_dim \in Positive
            /\ c.model.head_dim * c.model.num_heads = c.model.num_heads * c.model.head_dim
            /\ (c.model.head_dim * c.model.num_heads) \div n = Heads(c, n) * c.model.head_dim
            /\ (c.model.head_dim * c.model.num_heads) % n = 0
            /\ (Heads(c, n) + 2 * KVHeads(c, n)) * c.model.head_dim \in Nat
            /\ (Heads(s, 1) + 2 * KVHeads(s, 1)) * s.model.head_dim \in Nat
<1> DEFINE n == c.ne_tp_dg
           h == c.model.num_heads
           d == c.model.head_dim
<1>1. h \in Positive /\ n \in Positive /\ d \in Positive /\ h % n = 0 /\ Heads(c, n) = h \div n
  BY HeadShare DEF SystemType, Model, Heads
<1>2. Heads(Unsharded(c), 1) = h /\ Unsharded(c).model = c.model
  BY HeadShare, UnshardedFields
<1>3. /\ h * d \in Positive /\ d * h = h * d /\ (d * h) \div n = (h \div n) * d
      /\ (d * h) % n = 0 /\ (h \div n) * d \in Positive
  BY <1>1, Shared
<1>4. /\ Heads(c, n) \in Nat /\ KVHeads(c, n) \in Nat /\ Heads(Unsharded(c), 1) \in Nat
      /\ KVHeads(Unsharded(c), 1) \in Nat /\ d \in Nat
  BY <1>1, HeadShare, KVHeadShare DEF Positive
<1>5. ASSUME NEW a \in Nat, NEW b \in Nat PROVE (a + 2 * b) * d \in Nat
  <2>1. a + 2 * b \in Nat
    OBVIOUS
  <2> QED BY <1>4, <2>1, ProductType
<1> QED BY <1>1, <1>2, <1>3, <1>4, <1>5

LEMMA SelfAttentionMatched ==
  ASSUME NEW c, SystemType(c), c.model.qk_rope_head_dim = 0, NEW batch \in Seq(RequestType), NEW t, NEW u
  PROVE  LET as == SelfAttentionParallel(c, t, c.ne_tp_dg, batch)
             bs == SelfAttentionParallel(Unsharded(c), u, 1, batch)
         IN /\ Matched(c, as, bs)
            /\ Tensors(Output(as), Output(bs), Tokens(batch),
                       Heads(c, c.ne_tp_dg) * c.model.head_dim, c.model.num_heads * c.model.head_dim)
<1> DEFINE s == Unsharded(c)
           n == c.ne_tp_dg
           columns(x, k) == (Heads(x, k) + 2 * KVHeads(x, k)) * x.model.head_dim
           wide(x, k) == Heads(x, k) * x.model.head_dim
           S(x, k) == SumTensor(x, batch, columns(x, k))
           G(x, k) == GenTensor(x, batch, columns(x, k))
           sum(x, k) == SelfAttentionSum(x, S(x, k), k)
           gen(x, k) == SelfAttentionGen(x, G(x, k), k)
           merge(x, k) == AttentionMerge(x, sum(x, k), gen(x, k), batch, wide(x, k))
           last(x, k) == [merge(x, k) EXCEPT !.fits = (/\ merge(x, k).fits
                                                       /\ x.model.num_heads % k = 0
                                                       /\ x.model.num_kv_heads % k = 0)]
           split(x, v) == AttentionSplit(x, v)
<1>1. /\ S(c, n).shape = << Tokens(get_sum(batch)), columns(c, n) >>
      /\ S(s, 1).shape = << Tokens(get_sum(batch)), columns(s, 1) >>
      /\ G(c, n).shape = << Tokens(get_gen(batch)), columns(c, n) >>
      /\ G(s, 1).shape = << Tokens(get_gen(batch)), columns(s, 1) >>
      /\ S(c, n).lane = S(s, 1).lane /\ G(c, n).lane = G(s, 1).lane
  <2> DEFINE k == columns(c, n)
             l == columns(s, 1)
  <2> HIDE DEF k, l
  <2>1. /\ Beside(SumTensor(c, batch, k), SumTensor(s, batch, l), Tokens(get_sum(batch)), k, l)
        /\ Beside(GenTensor(c, batch, k), GenTensor(s, batch, l), Tokens(get_gen(batch)), k, l)
    BY SplitTensors
  <2> QED BY <2>1 DEF k, l, Beside
<1>2. columns(c, n) \in Nat /\ columns(s, 1) \in Nat /\ wide(c, n) \in Positive
      /\ wide(s, 1) = c.model.num_heads * c.model.head_dim /\ wide(s, 1) \in Positive
  BY HeadColumns
<1>3. /\ Idle(c, split(c, t)) /\ Idle(s, split(s, u))
  BY PlainIdle DEF AttentionSplit
<1>4. (c.model.num_heads % n = 0 /\ c.model.num_kv_heads % n = 0) = TRUE
      /\ (s.model.num_heads % 1 = 0 /\ s.model.num_kv_heads % 1 = 0) = TRUE
  <2>1. c.model.num_heads % n = 0 /\ c.model.num_kv_heads % n = 0
    BY HeadShare, KVHeadShare
  <2>2. s.model.num_heads % 1 = 0 /\ s.model.num_kv_heads % 1 = 0
    BY HeadShare, KVHeadShare, UnshardedFields DEF Positive
  <2> QED BY <2>1, <2>2
<1> HIDE DEF columns, wide, S, G, s, split
<1>5. Pair(c, sum(c, n), sum(s, 1)) /\ Pair(c, gen(c, n), gen(s, 1))
  <2>1. S(c, n).shape[2] \in Nat /\ S(s, 1).shape[2] \in Nat
        /\ G(c, n).shape[2] \in Nat /\ G(s, 1).shape[2] \in Nat
    BY <1>1, <1>2
  <2> QED BY <1>1, <2>1, SelfAttentionPairs DEF s
<1>6. ASSUME NEW x, NEW k, S(x, k).shape = << Tokens(get_sum(batch)), columns(x, k) >>,
             G(x, k).shape = << Tokens(get_gen(batch)), columns(x, k) >>,
             columns(x, k) \in Nat, (x.model.num_heads % k = 0 /\ x.model.num_kv_heads % k = 0) = TRUE
      PROVE  Idle(x, last(x, k)) /\ last(x, k).out = Tensor(<< Tokens(batch), wide(x, k) >>)
  <2>1. /\ S(x, k).shape[2] \in Nat /\ S(x, k).shape[1] = Tokens(get_sum(batch))
        /\ G(x, k).shape[2] \in Nat /\ G(x, k).shape[1] = Tokens(get_gen(batch))
    BY <1>6
  <2>2. /\ sum(x, k).out = HeadOutput(x, S(x, k), k, S(x, k).lane)
        /\ gen(x, k).out = HeadOutput(x, G(x, k), k, G(x, k).lane)
    BY <2>1, SelfAttentionFor
  <2>3. sum(x, k).out.shape[1] = Tokens(get_sum(batch)) /\ gen(x, k).out.shape[1] = Tokens(get_gen(batch))
    BY <2>1, <2>2 DEF HeadOutput
  <2> HIDE DEF sum, gen
  <2>4. Idle(x, merge(x, k)) /\ merge(x, k).out = Tensor(<< Tokens(batch), wide(x, k) >>)
    BY <2>3, MergeIdle
  <2> HIDE DEF merge
  <2>5. (/\ merge(x, k).fits /\ x.model.num_heads % k = 0 /\ x.model.num_kv_heads % k = 0) = TRUE
    BY <1>6, <2>4 DEF Idle, Fits
  <2>6. last(x, k) = [merge(x, k) EXCEPT !.fits = TRUE]
    BY <2>5
  <2> HIDE DEF last
  <2> QED BY <2>4, <2>6, IdleStill
<1>7. /\ Idle(c, last(c, n)) /\ last(c, n).out = Tensor(<< Tokens(batch), wide(c, n) >>)
      /\ Idle(s, last(s, 1)) /\ last(s, 1).out = Tensor(<< Tokens(batch), wide(s, 1) >>)
  <2> HIDE DEF last
  <2> QED BY <1>1, <1>2, <1>4, <1>6
<1>8. /\ SelfAttentionParallel(c, t, n, batch)
           = << As("AttentionSplit", split(c, t)), As("AttentionSum", sum(c, n)),
                As("AttentionGen", gen(c, n)), As("AttentionMerge", last(c, n)) >>
      /\ SelfAttentionParallel(s, u, 1, batch)
           = << As("AttentionSplit", split(s, u)), As("AttentionSum", sum(s, 1)),
                As("AttentionGen", gen(s, 1)), As("AttentionMerge", last(s, 1)) >>
  BY DEF SelfAttentionParallel, columns, wide, S, G, split
<1> HIDE DEF sum, gen, last
<1> DEFINE as == SelfAttentionParallel(c, t, n, batch)
           bs == SelfAttentionParallel(s, u, 1, batch)
<1>9. Matched(c, as, bs) /\ Output(as) = last(c, n).out /\ Output(bs) = last(s, 1).out
  BY <1>3, <1>5, <1>7, <1>8, FourCalls DEF s
<1> HIDE DEF as, bs
<1>10. Tensors(Output(as), Output(bs), Tokens(batch), wide(c, n), wide(s, 1))
  <2>1. Tokens(batch) \in Nat
    BY BatchType
  <2> QED BY <1>2, <1>7, <1>9, <2>1, PlainTensors
<1> QED BY <1>2, <1>9, <1>10 DEF as, bs, wide, s

LEMMA LatentAttentionMatched ==
  ASSUME NEW c, SystemType(c), c.model.qk_rope_head_dim # 0, NEW batch \in Seq(RequestType),
         NEW t, NEW u
  PROVE  LET as == MultiLatentAttentionParallel(c, t, c.ne_tp_dg, batch)
             bs == MultiLatentAttentionParallel(Unsharded(c), u, 1, batch)
         IN /\ Matched(c, as, bs)
            /\ Tensors(Output(as), Output(bs), Tokens(batch),
                       Heads(c, c.ne_tp_dg) * c.model.head_dim, c.model.num_heads * c.model.head_dim)
<1> DEFINE s == Unsharded(c)
           n == c.ne_tp_dg
           columns(x, k) == Heads(x, k) * (2 * (x.model.head_dim + x.model.qk_rope_head_dim)
                                           + x.model.head_dim)
           wide(x, k) == Heads(x, k) * x.model.head_dim
           S(x, k) == SumTensor(x, batch, columns(x, k))
           G(x, k) == GenTensor(x, batch, columns(x, k))
           sum(x, k) == MultiLatentAttentionSum(x, S(x, k), k)
           gen(x, k) == MultiLatentAttentionGen(x, G(x, k), k)
           merge(x, k) == AttentionMerge(x, sum(x, k), gen(x, k), batch, wide(x, k))
           last(x, k) == [merge(x, k) EXCEPT !.fits = (merge(x, k).fits /\ x.model.num_heads % k = 0)]
           split(x, v) == AttentionSplit(x, v)
           whole(x, k) == (x.model.num_heads % k = 0) = TRUE
<1>1. /\ S(c, n).shape = << Tokens(get_sum(batch)), columns(c, n) >>
      /\ S(s, 1).shape = << Tokens(get_sum(batch)), columns(s, 1) >>
      /\ G(c, n).shape = << Tokens(get_gen(batch)), columns(c, n) >>
      /\ G(s, 1).shape = << Tokens(get_gen(batch)), columns(s, 1) >>
      /\ S(c, n).lane = S(s, 1).lane /\ G(c, n).lane = G(s, 1).lane
  <2> DEFINE k == columns(c, n)
             l == columns(s, 1)
  <2> HIDE DEF k, l
  <2>1. /\ Beside(SumTensor(c, batch, k), SumTensor(s, batch, l), Tokens(get_sum(batch)), k, l)
        /\ Beside(GenTensor(c, batch, k), GenTensor(s, batch, l), Tokens(get_gen(batch)), k, l)
    BY SplitTensors
  <2> QED BY <2>1 DEF k, l, Beside
<1>2. wide(c, n) \in Positive
      /\ wide(s, 1) = c.model.num_heads * c.model.head_dim /\ wide(s, 1) \in Positive
  BY HeadColumns
<1>3. /\ Idle(c, split(c, t)) /\ Idle(s, split(s, u))
  BY PlainIdle DEF AttentionSplit
<1>4. whole(c, n) /\ whole(s, 1)
  <2>1. c.model.num_heads % n = 0
    BY HeadShare
  <2>2. s.model.num_heads % 1 = 0
    BY HeadShare, UnshardedFields DEF Positive
  <2> QED BY <2>1, <2>2
<1> HIDE DEF columns, wide, S, G, s, split, whole
<1>5. Pair(c, sum(c, n), sum(s, 1)) /\ Pair(c, gen(c, n), gen(s, 1))
  BY <1>1, LatentAttentionPairs DEF s
<1>6. ASSUME NEW x, NEW k, S(x, k).shape = << Tokens(get_sum(batch)), columns(x, k) >>,
             G(x, k).shape = << Tokens(get_gen(batch)), columns(x, k) >>,
             whole(x, k)
      PROVE  Idle(x, last(x, k)) /\ last(x, k).out = Tensor(<< Tokens(batch), wide(x, k) >>)
  <2>0. ASSUME NEW v PROVE /\ MultiLatentAttentionSum(x, v, k).out = InLane(v, HighIfForced(x, v))
                           /\ MultiLatentAttentionGen(x, v, k).out.shape[1] = v.shape[1]
    BY DEF MultiLatentAttentionSum, MultiLatentAttentionGen, Execute, Plain, HeadOutput
  <2>1. /\ sum(x, k).out = InLane(S(x, k), HighIfForced(x, S(x, k)))
        /\ gen(x, k).out.shape[1] = G(x, k).shape[1]
    BY <2>0
  <2>2. InLane(S(x, k), HighIfForced(x, S(x, k))).shape = S(x, k).shape
    BY DEF S, SumTensor, InLane, Tensor
  <2>3. sum(x, k).out.shape[1] = Tokens(get_sum(batch)) /\ gen(x, k).out.shape[1] = Tokens(get_gen(batch))
    BY <1>6, <2>1, <2>2
  <2> HIDE DEF sum, gen
  <2>4. Idle(x, merge(x, k)) /\ merge(x, k).out = Tensor(<< Tokens(batch), wide(x, k) >>)
    BY <2>3, MergeIdle
  <2> HIDE DEF merge
  <2>5. (merge(x, k).fits /\ x.model.num_heads % k = 0) = TRUE
    BY <1>6, <2>4 DEF Idle, Fits, whole
  <2>6. last(x, k) = [merge(x, k) EXCEPT !.fits = TRUE]
    BY <2>5
  <2> HIDE DEF last
  <2> QED BY <2>4, <2>6, IdleStill
<1>7. /\ Idle(c, last(c, n)) /\ last(c, n).out = Tensor(<< Tokens(batch), wide(c, n) >>)
      /\ Idle(s, last(s, 1)) /\ last(s, 1).out = Tensor(<< Tokens(batch), wide(s, 1) >>)
  <2> HIDE DEF last
  <2> QED BY <1>1, <1>4, <1>6
<1>8. /\ MultiLatentAttentionParallel(c, t, n, batch)
           = << As("AttentionSplit", split(c, t)), As("AttentionSum", sum(c, n)),
                As("AttentionGen", gen(c, n)), As("AttentionMerge", last(c, n)) >>
      /\ MultiLatentAttentionParallel(s, u, 1, batch)
           = << As("AttentionSplit", split(s, u)), As("AttentionSum", sum(s, 1)),
                As("AttentionGen", gen(s, 1)), As("AttentionMerge", last(s, 1)) >>
  BY DEF MultiLatentAttentionParallel, columns, wide, S, G, split
<1> HIDE DEF sum, gen, last
<1> DEFINE as == MultiLatentAttentionParallel(c, t, n, batch)
           bs == MultiLatentAttentionParallel(s, u, 1, batch)
<1>9. Matched(c, as, bs) /\ Output(as) = last(c, n).out /\ Output(bs) = last(s, 1).out
  BY <1>3, <1>5, <1>7, <1>8, FourCalls DEF s
<1> HIDE DEF as, bs
<1>10. Tensors(Output(as), Output(bs), Tokens(batch), wide(c, n), wide(s, 1))
  <2>1. Tokens(batch) \in Nat
    BY BatchType
  <2> QED BY <1>2, <1>7, <1>9, <2>1, PlainTensors
<1> QED BY <1>2, <1>9, <1>10 DEF as, bs, wide, s

LEMMA AbsorbedMatched ==
  ASSUME NEW c, SystemType(c), c.model.qk_rope_head_dim # 0, NEW batch \in Seq(RequestType),
         NEW t, NEW u
  PROVE  LET as == AbsorbMLAParallel(c, t, c.ne_tp_dg, batch)
             bs == AbsorbMLAParallel(Unsharded(c), u, 1, batch)
         IN /\ Matched(c, as, bs)
            /\ Tensors(Output(as), Output(bs), Tokens(batch), c.model.kv_lora_rank, c.model.kv_lora_rank)
<1> DEFINE s == Unsharded(c)
           n == c.ne_tp_dg
           r == c.model.kv_lora_rank
           S(x) == SumTensor(x, batch, r)
           G(x) == GenTensor(x, batch, r)
           sum(x, k) == AbsorbMLASum(x, S(x), k)
           gen(x, k) == AbsorbMLAGen(x, G(x), k)
           merge(x, v) == AbsorbMerge(x, v, batch)
           last(x, k, v) == [merge(x, v) EXCEPT !.fits = (x.model.num_heads % k = 0)]
           split(x, v) == AttentionSplit(x, v)
           whole(x, k) == (x.model.num_heads % k = 0) = TRUE
<1>1. S(c).lane = S(s).lane /\ G(c).lane = G(s).lane
  <2>1. /\ Beside(SumTensor(c, batch, r), SumTensor(s, batch, r), Tokens(get_sum(batch)), r, r)
        /\ Beside(GenTensor(c, batch, r), GenTensor(s, batch, r), Tokens(get_gen(batch)), r, r)
    BY SplitTensors
  <2> QED BY <2>1 DEF Beside
<1>2. r \in Positive /\ s.model = c.model
  BY UnshardedFields DEF SystemType, Model
<1>3. /\ Idle(c, split(c, t)) /\ Idle(s, split(s, u))
  BY PlainIdle DEF AttentionSplit
<1>4. whole(c, n) /\ whole(s, 1)
  <2>1. c.model.num_heads % n = 0
    BY HeadShare
  <2>2. s.model.num_heads % 1 = 0
    BY HeadShare, UnshardedFields DEF Positive
  <2> QED BY <2>1, <2>2
<1> HIDE DEF S, G, s, split, whole
<1>5. Pair(c, sum(c, n), sum(s, 1)) /\ Pair(c, gen(c, n), gen(s, 1))
  BY <1>1, LatentAttentionPairs DEF s
<1>6. ASSUME NEW x, NEW k, NEW v, x.model = c.model, whole(x, k)
      PROVE  Idle(x, last(x, k, v)) /\ last(x, k, v).out = Tensor(<< Tokens(batch), r >>)
  <2>1. Idle(x, merge(x, v)) /\ merge(x, v).out = Tensor(<< Tokens(batch), r >>)
    BY <1>6, PlainIdle DEF AbsorbMerge
  <2> HIDE DEF merge
  <2>2. last(x, k, v) = [merge(x, v) EXCEPT !.fits = TRUE]
    BY <1>6 DEF whole
  <2> HIDE DEF last
  <2> QED BY <2>1, <2>2, IdleStill
<1>7. /\ Idle(c, last(c, n, t)) /\ last(c, n, t).out = Tensor(<< Tokens(batch), r >>)
      /\ Idle(s, last(s, 1, u)) /\ last(s, 1, u).out = Tensor(<< Tokens(batch), r >>)
  <2> HIDE DEF last
  <2> QED BY <1>2, <1>4, <1>6
<1>8. /\ AbsorbMLAParallel(c, t, n, batch)
           = << As("AttentionSplit", split(c, t)), As("AttentionSum", sum(c, n)),
                As("AttentionGen", gen(c, n)), As("AttentionMerge", last(c, n, t)) >>
      /\ AbsorbMLAParallel(s, u, 1, batch)
           = << As("AttentionSplit", split(s, u)), As("AttentionSum", sum(s, 1)),
                As("AttentionGen", gen(s, 1)), As("AttentionMerge", last(s, 1, u)) >>
  BY <1>2 DEF AbsorbMLAParallel, S, G, split
<1> HIDE DEF sum, gen, last
<1> DEFINE as == AbsorbMLAParallel(c, t, n, batch)
           bs == AbsorbMLAParallel(s, u, 1, batch)
<1>9. Matched(c, as, bs) /\ Output(as) = last(c, n, t).out /\ Output(bs) = last(s, 1, u).out
  BY <1>3, <1>5, <1>7, <1>8, FourCalls DEF s
<1> HIDE DEF as, bs
<1>10. Tensors(Output(as), Output(bs), Tokens(batch), r, r)
  <2>1. Tokens(batch) \in Nat
    BY BatchType
  <2> QED BY <1>2, <1>7, <1>9, <2>1, PlainTensors
<1> QED BY <1>9, <1>10 DEF as, bs, s

---------------------------------------------------------------------------
(* A feed-forward.                                                         *)

\* The feed-forward layers.
LEMMA TwoWayMatched ==
  ASSUME NEW c, SystemType(c), NEW t, NEW u, NEW m, NEW n, NEW d \in Positive, Degree(c, n),
         d % n = 0, c.model.hidden_dim % n = 0,
         Tensors(t, u, m, c.model.hidden_dim, c.model.hidden_dim)
  PROVE  LET as == FeedForward2Way(c, t, n, d)
             bs == FeedForward2Way(Unsharded(c), u, 1, d)
         IN Matched(c, as, bs)
            /\ Tensors(Output(as), Output(bs), m, c.model.hidden_dim, c.model.hidden_dim)
<1> DEFINE s == Unsharded(c)
           h == c.model.hidden_dim
           f == c.model.activation_factor
           up == ColumnParallelLinear(c, t, n, h, d * f)
           uq == ColumnParallelLinear(s, u, 1, h, d * f)
           act == Activation(c, up.out)
           acu == Activation(s, uq.out)
           row == RowParallelLinear(c, act.out, n, d, h)
           rou == RowParallelLinear(s, acu.out, 1, d, h)
<1>1. s.model = c.model /\ h \in Positive /\ f \in Positive /\ n \in Positive
  BY UnshardedFields, DegreePositive DEF SystemType, Model
<1>2. d * f \in Positive /\ (d * f) % n = 0 /\ (d * f) \div n = (d \div n) * f
  BY <1>1, Shared
<1>3. d \div n \in Positive /\ n * (d \div n) = d
  BY <1>1, Exact DEF Positive
<1>4. /\ FeedForward2Way(c, t, n, d) = << up, act, row >>
      /\ FeedForward2Way(s, u, 1, d) = << uq, acu, rou >>
  BY <1>1 DEF FeedForward2Way
<1> DEFINE r == d * f
<1>5. Pair(c, up, uq) /\ Tensors(up.out, uq.out, m, (d * f) \div n, d * f)
  <2> HIDE DEF h, f
  <2> SUFFICES LET a == ColumnParallelLinear(c, t, n, h, r)
                   b == ColumnParallelLinear(s, u, 1, h, r)
               IN Pair(c, a, b) /\ Tensors(a.out, b.out, m, r \div n, r)
    OBVIOUS
  <2>1. r \in Positive /\ r % n = 0 /\ Tensors(t, u, m, h, h)
    BY <1>2 DEF h
  <2> HIDE DEF r
  <2> QED BY <2>1, ColumnPair
<1>6. Pair(c, act, acu) /\ Tensors(act.out, acu.out, m, d \div n, d)
  <2> DEFINE k == d \div n
  <2>1. Tensors(up.out, uq.out, m, k * f, d * f) /\ k \in Positive /\ n * k = d
        /\ n \in {1, c.ne_tp_dg, c.e_tp_dg}
    BY <1>2, <1>3, <1>5 DEF Degree
  <2> HIDE DEF k, up, uq
  <2>2. Pair(c, Activation(c, up.out), Activation(Unsharded(c), uq.out))
        /\ Tensors(Activation(c, up.out).out, Activation(Unsharded(c), uq.out).out, m, k, d)
    BY <2>1, ActivationPair
  <2> QED BY <2>2 DEF k
<1>7. Pair(c, row, rou) /\ Tensors(row.out, rou.out, m, h, h)
  <2> HIDE DEF act, acu
  <2> QED BY <1>1, <1>6, RowPair
<1> HIDE DEF up, uq, act, acu, row, rou, s
<1>8. Matched(c, << up, act, row >>, << uq, acu, rou >>)
  BY <1>5, <1>6, <1>7, MatchedThree
<1>9. Output(<< up, act, row >>) = row.out /\ Output(<< uq, acu, rou >>) = rou.out
  BY DEF Output
<1> QED BY <1>4, <1>7, <1>8, <1>9 DEF s

LEMMA ThreeWayMatched ==
  ASSUME NEW c, SystemType(c), NEW t, NEW u, NEW m, NEW n, NEW d \in Positive, Degree(c, n),
         NEW use_dp, ~use_dp => d % n = 0, c.model.hidden_dim % n = 0,
         Tensors(t, u, m, c.model.hidden_dim, c.model.hidden_dim)
  PROVE  LET as == FeedForward3Way(c, t, n, d, use_dp)
             bs == FeedForward3Way(Unsharded(c), u, 1, d, use_dp)
         IN Matched(c, as, bs)
            /\ Tensors(Output(as), Output(bs), m, c.model.hidden_dim, c.model.hidden_dim)
<1> DEFINE s == Unsharded(c)
           h == c.model.hidden_dim
           f == c.model.activation_factor
           k == IF use_dp THEN 1 ELSE n
           gate == ColumnParallelLinear(c, t, k, h, d * f)
           gatu == ColumnParallelLinear(s, u, 1, h, d * f)
           act == Activation(c, gate.out)
           acu == Activation(s, gatu.out)
           up == ColumnParallelLinear(c, t, k, h, d)
           uq == ColumnParallelLinear(s, u, 1, h, d)
           row == RowParallelLinear(c, up.out, k, d, h)
           rou == RowParallelLinear(s, uq.out, 1, d, h)
<1>1. s.model = c.model /\ h \in Positive /\ f \in Positive /\ n \in Positive
  BY UnshardedFields, DegreePositive DEF SystemType, Model
<1>2. Degree(c, k) /\ k \in Positive /\ d % k = 0 /\ h % k = 0
  <2>1. CASE use_dp
    BY <1>1, <2>1 DEF Degree, Positive
  <2>2. CASE ~use_dp
    BY <1>1, <2>2
  <2> QED BY <2>1, <2>2
<1>3. /\ FeedForward3Way(c, t, n, d, use_dp) = << gate, act, up, row >>
      /\ FeedForward3Way(s, u, 1, d, use_dp) = << gatu, acu, uq, rou >>
  BY <1>1 DEF FeedForward3Way
<1> HIDE DEF k
<1>4. d * f \in Positive /\ (d * f) % k = 0 /\ (d * f) \div k = (d \div k) * f
  BY <1>1, <1>2, Shared
<1>5. d \div k \in Positive /\ k * (d \div k) = d
  BY <1>1, <1>2, Exact DEF Positive
<1> DEFINE r == d * f
<1>6. Pair(c, gate, gatu) /\ Tensors(gate.out, gatu.out, m, (d * f) \div k, d * f)
  <2> HIDE DEF h, f
  <2> SUFFICES LET a == ColumnParallelLinear(c, t, k, h, r)
                   b == ColumnParallelLinear(s, u, 1, h, r)
               IN Pair(c, a, b) /\ Tensors(a.out, b.out, m, r \div k, r)
    OBVIOUS
  <2>1. r \in Positive /\ r % k = 0 /\ Tensors(t, u, m, h, h)
    BY <1>4 DEF h
  <2> HIDE DEF r
  <2> QED BY <1>2, <2>1, ColumnPair
<1>7. Pair(c, act, acu)
  <2> DEFINE q == d \div k
  <2>1. Tensors(gate.out, gatu.out, m, q * f, d * f) /\ q \in Positive /\ k * q = d
        /\ k \in {1, c.ne_tp_dg, c.e_tp_dg}
    BY <1>2, <1>4, <1>5, <1>6 DEF Degree
  <2> HIDE DEF q, gate, gatu
  <2>2. Pair(c, Activation(c, gate.out), Activation(Unsharded(c), gatu.out))
    BY <2>1, ActivationPair
  <2> QED BY <2>2
<1>8. Pair(c, up, uq) /\ Tensors(up.out, uq.out, m, d \div k, d)
  BY <1>2, ColumnPair
<1>9. Pair(c, row, rou) /\ Tensors(row.out, rou.out, m, h, h)
  <2> HIDE DEF up, uq
  <2> QED BY <1>1, <1>2, <1>8, RowPair
<1> HIDE DEF gate, gatu, up, uq, act, acu, row, rou, s
<1>10. Matched(c, << gate, act, up, row >>, << gatu, acu, uq, rou >>)
  BY <1>6, <1>7, <1>8, <1>9, MatchedFour
<1>11. Output(<< gate, act, up, row >>) = row.out /\ Output(<< gatu, acu, uq, rou >>) = rou.out
  BY DEF Output
<1> QED BY <1>3, <1>9, <1>10, <1>11 DEF s

LEMMA FeedForwardMatched ==
  ASSUME NEW c, SystemType(c), NEW t, NEW u, NEW m, NEW n, NEW d \in Positive, Degree(c, n),
         NEW use_dp, c.model.ffn_way = 2 \/ ~use_dp => d % n = 0, c.model.hidden_dim % n = 0,
         Tensors(t, u, m, c.model.hidden_dim, c.model.hidden_dim)
  PROVE  LET as == FeedForward(c, t, n, d, use_dp)
             bs == FeedForward(Unsharded(c), u, 1, d, use_dp)
         IN Matched(c, as, bs)
            /\ Tensors(Output(as), Output(bs), m, c.model.hidden_dim, c.model.hidden_dim)
<1>1. Unsharded(c).model = c.model
  BY UnshardedFields
<1>2. CASE c.model.ffn_way = 2
  <2>1. d % n = 0
    BY <1>2
  <2>2. /\ FeedForward(c, t, n, d, use_dp) = FeedForward2Way(c, t, n, d)
        /\ FeedForward(Unsharded(c), u, 1, d, use_dp) = FeedForward2Way(Unsharded(c), u, 1, d)
    BY <1>1, <1>2 DEF FeedForward
  <2> QED BY <2>1, <2>2, TwoWayMatched
<1>3. CASE c.model.ffn_way # 2
  <2>1. ~use_dp => d % n = 0
    BY <1>3
  <2>2. /\ FeedForward(c, t, n, d, use_dp) = FeedForward3Way(c, t, n, d, use_dp)
        /\ FeedForward(Unsharded(c), u, 1, d, use_dp)
             = FeedForward3Way(Unsharded(c), u, 1, d, use_dp)
    BY <1>1, <1>3 DEF FeedForward
  <2> QED BY <2>1, <2>2, ThreeWayMatched
<1> QED BY <1>2, <1>3

---------------------------------------------------------------------------
(* A decoder layer around its attention.                                   *)

\* A module before and two after the calls of another.
LEMMA AroundMatched ==
  ASSUME NEW c, SystemType(c), NEW as, NEW bs, Matched(c, as, bs),
         NEW cs, NEW ds, Matched(c, cs, ds), NEW es, NEW fs, Matched(c, es, fs), NEW name
  PROVE  Matched(c, (as \o InModule(name, cs)) \o es, (bs \o InModule(name, ds)) \o fs)
<1>1. Matched(c, InModule(name, cs), InModule(name, ds))
  BY MatchedIn
<1> DEFINE x == InModule(name, cs)
           y == InModule(name, ds)
<1> HIDE DEF x, y
<1>2. Matched(c, as \o x, bs \o y)
  BY <1>1, MatchedJoin DEF x, y
<1>3. Matched(c, (as \o x) \o es, (bs \o y) \o fs)
  BY <1>2, MatchedJoin
<1> QED BY <1>3 DEF x, y

\* Columns for the queries, the keys and the values of the heads.
LEMMA HeadsAndMore ==
  ASSUME NEW c, SystemType(c)
  PROVE  LET n == c.ne_tp_dg
             r == c.model.head_dim * (c.model.num_heads + 2 * c.model.num_kv_heads)
         IN r \in Positive /\ r % n = 0
<1> DEFINE n == c.ne_tp_dg
           d == c.model.head_dim
           h == Heads(c, n)
           k == KVHeads(c, n)
<1>1. d \in Positive /\ h \in Positive /\ k \in Positive /\ n \in Positive
      /\ c.model.num_heads = n * h /\ c.model.num_kv_heads = n * k
  BY HeadShare, KVHeadShare DEF SystemType, Model
<1> HIDE DEF n, d, h, k
<1>2. n * h + 2 * (n * k) = n * (h + 2 * k) /\ h + 2 * k \in Positive
  BY <1>1 DEF Positive
<1>3. d * (n * (h + 2 * k)) = n * (d * (h + 2 * k)) /\ d * (h + 2 * k) \in Positive
  <2> DEFINE e == h + 2 * k
  <2>1. e \in Positive
    BY <1>2
  <2> HIDE DEF e
  <2>2. d * (n * e) = n * (d * e) /\ d * e \in Positive
    BY <1>1, <2>1, ProductType DEF Positive
  <2> QED BY <2>2 DEF e
<1> DEFINE e == d * (h + 2 * k)
<1>4. e \in Positive
  BY <1>3
<1> HIDE DEF e
<1>5. n * e \in Positive /\ (n * e) % n = 0
  BY <1>1, <1>4, ExactIs, ProductType DEF Positive
<1> QED BY <1>1, <1>2, <1>3, <1>5 DEF e, n, d

LEMMA AttentionMatched ==
  ASSUME NEW c, SystemType(c), c.model.qk_rope_head_dim = 0, NEW batch \in Seq(RequestType), NEW t, NEW u, NEW m,
         Tensors(t, u, m, c.model.hidden_dim, c.model.hidden_dim)
  PROVE  Matched(c, Attention(c, t, c.ne_tp_dg, batch), Attention(Unsharded(c), u, 1, batch))
<1> DEFINE s == Unsharded(c)
           n == c.ne_tp_dg
           h == c.model.hidden_dim
           r == c.model.head_dim * (c.model.num_heads + 2 * c.model.num_kv_heads)
           q == c.model.head_dim * c.model.num_heads
           proj == ColumnParallelLinear(c, t, n, h, r)
           pros == ColumnParallelLinear(s, u, 1, h, r)
           self == SelfAttentionParallel(c, proj.out, n, batch)
           sels == SelfAttentionParallel(s, pros.out, 1, batch)
           o == RowParallelLinear(c, Output(self), n, q, h)
           os == RowParallelLinear(s, Output(sels), 1, q, h)
           all == AllReduce(c, o.out, n)
           alls == AllReduce(s, os.out, 1)
<1>1. s.model = c.model /\ h \in Positive /\ Degree(c, n) /\ h % n = 0
  BY UnshardedFields, HeadShare DEF SystemType, Model, Shardable
<1>2. Pair(c, proj, pros)
  <2>1. r \in Positive /\ r % n = 0
    BY HeadsAndMore
  <2> HIDE DEF r
  <2> QED BY <1>1, <2>1, ColumnPair
<1>3. /\ Matched(c, self, sels)
      /\ Tensors(Output(self), Output(sels), Tokens(batch), q \div n, q)
      /\ q \in Positive /\ q % n = 0
  <2> HIDE DEF proj, pros
  <2>1. /\ Matched(c, self, sels)
        /\ Tensors(Output(self), Output(sels), Tokens(batch),
                   Heads(c, n) * c.model.head_dim, c.model.num_heads * c.model.head_dim)
    BY SelfAttentionMatched
  <2> HIDE DEF self, sels
  <2>2. q = c.model.num_heads * c.model.head_dim /\ q \in Positive
        /\ q \div n = Heads(c, n) * c.model.head_dim /\ q % n = 0
    BY HeadColumns
  <2> QED BY <2>1, <2>2
<1>4. Pair(c, o, os)
  <2> HIDE DEF self, sels, q
  <2> QED BY <1>1, <1>3, RowPair
<1>5. Pair(c, all, alls)
  <2>1. Idle(c, all) /\ Idle(s, alls)
    BY WaitIdle
  <2> QED BY <2>1, IdlePair
<1>6. /\ Attention(c, t, n, batch)
           = (<< As("attn_qkv_proj", proj) >> \o InModule("self_attention", self))
             \o << As("attn_o_proj", o), As("all_reduce", all) >>
      /\ Attention(s, u, 1, batch)
           = (<< As("attn_qkv_proj", pros) >> \o InModule("self_attention", sels))
             \o << As("attn_o_proj", os), As("all_reduce", alls) >>
  BY <1>1 DEF Attention
<1> HIDE DEF proj, pros, self, sels, o, os, all, alls
<1>7. Matched(c, << As("attn_qkv_proj", proj) >>, << As("attn_qkv_proj", pros) >>)
  BY <1>2, PairAs, MatchedOne
<1>8. Matched(c, << As("attn_o_proj", o), As("all_reduce", all) >>,
                 << As("attn_o_proj", os), As("all_reduce", alls) >>)
  BY <1>4, <1>5, PairAs, MatchedTwo
<1> QED BY <1>3, <1>6, <1>7, <1>8, AroundMatched

\* The latent projections are the same in a rank and in the whole.
LEMMA SameLinear ==
  ASSUME NEW c, SystemType(c), NEW t, NEW u, NEW m, NEW k, NEW r \in Positive,
         Tensors(t, u, m, k, k)
  PROVE  LET a == Linear(c, t, k, r)
             b == Linear(Unsharded(c), u, k, r)
         IN Pair(c, a, b) /\ Tensors(a.out, b.out, m, r, r)
<1>1. k \in Positive
  BY DEF Tensors
<1>2. ShareOf(c, 1, k, r, k, r)
  BY <1>1 DEF ShareOf, Positive
<1> QED BY <1>2, LinearPair

LEMMA LatentDownMatched ==
  ASSUME NEW c, SystemType(c), c.model.qk_rope_head_dim # 0, NEW batch, NEW t, NEW u, NEW m,
         Tensors(t, u, m, c.model.hidden_dim, c.model.hidden_dim)
  PROVE  LET as == LatentDown(c, t, batch)
             bs == LatentDown(Unsharded(c), u, batch)
         IN /\ Matched(c, as, bs)
            /\ Tensors(as[5].out, bs[5].out, m, c.model.q_lora_rank, c.model.q_lora_rank)
            /\ Tensors(as[6].out, bs[6].out, m, c.model.kv_lora_rank, c.model.kv_lora_rank)
<1> DEFINE s == Unsharded(c)
           q == c.model.q_lora_rank
           v == c.model.kv_lora_rank
           r == c.model.qk_rope_head_dim
           qd == Linear(c, t, c.model.hidden_dim, q)
           qs == Linear(s, u, c.model.hidden_dim, q)
           vd == Linear(c, t, c.model.hidden_dim, v)
           vs == Linear(s, u, c.model.hidden_dim, v)
           kr == Linear(c, t, c.model.hidden_dim, r)
           ks == Linear(s, u, c.model.hidden_dim, r)
           rope == RoPE(c, kr.out, batch)
           rops == RoPE(s, ks.out, batch)
           qn == LayerNorm(c, qd.out, q)
           qm == LayerNorm(s, qs.out, q)
           vn == LayerNorm(c, vd.out, v)
           vm == LayerNorm(s, vs.out, v)
<1>1. s.model = c.model /\ q \in Positive /\ v \in Positive /\ r \in Positive
  BY UnshardedFields DEF SystemType, Model, Positive
<1>2. /\ Pair(c, qd, qs) /\ Tensors(qd.out, qs.out, m, q, q)
      /\ Pair(c, vd, vs) /\ Tensors(vd.out, vs.out, m, v, v)
      /\ Pair(c, kr, ks)
  BY <1>1, SameLinear
<1>3. LatentDown(c, t, batch)
        = << As("attn_q_down_proj", qd), As("attn_kv_down_proj", vd), As("attn_kr_proj", kr),
             As("k_rope", rope), As("latent_q_layer_norm", qn), As("latent_kv_layer_norm", vn) >>
  BY DEF LatentDown
<1>4. LatentDown(s, u, batch)
        = << As("attn_q_down_proj", qs), As("attn_kv_down_proj", vs), As("attn_kr_proj", ks),
             As("k_rope", rops), As("latent_q_layer_norm", qm), As("latent_kv_layer_norm", vm) >>
  BY <1>1 DEF LatentDown
<1> HIDE DEF qd, qs, vd, vs, kr, ks, q, v, r
<1>5. /\ Idle(c, qn) /\ qn.out = qd.out /\ Idle(s, qm) /\ qm.out = qs.out
      /\ Idle(c, vn) /\ vn.out = vd.out /\ Idle(s, vm) /\ vm.out = vs.out
      /\ Idle(c, rope) /\ Idle(s, rops)
  <2>1. qd.out.shape[2] = q /\ qs.out.shape[2] = q /\ vd.out.shape[2] = v /\ vs.out.shape[2] = v
    BY <1>2 DEF Tensors
  <2> DEFINE normed(x, z, w) == Idle(x, LayerNorm(x, z, w)) /\ LayerNorm(x, z, w).out = z
             long(z, w) == z.shape[2] = w
  <2>2. ASSUME NEW x, NEW z, NEW w, long(z, w) PROVE normed(x, z, w)
    BY <2>2, NormIdle
  <2>3. long(qd.out, q) /\ long(qs.out, q) /\ long(vd.out, v) /\ long(vs.out, v)
    BY <2>1
  <2> HIDE DEF normed, long
  <2>5. /\ normed(c, qd.out, q) /\ normed(s, qs.out, q)
        /\ normed(c, vd.out, v) /\ normed(s, vs.out, v)
    BY <2>2, <2>3
  <2>4. Idle(c, rope) /\ Idle(s, rops)
    BY ChargedIdle
  <2> QED BY <2>4, <2>5 DEF normed
<1> HIDE DEF rope, rops, qn, qm, vn, vm
<1>6. Pair(c, qn, qm) /\ Pair(c, vn, vm) /\ Pair(c, rope, rops)
  BY <1>5, IdlePair
<1>7. /\ Pair(c, As("attn_q_down_proj", qd), As("attn_q_down_proj", qs))
      /\ Pair(c, As("attn_kv_down_proj", vd), As("attn_kv_down_proj", vs))
      /\ Pair(c, As("attn_kr_proj", kr), As("attn_kr_proj", ks))
      /\ Pair(c, As("k_rope", rope), As("k_rope", rops))
      /\ Pair(c, As("latent_q_layer_norm", qn), As("latent_q_layer_norm", qm))
      /\ Pair(c, As("latent_kv_layer_norm", vn), As("latent_kv_layer_norm", vm))
  BY <1>2, <1>6, PairAs
<1>8. /\ As("latent_q_layer_norm", qn).out = qn.out /\ As("latent_q_layer_norm", qm).out = qm.out
      /\ As("latent_kv_layer_norm", vn).out = vn.out /\ As("latent_kv_layer_norm", vm).out = vm.out
  BY <1>6, PairAs
<1>9. Matched(c, LatentDown(c, t, batch), LatentDown(s, u, batch))
  BY <1>3, <1>4, <1>7, MatchedSix
<1>10. /\ LatentDown(c, t, batch)[5] = As("latent_q_layer_norm", qn)
       /\ LatentDown(s, u, batch)[5] = As("latent_q_layer_norm", qm)
       /\ LatentDown(c, t, batch)[6] = As("latent_kv_layer_norm", vn)
       /\ LatentDown(s, u, batch)[6] = As("latent_kv_layer_norm", vm)
  BY <1>3, <1>4
<1> QED BY <1>2, <1>5, <1>8, <1>9, <1>10 DEF q, v

\* A request processes tokens of its context.
Spans == { s \in RequestType : s.m <= s.n }

LEMMA RestoreMatched ==
  ASSUME NEW c, SystemType(c), c.model.qk_rope_head_dim # 0, NEW batch \in Seq(Spans),
         NEW t, NEW u, NEW m, Tensors(t, u, m, c.model.kv_lora_rank, c.model.kv_lora_rank)
  PROVE  LET a == CompressedKVRestore(c, t, batch)
             b == CompressedKVRestore(Unsharded(c), u, batch)
         IN Pair(c, a, b)
            /\ \E k \in Nat : Tensors(a.out, b.out, k, c.model.kv_lora_rank, c.model.kv_lora_rank)
<1> DEFINE s == Unsharded(c)
           v == c.model.kv_lora_rank
           gen == get_gen(batch)
           rows == Tokens(get_sum(batch)) + OverSequences(LAMBDA x : x.n - x.m, gen) + Len(gen)
           out == IF c.model.compressed_kv THEN Tensor(<< rows, v >>) ELSE Tensor(t.shape)
           ous == IF c.model.compressed_kv THEN Tensor(<< rows, v >>) ELSE Tensor(u.shape)
<1>1. s.model = c.model /\ v \in Positive
  BY UnshardedFields DEF SystemType, Model
<1>2. rows \in Nat
  <2>1. batch \in Seq(RequestType)
    BY DEF Spans
  <2>2. gen \in Seq(Spans)
    BY AmongType DEF get_gen
  <2> HIDE DEF gen
  <2>3. Tokens(get_sum(batch)) \in Nat /\ Len(gen) \in Nat
    BY <2>1, <2>2, BatchType
  <2> DEFINE f == [j \in 1 .. Len(gen) |-> gen[j].n - gen[j].m]
  <2>4. \A j \in 1 .. Len(gen) : gen[j].n - gen[j].m \in Nat
    BY <2>2 DEF Spans, RequestType
  <2>5. DOMAIN f = 1 .. Len(gen) /\ IsFiniteSet(DOMAIN f) /\ \A j \in DOMAIN f : f[j] \in Nat
    BY <2>2, <2>4, SeqDomain
  <2>6. rows = Tokens(get_sum(batch)) + Total(f) + Len(gen)
    BY DEF OverSequences
  <2> HIDE DEF f
  <2> HIDE DEF rows
  <2>7. Total(f) \in Nat
    BY <2>5, TotalType
  <2> QED BY <2>3, <2>6, <2>7
<1>3. /\ CompressedKVRestore(c, t, batch) = Plain(c, t, out)
      /\ CompressedKVRestore(s, u, batch) = Plain(s, u, ous)
  BY <1>1 DEF CompressedKVRestore
<1> HIDE DEF rows, v
<1>4. \E k \in Nat : Tensors(out, ous, k, v, v)
  <2>1. CASE c.model.compressed_kv
    <3>1. Tensors(Tensor(<< rows, v >>), Tensor(<< rows, v >>), rows, v, v)
      BY <1>1, <1>2, PlainTensors
    <3> QED BY <1>2, <2>1, <3>1
  <2>2. CASE ~c.model.compressed_kv
    <3>1. m \in Nat /\ t.shape = << m, v >> /\ u.shape = << m, v >>
      BY DEF Tensors, v
    <3>2. Tensors(Tensor(<< m, v >>), Tensor(<< m, v >>), m, v, v)
      BY <1>1, <3>1, PlainTensors
    <3> QED BY <2>2, <3>1, <3>2
  <2> QED BY <2>1, <2>2
<1> HIDE DEF out, ous
<1>5. Idle(c, Plain(c, t, out)) /\ Plain(c, t, out).out = out
      /\ Idle(s, Plain(s, u, ous)) /\ Plain(s, u, ous).out = ous
  BY PlainIdle
<1>6. Pair(c, Plain(c, t, out), Plain(s, u, ous))
  BY <1>5, IdlePair
<1> QED BY <1>3, <1>4, <1>5, <1>6 DEF v

\* Columns for the heads' parts of a projection.
LEMMA ColumnsOfHeads ==
  ASSUME NEW c, SystemType(c), NEW d \in Positive
  PROVE  LET n == c.ne_tp_dg
             r == c.model.num_heads * d
         IN r \in Positive /\ r % n = 0 /\ Degree(c, n)
<1> QED BY HeadShare, Shared

LEMMA BaselineMatched ==
  ASSUME NEW c, SystemType(c), c.model.qk_rope_head_dim # 0, NEW batch \in Seq(Spans),
         NEW t, NEW u, NEW m, Tensors(t, u, m, c.model.hidden_dim, c.model.hidden_dim)
  PROVE  Matched(c, BaselineAttention(c, t, c.ne_tp_dg, batch),
                    BaselineAttention(Unsharded(c), u, 1, batch))
<1> DEFINE s == Unsharded(c)
           n == c.ne_tp_dg
           h == c.model.hidden_dim
           q == c.model.q_lora_rank
           v == c.model.kv_lora_rank
           r1 == c.model.num_heads * c.model.qk_nope_head_dim
           r2 == c.model.num_heads * c.model.qk_rope_head_dim
           r3 == c.model.num_heads * 2 * c.model.head_dim
           k == c.model.head_dim * c.model.num_heads
           down == LatentDown(c, t, batch)
           dows == LatentDown(s, u, batch)
           res == CompressedKVRestore(c, down[6].out, batch)
           ress == CompressedKVRestore(s, dows[6].out, batch)
           qu == ColumnParallelLinear(c, down[5].out, n, q, r1)
           qs == ColumnParallelLinear(s, dows[5].out, 1, q, r1)
           qr == ColumnParallelLinear(c, down[5].out, n, q, r2)
           qt == ColumnParallelLinear(s, dows[5].out, 1, q, r2)
           kv == ColumnParallelLinear(c, res.out, n, v, r3)
           kw == ColumnParallelLinear(s, ress.out, 1, v, r3)
           att == MultiLatentAttentionParallel(c, qu.out, n, batch)
           ats == MultiLatentAttentionParallel(s, qs.out, 1, batch)
           o == RowParallelLinear(c, Output(att), n, k, h)
           os == RowParallelLinear(s, Output(ats), 1, k, h)
           all == AllReduce(c, o.out, n)
           alls == AllReduce(s, os.out, 1)
<1>1. s.model = c.model /\ h \in Positive /\ Degree(c, n) /\ h % n = 0 /\ q \in Positive /\ v \in Positive
  BY UnshardedFields, HeadShare DEF SystemType, Model, Shardable
<1>2. /\ r1 \in Positive /\ r1 % n = 0 /\ r2 \in Positive /\ r2 % n = 0
      /\ r3 \in Positive /\ r3 % n = 0
  <2>1. /\ c.model.qk_nope_head_dim \in Positive /\ c.model.qk_rope_head_dim \in Positive
        /\ c.model.head_dim \in Positive
    BY DEF SystemType, Model, Positive
  <2>2. r1 \in Positive /\ r1 % n = 0 /\ r2 \in Positive /\ r2 % n = 0
    BY <2>1, ColumnsOfHeads
  <2>3. 2 * c.model.head_dim \in Positive
    BY <2>1 DEF Positive
  <2>4. c.model.num_heads * (2 * c.model.head_dim) \in Positive
        /\ (c.model.num_heads * (2 * c.model.head_dim)) % n = 0
    <3> DEFINE e == 2 * c.model.head_dim
    <3> HIDE DEF e
    <3>1. c.model.num_heads * e \in Positive /\ (c.model.num_heads * e) % n = 0
      BY <2>3, ColumnsOfHeads DEF e
    <3> QED BY <3>1 DEF e
  <2>5. r3 = c.model.num_heads * (2 * c.model.head_dim)
    <3>1. c.model.num_heads \in Int /\ c.model.head_dim \in Int
      BY <2>1, HeadShare DEF Positive
    <3> QED BY <3>1
  <2> QED BY <2>2, <2>4, <2>5
<1>3. /\ Matched(c, down, dows) /\ Tensors(down[5].out, dows[5].out, m, q, q)
      /\ Tensors(down[6].out, dows[6].out, m, v, v)
  BY LatentDownMatched
<1>4. k \in Positive /\ k % n = 0 /\ k = c.model.num_heads * c.model.head_dim
      /\ k \div n = Heads(c, n) * c.model.head_dim
  BY HeadColumns
<1> HIDE DEF down, dows, q, v, r1, r2, r3
<1>5. Pair(c, res, ress) /\ \E y \in Nat : Tensors(res.out, ress.out, y, v, v)
  BY <1>3, RestoreMatched DEF v
<1>6. Pair(c, qu, qs) /\ Pair(c, qr, qt)
  BY <1>1, <1>2, <1>3, ColumnPair
<1> HIDE DEF res, ress
<1>7. Pair(c, kv, kw)
  BY <1>1, <1>2, <1>5, ColumnPair
<1> HIDE DEF qu, qs
<1>8. Matched(c, att, ats) /\ Tensors(Output(att), Output(ats), Tokens(batch), k \div n, k)
  <2>1. batch \in Seq(RequestType)
    BY DEF Spans
  <2>2. /\ Matched(c, att, ats)
        /\ Tensors(Output(att), Output(ats), Tokens(batch), Heads(c, n) * c.model.head_dim,
                   c.model.num_heads * c.model.head_dim)
    BY <2>1, LatentAttentionMatched
  <2> HIDE DEF att, ats, k
  <2> QED BY <1>4, <2>2
<1> HIDE DEF att, ats, k
<1>9. Pair(c, o, os)
  BY <1>1, <1>4, <1>8, RowPair
<1>10. Pair(c, all, alls)
  <2>1. Idle(c, all) /\ Idle(s, alls)
    BY WaitIdle
  <2> QED BY <2>1, IdlePair
<1>11. BaselineAttention(c, t, n, batch)
         = ((down \o << As("c_kv_restore", res), As("attn_q_up_proj", qu), As("attn_qr_proj", qr),
                       As("attn_kv_up_proj", kv) >>)
              \o InModule("multi_latent_attention", att))
             \o << As("attn_o_proj", o), As("all_reduce", all) >>
  BY DEF BaselineAttention, down, res, qu, att, q, v, r1, r2, r3, k
<1>12. BaselineAttention(s, u, 1, batch)
         = ((dows \o << As("c_kv_restore", ress), As("attn_q_up_proj", qs), As("attn_qr_proj", qt),
                       As("attn_kv_up_proj", kw) >>)
              \o InModule("multi_latent_attention", ats))
             \o << As("attn_o_proj", os), As("all_reduce", alls) >>
  BY <1>1 DEF BaselineAttention, dows, ress, qs, ats, q, v, r1, r2, r3, k
<1> HIDE DEF qr, qt, kv, kw, o, os, all, alls
<1> DEFINE four == << As("c_kv_restore", res), As("attn_q_up_proj", qu), As("attn_qr_proj", qr),
                      As("attn_kv_up_proj", kv) >>
           fous == << As("c_kv_restore", ress), As("attn_q_up_proj", qs), As("attn_qr_proj", qt),
                      As("attn_kv_up_proj", kw) >>
<1>13. Matched(c, four, fous)
  BY <1>5, <1>6, <1>7, PairAs, MatchedFour
<1>14. Matched(c, << As("attn_o_proj", o), As("all_reduce", all) >>,
                 << As("attn_o_proj", os), As("all_reduce", alls) >>)
  BY <1>9, <1>10, PairAs, MatchedTwo
<1> HIDE DEF four, fous
<1>15. Matched(c, down \o four, dows \o fous)
  BY <1>3, <1>13, MatchedJoin
<1> QED BY <1>8, <1>11, <1>12, <1>14, <1>15, AroundMatched DEF four, fous

LEMMA AbsorbedAttentionMatched ==
  ASSUME NEW c, SystemType(c), c.model.qk_rope_head_dim # 0, NEW batch \in Seq(Spans),
         NEW t, NEW u, NEW m, Tensors(t, u, m, c.model.hidden_dim, c.model.hidden_dim)
  PROVE  Matched(c, AbsorbedAttention(c, t, c.ne_tp_dg, batch),
                    AbsorbedAttention(Unsharded(c), u, 1, batch))
<1> DEFINE s == Unsharded(c)
           n == c.ne_tp_dg
           h == c.model.hidden_dim
           q == c.model.q_lora_rank
           v == c.model.kv_lora_rank
           g == c.model.num_heads
           d == c.model.head_dim
           r == c.model.qk_rope_head_dim
           down == LatentDown(c, t, batch)
           dows == LatentDown(s, u, batch)
           qu == BatchedColumnParallelLinear(c, down[5].out, n, q, g * d, TRUE)
           qs == BatchedColumnParallelLinear(s, dows[5].out, 1, q, g * d, TRUE)
           qr == BatchedColumnParallelLinear(c, down[5].out, n, q, g * r, TRUE)
           qt == BatchedColumnParallelLinear(s, dows[5].out, 1, q, g * r, TRUE)
           rope == BatchedRoPE(c, qr.out, Heads(c, n), batch)
           rops == BatchedRoPE(s, qt.out, Heads(s, 1), batch)
           tr == BatchedRowParallelLinear(c, qu.out, n, d * g, v)
           ts == BatchedRowParallelLinear(s, qs.out, 1, d * g, v)
           att == AbsorbMLAParallel(c, tr.out, n, batch)
           ats == AbsorbMLAParallel(s, ts.out, 1, batch)
           vu == BatchedColumnParallelLinear(c, Output(att), n, v, g * d, FALSE)
           vs == BatchedColumnParallelLinear(s, Output(ats), 1, v, g * d, FALSE)
           o == PlainRowParallelLinear(c, vu.out, n, g * d, h)
           os == PlainRowParallelLinear(s, vs.out, 1, g * d, h)
           all == AllReduce(c, o.out, n)
           alls == AllReduce(s, os.out, 1)
<1>1. /\ s.model = c.model /\ h \in Positive /\ q \in Positive /\ v \in Positive /\ d \in Positive
      /\ r \in Positive /\ c.model.qk_nope_head_dim = d
  BY UnshardedFields DEF SystemType, Model, Positive
<1>2. /\ Matched(c, down, dows) /\ Tensors(down[5].out, dows[5].out, m, q, q)
  BY LatentDownMatched
<1> HIDE DEF down, dows
<1>3. /\ Pair(c, qu, qs) /\ Tensors(qu.out, qs.out, m, d, d)
      /\ Pair(c, qr, qt)
  <2>1. ASSUME NEW y \in Positive, NEW x \in {y}
        PROVE  /\ Pair(c, BatchedColumnParallelLinear(c, down[5].out, n, q, g * x, TRUE),
                          BatchedColumnParallelLinear(s, dows[5].out, 1, q, g * x, TRUE))
               /\ Tensors(BatchedColumnParallelLinear(c, down[5].out, n, q, g * x, TRUE).out,
                          BatchedColumnParallelLinear(s, dows[5].out, 1, q, g * x, TRUE).out, m, x, x)
    BY <1>2, BatchedColumnPair
  <2> QED BY <1>1, <2>1
<1> HIDE DEF qu, qs
<1>4. Pair(c, tr, ts)
  BY <1>1, <1>3, BatchedRowPair
<1> HIDE DEF tr, ts
<1>5. Matched(c, att, ats) /\ Tensors(Output(att), Output(ats), Tokens(batch), v, v)
  <2>1. batch \in Seq(RequestType)
    BY DEF Spans
  <2> QED BY <2>1, AbsorbedMatched
<1> HIDE DEF att, ats
<1>6. Pair(c, vu, vs) /\ Tensors(vu.out, vs.out, Tokens(batch), d, d)
  BY <1>1, <1>5, BatchedColumnPair
<1> HIDE DEF vu, vs
<1>7. Pair(c, o, os)
  BY <1>1, <1>6, PlainRowPair
<1>8. Pair(c, all, alls) /\ Pair(c, rope, rops)
  <2>1. Idle(c, all) /\ Idle(s, alls) /\ Idle(c, rope) /\ Idle(s, rops)
    BY WaitIdle, ChargedIdle
  <2> QED BY <2>1, IdlePair
<1>9. AbsorbedAttention(c, t, n, batch)
         = ((down \o << As("attn_q_up_proj", qu), As("attn_qr_proj", qr), As("q_rope", rope),
                       As("attn_tr_k_up_proj", tr) >>)
              \o InModule("attn_mla_absorbed", att))
             \o << As("attn_v_up_proj", vu), As("attn_o_proj", o), As("all_reduce", all) >>
  BY <1>1 DEF AbsorbedAttention, down, qu, tr, att, vu
<1>10. AbsorbedAttention(s, u, 1, batch)
         = ((dows \o << As("attn_q_up_proj", qs), As("attn_qr_proj", qt), As("q_rope", rops),
                       As("attn_tr_k_up_proj", ts) >>)
              \o InModule("attn_mla_absorbed", ats))
             \o << As("attn_v_up_proj", vs), As("attn_o_proj", os), As("all_reduce", alls) >>
  BY <1>1 DEF AbsorbedAttention, dows, qs, ts, ats, vs
<1> HIDE DEF qr, qt, o, os, all, alls, rope, rops
<1> DEFINE four == << As("attn_q_up_proj", qu), As("attn_qr_proj", qr), As("q_rope", rope),
                       As("attn_tr_k_up_proj", tr) >>
           fous == << As("attn_q_up_proj", qs), As("attn_qr_proj", qt), As("q_rope", rops),
                       As("attn_tr_k_up_proj", ts) >>
<1>11. Matched(c, four, fous)
  BY <1>3, <1>4, <1>8, PairAs, MatchedFour
<1>12. Matched(c, << As("attn_v_up_proj", vu), As("attn_o_proj", o), As("all_reduce", all) >>,
                 << As("attn_v_up_proj", vs), As("attn_o_proj", os), As("all_reduce", alls) >>)
  BY <1>6, <1>7, <1>8, PairAs, MatchedThree
<1> HIDE DEF four, fous
<1>13. Matched(c, down \o four, dows \o fous)
  BY <1>2, <1>11, MatchedJoin
<1> QED BY <1>5, <1>9, <1>10, <1>12, <1>13, AroundMatched DEF four, fous

---------------------------------------------------------------------------
(* Experts.                                                                *)

\* The calls of several modules, one after the other.
LEMMA MatchedNone == ASSUME NEW c PROVE Matched(c, << >>, << >>)
<1>1. << >> \in Seq({}) /\ Len(<< >>) = 0 /\ 1 .. 0 = {}
  OBVIOUS
<1> QED BY <1>1 DEF Matched

LEMMA MatchedFlatten ==
  ASSUME NEW c, NEW n \in Nat, NEW ss, NEW tt, DOMAIN ss = 1 .. n, DOMAIN tt = 1 .. n,
         ss = [k \in 1 .. n |-> ss[k]], tt = [k \in 1 .. n |-> tt[k]],
         \A k \in 1 .. n : Matched(c, ss[k], tt[k])
  PROVE  Matched(c, FlattenSeq(ss), FlattenSeq(tt))
<1> DEFINE S == { ss[z[1]][z[2]] : z \in (1 .. n) \X Nat } \cup { tt[z[1]][z[2]] : z \in (1 .. n) \X Nat }
<1>1. ASSUME NEW k \in 1 .. n PROVE ss[k] \in Seq(S) /\ tt[k] \in Seq(S)
  <2>1. PICK R : ss[k] \in Seq(R) /\ tt[k] \in Seq(R)
    BY DEF Matched
  <2>2. ASSUME NEW j \in Nat PROVE ss[k][j] \in S /\ tt[k][j] \in S
    <3>1. << k, j >> \in (1 .. n) \X Nat /\ << k, j >>[1] = k /\ << k, j >>[2] = j
      OBVIOUS
    <3> QED BY <3>1
  <2> HIDE DEF S
  <2>3. ASSUME NEW q, q \in Seq(R), \A j \in 1 .. Len(q) : q[j] \in S PROVE q \in Seq(S)
    <3>1. Len(q) \in Nat /\ q = [j \in 1 .. Len(q) |-> q[j]]
      BY <2>3
    <3>2. q \in [1 .. Len(q) -> S]
      BY <2>3, <3>1
    <3> QED BY <3>1, <3>2, SequenceOfFunction
  <2> QED BY <2>1, <2>2, <2>3
<1> HIDE DEF S
<1>2. /\ ss \in Seq(Seq(S)) /\ Len(ss) = n /\ tt \in Seq(Seq(S)) /\ Len(tt) = n
  <2>1. ss \in [1 .. n -> Seq(S)] /\ tt \in [1 .. n -> Seq(S)]
    BY <1>1
  <2> QED BY <2>1, SequenceOfFunction
<1>3. PICK h : Joins(h, S, ss) /\ FlattenSeq(ss) = h[Len(ss)]
  BY <1>2, FlattenIs
<1>4. PICK g : Joins(g, S, tt) /\ FlattenSeq(tt) = g[Len(tt)]
  BY <1>2, FlattenIs
<1>5. /\ h[0] = << >> /\ \A j \in 1 .. n : h[j] = h[j - 1] \o ss[j]
      /\ g[0] = << >> /\ \A j \in 1 .. n : g[j] = g[j - 1] \o tt[j]
  BY <1>2, <1>3, <1>4 DEF Joins
<1> DEFINE Good == { j \in 0 .. n : Matched(c, h[j], g[j]) }
<1>6. 0 \in Good
  <2>1. Matched(c, h[0], g[0])
    BY <1>5, MatchedNone
  <2> QED BY <2>1
<1>7. ASSUME NEW j \in 0 .. n - 1, j \in Good PROVE j + 1 \in Good
  <2>1. j + 1 \in 1 .. n /\ (j + 1) - 1 = j /\ j + 1 \in 0 .. n
    OBVIOUS
  <2>2. h[j + 1] = h[j] \o ss[j + 1] /\ g[j + 1] = g[j] \o tt[j + 1]
    BY <1>5, <2>1
  <2>3. Matched(c, h[j], g[j]) /\ Matched(c, ss[j + 1], tt[j + 1])
    BY <1>7, <2>1
  <2>4. Matched(c, h[j + 1], g[j + 1])
    BY <2>2, <2>3, MatchedJoin
  <2> QED BY <2>1, <2>4
<1> HIDE DEF Good
<1>8. \A j \in 0 .. n : j \in Good
  BY <1>6, <1>7, BoundedInduction
<1>9. n \in 0 .. n
  OBVIOUS
<1> QED BY <1>2, <1>3, <1>4, <1>8, <1>9 DEF Good

\* The rows of an expert, in a rank and in the whole.
LEMMA ExpertTensors ==
  ASSUME NEW c, SystemType(c), NEW rows \in Nat, NEW isHigh
  PROVE  Tensors(ExpertInput(c, rows, isHigh), ExpertInput(Unsharded(c), rows, isHigh), rows,
                 c.model.hidden_dim, c.model.hidden_dim)
<1> DEFINE s == Unsharded(c)
           h == c.model.hidden_dim
           t == Tensor(<< rows, h >>)
           Lane == IF c.hetero_subbatch THEN "low"
                   ELSE IF c.parallel_execution THEN (IF isHigh THEN "high" ELSE "low")
                   ELSE "low"
           Free == ~c.hetero_subbatch /\ ~c.parallel_execution /\ ~c.use_low_unit_moe_only
<1>1. s.model = c.model /\ s.hetero_subbatch = c.hetero_subbatch
      /\ s.parallel_execution = c.parallel_execution
      /\ s.use_low_unit_moe_only = c.use_low_unit_moe_only /\ h \in Positive
      /\ c.hetero_subbatch \in BOOLEAN /\ c.parallel_execution \in BOOLEAN
      /\ c.use_low_unit_moe_only \in BOOLEAN
  BY UnshardedFields DEF SystemType, Model
<1> HIDE DEF s, h
<1>2. /\ ExpertInput(c, rows, isHigh)
           = IF Free THEN [t EXCEPT !.optimal = TRUE] ELSE InLane(t, Lane)
      /\ ExpertInput(s, rows, isHigh)
           = IF Free THEN [t EXCEPT !.optimal = TRUE] ELSE InLane(t, Lane)
  BY <1>1 DEF ExpertInput, h
<1> DEFINE x == IF Free THEN [t EXCEPT !.optimal = TRUE] ELSE InLane(t, Lane)
<1>3. DOMAIN x = TensorFields /\ x.shape = << rows, h >>
  BY DEF Tensor, InLane, TensorFields
<1> HIDE DEF x
<1> QED BY <1>1, <1>2, <1>3 DEF Tensors, Alike, s, h, x

\* The experts of a device, one after the other.
LEMMA ExpertsMatched ==
  ASSUME NEW c, SystemType(c), NEW rows \in Seq(Nat), NEW high
  PROVE  Matched(c,
           FlattenSeq([e \in 1 .. Len(rows) |->
             InModule("expert_FFN", FeedForward(c, ExpertInput(c, rows[e], e \in high), c.e_tp_dg,
                                                c.model.expert_intermediate_dim, FALSE))]),
           FlattenSeq([e \in 1 .. Len(rows) |->
             InModule("expert_FFN", FeedForward(Unsharded(c), ExpertInput(Unsharded(c), rows[e], e \in high), 1,
                                                c.model.expert_intermediate_dim, FALSE))]))
<1> DEFINE s == Unsharded(c)
           n == Len(rows)
           d == c.model.expert_intermediate_dim
           A(e) == FeedForward(c, ExpertInput(c, rows[e], e \in high), c.e_tp_dg, d, FALSE)
           B(e) == FeedForward(s, ExpertInput(s, rows[e], e \in high), 1, d, FALSE)
           ss == [e \in 1 .. n |-> InModule("expert_FFN", A(e))]
           tt == [e \in 1 .. n |-> InModule("expert_FFN", B(e))]
<1>1. n \in Nat /\ \A e \in 1 .. n : rows[e] \in Nat
  OBVIOUS
<1>2. /\ d \in Positive /\ Degree(c, c.e_tp_dg) /\ d % c.e_tp_dg = 0
      /\ c.model.hidden_dim % c.e_tp_dg = 0
  BY DEF SystemType, Model, Shardable, Degree
<1>3. ASSUME NEW e \in 1 .. n PROVE Matched(c, A(e), B(e))
  <2> DEFINE t == ExpertInput(c, rows[e], e \in high)
             u == ExpertInput(s, rows[e], e \in high)
  <2>1. Tensors(t, u, rows[e], c.model.hidden_dim, c.model.hidden_dim)
    <3> DEFINE isHigh == e \in high
    <3>1. isHigh = (e \in high)
      OBVIOUS
    <3> HIDE DEF isHigh
    <3>2. rows[e] \in Nat
      BY <1>1
    <3>3. Tensors(ExpertInput(c, rows[e], isHigh), ExpertInput(s, rows[e], isHigh), rows[e],
                  c.model.hidden_dim, c.model.hidden_dim)
      BY <3>2, ExpertTensors
    <3> QED BY <3>3 DEF isHigh
  <2> HIDE DEF t, u
  <2>2. Matched(c, FeedForward(c, t, c.e_tp_dg, d, FALSE), FeedForward(s, u, 1, d, FALSE))
    <3> HIDE DEF d
    <3> QED BY <1>2, <2>1, FeedForwardMatched
  <2> QED BY <2>2 DEF t, u
<1> HIDE DEF A, B
<1>4. ASSUME NEW e \in 1 .. n PROVE Matched(c, ss[e], tt[e])
  <2>1. Matched(c, InModule("expert_FFN", A(e)), InModule("expert_FFN", B(e)))
    BY <1>3, MatchedIn
  <2> QED BY <2>1
<1>5. /\ DOMAIN ss = 1 .. n /\ DOMAIN tt = 1 .. n
      /\ ss = [k \in 1 .. n |-> ss[k]] /\ tt = [k \in 1 .. n |-> tt[k]]
  OBVIOUS
<1> HIDE DEF ss, tt, n
<1>6. Matched(c, FlattenSeq(ss), FlattenSeq(tt))
  BY <1>1, <1>4, <1>5, MatchedFlatten
<1> QED BY <1>6 DEF ss, tt, A, B, n

LEMMA SharedMatched ==
  ASSUME NEW c, SystemType(c), NEW t, NEW u, NEW m,
         Tensors(t, u, m, c.model.hidden_dim, c.model.hidden_dim)
  PROVE  Matched(c,
           FlattenSeq([e \in 1 .. c.model.num_shared_expert |->
             InModule("shared_expert_FFN", FeedForward(c, t, c.ne_tp_dg, c.model.expert_intermediate_dim, TRUE))]),
           FlattenSeq([e \in 1 .. c.model.num_shared_expert |->
             InModule("shared_expert_FFN", FeedForward(Unsharded(c), u, 1, c.model.expert_intermediate_dim, TRUE))]))
<1> DEFINE s == Unsharded(c)
           n == c.model.num_shared_expert
           d == c.model.expert_intermediate_dim
           A == FeedForward(c, t, c.ne_tp_dg, d, TRUE)
           B == FeedForward(s, u, 1, d, TRUE)
           ss == [e \in 1 .. n |-> InModule("shared_expert_FFN", A)]
           tt == [e \in 1 .. n |-> InModule("shared_expert_FFN", B)]
<1>1. n \in Nat
  BY DEF SystemType, Model
<1>2. /\ d \in Positive /\ Degree(c, c.ne_tp_dg)
      /\ n > 0 => (c.model.ffn_way = 2 => d % c.ne_tp_dg = 0)
      /\ c.model.hidden_dim % c.ne_tp_dg = 0
  BY DEF SystemType, Model, Shardable, Degree
<1>3. ASSUME NEW e \in 1 .. n PROVE Matched(c, A, B)
  <2>1. n > 0
    BY <1>1
  <2>2. c.model.ffn_way = 2 \/ ~TRUE => d % c.ne_tp_dg = 0
    BY <1>2, <2>1
  <2> HIDE DEF d
  <2> DEFINE dp == TRUE
  <2>3. c.model.ffn_way = 2 \/ ~dp => d % c.ne_tp_dg = 0
    BY <2>2
  <2> HIDE DEF dp
  <2>4. Matched(c, FeedForward(c, t, c.ne_tp_dg, d, dp), FeedForward(s, u, 1, d, dp))
    BY <1>2, <2>3, FeedForwardMatched DEF d
  <2> QED BY <2>4 DEF dp
<1> HIDE DEF A, B
<1>4. ASSUME NEW e \in 1 .. n PROVE Matched(c, ss[e], tt[e])
  <2>1. Matched(c, InModule("shared_expert_FFN", A), InModule("shared_expert_FFN", B))
    BY <1>3, MatchedIn
  <2> QED BY <2>1
<1>5. /\ DOMAIN ss = 1 .. n /\ DOMAIN tt = 1 .. n
      /\ ss = [k \in 1 .. n |-> ss[k]] /\ tt = [k \in 1 .. n |-> tt[k]]
  OBVIOUS
<1> HIDE DEF ss, tt, n
<1>6. Matched(c, FlattenSeq(ss), FlattenSeq(tt))
  BY <1>1, <1>4, <1>5, MatchedFlatten
<1> QED BY <1>6 DEF ss, tt, A, B, n

---------------------------------------------------------------------------
(* Whole graphs.                                                           *)

LEMMA ExpertFFNMatched ==
  ASSUME NEW c, SystemType(c), NEW t, NEW m, NEW rows \in Seq(Nat), NEW high,
         c.model.num_routed_expert > 0,
         Tensors(t, t, m, c.model.hidden_dim, c.model.hidden_dim)
  PROVE  Matched(c, ExpertFFN(c, t, rows, high), ExpertFFN(Unsharded(c), t, rows, high))
<1> DEFINE s == Unsharded(c)
           h == c.model.hidden_dim
           r == c.model.num_routed_expert
           d == c.model.expert_intermediate_dim
           E(x, n) == FlattenSeq([e \in 1 .. Len(rows) |->
                        InModule("expert_FFN", FeedForward(x, ExpertInput(x, rows[e], e \in high), n, d, FALSE))])
           F(x, n) == FlattenSeq([e \in 1 .. c.model.num_shared_expert |->
                        InModule("shared_expert_FFN", FeedForward(x, t, n, d, TRUE))])
           gate(x) == ColumnParallelLinear(x, t, 1, h, r)
           sync(x) == Sync(x, t)
           route(x) == Plain(x, t, t)
           four(x) == << As("sync_0", sync(x)), As("gate_fn", gate(x)),
                         As("sync_for_moe_scatter", sync(x)), As("moe_route", route(x)) >>
           two(x) == << As("sync_2", sync(x)) >>
           six(x) == << As("sync_6", sync(x)) >>
<1>1. /\ s.model = c.model /\ s.ne_tp_dg = 1 /\ s.e_tp_dg = 1 /\ r \in Positive /\ r % 1 = 0
      /\ Degree(c, 1)
  <2>1. s.model = c.model /\ s.ne_tp_dg = 1 /\ s.e_tp_dg = 1 /\ Degree(c, 1)
    BY UnshardedFields DEF Degree
  <2>2. r \in Positive
    BY DEF SystemType, Model, Positive
  <2>3. r % 1 = 0
    BY <2>2 DEF Positive
  <2> QED BY <2>1, <2>2, <2>3
<1>2. /\ ExpertFFN(c, t, rows, high)
           = (((four(c) \o E(c, c.e_tp_dg)) \o two(c)) \o F(c, c.ne_tp_dg)) \o six(c)
      /\ ExpertFFN(s, t, rows, high)
           = (((four(s) \o E(s, 1)) \o two(s)) \o F(s, 1)) \o six(s)
  BY <1>1 DEF ExpertFFN
<1>3. Matched(c, E(c, c.e_tp_dg), E(s, 1))
  BY ExpertsMatched
<1>4. Matched(c, F(c, c.ne_tp_dg), F(s, 1))
  BY SharedMatched
<1>5. Pair(c, sync(c), sync(s)) /\ Pair(c, route(c), route(s))
  <2>1. Idle(c, sync(c)) /\ Idle(s, sync(s)) /\ Idle(c, route(c)) /\ Idle(s, route(s))
    BY WaitIdle, PlainIdle
  <2> QED BY <2>1, IdlePair
<1>6. Pair(c, gate(c), gate(s))
  <2>1. Tensors(t, t, m, h, h)
    OBVIOUS
  <2> HIDE DEF h, r
  <2> QED BY <1>1, <2>1, ColumnPair
<1> HIDE DEF E, F, gate, sync, route, s
<1>7. Matched(c, four(c), four(s))
  BY <1>5, <1>6, PairAs, MatchedFour
<1>8. Matched(c, two(c), two(s)) /\ Matched(c, six(c), six(s))
  BY <1>5, PairAs, MatchedOne
<1> HIDE DEF four, two, six
<1> DEFINE a1 == four(c) \o E(c, c.e_tp_dg)
           b1 == four(s) \o E(s, 1)
           a2 == a1 \o two(c)
           b2 == b1 \o two(s)
           a3 == a2 \o F(c, c.ne_tp_dg)
           b3 == b2 \o F(s, 1)
<1>9. Matched(c, a1, b1)
  BY <1>3, <1>7, MatchedJoin
<1> HIDE DEF a1, b1
<1>10. Matched(c, a2, b2)
  BY <1>8, <1>9, MatchedJoin
<1> HIDE DEF a2, b2
<1>11. Matched(c, a3, b3)
  BY <1>4, <1>10, MatchedJoin
<1> HIDE DEF a3, b3
<1>12. Matched(c, a3 \o six(c), b3 \o six(s))
  BY <1>8, <1>11, MatchedJoin
<1> QED BY <1>2, <1>12 DEF s, a1, b1, a2, b2, a3, b3

LEMMA AttentionOfMatched ==
  ASSUME NEW c, SystemType(c), NEW batch \in Seq(Spans), NEW t, NEW m,
         Tensors(t, t, m, c.model.hidden_dim, c.model.hidden_dim)
  PROVE  Matched(c, AttentionOf(c, t, batch), AttentionOf(Unsharded(c), t, batch))
<1> DEFINE s == Unsharded(c)
<1>1. s.model = c.model /\ s.ne_tp_dg = 1
  BY UnshardedFields
<1>2. batch \in Seq(RequestType)
  BY DEF Spans
<1>3. CASE c.model.qk_rope_head_dim = 0
  <2>1. /\ AttentionOf(c, t, batch) = InModule("attention", Attention(c, t, c.ne_tp_dg, batch))
        /\ AttentionOf(s, t, batch) = InModule("attention", Attention(s, t, 1, batch))
    BY <1>1, <1>3 DEF AttentionOf
  <2>2. Matched(c, Attention(c, t, c.ne_tp_dg, batch), Attention(s, t, 1, batch))
    BY <1>2, <1>3, AttentionMatched
  <2> QED BY <2>1, <2>2, MatchedIn
<1>4. CASE c.model.qk_rope_head_dim # 0 /\ c.model.use_absorb
  <2>1. /\ AttentionOf(c, t, batch)
             = InModule("attention", AbsorbedAttention(c, t, c.ne_tp_dg, batch))
        /\ AttentionOf(s, t, batch) = InModule("attention", AbsorbedAttention(s, t, 1, batch))
    BY <1>1, <1>4 DEF AttentionOf, MultiLatentAttention
  <2>2. Matched(c, AbsorbedAttention(c, t, c.ne_tp_dg, batch), AbsorbedAttention(s, t, 1, batch))
    BY <1>4, AbsorbedAttentionMatched
  <2> QED BY <2>1, <2>2, MatchedIn
<1>5. CASE c.model.qk_rope_head_dim # 0 /\ ~c.model.use_absorb
  <2>1. /\ AttentionOf(c, t, batch)
             = InModule("attention", BaselineAttention(c, t, c.ne_tp_dg, batch))
        /\ AttentionOf(s, t, batch) = InModule("attention", BaselineAttention(s, t, 1, batch))
    BY <1>1, <1>5 DEF AttentionOf, MultiLatentAttention
  <2>2. Matched(c, BaselineAttention(c, t, c.ne_tp_dg, batch), BaselineAttention(s, t, 1, batch))
    BY <1>5, BaselineMatched
  <2> QED BY <2>1, <2>2, MatchedIn
<1> QED BY <1>3, <1>4, <1>5

LEMMA DecoderMatched ==
  ASSUME NEW c, SystemType(c), NEW batch \in Seq(Spans)
  PROVE  Matched(c, Decoder(c, batch), Decoder(Unsharded(c), batch))
<1> DEFINE s == Unsharded(c)
           h == c.model.hidden_dim
           d == c.model.intermediate_dim
           t == Tensor(<< Tokens(batch), h >>)
           ff(x, n) == FeedForward(x, t, n, d, FALSE)
           norm(x) == LayerNorm(x, t, h)
           res(x) == Residual(x, t)
           all(x, n) == AllReduce(x, Output(ff(x, n)), n)
           one(x) == << As("input_layer_norm", norm(x)) >>
           two(x) == << As("residual_1", res(x)), As("post_attn_layer_norm", norm(x)) >>
           last(x, n) == << As("all_reduce", all(x, n)), As("residual_1", res(x)) >>
<1>1. s.model = c.model /\ s.ne_tp_dg = 1 /\ d \in Positive /\ d % c.ne_tp_dg = 0
      /\ h \in Positive /\ h % c.ne_tp_dg = 0 /\ Degree(c, c.ne_tp_dg)
  BY UnshardedFields DEF SystemType, Model, Shardable, Degree
<1>2. Tensors(t, t, Tokens(batch), h, h) /\ t.shape[2] = h
  <2>1. batch \in Seq(RequestType)
    BY DEF Spans
  <2>2. Tokens(batch) \in Nat
    BY <2>1, BatchType
  <2>3. Tensors(t, t, Tokens(batch), h, h)
    BY <1>1, <2>2, PlainTensors
  <2>4. t.shape[2] = h
    BY DEF Tensor
  <2> QED BY <2>3, <2>4
<1> HIDE DEF t
<1>3. /\ Decoder(c, batch)
           = (((one(c) \o AttentionOf(c, t, batch)) \o two(c))
               \o InModule("feedforward", ff(c, c.ne_tp_dg))) \o last(c, c.ne_tp_dg)
      /\ Decoder(s, batch)
           = (((one(s) \o AttentionOf(s, t, batch)) \o two(s))
               \o InModule("feedforward", ff(s, 1))) \o last(s, 1)
  BY <1>1 DEF Decoder, t
<1>4. Matched(c, ff(c, c.ne_tp_dg), ff(s, 1))
  <2> DEFINE dp == FALSE
  <2>1. c.model.ffn_way = 2 \/ ~dp => d % c.ne_tp_dg = 0
    BY <1>1
  <2> HIDE DEF dp, d
  <2>2. Matched(c, FeedForward(c, t, c.ne_tp_dg, d, dp), FeedForward(s, t, 1, d, dp))
    BY <1>1, <1>2, <2>1, FeedForwardMatched
  <2> QED BY <2>2 DEF dp
<1> HIDE DEF ff
<1>5. Pair(c, norm(c), norm(s))
  <2> DEFINE normed(x, z, w) == Idle(x, LayerNorm(x, z, w))
             long(z, w) == z.shape[2] = w
  <2>1. ASSUME NEW x, NEW z, NEW w, long(z, w) PROVE normed(x, z, w)
    BY <2>1, NormIdle
  <2>2. long(t, h)
    BY <1>2
  <2> HIDE DEF normed, long
  <2>3. normed(c, t, h) /\ normed(s, t, h)
    BY <2>1, <2>2
  <2> QED BY <2>3, IdlePair DEF normed
<1>6. Pair(c, res(c), res(s)) /\ Pair(c, all(c, c.ne_tp_dg), all(s, 1))
  <2>1. Idle(c, res(c)) /\ Idle(s, res(s)) /\ Idle(c, all(c, c.ne_tp_dg)) /\ Idle(s, all(s, 1))
    BY WaitIdle, ChargedIdle
  <2> QED BY <2>1, IdlePair
<1>7. Matched(c, AttentionOf(c, t, batch), AttentionOf(s, t, batch))
  BY <1>2, AttentionOfMatched
<1> HIDE DEF norm, res, all, s
<1>8. Matched(c, one(c), one(s))
  BY <1>5, PairAs, MatchedOne
<1>9. Matched(c, two(c), two(s)) /\ Matched(c, last(c, c.ne_tp_dg), last(s, 1))
  BY <1>5, <1>6, PairAs, MatchedTwo
<1>10. Matched(c, InModule("feedforward", ff(c, c.ne_tp_dg)), InModule("feedforward", ff(s, 1)))
  BY <1>4, MatchedIn
<1> HIDE DEF one, two, last
<1> DEFINE a1 == one(c) \o AttentionOf(c, t, batch)
           b1 == one(s) \o AttentionOf(s, t, batch)
           a2 == a1 \o two(c)
           b2 == b1 \o two(s)
           a3 == a2 \o InModule("feedforward", ff(c, c.ne_tp_dg))
           b3 == b2 \o InModule("feedforward", ff(s, 1))
<1>11. Matched(c, a1, b1)
  BY <1>7, <1>8, MatchedJoin
<1> HIDE DEF a1, b1
<1>12. Matched(c, a2, b2)
  BY <1>9, <1>11, MatchedJoin
<1> HIDE DEF a2, b2
<1>13. Matched(c, a3, b3)
  BY <1>10, <1>12, MatchedJoin
<1> HIDE DEF a3, b3
<1>14. Matched(c, a3 \o last(c, c.ne_tp_dg), b3 \o last(s, 1))
  BY <1>9, <1>13, MatchedJoin
<1> QED BY <1>3, <1>14 DEF s, a1, b1, a2, b2, a3, b3

LEMMA MoEDecoderMatched ==
  ASSUME NEW c, SystemType(c), NEW batch \in Seq(Spans), NEW rows \in Seq(Nat), NEW high,
         c.model.num_routed_expert > 0
  PROVE  Matched(c, MoEDecoder(c, batch, rows, high), MoEDecoder(Unsharded(c), batch, rows, high))
<1> DEFINE s == Unsharded(c)
           h == c.model.hidden_dim
           t == Tensor(<< Tokens(batch), h >>)
           ff(x) == ExpertFFN(x, t, rows, high)
           norm(x) == LayerNorm(x, t, h)
           one(x) == << As("input_layer_norm", norm(x)) >>
           two(x) == << As("residual_1", norm(x)), As("post_attn_layer_norm", norm(x)) >>
           last(x) == << As("residual_2", norm(x)) >>
<1>1. s.model = c.model /\ h \in Positive
  BY UnshardedFields DEF SystemType, Model
<1>2. Tensors(t, t, Tokens(batch), h, h) /\ t.shape[2] = h
  <2>1. batch \in Seq(RequestType)
    BY DEF Spans
  <2>2. Tokens(batch) \in Nat
    BY <2>1, BatchType
  <2>3. Tensors(t, t, Tokens(batch), h, h)
    BY <1>1, <2>2, PlainTensors
  <2>4. t.shape[2] = h
    BY DEF Tensor
  <2> QED BY <2>3, <2>4
<1> HIDE DEF t
<1>3. /\ MoEDecoder(c, batch, rows, high)
           = (((one(c) \o AttentionOf(c, t, batch)) \o two(c))
               \o InModule("expertFFN", ff(c))) \o last(c)
      /\ MoEDecoder(s, batch, rows, high)
           = (((one(s) \o AttentionOf(s, t, batch)) \o two(s))
               \o InModule("expertFFN", ff(s))) \o last(s)
  BY <1>1 DEF MoEDecoder, t
<1>4. Matched(c, ff(c), ff(s))
  BY <1>2, ExpertFFNMatched
<1> HIDE DEF ff
<1>5. Pair(c, norm(c), norm(s))
  <2> DEFINE normed(x, z, w) == Idle(x, LayerNorm(x, z, w))
             long(z, w) == z.shape[2] = w
  <2>1. ASSUME NEW x, NEW z, NEW w, long(z, w) PROVE normed(x, z, w)
    BY <2>1, NormIdle
  <2>2. long(t, h)
    BY <1>2
  <2> HIDE DEF normed, long
  <2>3. normed(c, t, h) /\ normed(s, t, h)
    BY <2>1, <2>2
  <2> QED BY <2>3, IdlePair DEF normed
<1>7. Matched(c, AttentionOf(c, t, batch), AttentionOf(s, t, batch))
  BY <1>2, AttentionOfMatched
<1> HIDE DEF norm, s
<1>8. Matched(c, one(c), one(s)) /\ Matched(c, last(c), last(s))
  BY <1>5, PairAs, MatchedOne
<1>9. Matched(c, two(c), two(s))
  BY <1>5, PairAs, MatchedTwo
<1>10. Matched(c, InModule("expertFFN", ff(c)), InModule("expertFFN", ff(s)))
  BY <1>4, MatchedIn
<1> HIDE DEF one, two, last
<1> DEFINE a1 == one(c) \o AttentionOf(c, t, batch)
           b1 == one(s) \o AttentionOf(s, t, batch)
           a2 == a1 \o two(c)
           b2 == b1 \o two(s)
           a3 == a2 \o InModule("expertFFN", ff(c))
           b3 == b2 \o InModule("expertFFN", ff(s))
<1>11. Matched(c, a1, b1)
  BY <1>7, <1>8, MatchedJoin
<1> HIDE DEF a1, b1
<1>12. Matched(c, a2, b2)
  BY <1>9, <1>11, MatchedJoin
<1> HIDE DEF a2, b2
<1>13. Matched(c, a3, b3)
  BY <1>10, <1>12, MatchedJoin
<1> HIDE DEF a3, b3
<1>14. Matched(c, a3 \o last(c), b3 \o last(s))
  BY <1>8, <1>13, MatchedJoin
<1> QED BY <1>3, <1>14 DEF s, a1, b1, a2, b2, a3, b3

\* The graph of a device and that of the whole go together, call by call, and the
\* assertions of the forward functions hold.
LEMMA GraphMatched ==
  ASSUME NEW c, SystemType(c), NEW w, WorkType(c, w), Work(w)
  PROVE  /\ Matched(c, Graph(c, w), Graph(Unsharded(c), w))
         /\ w.batch \in Seq(Spans)
<1>1. w.batch \in Seq(Spans)
  <2>1. w.batch \in Seq(RequestType) /\ \A k \in DOMAIN w.batch : w.batch[k].m \in 0 .. w.batch[k].n
    BY DEF WorkType, Work
  <2>2. ASSUME NEW k \in 1 .. Len(w.batch) PROVE w.batch[k] \in Spans
    <3>1. w.batch[k] \in RequestType /\ k \in DOMAIN w.batch
      BY <2>1
    <3>2. w.batch[k].m \in 0 .. w.batch[k].n
      BY <2>1, <3>1
    <3> QED BY <3>1, <3>2 DEF Spans
  <2> QED BY <2>1, <2>2
<1>2. w.routed \in Seq(Nat) /\ (w.routed # << >> => c.model.num_routed_expert > 0)
  BY DEF WorkType
<1>3. CASE w.routed = << >>
  BY <1>1, <1>3, DecoderMatched DEF Graph
<1>4. CASE w.routed # << >>
  BY <1>1, <1>2, <1>4, MoEDecoderMatched DEF Graph
<1> QED BY <1>1, <1>3, <1>4

---------------------------------------------------------------------------
(* The operations of an attention, for each of its heads.                  *)

\* A product of m x dim by dim x n for each sequence, and its softmax.
HeadWork(seqs, dim) == Total([k \in 1 .. Len(seqs) |-> 2 * seqs[k].m * dim * seqs[k].n])
SoftmaxWork(seqs) == Total([k \in 1 .. Len(seqs) |-> 7 * seqs[k].m * seqs[k].n])

\* The dimensions of a LayerInfo.
Dimensions(i) ==
  /\ {i.precision, i.hd, i.H, i.KVH, i.rope, i.cols} \subseteq Nat
  /\ i.precision # 0

\* The int products of a prompt's attention do not wrap.
IntFits(i, seqs) == \A k \in 1 .. Len(seqs) : seqs[k].m * seqs[k].n * i.hd < IntLimit

LEMMA SequencesAre ==
  ASSUME NEW seqs \in Seq(Spans)
  PROVE  /\ Len(seqs) \in Nat
         /\ \A k \in 1 .. Len(seqs) : /\ seqs[k].m \in Nat /\ seqs[k].n \in Nat
                                      /\ seqs[k].m <= seqs[k].n
<1>1. Len(seqs) \in Nat /\ \A k \in 1 .. Len(seqs) : seqs[k] \in Spans
  OBVIOUS
<1> QED BY <1>1 DEF Spans, RequestType

\* A phase for each sequence that multiplies, or takes the softmax of a product.
Products(ps, seqs, dim, heads) ==
  /\ Phased(ps, Len(seqs))
  /\ \A k \in 1 .. Len(seqs) : ps[k].flops = MatMul(seqs[k].m, dim, seqs[k].n, heads)
Softmaxes(ps, seqs, heads) ==
  /\ Phased(ps, Len(seqs))
  /\ \A k \in 1 .. Len(seqs) : ps[k].flops = 7 * (seqs[k].m * seqs[k].n * heads)

LEMMA ProductOfFour ==
  ASSUME NEW a \in Nat, NEW b \in Nat, NEW c \in Nat, NEW h \in Nat
  PROVE  /\ MatMul(a, b, c, h) = h * (2 * a * b * c) /\ 2 * a * b * c \in Nat
         /\ MatMul(a, c, b, h) = h * (2 * a * b * c)
         /\ 7 * (a * c * h) = h * (7 * a * c) /\ 7 * a * c \in Nat
         /\ 7 * a * c * h = 7 * (a * c * h)
<1> DEFINE x == a * b
           y == a * c
<1>1. x \in Nat /\ y \in Nat /\ x * c \in Nat /\ y * b = x * c
  <2>1. y * b = x * c
    OBVIOUS
  <2> QED BY <2>1, ProductType
<1>2. 2 * a * b * c = 2 * (x * c) /\ 2 * a * c * b = 2 * (y * b)
  OBVIOUS
<1>3. 7 * a * c = 7 * y
  OBVIOUS
<1> DEFINE z == x * c
<1>4. MatMul(a, b, c, h) = (2 * z) * h /\ MatMul(a, c, b, h) = (2 * z) * h
  BY <1>1, <1>2 DEF MatMul
<1> HIDE DEF x, y, z
<1>5. z \in Nat /\ 2 * a * b * c = 2 * z
  BY <1>1, <1>2 DEF z
<1>6. (2 * z) * h = h * (2 * z)
  BY <1>5
<1>7. 7 * (y * h) = h * (7 * y) /\ (7 * y) * h = 7 * (y * h) /\ 7 * y \in Nat
  BY <1>1
<1> QED BY <1>3, <1>4, <1>5, <1>6, <1>7 DEF y

LEMMA ProductCommutes ==
  ASSUME NEW a \in Nat, NEW b \in Nat, NEW c \in Nat, NEW h \in Nat
  PROVE  MatMul(a, b, c, h) = MatMul(a, c, b, h)
BY ProductOfFour

LEMMA SevenTimes ==
  ASSUME NEW a \in Nat, NEW c \in Nat, NEW h \in Nat
  PROVE  7 * a * c * h = 7 * (a * c * h)
<1>1. 0 \in Nat
  OBVIOUS
<1> DEFINE x == a * c
<1>2. x \in Nat /\ 7 * a * c = 7 * x
  BY ProductType
<1>3. 7 * a * c * h = (7 * x) * h /\ a * c * h = x * h
  BY <1>2
<1> HIDE DEF x
<1> QED BY <1>2, <1>3

LEMMA ProductsSum ==
  ASSUME NEW seqs \in Seq(Spans), NEW dim \in Nat, NEW heads \in Nat, NEW ps,
         Products(ps, seqs, dim, heads)
  PROVE  Sums(ps, "flops", heads * HeadWork(seqs, dim)) /\ HeadWork(seqs, dim) \in Nat
<1> DEFINE N == Len(seqs)
           g == [k \in 1 .. N |-> 2 * seqs[k].m * dim * seqs[k].n]
<1>1. N \in Nat /\ \A k \in 1 .. N : seqs[k].m \in Nat /\ seqs[k].n \in Nat
  BY SequencesAre
<1>2. ASSUME NEW k \in 1 .. N PROVE g[k] \in Nat /\ ps[k].flops = heads * g[k]
  <2> DEFINE m == seqs[k].m
             n == seqs[k].n
  <2>1. m \in Nat /\ n \in Nat /\ g[k] = 2 * m * dim * n /\ ps[k].flops = MatMul(m, dim, n, heads)
    BY <1>1 DEF Products
  <2> HIDE DEF m, n, g
  <2>2. MatMul(m, dim, n, heads) = heads * (2 * m * dim * n) /\ 2 * m * dim * n \in Nat
    BY <2>1, ProductOfFour
  <2> QED BY <2>1, <2>2
<1>3. Numbers(g, N) /\ Each(ps, "flops", g, heads, N)
  BY <1>1, <1>2 DEF Numbers, Each, Products
<1>4. HeadWork(seqs, dim) = Total(g)
  BY DEF HeadWork
<1> HIDE DEF g
<1>5. Sums(ps, "flops", heads * Total(g)) /\ Total(g) \in Nat
  BY <1>3, SumsEach, TotalSum
<1> QED BY <1>4, <1>5

LEMMA SoftmaxesSum ==
  ASSUME NEW seqs \in Seq(Spans), NEW heads \in Nat, NEW ps, Softmaxes(ps, seqs, heads)
  PROVE  Sums(ps, "flops", heads * SoftmaxWork(seqs)) /\ SoftmaxWork(seqs) \in Nat
<1> DEFINE N == Len(seqs)
           g == [k \in 1 .. N |-> 7 * seqs[k].m * seqs[k].n]
<1>1. N \in Nat /\ \A k \in 1 .. N : seqs[k].m \in Nat /\ seqs[k].n \in Nat
  BY SequencesAre
<1>2. ASSUME NEW k \in 1 .. N PROVE g[k] \in Nat /\ ps[k].flops = heads * g[k]
  <2> DEFINE m == seqs[k].m
             n == seqs[k].n
  <2>1. m \in Nat /\ n \in Nat /\ g[k] = 7 * m * n /\ ps[k].flops = 7 * (m * n * heads)
    BY <1>1 DEF Softmaxes
  <2> HIDE DEF m, n, g
  <2>2. 7 * (m * n * heads) = heads * (7 * m * n) /\ 7 * m * n \in Nat
    <3>1. 0 \in Nat
      OBVIOUS
    <3> QED BY <2>1, <3>1, ProductOfFour
  <2> QED BY <2>1, <2>2
<1>3. Numbers(g, N) /\ Each(ps, "flops", g, heads, N)
  BY <1>1, <1>2 DEF Numbers, Each, Softmaxes
<1>4. SoftmaxWork(seqs) = Total(g)
  BY DEF SoftmaxWork
<1> HIDE DEF g
<1>5. Sums(ps, "flops", heads * Total(g)) /\ Total(g) \in Nat
  BY <1>3, SumsEach, TotalSum
<1> QED BY <1>4, <1>5

\* A context is a scoring with the dimensions in the other order.
Contexts(ps, seqs, dim, heads) ==
  /\ Phased(ps, Len(seqs))
  /\ \A k \in 1 .. Len(seqs) : ps[k].flops = MatMul(seqs[k].m, seqs[k].n, dim, heads)

LEMMA ContextsSum ==
  ASSUME NEW seqs \in Seq(Spans), NEW dim \in Nat, NEW heads \in Nat, NEW ps,
         Contexts(ps, seqs, dim, heads)
  PROVE  Products(ps, seqs, dim, heads)
<1>1. \A k \in 1 .. Len(seqs) : seqs[k].m \in Nat /\ seqs[k].n \in Nat
  BY SequencesAre
<1>2. ASSUME NEW k \in 1 .. Len(seqs)
      PROVE  MatMul(seqs[k].m, seqs[k].n, dim, heads) = MatMul(seqs[k].m, dim, seqs[k].n, heads)
  <2> DEFINE m == seqs[k].m
             n == seqs[k].n
  <2>1. m \in Nat /\ n \in Nat
    BY <1>1
  <2> HIDE DEF m, n
  <2>2. MatMul(m, n, dim, heads) = MatMul(m, dim, n, heads)
    BY <2>1, ProductCommutes
  <2> QED BY <2>2 DEF m, n
<1> QED BY <1>2 DEF Products, Contexts

\* An int that is small enough is itself.
LEMMA SmallInt ==
  ASSUME NEW x \in Nat, x < IntLimit
  PROVE  Int32(x) = x
<1>1. IntLimit \in Nat /\ IntLimit # 0
  BY CostAssumption
<1> DEFINE a == x + IntLimit
           b == 2 * IntLimit
<1>2. a \in Nat /\ b \in Nat /\ a < b /\ b # 0
  BY <1>1
<1> HIDE DEF a, b
<1>3. a % b = a
  BY <1>2
<1> QED BY <1>1, <1>3 DEF Int32, a, b

LEMMA IntProduct ==
  ASSUME NEW a \in Nat, NEW b \in Nat, NEW c \in Nat, NEW h \in Nat, a * c * b < IntLimit
  PROVE  IntMatMul(a, b, c, h) = MatMul(a, b, c, h) /\ IntMatMul(a, c, b, h) = MatMul(a, c, b, h)
<1> DEFINE x == a * b * c
<1>1. x \in Nat /\ x = a * c * b
  <2>1. a * b * c = a * c * b
    OBVIOUS
  <2> QED BY <2>1, ProductType
<1>2. MatMul(a, b, c, h) = h * (2 * x) /\ MatMul(a, c, b, h) = h * (2 * x)
  <2>1. 2 * a * b * c = 2 * x
    OBVIOUS
  <2> QED BY <2>1, ProductOfFour
<1>3. IntMatMul(a, b, c, h) = 2 * h * Int32(x) /\ IntMatMul(a, c, b, h) = 2 * h * Int32(x)
  BY <1>1 DEF IntMatMul
<1> HIDE DEF x
<1>4. Int32(x) = x
  BY <1>1, SmallInt
<1>5. 2 * h * x = h * (2 * x)
  BY <1>1
<1> QED BY <1>2, <1>3, <1>4, <1>5

---------------------------------------------------------------------------
(* The execution functions for prompts.                                    *)

\* Scoring, softmax and context.
LEMMA ThreePhases ==
  ASSUME NEW seqs \in Seq(Spans), NEW d \in Nat, NEW e \in Nat, NEW h \in Nat,
         NEW x, Products(x, seqs, d, h), NEW y, Softmaxes(y, seqs, h),
         NEW z, Products(z, seqs, e, h)
  PROVE  Sums((x \o y) \o z, "flops",
              h * (HeadWork(seqs, d) + SoftmaxWork(seqs) + HeadWork(seqs, e)))
<1> DEFINE a == HeadWork(seqs, d)
           b == SoftmaxWork(seqs)
           c == HeadWork(seqs, e)
<1>1. /\ Sums(x, "flops", h * a) /\ Sums(y, "flops", h * b) /\ Sums(z, "flops", h * c)
      /\ a \in Nat /\ b \in Nat /\ c \in Nat
  BY ProductsSum, SoftmaxesSum
<1> HIDE DEF a, b, c
<1>2. Sums(x \o y, "flops", h * a + h * b)
  BY <1>1, SumsJoin
<1>3. Sums((x \o y) \o z, "flops", (h * a + h * b) + h * c)
  BY <1>1, <1>2, SumsJoin
<1>4. (h * a + h * b) + h * c = h * (a + b + c)
  BY <1>1
<1> QED BY <1>3, <1>4 DEF a, b, c

\* Two scorings, softmax and context.
LEMMA FourPhases ==
  ASSUME NEW seqs \in Seq(Spans), NEW d \in Nat, NEW r \in Nat, NEW h \in Nat,
         NEW x, Products(x, seqs, d, h), NEW v, Products(v, seqs, r, h),
         NEW y, Softmaxes(y, seqs, h), NEW z, Products(z, seqs, d, h)
  PROVE  Sums(((x \o v) \o y) \o z, "flops",
              h * (HeadWork(seqs, d) + HeadWork(seqs, r) + SoftmaxWork(seqs) + HeadWork(seqs, d)))
<1> DEFINE a == HeadWork(seqs, d)
           b == SoftmaxWork(seqs)
           c == HeadWork(seqs, r)
<1>1. /\ Sums(x, "flops", h * a) /\ Sums(v, "flops", h * c) /\ Sums(y, "flops", h * b)
      /\ Sums(z, "flops", h * a)
      /\ a \in Nat /\ b \in Nat /\ c \in Nat
  BY ProductsSum, SoftmaxesSum
<1> HIDE DEF a, b, c
<1>2. Sums(x \o v, "flops", h * a + h * c)
  BY <1>1, SumsJoin
<1>3. Sums((x \o v) \o y, "flops", (h * a + h * c) + h * b)
  BY <1>1, <1>2, SumsJoin
<1>4. Sums(((x \o v) \o y) \o z, "flops", ((h * a + h * c) + h * b) + h * a)
  BY <1>1, <1>3, SumsJoin
<1>5. ((h * a + h * c) + h * b) + h * a = h * (a + c + b + a)
  BY <1>1
<1> QED BY <1>4, <1>5 DEF a, b, c

\* Attention counts the same operations on each processor, as long as the int
\* products do not wrap.
AttentionSumWork(i, seqs) ==
  i.H * (HeadWork(seqs, i.hd) + SoftmaxWork(seqs) + HeadWork(seqs, i.hd))
LatentSumWork(i, seqs) ==
  i.H * (HeadWork(seqs, i.hd + i.rope) + SoftmaxWork(seqs) + HeadWork(seqs, i.hd))
AbsorbedSumWork(i, seqs) ==
  i.H * (HeadWork(seqs, i.rank) + HeadWork(seqs, i.rope) + SoftmaxWork(seqs)
         + HeadWork(seqs, i.rank))

LEMMA AttentionSumGPU ==
  ASSUME NEW seqs \in Seq(Spans), NEW i, Dimensions(i)
  PROVE  Sums(AttentionSumExecutionGPU(i, seqs), "flops", AttentionSumWork(i, seqs))
<1> DEFINE x == [k \in 1 .. Len(seqs) |-> SumScoringGPU(i, seqs[k])]
           y == [k \in 1 .. Len(seqs) |-> SumSoftmaxGPU(i, seqs[k])]
           z == [k \in 1 .. Len(seqs) |-> SumContextGPU(i, seqs[k])]
<1>1. AttentionSumExecutionGPU(i, seqs) = (x \o y) \o z
  BY DEF AttentionSumExecutionGPU, EachSequence
<1>2. i.hd \in Nat /\ i.H \in Nat
  BY DEF Dimensions
<1>3. Phased(x, Len(seqs)) /\ Phased(y, Len(seqs)) /\ Phased(z, Len(seqs))
  BY SequencesAre DEF Phased
<1>4. Products(x, seqs, i.hd, i.H)
  BY <1>3 DEF Products, SumScoringGPU, Phase
<1>5. Softmaxes(y, seqs, i.H)
  BY <1>3 DEF Softmaxes, SumSoftmaxGPU, Phase
<1>6. Contexts(z, seqs, i.hd, i.H)
  BY <1>3 DEF Contexts, SumContextGPU, Phase
<1> HIDE DEF x, y, z
<1>9. Products(z, seqs, i.hd, i.H)
  BY <1>2, <1>6, ContextsSum
<1> QED BY <1>1, <1>2, <1>4, <1>5, <1>9, ThreePhases DEF AttentionSumWork

LEMMA AttentionSumLogic ==
  ASSUME NEW seqs \in Seq(Spans), NEW i, Dimensions(i), IntFits(i, seqs)
  PROVE  Sums(AttentionSumExecutionLogic(i, seqs), "flops", AttentionSumWork(i, seqs))
<1> DEFINE x == [k \in 1 .. Len(seqs) |-> SumScoringLogic(i, seqs[k])]
           y == [k \in 1 .. Len(seqs) |-> SumSoftmaxLogic(i, seqs[k])]
           z == [k \in 1 .. Len(seqs) |-> SumContextLogic(i, seqs[k])]
<1>1. AttentionSumExecutionLogic(i, seqs) = (x \o y) \o z
  BY DEF AttentionSumExecutionLogic, EachSequence
<1>2. i.hd \in Nat /\ i.H \in Nat
  BY DEF Dimensions
<1>3. Phased(x, Len(seqs)) /\ Phased(y, Len(seqs)) /\ Phased(z, Len(seqs))
  BY SequencesAre DEF Phased
<1> DEFINE fitting(k) == seqs[k].m * seqs[k].n * i.hd < IntLimit
<1>7. \A k \in 1 .. Len(seqs) : seqs[k].m \in Nat /\ seqs[k].n \in Nat /\ fitting(k)
  BY SequencesAre DEF IntFits
<1>8. ASSUME NEW k \in 1 .. Len(seqs)
      PROVE  /\ IntMatMul(seqs[k].m, i.hd, seqs[k].n, i.H) = MatMul(seqs[k].m, i.hd, seqs[k].n, i.H)
             /\ IntMatMul(seqs[k].m, seqs[k].n, i.hd, i.H) = MatMul(seqs[k].m, seqs[k].n, i.hd, i.H)
             /\ 7 * seqs[k].m * seqs[k].n * i.H = 7 * (seqs[k].m * seqs[k].n * i.H)
  <2> DEFINE m == seqs[k].m
             n == seqs[k].n
  <2>1. m \in Nat /\ n \in Nat /\ m * n * i.hd < IntLimit
    BY <1>7
  <2> HIDE DEF m, n
  <2>2. IntMatMul(m, i.hd, n, i.H) = MatMul(m, i.hd, n, i.H) /\ IntMatMul(m, n, i.hd, i.H) = MatMul(m, n, i.hd, i.H)
    BY <1>2, <2>1, IntProduct
  <2>3. 7 * m * n * i.H = 7 * (m * n * i.H)
    BY <1>2, <2>1, SevenTimes
  <2> QED BY <2>2, <2>3 DEF m, n
<1>4. Products(x, seqs, i.hd, i.H)
  BY <1>3, <1>8 DEF Products, SumScoringLogic, Phase
<1>5. Softmaxes(y, seqs, i.H)
  BY <1>3, <1>8 DEF Softmaxes, SumSoftmaxLogic, ComputeOnly, Phase
<1>6. Contexts(z, seqs, i.hd, i.H)
  BY <1>3, <1>8 DEF Contexts, SumContextLogic, Phase
<1> HIDE DEF x, y, z
<1>9. Products(z, seqs, i.hd, i.H)
  BY <1>2, <1>6, ContextsSum
<1> QED BY <1>1, <1>2, <1>4, <1>5, <1>9, ThreePhases DEF AttentionSumWork

LEMMA AttentionSumPIM ==
  ASSUME NEW seqs \in Seq(Spans), NEW i, Dimensions(i), IntFits(i, seqs)
  PROVE  Sums(AttentionSumExecutionPIM(i, seqs), "flops", AttentionSumWork(i, seqs))
<1> DEFINE x == [k \in 1 .. Len(seqs) |-> SumScoringPIM(i, seqs[k])]
           y == [k \in 1 .. Len(seqs) |-> SumSoftmaxPIM(i, seqs[k])]
           z == [k \in 1 .. Len(seqs) |-> SumContextPIM(i, seqs[k])]
<1>1. AttentionSumExecutionPIM(i, seqs) = (x \o y) \o z
  BY DEF AttentionSumExecutionPIM, EachSequence
<1>2. i.hd \in Nat /\ i.H \in Nat
  BY DEF Dimensions
<1>3. Phased(x, Len(seqs)) /\ Phased(y, Len(seqs)) /\ Phased(z, Len(seqs))
  BY SequencesAre DEF Phased
<1> DEFINE fitting(k) == seqs[k].m * seqs[k].n * i.hd < IntLimit
<1>7. \A k \in 1 .. Len(seqs) : seqs[k].m \in Nat /\ seqs[k].n \in Nat /\ fitting(k)
  BY SequencesAre DEF IntFits
<1>8. ASSUME NEW k \in 1 .. Len(seqs)
      PROVE  /\ IntMatMul(seqs[k].m, i.hd, seqs[k].n, i.H) = MatMul(seqs[k].m, i.hd, seqs[k].n, i.H)
             /\ IntMatMul(seqs[k].m, seqs[k].n, i.hd, i.H) = MatMul(seqs[k].m, seqs[k].n, i.hd, i.H)
             /\ 7 * seqs[k].m * seqs[k].n * i.H = 7 * (seqs[k].m * seqs[k].n * i.H)
  <2> DEFINE m == seqs[k].m
             n == seqs[k].n
  <2>1. m \in Nat /\ n \in Nat /\ m * n * i.hd < IntLimit
    BY <1>7
  <2> HIDE DEF m, n
  <2>2. IntMatMul(m, i.hd, n, i.H) = MatMul(m, i.hd, n, i.H) /\ IntMatMul(m, n, i.hd, i.H) = MatMul(m, n, i.hd, i.H)
    BY <1>2, <2>1, IntProduct
  <2>3. 7 * m * n * i.H = 7 * (m * n * i.H)
    BY <1>2, <2>1, SevenTimes
  <2> QED BY <2>2, <2>3 DEF m, n
<1>4. Products(x, seqs, i.hd, i.H)
  BY <1>3, <1>8 DEF Products, SumScoringPIM, Phase
<1>5. Softmaxes(y, seqs, i.H)
  BY <1>3, <1>8 DEF Softmaxes, SumSoftmaxPIM, ComputeOnly, Phase
<1>6. Contexts(z, seqs, i.hd, i.H)
  BY <1>3, <1>8 DEF Contexts, SumContextPIM, Phase
<1> HIDE DEF x, y, z
<1>9. Products(z, seqs, i.hd, i.H)
  BY <1>2, <1>6, ContextsSum
<1> QED BY <1>1, <1>2, <1>4, <1>5, <1>9, ThreePhases DEF AttentionSumWork

LEMMA LatentSumGPU ==
  ASSUME NEW seqs \in Seq(Spans), NEW i, Dimensions(i), ~i.use_flash_attention
  PROVE  Sums(MultiLatentAttentionSumExecutionGPU(i, seqs), "flops", LatentSumWork(i, seqs))
<1> DEFINE x == [k \in 1 .. Len(seqs) |-> MLASumScoringGPU(i, seqs[k])]
           y == [k \in 1 .. Len(seqs) |-> MLASumSoftmaxGPU(i, seqs[k])]
           z == [k \in 1 .. Len(seqs) |-> MLASumContextGPU(i, seqs[k])]
<1>1. MultiLatentAttentionSumExecutionGPU(i, seqs) = (x \o y) \o z
  BY DEF MultiLatentAttentionSumExecutionGPU, EachSequence
<1>2. i.hd \in Nat /\ i.H \in Nat /\ i.hd + i.rope \in Nat
  BY DEF Dimensions
<1>3. Phased(x, Len(seqs)) /\ Phased(y, Len(seqs)) /\ Phased(z, Len(seqs))
  BY SequencesAre DEF Phased
<1>4. Products(x, seqs, i.hd + i.rope, i.H)
  BY <1>3 DEF Products, MLASumScoringGPU, MLASumScoring, HeadProduct, Phase
<1>5. Softmaxes(y, seqs, i.H)
  BY <1>3 DEF Softmaxes, MLASumSoftmaxGPU, Softmax, Phase
<1>6. Contexts(z, seqs, i.hd, i.H)
  BY <1>3 DEF Contexts, MLASumContextGPU, MLASumContext, HeadProduct, Phase
<1> HIDE DEF x, y, z
<1>7. Products(z, seqs, i.hd, i.H)
  BY <1>2, <1>6, ContextsSum
<1> QED BY <1>1, <1>2, <1>4, <1>5, <1>7, ThreePhases DEF LatentSumWork

LEMMA AbsorbedSumGPU ==
  ASSUME NEW seqs \in Seq(Spans), NEW i, Dimensions(i), i.rank \in Nat
  PROVE  Sums(AbsorbMLASumExecutionGPU(i, seqs), "flops", AbsorbedSumWork(i, seqs))
<1> DEFINE x == [k \in 1 .. Len(seqs) |-> AbsorbSumScoringGPU(i, seqs[k])]
           v == [k \in 1 .. Len(seqs) |-> AbsorbSumRopeGPU(i, seqs[k])]
           y == [k \in 1 .. Len(seqs) |-> AbsorbSumSoftmaxGPU(i, seqs[k])]
           z == [k \in 1 .. Len(seqs) |-> AbsorbSumContextGPU(i, seqs[k])]
<1>1. AbsorbMLASumExecutionGPU(i, seqs) = ((x \o v) \o y) \o z
  BY DEF AbsorbMLASumExecutionGPU, EachSequence
<1>2. i.rank \in Nat /\ i.H \in Nat /\ i.rope \in Nat
  BY DEF Dimensions
<1>3. /\ Phased(x, Len(seqs)) /\ Phased(v, Len(seqs)) /\ Phased(y, Len(seqs))
      /\ Phased(z, Len(seqs))
  BY SequencesAre DEF Phased
<1>4. Products(x, seqs, i.rank, i.H)
  BY <1>3 DEF Products, AbsorbSumScoringGPU, OneGEMV, LatentProduct, Phase
<1>5. Products(v, seqs, i.rope, i.H)
  BY <1>3 DEF Products, AbsorbSumRopeGPU, OneGEMV, LatentProduct, Phase
<1>6. Softmaxes(y, seqs, i.H)
  BY <1>3 DEF Softmaxes, AbsorbSumSoftmaxGPU, Softmax, ComputeOnly, Phase
<1>7. Contexts(z, seqs, i.rank, i.H)
  BY <1>3 DEF Contexts, AbsorbSumContextGPU, OneGEMV, LatentProduct, Phase
<1> HIDE DEF x, v, y, z
<1>8. Products(z, seqs, i.rank, i.H)
  BY <1>2, <1>7, ContextsSum
<1> QED BY <1>1, <1>2, <1>4, <1>5, <1>6, <1>8, FourPhases DEF AbsorbedSumWork

\* The rates change no operations.
LEMMA RatedPhases ==
  ASSUME NEW i, NEW s
  PROVE  /\ MLASumScoringLogic(i, s).flops = MatMul(s.m, i.hd + i.rope, s.n, i.H)
         /\ MLASumSoftmaxLogic(i, s).flops = 7 * (s.m * s.n * i.H)
         /\ MLASumContextLogic(i, s).flops = MatMul(s.m, s.n, i.hd, i.H)
         /\ MLASumScoringPIM(i, s).flops = MatMul(s.m, i.hd + i.rope, s.n, i.H)
         /\ MLASumSoftmaxPIM(i, s).flops = 7 * (s.m * s.n * i.H)
         /\ MLASumContextPIM(i, s).flops = MatMul(s.m, s.n, i.hd, i.H)
<1>1. ASSUME NEW phase, "flops" \in DOMAIN phase
      PROVE  AtGPURates(i, phase).flops = phase.flops
  BY <1>1 DEF AtGPURates
<1>2. ASSUME NEW p
      PROVE  /\ AtGPURates(i, MLASumScoring(i, s, p)).flops = MatMul(s.m, i.hd + i.rope, s.n, i.H)
             /\ AtGPURates(i, Softmax(i, s, p)).flops = 7 * (s.m * s.n * i.H)
             /\ AtGPURates(i, MLASumContext(i, s, p)).flops = MatMul(s.m, s.n, i.hd, i.H)
  <2> DEFINE a == MLASumScoring(i, s, p)
             b == Softmax(i, s, p)
             c == MLASumContext(i, s, p)
  <2>1. a.flops = MatMul(s.m, i.hd + i.rope, s.n, i.H) /\ "flops" \in DOMAIN a
    BY DEF MLASumScoring, HeadProduct, Phase
  <2>2. b.flops = 7 * (s.m * s.n * i.H) /\ "flops" \in DOMAIN b
    BY DEF Softmax, Phase
  <2>3. c.flops = MatMul(s.m, s.n, i.hd, i.H) /\ "flops" \in DOMAIN c
    BY DEF MLASumContext, HeadProduct, Phase
  <2> HIDE DEF a, b, c
  <2> QED
    BY <1>1, <2>1, <2>2, <2>3 DEF a, b, c
<1> QED
  BY <1>2 DEF MLASumScoringLogic, MLASumSoftmaxLogic, MLASumContextLogic,
              MLASumScoringPIM, MLASumSoftmaxPIM, MLASumContextPIM

LEMMA LatentSumLogic ==
  ASSUME NEW seqs \in Seq(Spans), NEW i, Dimensions(i), ~i.use_flash_attention
  PROVE  Sums(MultiLatentAttentionSumExecutionLogic(i, seqs), "flops", LatentSumWork(i, seqs))
<1> DEFINE x == [k \in 1 .. Len(seqs) |-> MLASumScoringLogic(i, seqs[k])]
           y == [k \in 1 .. Len(seqs) |-> MLASumSoftmaxLogic(i, seqs[k])]
           z == [k \in 1 .. Len(seqs) |-> MLASumContextLogic(i, seqs[k])]
<1>1. MultiLatentAttentionSumExecutionLogic(i, seqs) = (x \o y) \o z
  BY DEF MultiLatentAttentionSumExecutionLogic, EachSequence
<1>2. i.hd \in Nat /\ i.H \in Nat /\ i.hd + i.rope \in Nat
  BY DEF Dimensions
<1>3. Phased(x, Len(seqs)) /\ Phased(y, Len(seqs)) /\ Phased(z, Len(seqs))
  BY SequencesAre DEF Phased
<1>4. Products(x, seqs, i.hd + i.rope, i.H)
  BY <1>3, RatedPhases DEF Products
<1>5. Softmaxes(y, seqs, i.H)
  BY <1>3, RatedPhases DEF Softmaxes
<1>6. Contexts(z, seqs, i.hd, i.H)
  BY <1>3, RatedPhases DEF Contexts
<1> HIDE DEF x, y, z
<1>7. Products(z, seqs, i.hd, i.H)
  BY <1>2, <1>6, ContextsSum
<1> QED BY <1>1, <1>2, <1>4, <1>5, <1>7, ThreePhases DEF LatentSumWork

LEMMA AbsorbedSumLogic ==
  ASSUME NEW seqs \in Seq(Spans), NEW i, Dimensions(i), i.rank \in Nat
  PROVE  Sums(AbsorbMLASumExecutionLogic(i, seqs), "flops", AbsorbedSumWork(i, seqs))
<1> DEFINE x == [k \in 1 .. Len(seqs) |-> AbsorbSumScoringLogic(i, seqs[k])]
           v == [k \in 1 .. Len(seqs) |-> AbsorbSumRopeLogic(i, seqs[k])]
           y == [k \in 1 .. Len(seqs) |-> AbsorbSumSoftmaxLogic(i, seqs[k])]
           z == [k \in 1 .. Len(seqs) |-> AbsorbSumContextLogic(i, seqs[k])]
<1>1. AbsorbMLASumExecutionLogic(i, seqs) = ((x \o v) \o y) \o z
  BY DEF AbsorbMLASumExecutionLogic, EachSequence
<1>2. i.rank \in Nat /\ i.H \in Nat /\ i.rope \in Nat
  BY DEF Dimensions
<1>3. /\ Phased(x, Len(seqs)) /\ Phased(v, Len(seqs)) /\ Phased(y, Len(seqs))
      /\ Phased(z, Len(seqs))
  BY SequencesAre DEF Phased
<1>4. Products(x, seqs, i.rank, i.H)
  BY <1>3 DEF Products, AbsorbSumScoringLogic, OneGEMV, LatentProduct, Phase
<1>5. Products(v, seqs, i.rope, i.H)
  BY <1>3 DEF Products, AbsorbSumRopeLogic, OneGEMV, LatentProduct, Phase
<1>6. Softmaxes(y, seqs, i.H)
  BY <1>3 DEF Softmaxes, AbsorbSumSoftmaxLogic, Softmax, ComputeOnly, Phase
<1>7. Contexts(z, seqs, i.rank, i.H)
  BY <1>3 DEF Contexts, AbsorbSumContextLogic, OneGEMV, LatentProduct, Phase
<1> HIDE DEF x, v, y, z
<1>8. Products(z, seqs, i.rank, i.H)
  BY <1>2, <1>7, ContextsSum
<1> QED BY <1>1, <1>2, <1>4, <1>5, <1>6, <1>8, FourPhases DEF AbsorbedSumWork

LEMMA LatentSumPIM ==
  ASSUME NEW seqs \in Seq(Spans), NEW i, Dimensions(i), ~i.use_flash_attention
  PROVE  Sums(MultiLatentAttentionSumExecutionPIM(i, seqs), "flops", LatentSumWork(i, seqs))
<1> DEFINE x == [k \in 1 .. Len(seqs) |-> MLASumScoringPIM(i, seqs[k])]
           y == [k \in 1 .. Len(seqs) |-> MLASumSoftmaxPIM(i, seqs[k])]
           z == [k \in 1 .. Len(seqs) |-> MLASumContextPIM(i, seqs[k])]
<1>1. MultiLatentAttentionSumExecutionPIM(i, seqs) = (x \o y) \o z
  BY DEF MultiLatentAttentionSumExecutionPIM, EachSequence
<1>2. i.hd \in Nat /\ i.H \in Nat /\ i.hd + i.rope \in Nat
  BY DEF Dimensions
<1>3. Phased(x, Len(seqs)) /\ Phased(y, Len(seqs)) /\ Phased(z, Len(seqs))
  BY SequencesAre DEF Phased
<1>4. Products(x, seqs, i.hd + i.rope, i.H)
  BY <1>3, RatedPhases DEF Products
<1>5. Softmaxes(y, seqs, i.H)
  BY <1>3, RatedPhases DEF Softmaxes
<1>6. Contexts(z, seqs, i.hd, i.H)
  BY <1>3, RatedPhases DEF Contexts
<1> HIDE DEF x, y, z
<1>7. Products(z, seqs, i.hd, i.H)
  BY <1>2, <1>6, ContextsSum
<1> QED BY <1>1, <1>2, <1>4, <1>5, <1>7, ThreePhases DEF LatentSumWork

LEMMA AbsorbedSumPIM ==
  ASSUME NEW seqs \in Seq(Spans), NEW i, Dimensions(i), i.rank \in Nat
  PROVE  Sums(AbsorbMLASumExecutionPIM(i, seqs), "flops", AbsorbedSumWork(i, seqs))
<1> DEFINE x == [k \in 1 .. Len(seqs) |-> AbsorbSumScoringPIM(i, seqs[k])]
           v == [k \in 1 .. Len(seqs) |-> AbsorbSumRopePIM(i, seqs[k])]
           y == [k \in 1 .. Len(seqs) |-> AbsorbSumSoftmaxPIM(i, seqs[k])]
           z == [k \in 1 .. Len(seqs) |-> AbsorbSumContextPIM(i, seqs[k])]
<1>1. AbsorbMLASumExecutionPIM(i, seqs) = ((x \o v) \o y) \o z
  BY DEF AbsorbMLASumExecutionPIM, EachSequence
<1>2. i.rank \in Nat /\ i.H \in Nat /\ i.rope \in Nat
  BY DEF Dimensions
<1>3. /\ Phased(x, Len(seqs)) /\ Phased(v, Len(seqs)) /\ Phased(y, Len(seqs))
      /\ Phased(z, Len(seqs))
  BY SequencesAre DEF Phased
<1>4. Products(x, seqs, i.rank, i.H)
  BY <1>3 DEF Products, AbsorbSumScoringPIM, OneGEMV, LatentProduct, Phase
<1>5. Products(v, seqs, i.rope, i.H)
  BY <1>3 DEF Products, AbsorbSumRopePIM, OneGEMV, LatentProduct, Phase
<1>6. Softmaxes(y, seqs, i.H)
  <2>1. \A k \in 1 .. Len(seqs) : y[k].flops = 7 * seqs[k].m * seqs[k].n * i.H
    BY DEF AbsorbSumSoftmaxPIM, ComputeOnly, Phase
  <2>2. ASSUME NEW k \in 1 .. Len(seqs)
        PROVE  7 * seqs[k].m * seqs[k].n * i.H = 7 * (seqs[k].m * seqs[k].n * i.H)
    <3> DEFINE m == seqs[k].m
               n == seqs[k].n
    <3>1. m \in Nat /\ n \in Nat
      BY SequencesAre
    <3> HIDE DEF m, n
    <3>2. 7 * m * n * i.H = 7 * (m * n * i.H)
      BY <1>2, <3>1, SevenTimes
    <3> QED BY <3>2 DEF m, n
  <2> HIDE DEF y
  <2> QED BY <1>3, <2>1, <2>2 DEF Softmaxes
<1>7. Contexts(z, seqs, i.rank, i.H)
  BY <1>3 DEF Contexts, AbsorbSumContextPIM, OneGEMV, LatentProduct, Phase
<1> HIDE DEF x, v, y, z
<1>8. Products(z, seqs, i.rank, i.H)
  BY <1>2, <1>7, ContextsSum
<1> QED BY <1>1, <1>2, <1>4, <1>5, <1>6, <1>8, FourPhases DEF AbsorbedSumWork

---------------------------------------------------------------------------
(* The execution functions for decode steps.                               *)

LEMMA TwoTimes ==
  ASSUME NEW a \in Nat, NEW b \in Nat, NEW c \in Nat
  PROVE  2 * a * b * c \in Nat
<1>1. a * b \in Nat
  BY ProductType
<1> DEFINE x == a * b
<1>2. x * c \in Nat
  BY <1>1, ProductType
<1>3. 2 * a * b * c = 2 * (x * c)
  OBVIOUS
<1> DEFINE y == x * c
<1> HIDE DEF y
<1>4. 2 * y \in Nat
  BY <1>2 DEF y
<1> QED BY <1>3, <1>4 DEF y

LEMMA PairOf ==
  ASSUME NEW a, NEW b
  PROVE  << a >> \o << b >> = << a, b >>
<1> DEFINE s == << a >>
           t == << b >>
           u == << a, b >>
           S == {a, b}
<1>1. s \in Seq(S) /\ t \in Seq(S) /\ u \in Seq(S) /\ Len(s) = 1 /\ Len(t) = 1 /\ Len(u) = 2
      /\ s[1] = a /\ t[1] = b /\ u[1] = a /\ u[2] = b
  OBVIOUS
<1> HIDE DEF s, t, u, S
<1>2. /\ s \o t \in Seq(S) /\ Len(s \o t) = 2
      /\ \A k \in 1 .. 2 : (s \o t)[k] = IF k <= 1 THEN s[k] ELSE t[k - 1]
  BY <1>1, ConcatProperties
<1>3. \A k \in 1 .. 2 : (s \o t)[k] = u[k]
  BY <1>1, <1>2
<1>4. s \o t = u
  BY <1>1, <1>2, <1>3, SeqEqual
<1> QED BY <1>4 DEF s, t, u

LEMMA TripleOf ==
  ASSUME NEW a, NEW b, NEW c
  PROVE  << a, b >> \o << c >> = << a, b, c >>
<1> DEFINE s == << a, b >>
           t == << c >>
           u == << a, b, c >>
           S == {a, b, c}
<1>1. s \in Seq(S) /\ t \in Seq(S) /\ u \in Seq(S) /\ Len(s) = 2 /\ Len(t) = 1 /\ Len(u) = 3
      /\ s[1] = a /\ s[2] = b /\ t[1] = c /\ u[1] = a /\ u[2] = b /\ u[3] = c
  OBVIOUS
<1> HIDE DEF s, t, u, S
<1>5. /\ s \o t \in Seq(S) /\ Len(s \o t) = Len(s) + Len(t)
      /\ \A k \in 1 .. Len(s) + Len(t) :
           (s \o t)[k] = IF k <= Len(s) THEN s[k] ELSE t[k - Len(s)]
  BY <1>1, ConcatProperties
<1>6. Len(s) + Len(t) = 3
  BY <1>1
<1>2. /\ s \o t \in Seq(S) /\ Len(s \o t) = 3
      /\ \A k \in 1 .. 3 : (s \o t)[k] = IF k <= 2 THEN s[k] ELSE t[k - 2]
  BY <1>1, <1>5, <1>6
<1>3. \A k \in 1 .. 3 : (s \o t)[k] = u[k]
  BY <1>1, <1>2
<1>4. s \o t = u
  BY <1>1, <1>2, <1>3, SeqEqual
<1> QED BY <1>4 DEF s, t, u

LEMMA FourTerms ==
  ASSUME NEW h \in Nat, NEW a \in Nat, NEW b \in Nat, NEW c \in Nat, NEW d \in Nat
  PROVE  ((h * a + h * b) + h * c) + h * d = h * (a + b + c + d)
<1>1. h * (a + b + c + d) = h * (a + b + c) + h * d
  OBVIOUS
<1>2. h * (a + b + c) = (h * a + h * b) + h * c
  OBVIOUS
<1> QED BY <1>1, <1>2

LEMMA SumsTwo ==
  ASSUME NEW a, NEW b, NEW field, NEW x \in Nat, a[field] = x, NEW y \in Nat, b[field] = y
  PROVE  Sums(<< a, b >>, field, x + y)
<1>1. Sums(<< a >>, field, x) /\ Sums(<< b >>, field, y)
  BY SumsOne
<1>2. Sums(<< a >> \o << b >>, field, x + y)
  BY <1>1, SumsJoin
<1>3. << a >> \o << b >> = << a, b >>
  BY PairOf
<1> QED BY <1>2, <1>3

\* The operations of the decode steps, which a phase has for the whole batch.
LEMMA HeadFlopsIs ==
  ASSUME NEW gen \in Seq(Spans), NEW i, Dimensions(i), NEW dim \in Nat
  PROVE  HeadFlops(i, gen, dim) = i.H * HeadWork(gen, dim) /\ HeadWork(gen, dim) \in Nat
<1> DEFINE N == Len(gen)
           g == [k \in 1 .. N |-> 2 * gen[k].m * dim * gen[k].n]
           f == [k \in 1 .. N |-> 2 * gen[k].m * dim * gen[k].n * i.H]
<1>1. N \in Nat /\ i.H \in Nat /\ \A k \in 1 .. N : gen[k].m \in Nat /\ gen[k].n \in Nat
  BY SequencesAre DEF Dimensions
<1>2. ASSUME NEW k \in 1 .. N PROVE g[k] \in Nat /\ f[k] = i.H * g[k]
  <2> DEFINE m == gen[k].m
             n == gen[k].n
  <2> DEFINE h == i.H
  <2>1. /\ m \in Nat /\ n \in Nat /\ h \in Nat /\ g[k] = 2 * m * dim * n
        /\ f[k] = MatMul(m, dim, n, h) /\ i.H = h
    BY <1>1 DEF MatMul
  <2> HIDE DEF m, n, g, f, h
  <2>2. MatMul(m, dim, n, h) = h * (2 * m * dim * n) /\ 2 * m * dim * n \in Nat
    BY <2>1, ProductOfFour
  <2> QED BY <2>1, <2>2
<1>3. Numbers(g, N) /\ Multiple(f, g, N, i.H)
  BY <1>1, <1>2 DEF Numbers, Multiple
<1>4. HeadFlops(i, gen, dim) = Total(f) /\ HeadWork(gen, dim) = Total(g)
  BY DEF HeadFlops, HeadWork, OverSequences
<1> HIDE DEF g, f
<1> QED BY <1>3, <1>4, TotalTimes, TotalSum

LEMMA GroupFlopsIs ==
  ASSUME NEW gen \in Seq(Spans), NEW i, Dimensions(i), i.group \in Nat
  PROVE  /\ GroupFlops(i, gen) = i.KVH * (i.group * HeadWork(gen, i.hd))
         /\ HeadWork(gen, i.hd) \in Nat
<1> DEFINE N == Len(gen)
           g == [k \in 1 .. N |-> 2 * gen[k].m * i.hd * gen[k].n]
           f == [k \in 1 .. N |-> 2 * gen[k].m * i.hd * gen[k].n * i.group * i.KVH]
           q == i.KVH * i.group
<1>1. /\ N \in Nat /\ i.KVH \in Nat /\ i.hd \in Nat
      /\ \A k \in 1 .. N : gen[k].m \in Nat /\ gen[k].n \in Nat
  BY SequencesAre DEF Dimensions
<1>2. q \in Nat
  BY <1>1, ProductType
<1>3. ASSUME NEW k \in 1 .. N PROVE g[k] \in Nat /\ f[k] = q * g[k]
  <2> DEFINE x == 2 * gen[k].m * i.hd * gen[k].n
  <2>1. x \in Nat
    <3> DEFINE m == gen[k].m
               n == gen[k].n
               d == i.hd
    <3>1. m \in Nat /\ n \in Nat /\ d \in Nat /\ x = 2 * m * d * n
      BY <1>1
    <3> HIDE DEF m, n, d, x
    <3> QED BY <3>1, TwoTimes
  <2>2. g[k] = x /\ f[k] = x * i.group * i.KVH
    OBVIOUS
  <2> HIDE DEF x, g, f
  <2>3. x * i.group * i.KVH = (i.KVH * i.group) * x
    BY <1>1, <2>1
  <2> QED BY <2>1, <2>2, <2>3
<1>4. Numbers(g, N) /\ Multiple(f, g, N, q)
  BY <1>1, <1>2, <1>3 DEF Numbers, Multiple
<1>5. GroupFlops(i, gen) = Total(f) /\ HeadWork(gen, i.hd) = Total(g)
  BY DEF GroupFlops, HeadWork, OverSequences
<1> DEFINE w == HeadWork(gen, i.hd)
<1>6. Total(f) = q * Total(g) /\ Total(g) \in Nat
  <2> HIDE DEF g, f, q
  <2> QED BY <1>4, TotalTimes, TotalSum
<1>7. w \in Nat /\ GroupFlops(i, gen) = q * w
  <2> HIDE DEF g, f
  <2> QED BY <1>5, <1>6
<1> HIDE DEF g, f, w
<1>8. q * w = i.KVH * (i.group * w)
  BY <1>1, <1>7, Product3
<1> QED BY <1>7, <1>8 DEF w

\* In grouped attention LOGIC and PIM count the context too, and none a softmax.
GroupWork(i, gen) == i.group * HeadWork(gen, i.hd)

LEMMA AttentionGenGPU ==
  ASSUME NEW gen \in Seq(Spans), NEW i, Dimensions(i), i.group \in Nat
  PROVE  Sums(AttentionGenExecutionGPU(i, gen), "flops", i.KVH * GroupWork(i, gen))
<1>1. GroupFlops(i, gen) = i.KVH * GroupWork(i, gen) /\ GroupWork(i, gen) \in Nat /\ i.KVH \in Nat
  BY GroupFlopsIs, ProductType DEF GroupWork, Dimensions
<1> DEFINE x == GenScoringGPU(i, gen)
<1>2. x.flops = GroupFlops(i, gen)
  BY DEF GenScoringGPU, Phase
<1>3. AttentionGenExecutionGPU(i, gen) = << x >>
  BY DEF AttentionGenExecutionGPU
<1> HIDE DEF x
<1>4. i.KVH * GroupWork(i, gen) \in Nat
  BY <1>1, ProductType
<1>5. x["flops"] = i.KVH * GroupWork(i, gen)
  BY <1>1, <1>2
<1> QED BY <1>3, <1>4, <1>5, SumsOne

LEMMA AttentionGenLogic ==
  ASSUME NEW gen \in Seq(Spans), NEW i, Dimensions(i), i.group \in Nat
  PROVE  Sums(AttentionGenExecutionLogic(i, gen), "flops", i.KVH * (2 * GroupWork(i, gen)))
<1> DEFINE w == GroupWork(i, gen)
           x == GenProductLogic(i, gen)
<1>1. GroupFlops(i, gen) = i.KVH * w /\ w \in Nat /\ i.KVH \in Nat
  BY GroupFlopsIs, ProductType DEF GroupWork, Dimensions
<1>2. x.flops = GroupFlops(i, gen)
  BY DEF GenProductLogic, Phase
<1>3. AttentionGenExecutionLogic(i, gen) = << x, x >>
  BY DEF AttentionGenExecutionLogic, GenScoringLogic, GenContextLogic
<1> HIDE DEF x, w
<1>4. i.KVH * w \in Nat /\ i.KVH * w + i.KVH * w = i.KVH * (2 * w)
  BY <1>1, ProductType
<1>5. x["flops"] = i.KVH * w
  BY <1>1, <1>2
<1>6. Sums(<< x, x >>, "flops", i.KVH * w + i.KVH * w)
  BY <1>4, <1>5, SumsTwo
<1> QED BY <1>3, <1>4, <1>6 DEF w

LEMMA AttentionGenPIM ==
  ASSUME NEW gen \in Seq(Spans), NEW i, Dimensions(i), i.group \in Nat, i.nearbank \in BOOLEAN
  PROVE  Sums(AttentionGenExecutionPIM(i, gen), "flops", i.KVH * (2 * GroupWork(i, gen)))
<1> DEFINE w == GroupWork(i, gen)
           x == GenScoringPIM(i, gen)
           y == GenSoftmaxPIM(i, gen)
           z == GenContextPIM(i, gen)
<1>1. GroupFlops(i, gen) = i.KVH * w /\ w \in Nat /\ i.KVH \in Nat
  BY GroupFlopsIs, ProductType DEF GroupWork, Dimensions
<1>2. x.flops = GroupFlops(i, gen) /\ z.flops = GroupFlops(i, gen)
  <2>1. ASSUME NEW time, NEW products
        PROVE  GenProductPIM(i, gen, time, products).flops = GroupFlops(i, gen)
    BY DEF GenProductPIM, Phase
  <2> QED BY <2>1 DEF GenScoringPIM, GenContextPIM
<1>3. y.flops = 0
  BY DEF GenSoftmaxPIM, ComputeOnly, Phase
<1>4. AttentionGenExecutionPIM(i, gen) = << x, y, z >>
  BY DEF AttentionGenExecutionPIM
<1> HIDE DEF x, y, z, w
<1>5. i.KVH * w \in Nat /\ (i.KVH * w + 0) + i.KVH * w = i.KVH * (2 * w)
  BY <1>1, ProductType
<1>6. x["flops"] = i.KVH * w /\ z["flops"] = i.KVH * w /\ y["flops"] = 0 /\ 0 \in Nat
  BY <1>1, <1>2, <1>3
<1>7. Sums(<< x, y >>, "flops", i.KVH * w + 0) /\ Sums(<< z >>, "flops", i.KVH * w)
  BY <1>5, <1>6, SumsTwo, SumsOne
<1>8. Sums(<< x, y >> \o << z >>, "flops", (i.KVH * w + 0) + i.KVH * w)
  BY <1>7, SumsJoin
<1>9. << x, y >> \o << z >> = << x, y, z >>
  BY TripleOf
<1> QED BY <1>4, <1>5, <1>8, <1>9 DEF w

\* Latent attention counts the same operations on each processor.
LatentGenWork(i, gen) ==
  i.H * (HeadWork(gen, i.hd + i.rope) + SoftmaxWork(gen) + HeadWork(gen, i.hd))
LatentFlashWork(i, gen) == i.H * (HeadWork(gen, i.hd + i.rope) + HeadWork(gen, i.hd))
AbsorbedGenWork(i, gen) ==
  i.H * (HeadWork(gen, i.rank) + HeadWork(gen, i.rope) + SoftmaxWork(gen) + HeadWork(gen, i.rank))
AbsorbedFlashWork(i, gen) ==
  i.H * Total([k \in 1 .. Len(gen) |-> 2 * ((i.rank + i.rope) + i.rank) * gen[k].n])

LEMMA AbsorbedFlashIs ==
  ASSUME NEW gen \in Seq(Spans), NEW i, Dimensions(i), i.rank \in Nat
  PROVE  LET g == [k \in 1 .. Len(gen) |-> 2 * ((i.rank + i.rope) + i.rank) * gen[k].n]
         IN /\ OverSequences(LAMBDA s : 2 * i.H * ((i.rank + i.rope) + i.rank) * s.n, gen)
                 = i.H * Total(g)
            /\ Total(g) \in Nat
<1> DEFINE N == Len(gen)
           d == (i.rank + i.rope) + i.rank
           g == [k \in 1 .. N |-> 2 * d * gen[k].n]
           f == [k \in 1 .. N |-> 2 * i.H * d * gen[k].n]
<1>1. /\ N \in Nat /\ i.H \in Nat /\ d \in Nat
      /\ \A k \in 1 .. N : gen[k].n \in Nat
  BY SequencesAre DEF Dimensions
<1>2. OverSequences(LAMBDA s : 2 * i.H * d * s.n, gen) = Total(f)
  BY DEF OverSequences
<1> HIDE DEF d
<1>3. ASSUME NEW k \in 1 .. N PROVE g[k] \in Nat /\ f[k] = i.H * g[k]
  <2> DEFINE n == gen[k].n
  <2>1. n \in Nat /\ g[k] = 2 * d * n /\ f[k] = 2 * i.H * d * n
    BY <1>1
  <2> HIDE DEF n, g, f
  <2> DEFINE x == d * n
  <2>2. x \in Nat /\ 2 * d * n = 2 * x
    BY <1>1, <2>1, ProductType
  <2>3. 2 * i.H * d * n = (2 * i.H) * x
    BY <1>1, <2>1
  <2> HIDE DEF x
  <2>4. (2 * i.H) * x = i.H * (2 * x)
    BY <1>1, <2>2
  <2> QED BY <2>1, <2>2, <2>3, <2>4
<1>4. Numbers(g, N) /\ Multiple(f, g, N, i.H)
  BY <1>1, <1>3 DEF Numbers, Multiple
<1>5. Total(f) = i.H * Total(g) /\ Total(g) \in Nat
  <2> HIDE DEF g, f
  <2> QED BY <1>4, TotalTimes, TotalSum
<1> QED BY <1>2, <1>5 DEF d

LEMMA LatentGenGPU ==
  ASSUME NEW gen \in Seq(Spans), NEW i, Dimensions(i), i.use_flash_mla \in BOOLEAN
  PROVE  Sums(MultiLatentAttentionGenExecutionGPU(i, gen), "flops",
              IF i.use_flash_mla THEN LatentFlashWork(i, gen) ELSE LatentGenWork(i, gen))
<1> DEFINE a == HeadWork(gen, i.hd + i.rope)
           b == SoftmaxWork(gen)
           c == HeadWork(gen, i.hd)
<1>1. i.hd \in Nat /\ i.H \in Nat /\ i.hd + i.rope \in Nat
  BY DEF Dimensions
<1>2. /\ HeadFlops(i, gen, i.hd + i.rope) = i.H * a /\ a \in Nat
      /\ HeadFlops(i, gen, i.hd) = i.H * c /\ c \in Nat
  BY <1>1, HeadFlopsIs
<1>3. CASE i.use_flash_mla
  <2> DEFINE x == MLAGenFlashGPU(i, gen)
  <2>1. x.flops = HeadFlops(i, gen, i.hd + i.rope) + HeadFlops(i, gen, i.hd)
    BY DEF MLAGenFlashGPU, MLAGenFlash, Phase
  <2>2. MultiLatentAttentionGenExecutionGPU(i, gen) = << x >>
    BY <1>3 DEF MultiLatentAttentionGenExecutionGPU
  <2> HIDE DEF x, a, c
  <2>3. i.H * a + i.H * c = i.H * (a + c) /\ i.H * (a + c) \in Nat
    BY <1>1, <1>2, ProductType
  <2>4. x["flops"] = i.H * (a + c)
    BY <1>2, <2>1, <2>3
  <2>5. Sums(<< x >>, "flops", i.H * (a + c))
    BY <2>3, <2>4, SumsOne
  <2> QED BY <1>3, <2>2, <2>5 DEF LatentFlashWork, a, c
<1>4. CASE ~i.use_flash_mla
  <2> DEFINE x == MLAGenScoringGPU(i, gen)
             y == [k \in 1 .. Len(gen) |-> MLAGenSoftmaxGPU(i, gen[k])]
             z == MLAGenContextGPU(i, gen)
  <2>1. x.flops = HeadFlops(i, gen, i.hd + i.rope) /\ z.flops = HeadFlops(i, gen, i.hd)
    BY DEF MLAGenScoringGPU, MLAGenScoring, MLAGenContextGPU, MLAGenContext, Phase
  <2>2. MultiLatentAttentionGenExecutionGPU(i, gen) = (<< x >> \o y) \o << z >>
    BY <1>4 DEF MultiLatentAttentionGenExecutionGPU, EachSequence
  <2>3. Phased(y, Len(gen))
    BY SequencesAre DEF Phased
  <2>4. Softmaxes(y, gen, i.H)
    BY <2>3 DEF Softmaxes, MLAGenSoftmaxGPU, MLAGenSoftmax, SoftmaxOf, Phase
  <2> HIDE DEF x, y, z
  <2>5. Sums(y, "flops", i.H * b) /\ b \in Nat
    BY <1>1, <2>4, SoftmaxesSum
  <2> HIDE DEF a, b, c
  <2>6. /\ i.H * a \in Nat /\ i.H * c \in Nat
        /\ (i.H * a + i.H * b) + i.H * c = i.H * (a + b + c)
    BY <1>1, <1>2, <2>5, ProductType
  <2>7. x["flops"] = i.H * a /\ z["flops"] = i.H * c
    BY <1>2, <2>1
  <2>8. Sums(<< x >>, "flops", i.H * a) /\ Sums(<< z >>, "flops", i.H * c)
    BY <2>6, <2>7, SumsOne
  <2>9. Sums(<< x >> \o y, "flops", i.H * a + i.H * b)
    BY <2>5, <2>8, SumsJoin
  <2>10. Sums((<< x >> \o y) \o << z >>, "flops", (i.H * a + i.H * b) + i.H * c)
    BY <2>8, <2>9, SumsJoin
  <2> QED BY <1>4, <2>2, <2>6, <2>10 DEF LatentGenWork, a, b, c
<1> QED BY <1>3, <1>4

LEMMA AbsorbedGenGPU ==
  ASSUME NEW gen \in Seq(Spans), NEW i, Dimensions(i), i.rank \in Nat, i.use_flash_mla \in BOOLEAN
  PROVE  Sums(AbsorbMLAGenExecutionGPU(i, gen), "flops",
              IF i.use_flash_mla THEN AbsorbedFlashWork(i, gen) ELSE AbsorbedGenWork(i, gen))
<1> DEFINE a == HeadWork(gen, i.rank)
           b == SoftmaxWork(gen)
           c == HeadWork(gen, i.rope)
<1>1. i.rank \in Nat /\ i.rope \in Nat /\ i.H \in Nat
  BY DEF Dimensions
<1>2. /\ HeadFlops(i, gen, i.rank) = i.H * a /\ a \in Nat
      /\ HeadFlops(i, gen, i.rope) = i.H * c /\ c \in Nat
  BY <1>1, HeadFlopsIs
<1>3. CASE i.use_flash_mla
  <2> DEFINE x == AbsorbGenFlashGPU(i, gen)
             w == Total([k \in 1 .. Len(gen) |-> 2 * ((i.rank + i.rope) + i.rank) * gen[k].n])
             v == OverSequences(LAMBDA s : 2 * i.H * ((i.rank + i.rope) + i.rank) * s.n, gen)
  <2>1. x.flops = v
    BY DEF AbsorbGenFlashGPU, AbsorbGenFlash, Phase
  <2>2. AbsorbMLAGenExecutionGPU(i, gen) = << x >>
    BY <1>3 DEF AbsorbMLAGenExecutionGPU
  <2>3. v = i.H * w /\ w \in Nat
    BY AbsorbedFlashIs
  <2>4. AbsorbedFlashWork(i, gen) = i.H * w
    BY DEF AbsorbedFlashWork
  <2> HIDE DEF x, v, w
  <2>5. i.H * w \in Nat
    BY <1>1, <2>3, ProductType
  <2>6. x["flops"] = i.H * w
    BY <2>1, <2>3
  <2>7. Sums(<< x >>, "flops", i.H * w)
    BY <2>5, <2>6, SumsOne
  <2> QED BY <1>3, <2>2, <2>4, <2>7
<1>4. CASE ~i.use_flash_mla
  <2> DEFINE x == AbsorbGenScoringGPU(i, gen)
             r == AbsorbGenRopeGPU(i, gen)
             y == [k \in 1 .. Len(gen) |-> AbsorbGenSoftmaxGPU(i, gen[k])]
             z == AbsorbGenContextGPU(i, gen)
  <2>1. /\ x.flops = HeadFlops(i, gen, i.rank) /\ z.flops = HeadFlops(i, gen, i.rank)
        /\ r.flops = HeadFlops(i, gen, i.rope)
    BY DEF AbsorbGenScoringGPU, AbsorbGenRopeGPU, AbsorbGenContextGPU, AbsorbGenContext,
           LatentScoring, Phase
  <2>2. AbsorbMLAGenExecutionGPU(i, gen) = (<< x, r >> \o y) \o << z >>
    BY <1>4 DEF AbsorbMLAGenExecutionGPU, EachSequence
  <2>3. Phased(y, Len(gen))
    BY SequencesAre DEF Phased
  <2>4. Softmaxes(y, gen, i.H)
    BY <2>3 DEF Softmaxes, AbsorbGenSoftmaxGPU, SoftmaxOf, Phase
  <2> HIDE DEF x, y, z, r
  <2>5. Sums(y, "flops", i.H * b) /\ b \in Nat
    BY <1>1, <2>4, SoftmaxesSum
  <2> HIDE DEF a, b, c
  <2>6. /\ i.H * a \in Nat /\ i.H * c \in Nat
        /\ ((i.H * a + i.H * c) + i.H * b) + i.H * a = i.H * (a + c + b + a)
    <3>1. i.H * a \in Nat /\ i.H * c \in Nat
      BY <1>1, <1>2, ProductType
    <3>2. ((i.H * a + i.H * c) + i.H * b) + i.H * a = i.H * (a + c + b + a)
      BY <1>1, <1>2, <2>5, FourTerms
    <3> QED BY <3>1, <3>2
  <2>7. x["flops"] = i.H * a /\ z["flops"] = i.H * a /\ r["flops"] = i.H * c
    BY <1>2, <2>1
  <2>8. Sums(<< x, r >>, "flops", i.H * a + i.H * c) /\ Sums(<< z >>, "flops", i.H * a)
    BY <2>6, <2>7, SumsTwo, SumsOne
  <2>9. Sums(<< x, r >> \o y, "flops", (i.H * a + i.H * c) + i.H * b)
    BY <2>5, <2>8, SumsJoin
  <2>10. Sums((<< x, r >> \o y) \o << z >>, "flops", ((i.H * a + i.H * c) + i.H * b) + i.H * a)
    BY <2>8, <2>9, SumsJoin
  <2> QED BY <1>4, <2>2, <2>6, <2>10 DEF AbsorbedGenWork, a, b, c
<1> QED BY <1>3, <1>4

LEMMA LatentGenLogic ==
  ASSUME NEW gen \in Seq(Spans), NEW i, Dimensions(i), i.use_flash_mla \in BOOLEAN
  PROVE  Sums(MultiLatentAttentionGenExecutionLogic(i, gen), "flops",
              IF i.use_flash_mla THEN LatentFlashWork(i, gen) ELSE LatentGenWork(i, gen))
<1> DEFINE a == HeadWork(gen, i.hd + i.rope)
           b == SoftmaxWork(gen)
           c == HeadWork(gen, i.hd)
<1>1. i.hd \in Nat /\ i.H \in Nat /\ i.hd + i.rope \in Nat
  BY DEF Dimensions
<1>2. /\ HeadFlops(i, gen, i.hd + i.rope) = i.H * a /\ a \in Nat
      /\ HeadFlops(i, gen, i.hd) = i.H * c /\ c \in Nat
  BY <1>1, HeadFlopsIs
<1>3. CASE i.use_flash_mla
  <2> DEFINE x == MLAGenFlashLogic(i, gen)
  <2>1. x.flops = HeadFlops(i, gen, i.hd + i.rope) + HeadFlops(i, gen, i.hd)
    BY DEF MLAGenFlashLogic, MLAGenFlash, Phase
  <2>2. MultiLatentAttentionGenExecutionLogic(i, gen) = << x >>
    BY <1>3 DEF MultiLatentAttentionGenExecutionLogic
  <2> HIDE DEF x, a, c
  <2>3. i.H * a + i.H * c = i.H * (a + c) /\ i.H * (a + c) \in Nat
    BY <1>1, <1>2, ProductType
  <2>4. x["flops"] = i.H * (a + c)
    BY <1>2, <2>1, <2>3
  <2>5. Sums(<< x >>, "flops", i.H * (a + c))
    BY <2>3, <2>4, SumsOne
  <2> QED BY <1>3, <2>2, <2>5 DEF LatentFlashWork, a, c
<1>4. CASE ~i.use_flash_mla
  <2> DEFINE x == MLAGenScoringLogic(i, gen)
             y == [k \in 1 .. Len(gen) |-> MLAGenSoftmaxLogic(i, gen[k])]
             z == MLAGenContextLogic(i, gen)
  <2>1. x.flops = HeadFlops(i, gen, i.hd + i.rope) /\ z.flops = HeadFlops(i, gen, i.hd)
    BY DEF MLAGenScoringLogic, MLAGenScoring, MLAGenContextLogic, MLAGenContext, Phase
  <2>2. MultiLatentAttentionGenExecutionLogic(i, gen) = (<< x >> \o y) \o << z >>
    BY <1>4 DEF MultiLatentAttentionGenExecutionLogic, EachSequence
  <2>3. Phased(y, Len(gen))
    BY SequencesAre DEF Phased
  <2>4. Softmaxes(y, gen, i.H)
    BY <2>3 DEF Softmaxes, MLAGenSoftmaxLogic, MLAGenSoftmax, SoftmaxOf, Phase
  <2> HIDE DEF x, y, z
  <2>5. Sums(y, "flops", i.H * b) /\ b \in Nat
    BY <1>1, <2>4, SoftmaxesSum
  <2> HIDE DEF a, b, c
  <2>6. /\ i.H * a \in Nat /\ i.H * c \in Nat
        /\ (i.H * a + i.H * b) + i.H * c = i.H * (a + b + c)
    BY <1>1, <1>2, <2>5, ProductType
  <2>7. x["flops"] = i.H * a /\ z["flops"] = i.H * c
    BY <1>2, <2>1
  <2>8. Sums(<< x >>, "flops", i.H * a) /\ Sums(<< z >>, "flops", i.H * c)
    BY <2>6, <2>7, SumsOne
  <2>9. Sums(<< x >> \o y, "flops", i.H * a + i.H * b)
    BY <2>5, <2>8, SumsJoin
  <2>10. Sums((<< x >> \o y) \o << z >>, "flops", (i.H * a + i.H * b) + i.H * c)
    BY <2>8, <2>9, SumsJoin
  <2> QED BY <1>4, <2>2, <2>6, <2>10 DEF LatentGenWork, a, b, c
<1> QED BY <1>3, <1>4

LEMMA AbsorbedGenLogic ==
  ASSUME NEW gen \in Seq(Spans), NEW i, Dimensions(i), i.rank \in Nat, i.use_flash_mla \in BOOLEAN
  PROVE  Sums(AbsorbMLAGenExecutionLogic(i, gen), "flops",
              IF i.use_flash_mla THEN AbsorbedFlashWork(i, gen) ELSE AbsorbedGenWork(i, gen))
<1> DEFINE a == HeadWork(gen, i.rank)
           b == SoftmaxWork(gen)
           c == HeadWork(gen, i.rope)
<1>1. i.rank \in Nat /\ i.rope \in Nat /\ i.H \in Nat
  BY DEF Dimensions
<1>2. /\ HeadFlops(i, gen, i.rank) = i.H * a /\ a \in Nat
      /\ HeadFlops(i, gen, i.rope) = i.H * c /\ c \in Nat
  BY <1>1, HeadFlopsIs
<1>3. CASE i.use_flash_mla
  <2> DEFINE x == AbsorbGenFlashLogic(i, gen)
             w == Total([k \in 1 .. Len(gen) |-> 2 * ((i.rank + i.rope) + i.rank) * gen[k].n])
             v == OverSequences(LAMBDA s : 2 * i.H * ((i.rank + i.rope) + i.rank) * s.n, gen)
  <2>1. x.flops = v
    BY DEF AbsorbGenFlashLogic, AbsorbGenFlash, Phase
  <2>2. AbsorbMLAGenExecutionLogic(i, gen) = << x >>
    BY <1>3 DEF AbsorbMLAGenExecutionLogic
  <2>3. v = i.H * w /\ w \in Nat
    BY AbsorbedFlashIs
  <2>4. AbsorbedFlashWork(i, gen) = i.H * w
    BY DEF AbsorbedFlashWork
  <2> HIDE DEF x, v, w
  <2>5. i.H * w \in Nat
    BY <1>1, <2>3, ProductType
  <2>6. x["flops"] = i.H * w
    BY <2>1, <2>3
  <2>7. Sums(<< x >>, "flops", i.H * w)
    BY <2>5, <2>6, SumsOne
  <2> QED BY <1>3, <2>2, <2>4, <2>7
<1>4. CASE ~i.use_flash_mla
  <2> DEFINE x == AbsorbGenScoringLogic(i, gen)
             r == AbsorbGenRopeLogic(i, gen)
             y == [k \in 1 .. Len(gen) |-> AbsorbGenSoftmaxLogic(i, gen[k])]
             z == AbsorbGenContextLogic(i, gen)
  <2>1. /\ x.flops = HeadFlops(i, gen, i.rank) /\ z.flops = HeadFlops(i, gen, i.rank)
        /\ r.flops = HeadFlops(i, gen, i.rope)
    BY DEF AbsorbGenScoringLogic, AbsorbGenRopeLogic, AbsorbGenContextLogic, AbsorbGenContext,
           LatentScoring, Phase
  <2>2. AbsorbMLAGenExecutionLogic(i, gen) = (<< x, r >> \o y) \o << z >>
    BY <1>4 DEF AbsorbMLAGenExecutionLogic, EachSequence
  <2>3. Phased(y, Len(gen))
    BY SequencesAre DEF Phased
  <2>4. Softmaxes(y, gen, i.H)
    BY <2>3 DEF Softmaxes, AbsorbGenSoftmaxLogic, SoftmaxOf, Phase
  <2> HIDE DEF x, y, z, r
  <2>5. Sums(y, "flops", i.H * b) /\ b \in Nat
    BY <1>1, <2>4, SoftmaxesSum
  <2> HIDE DEF a, b, c
  <2>6. /\ i.H * a \in Nat /\ i.H * c \in Nat
        /\ ((i.H * a + i.H * c) + i.H * b) + i.H * a = i.H * (a + c + b + a)
    <3>1. i.H * a \in Nat /\ i.H * c \in Nat
      BY <1>1, <1>2, ProductType
    <3>2. ((i.H * a + i.H * c) + i.H * b) + i.H * a = i.H * (a + c + b + a)
      BY <1>1, <1>2, <2>5, FourTerms
    <3> QED BY <3>1, <3>2
  <2>7. x["flops"] = i.H * a /\ z["flops"] = i.H * a /\ r["flops"] = i.H * c
    BY <1>2, <2>1
  <2>8. Sums(<< x, r >>, "flops", i.H * a + i.H * c) /\ Sums(<< z >>, "flops", i.H * a)
    BY <2>6, <2>7, SumsTwo, SumsOne
  <2>9. Sums(<< x, r >> \o y, "flops", (i.H * a + i.H * c) + i.H * b)
    BY <2>5, <2>8, SumsJoin
  <2>10. Sums((<< x, r >> \o y) \o << z >>, "flops", ((i.H * a + i.H * c) + i.H * b) + i.H * a)
    BY <2>8, <2>9, SumsJoin
  <2> QED BY <1>4, <2>2, <2>6, <2>10 DEF AbsorbedGenWork, a, b, c
<1> QED BY <1>3, <1>4

LEMMA LatentGenPIM ==
  ASSUME NEW gen \in Seq(Spans), NEW i, Dimensions(i), i.use_flash_mla \in BOOLEAN
  PROVE  Sums(MultiLatentAttentionGenExecutionPIM(i, gen), "flops",
              IF i.use_flash_mla THEN LatentFlashWork(i, gen) ELSE LatentGenWork(i, gen))
<1> DEFINE a == HeadWork(gen, i.hd + i.rope)
           b == SoftmaxWork(gen)
           c == HeadWork(gen, i.hd)
<1>1. i.hd \in Nat /\ i.H \in Nat /\ i.hd + i.rope \in Nat
  BY DEF Dimensions
<1>2. /\ HeadFlops(i, gen, i.hd + i.rope) = i.H * a /\ a \in Nat
      /\ HeadFlops(i, gen, i.hd) = i.H * c /\ c \in Nat
  BY <1>1, HeadFlopsIs
<1>3. CASE i.use_flash_mla
  <2> DEFINE x == MLAGenFlashPIM(i, gen)
  <2>1. x.flops = HeadFlops(i, gen, i.hd + i.rope) + HeadFlops(i, gen, i.hd)
    BY DEF MLAGenFlashPIM, MLAGenFlash, Phase
  <2>2. MultiLatentAttentionGenExecutionPIM(i, gen) = << x >>
    BY <1>3 DEF MultiLatentAttentionGenExecutionPIM
  <2> HIDE DEF x, a, c
  <2>3. i.H * a + i.H * c = i.H * (a + c) /\ i.H * (a + c) \in Nat
    BY <1>1, <1>2, ProductType
  <2>4. x["flops"] = i.H * (a + c)
    BY <1>2, <2>1, <2>3
  <2>5. Sums(<< x >>, "flops", i.H * (a + c))
    BY <2>3, <2>4, SumsOne
  <2> QED BY <1>3, <2>2, <2>5 DEF LatentFlashWork, a, c
<1>4. CASE ~i.use_flash_mla
  <2> DEFINE x == MLAGenScoringPIM(i, gen)
             y == [k \in 1 .. Len(gen) |-> MLAGenSoftmaxPIM(i, gen[k])]
             z == MLAGenContextPIM(i, gen)
  <2>1. x.flops = HeadFlops(i, gen, i.hd + i.rope) /\ z.flops = HeadFlops(i, gen, i.hd)
    BY DEF MLAGenScoringPIM, MLAGenScoring, MLAGenContextPIM, MLAGenContext, Phase
  <2>2. MultiLatentAttentionGenExecutionPIM(i, gen) = (<< x >> \o y) \o << z >>
    BY <1>4 DEF MultiLatentAttentionGenExecutionPIM, EachSequence
  <2>3. Phased(y, Len(gen))
    BY SequencesAre DEF Phased
  <2>4. Softmaxes(y, gen, i.H)
    BY <2>3 DEF Softmaxes, MLAGenSoftmaxPIM, MLAGenSoftmax, SoftmaxOf, Phase
  <2> HIDE DEF x, y, z
  <2>5. Sums(y, "flops", i.H * b) /\ b \in Nat
    BY <1>1, <2>4, SoftmaxesSum
  <2> HIDE DEF a, b, c
  <2>6. /\ i.H * a \in Nat /\ i.H * c \in Nat
        /\ (i.H * a + i.H * b) + i.H * c = i.H * (a + b + c)
    BY <1>1, <1>2, <2>5, ProductType
  <2>7. x["flops"] = i.H * a /\ z["flops"] = i.H * c
    BY <1>2, <2>1
  <2>8. Sums(<< x >>, "flops", i.H * a) /\ Sums(<< z >>, "flops", i.H * c)
    BY <2>6, <2>7, SumsOne
  <2>9. Sums(<< x >> \o y, "flops", i.H * a + i.H * b)
    BY <2>5, <2>8, SumsJoin
  <2>10. Sums((<< x >> \o y) \o << z >>, "flops", (i.H * a + i.H * b) + i.H * c)
    BY <2>8, <2>9, SumsJoin
  <2> QED BY <1>4, <2>2, <2>6, <2>10 DEF LatentGenWork, a, b, c
<1> QED BY <1>3, <1>4

LEMMA AbsorbedGenPIM ==
  ASSUME NEW gen \in Seq(Spans), NEW i, Dimensions(i), i.rank \in Nat, i.use_flash_mla \in BOOLEAN
  PROVE  Sums(AbsorbMLAGenExecutionPIM(i, gen), "flops",
              IF i.use_flash_mla THEN AbsorbedFlashWork(i, gen) ELSE AbsorbedGenWork(i, gen))
<1> DEFINE a == HeadWork(gen, i.rank)
           b == SoftmaxWork(gen)
           c == HeadWork(gen, i.rope)
<1>1. i.rank \in Nat /\ i.rope \in Nat /\ i.H \in Nat
  BY DEF Dimensions
<1>2. /\ HeadFlops(i, gen, i.rank) = i.H * a /\ a \in Nat
      /\ HeadFlops(i, gen, i.rope) = i.H * c /\ c \in Nat
  BY <1>1, HeadFlopsIs
<1>3. CASE i.use_flash_mla
  <2> DEFINE x == AbsorbGenFlashPIM(i, gen)
             w == Total([k \in 1 .. Len(gen) |-> 2 * ((i.rank + i.rope) + i.rank) * gen[k].n])
             v == OverSequences(LAMBDA s : 2 * i.H * ((i.rank + i.rope) + i.rank) * s.n, gen)
  <2>1. x.flops = v
    BY DEF AbsorbGenFlashPIM, AbsorbGenFlash, Phase
  <2>2. AbsorbMLAGenExecutionPIM(i, gen) = << x >>
    BY <1>3 DEF AbsorbMLAGenExecutionPIM
  <2>3. v = i.H * w /\ w \in Nat
    BY AbsorbedFlashIs
  <2>4. AbsorbedFlashWork(i, gen) = i.H * w
    BY DEF AbsorbedFlashWork
  <2> HIDE DEF x, v, w
  <2>5. i.H * w \in Nat
    BY <1>1, <2>3, ProductType
  <2>6. x["flops"] = i.H * w
    BY <2>1, <2>3
  <2>7. Sums(<< x >>, "flops", i.H * w)
    BY <2>5, <2>6, SumsOne
  <2> QED BY <1>3, <2>2, <2>4, <2>7
<1>4. CASE ~i.use_flash_mla
  <2> DEFINE x == AbsorbGenScoringPIM(i, gen)
             r == AbsorbGenRopePIM(i, gen)
             y == [k \in 1 .. Len(gen) |-> AbsorbGenSoftmaxPIM(i, gen[k])]
             z == AbsorbGenContextPIM(i, gen)
  <2>1. /\ x.flops = HeadFlops(i, gen, i.rank) /\ z.flops = HeadFlops(i, gen, i.rank)
        /\ r.flops = HeadFlops(i, gen, i.rope)
    BY DEF AbsorbGenScoringPIM, AbsorbGenRopePIM, AbsorbGenContextPIM, AbsorbGenContext,
           LatentScoring, Phase
  <2>2. AbsorbMLAGenExecutionPIM(i, gen) = (<< x, r >> \o y) \o << z >>
    BY <1>4 DEF AbsorbMLAGenExecutionPIM, EachSequence
  <2>3. Phased(y, Len(gen))
    BY SequencesAre DEF Phased
  <2>4. Softmaxes(y, gen, i.H)
    BY <2>3 DEF Softmaxes, AbsorbGenSoftmaxPIM, SoftmaxOf, Phase
  <2> HIDE DEF x, y, z, r
  <2>5. Sums(y, "flops", i.H * b) /\ b \in Nat
    BY <1>1, <2>4, SoftmaxesSum
  <2> HIDE DEF a, b, c
  <2>6. /\ i.H * a \in Nat /\ i.H * c \in Nat
        /\ ((i.H * a + i.H * c) + i.H * b) + i.H * a = i.H * (a + c + b + a)
    <3>1. i.H * a \in Nat /\ i.H * c \in Nat
      BY <1>1, <1>2, ProductType
    <3>2. ((i.H * a + i.H * c) + i.H * b) + i.H * a = i.H * (a + c + b + a)
      BY <1>1, <1>2, <2>5, FourTerms
    <3> QED BY <3>1, <3>2
  <2>7. x["flops"] = i.H * a /\ z["flops"] = i.H * a /\ r["flops"] = i.H * c
    BY <1>2, <2>1
  <2>8. Sums(<< x, r >>, "flops", i.H * a + i.H * c) /\ Sums(<< z >>, "flops", i.H * a)
    BY <2>6, <2>7, SumsTwo, SumsOne
  <2>9. Sums(<< x, r >> \o y, "flops", (i.H * a + i.H * c) + i.H * b)
    BY <2>5, <2>8, SumsJoin
  <2>10. Sums((<< x, r >> \o y) \o << z >>, "flops", ((i.H * a + i.H * c) + i.H * b) + i.H * a)
    BY <2>8, <2>9, SumsJoin
  <2> QED BY <1>4, <2>2, <2>6, <2>10 DEF AbsorbedGenWork, a, b, c
<1> QED BY <1>3, <1>4

---------------------------------------------------------------------------
(* The same operations on every processor.                                 *)

\* The sequences that a layer of attention attends for.
Chosen(layer, batch) == IF layer \in SumLayer THEN get_sum(batch) ELSE get_gen(batch)

OwnWork(layer, i, seqs) ==
  CASE layer = "ATTENTION_SUM" -> AttentionSumWork(i, seqs)
    [] layer = "MLA_SUM" -> LatentSumWork(i, seqs)
    [] layer = "ABSORBED_MLA_SUM" -> AbsorbedSumWork(i, seqs)
    [] layer = "MLA_GEN" -> IF i.use_flash_mla THEN LatentFlashWork(i, seqs)
                            ELSE LatentGenWork(i, seqs)
    [] layer = "ABSORBED_MLA_GEN" -> IF i.use_flash_mla THEN AbsorbedFlashWork(i, seqs)
                                     ELSE AbsorbedGenWork(i, seqs)
CallWork(layer, i, batch) ==
  IF Tokens(Chosen(layer, batch)) = 0 THEN 0 ELSE OwnWork(layer, i, Chosen(layer, batch))

LEMMA ChosenType ==
  ASSUME NEW batch \in Seq(Spans), NEW layer
  PROVE  /\ get_sum(batch) \in Seq(Spans) /\ get_gen(batch) \in Seq(Spans)
         /\ Chosen(layer, batch) \in Seq(Spans)
         /\ get_sum(batch) \in Seq({ s \in Range(batch) : s.sum })
         /\ get_gen(batch) \in Seq({ s \in Range(batch) : ~s.sum })
<1>1. \A S : /\ Among(batch, S) \in Seq(Spans) /\ Among(batch, S) \in Seq(Spans \cap S)
  BY AmongType
<1>2. \A S : Seq(Spans \cap S) \subseteq Seq(S)
  BY SeqMonotonic
<1>3. \A S : Among(batch, S) \in Seq(S)
  BY <1>1, <1>2
<1> QED BY <1>1, <1>3 DEF get_sum, get_gen, Chosen

\* The layers whose functions count the same operations on each processor.
SameAttention(layer, i) ==
  /\ layer \in AttentionLayers \ {"ATTENTION_GEN"}
  /\ ~(layer = "MLA_SUM" /\ i.use_flash_attention)
  /\ {i.use_flash_attention, i.use_flash_mla} \subseteq BOOLEAN
  /\ layer \in {"ABSORBED_MLA_SUM", "ABSORBED_MLA_GEN"} => i.rank \in Nat

LEMMA SameAttentionWork ==
  ASSUME NEW call, NEW i, SameAttention(call.layer, i), Dimensions(i), NEW batch \in Seq(Spans),
         call.layer = "ATTENTION_SUM" => IntFits(i, get_sum(batch)), NEW p \in Processor
  PROVE  Sums(ExecutionPhases(call, p, i, batch), "flops", CallWork(call.layer, i, batch))
<1> DEFINE seqs == Chosen(call.layer, batch)
           l == call.layer
<1>1. l \in AttentionLayers /\ l # "ATTENTION_GEN" /\ i.use_flash_mla \in BOOLEAN
      /\ (l = "MLA_SUM" => ~i.use_flash_attention)
      /\ (l \in {"ABSORBED_MLA_SUM", "ABSORBED_MLA_GEN"} => i.rank \in Nat)
  BY DEF SameAttention
<1>2. seqs \in Seq(Spans) /\ (l = "ATTENTION_SUM" => IntFits(i, seqs))
  BY ChosenType DEF Chosen, SumLayer
<1>3. CASE Tokens(seqs) = 0
  <2>1. ExecutionPhases(call, p, i, batch) = << >>
    BY <1>1, <1>3 DEF ExecutionPhases, Chosen, SumLayer, GenLayer, AttentionLayers, DecodeLayers
  <2> QED BY <1>3, <2>1, SumsNone DEF CallWork
<1>4. CASE Tokens(seqs) # 0
  <2>1. ExecutionPhases(call, p, i, batch)
          = IF l \in SumLayer THEN SumPhases(l, p, i, seqs) ELSE GenPhases(l, p, i, seqs)
    BY <1>1, <1>4 DEF ExecutionPhases, Chosen, SumLayer, GenLayer, AttentionLayers, DecodeLayers
  <2>2. CallWork(l, i, batch) = OwnWork(l, i, seqs)
    BY <1>4 DEF CallWork
  <2> HIDE DEF seqs, l
  <2>3. CASE l = "ATTENTION_SUM"
    <3>1. Sums(SumPhases(l, p, i, seqs), "flops", AttentionSumWork(i, seqs))
      BY <1>2, <2>3, AttentionSumGPU, AttentionSumLogic, AttentionSumPIM
         DEF SumPhases, ByProcessor, Processor
    <3> QED BY <2>1, <2>2, <2>3, <3>1 DEF OwnWork, SumLayer, l
  <2>4. CASE l = "MLA_SUM"
    <3>1. Sums(SumPhases(l, p, i, seqs), "flops", LatentSumWork(i, seqs))
      BY <1>1, <1>2, <2>4, LatentSumGPU, LatentSumLogic, LatentSumPIM
         DEF SumPhases, ByProcessor, Processor
    <3> QED BY <2>1, <2>2, <2>4, <3>1 DEF OwnWork, SumLayer, l
  <2>5. CASE l = "ABSORBED_MLA_SUM"
    <3>1. Sums(SumPhases(l, p, i, seqs), "flops", AbsorbedSumWork(i, seqs))
      BY <1>1, <1>2, <2>5, AbsorbedSumGPU, AbsorbedSumLogic, AbsorbedSumPIM
         DEF SumPhases, ByProcessor, Processor
    <3> QED BY <2>1, <2>2, <2>5, <3>1 DEF OwnWork, SumLayer, l
  <2>6. CASE l = "MLA_GEN"
    <3>1. Sums(GenPhases(l, p, i, seqs), "flops",
               IF i.use_flash_mla THEN LatentFlashWork(i, seqs) ELSE LatentGenWork(i, seqs))
      BY <1>1, <1>2, <2>6, LatentGenGPU, LatentGenLogic, LatentGenPIM
         DEF GenPhases, ByProcessor, Processor
    <3> QED BY <2>1, <2>2, <2>6, <3>1 DEF OwnWork, SumLayer, l
  <2>7. CASE l = "ABSORBED_MLA_GEN"
    <3>1. Sums(GenPhases(l, p, i, seqs), "flops",
               IF i.use_flash_mla THEN AbsorbedFlashWork(i, seqs) ELSE AbsorbedGenWork(i, seqs))
      BY <1>1, <1>2, <2>7, AbsorbedGenGPU, AbsorbedGenLogic, AbsorbedGenPIM
         DEF GenPhases, ByProcessor, Processor
    <3> QED BY <2>1, <2>2, <2>7, <3>1 DEF OwnWork, SumLayer, l
  <2> QED BY <1>1, <2>3, <2>4, <2>5, <2>6, <2>7 DEF AttentionLayers, DecodeLayers
<1> QED BY <1>3, <1>4

---------------------------------------------------------------------------
(* The tiles of flash attention.                                           *)

\* Rows and columns of a tile.
TileRows(i, p) == IF p = "GPU" THEN Smaller(Tile(i), i.hd + i.rope) ELSE Tile(i)
TileColumns(i, p) == IF p = "GPU" THEN Tile(i) ELSE i.hd + i.rope
Tiles(i, p, s) == CeilDiv(s.m, TileRows(i, p)) * CeilDiv(s.m, TileColumns(i, p))
TileWork(i, p) ==
  MatMul(TileRows(i, p), i.hd + i.rope, TileColumns(i, p), 1)
    + MatMul(TileRows(i, p), i.hd, TileColumns(i, p), 1)
FlashWork(i, p, seqs) == Total([k \in 1 .. Len(seqs) |-> Tiles(i, p, seqs[k]) * TileWork(i, p)])

\* A tile has a row and a column.
HasTiles(i) == Dimensions(i) /\ Tile(i) \in Nat /\ Tile(i) # 0 /\ i.hd + i.rope # 0

LEMMA TileShape ==
  ASSUME NEW i, HasTiles(i), NEW p \in Processor
  PROVE  /\ TileRows(i, p) \in Nat /\ TileRows(i, p) # 0
         /\ TileColumns(i, p) \in Nat /\ TileColumns(i, p) # 0
BY DEF HasTiles, Dimensions, TileRows, TileColumns, Smaller

LEMMA TilesType ==
  ASSUME NEW i, HasTiles(i), NEW p \in Processor, NEW s \in Spans
  PROVE  Tiles(i, p, s) \in Nat /\ TileWork(i, p) \in Nat /\ Tiles(i, p, s) * TileWork(i, p) \in Nat
<1>1. s.m \in Nat /\ s.n \in Nat
  BY DEF Spans, RequestType
<1>2. CeilDiv(s.m, TileRows(i, p)) \in Nat /\ CeilDiv(s.m, TileColumns(i, p)) \in Nat
  BY <1>1, TileShape, CeilType
<1>3. Tiles(i, p, s) \in Nat
  BY <1>2, ProductType DEF Tiles
<1>4. TileWork(i, p) \in Nat
  <2> DEFINE r == TileRows(i, p)
             q == TileColumns(i, p)
             k == i.hd + i.rope
             d == i.hd
  <2>1. r \in Nat /\ q \in Nat /\ k \in Nat /\ d \in Nat
    BY TileShape DEF HasTiles, Dimensions
  <2>2. TileWork(i, p) = (2 * r * k * q) * 1 + (2 * r * d * q) * 1
    BY DEF TileWork, MatMul
  <2> HIDE DEF r, q, k, d
  <2>3. 2 * r * k * q \in Nat /\ 2 * r * d * q \in Nat
    BY <2>1, TwoTimes
  <2> DEFINE x == 2 * r * k * q
             y == 2 * r * d * q
  <2> HIDE DEF x, y
  <2>4. x * 1 + y * 1 \in Nat
    BY <2>3 DEF x, y
  <2> QED BY <2>2, <2>4 DEF x, y
<1> QED BY <1>3, <1>4, ProductType

\* A phase of latent attention at the rates of its function.
Rated(p, i, phase) == IF p = "GPU" THEN phase ELSE AtGPURates(i, phase)

LEMMA FlashPhase ==
  ASSUME NEW i, NEW s, NEW p \in Processor
  PROVE  LET phase == FlashAttention(i, s, p, TileRows(i, p), TileColumns(i, p))
             flops == Tiles(i, p, s) * TileWork(i, p) * i.H
         IN phase.flops = flops /\ Rated(p, i, phase).flops = flops
<1> DEFINE r == TileRows(i, p)
           q == TileColumns(i, p)
           k == i.hd + i.rope
           tiles == CeilDiv(s.m, r) * CeilDiv(s.m, q)
           f == tiles * (MatMul(r, k, q, 1) + MatMul(r, i.hd, q, 1)) * i.H
           query == r * k * tiles * i.H
           kv == q * (k + i.hd) * CeilDiv(s.m, q) * i.H
           out == r * i.hd * tiles * i.H
           sums == 2 * r * tiles * i.H
           bytes == i.precision * (query + kv + 2 * out + 2 * sums)
           moves == << Read(p, query), Read(p, kv), Read(p, out), Write(p, out),
                       Read(p, sums), Write(p, sums) >>
<1>1. FlashAttention(i, s, p, r, q) = Phase(i, p, f, bytes, moves)
  <2> HIDE DEF r, q
  <2> QED BY DEF FlashAttention
<1>2. Tiles(i, p, s) * TileWork(i, p) * i.H = f
  BY DEF Tiles, TileWork
<1>3. /\ Phase(i, p, f, bytes, moves).flops = f
      /\ Rated(p, i, Phase(i, p, f, bytes, moves)).flops = f
  <2> HIDE DEF f, bytes, moves
  <2> QED BY DEF Rated, AtGPURates, Phase
<1> HIDE DEF f, r, q, bytes, moves
<1> QED BY <1>1, <1>2, <1>3 DEF r, q

LEMMA LatentSumFlash ==
  ASSUME NEW seqs \in Seq(Spans), NEW i, HasTiles(i), i.use_flash_attention, NEW p \in Processor
  PROVE  Sums(SumPhases("MLA_SUM", p, i, seqs), "flops", i.H * FlashWork(i, p, seqs))
         /\ FlashWork(i, p, seqs) \in Nat
<1> DEFINE N == Len(seqs)
           x == [k \in 1 .. N |->
                   Rated(p, i, FlashAttention(i, seqs[k], p, TileRows(i, p), TileColumns(i, p)))]
           g == [k \in 1 .. N |-> Tiles(i, p, seqs[k]) * TileWork(i, p)]
<1>1. N \in Nat /\ i.H \in Nat /\ \A k \in 1 .. N : seqs[k] \in Spans
  BY DEF HasTiles, Dimensions
<1>2. SumPhases("MLA_SUM", p, i, seqs) = x
  BY DEF SumPhases, ByProcessor, Processor, MultiLatentAttentionSumExecutionGPU,
         MultiLatentAttentionSumExecutionLogic, MultiLatentAttentionSumExecutionPIM,
         EachSequence, MLASumFlashGPU, MLASumFlashLogic, MLASumFlashPIM, TileRows, TileColumns,
         Rated
<1>3. ASSUME NEW k \in 1 .. N PROVE g[k] \in Nat /\ x[k].flops = i.H * g[k]
  <2>1. x[k].flops = g[k] * i.H
    BY FlashPhase
  <2>2. g[k] \in Nat
    BY <1>1, TilesType
  <2> HIDE DEF x, g
  <2> QED BY <1>1, <2>1, <2>2
<1>4. Phased(x, N) /\ Numbers(g, N)
  BY <1>1, <1>3 DEF Phased, Numbers
<1>5. FlashWork(i, p, seqs) = Total(g)
  BY DEF FlashWork
<1> HIDE DEF x, g
<1>6. Each(x, "flops", g, i.H, N)
  BY <1>1, <1>3, <1>4 DEF Each
<1> QED BY <1>2, <1>4, <1>5, <1>6, SumsEach, TotalSum

---------------------------------------------------------------------------
(* The operations of projections and activations.                          *)

\* The execution of a matrix, which there is none of without rows.
LEMMA MatrixEmpty ==
  ASSUME NEW m \in Nat, NEW k \in Positive, NEW phase
  PROVE  UnlessEmpty(<< m, k >>, phase) = IF m = 0 THEN << >> ELSE << phase >>
<1>1. Size(<< m, k >>) = m * k
  BY MatrixSize DEF Positive
<1>2. m * k = 0 <=> m = 0
  BY ProductType DEF Positive
<1> QED BY <1>1, <1>2 DEF UnlessEmpty

LEMMA HeadsEmpty ==
  ASSUME NEW h \in Positive, NEW m \in Nat, NEW k \in Positive, NEW phase
  PROVE  UnlessEmpty(<< h, m, k >>, phase) = IF m = 0 THEN << >> ELSE << phase >>
<1>1. Size(<< h, m, k >>) = (h * m) * k
  BY HeadsSize DEF Positive
<1>2. h * m \in Nat /\ (h * m = 0 <=> m = 0)
  BY ProductType DEF Positive
<1> DEFINE x == h * m
<1> HIDE DEF x
<1>3. x * k = 0 <=> x = 0
  BY <1>2, ProductType DEF Positive, x
<1> QED BY <1>1, <1>2, <1>3 DEF UnlessEmpty, x

\* One phase, or none if there are no rows: then it has no operations either.
LEMMA SumsUnless ==
  ASSUME NEW m \in Nat, NEW phase, NEW field, NEW x \in Nat, phase[field] = x, m = 0 => x = 0
  PROVE  Sums(IF m = 0 THEN << >> ELSE << phase >>, field, x)
BY SumsOne, SumsNone

LEMMA LinearFlops ==
  ASSUME NEW call, call.layer = "LINEAR", NEW m \in Nat, NEW k \in Positive, NEW n \in Positive,
         call.in.shape = << m, k >>, call.w = << k, n >>, NEW i, NEW batch, NEW p \in Processor
  PROVE  Sums(ExecutionPhases(call, p, i, batch), "flops", m * (2 * (k * n)))
<1> DEFINE phase == LinearPhase(i, p, << m, k >>, << k, n >>)
<1>1. ExecutionPhases(call, p, i, batch) = UnlessEmpty(<< m, k >>, phase)
  BY DEF ExecutionPhases, SumLayer, GenLayer, LayerPhases, ByProcessor, Processor,
         LinearExecutionGPU, LinearExecutionLogic, LinearExecutionPIM
<1>2. phase.flops = 2 * m * k * n
  BY DEF LinearPhase, NearWeight, Product, Phase
<1> HIDE DEF phase
<1> DEFINE x == k * n
<1>3. x \in Nat /\ 2 * m * k * n = m * (2 * x)
  <2>1. x \in Nat
    BY ProductType DEF Positive
  <2>2. 2 * m * k * n = (2 * m) * (k * n)
    BY DEF Positive
  <2> HIDE DEF x
  <2>3. (2 * m) * x = m * (2 * x)
    BY <2>1
  <2> QED BY <2>1, <2>2, <2>3 DEF x
<1> HIDE DEF x
<1>4. m * (2 * x) \in Nat /\ (m = 0 => m * (2 * x) = 0)
  BY <1>3, ProductType
<1>5. phase["flops"] = m * (2 * x)
  BY <1>2, <1>3
<1>6. Sums(IF m = 0 THEN << >> ELSE << phase >>, "flops", m * (2 * x))
  BY <1>4, <1>5, SumsUnless
<1> QED BY <1>1, <1>6, MatrixEmpty DEF x

\* The operations of a product for each head on a processor.
BatchedWork(p, m, k, n) == IF p = "GPU" THEN (2 * m * k) * n ELSE (2 * m) * k

LEMMA BatchedFlops ==
  ASSUME NEW call, call.layer = "BATCHED_LINEAR", NEW m \in Nat, NEW h \in Positive,
         NEW k \in Positive, NEW n \in Positive,
         call.in.shape = << h, m, k >>, call.w = << h, k, n >>, NEW i, NEW batch,
         NEW p \in Processor
  PROVE  Sums(ExecutionPhases(call, p, i, batch), "flops", h * BatchedWork(p, m, k, n))
<1> DEFINE w == BatchedWork(p, m, k, n)
<1>1. w \in Nat /\ h \in Nat /\ (m = 0 => w = 0)
  <2>1. 2 * m * k \in Nat /\ k \in Nat /\ n \in Nat /\ (m = 0 => 2 * m * k = 0)
    <3>1. (2 * m) * k \in Nat
      BY ProductType DEF Positive
    <3> QED BY <3>1 DEF Positive
  <2> DEFINE x == 2 * m * k
  <2> HIDE DEF x
  <2>2. x * n \in Nat /\ (x = 0 => x * n = 0)
    BY <2>1, ProductType DEF x
  <2> QED BY <2>1, <2>2 DEF BatchedWork, Positive, x
<1>2. \E phase : /\ phase["flops"] = h * w
                 /\ ExecutionPhases(call, p, i, batch) = UnlessEmpty(<< h, m, k >>, phase)
  <2>1. CASE p = "GPU"
    <3> DEFINE input == IF i.duplicated_input THEN m * k ELSE m * k * h
               moves(size) == << Read("GPU", size), Read("GPU", k * n * h),
                                 Write("GPU", m * n * h) >>
               bytes == i.precision * (input + k * n * h + m * n * h)
               ideal == moves(Size(<< h, m, k >>))
               f == 2 * m * k * n * h
               phase == [Phase(i, "GPU", f, bytes, moves(input)) EXCEPT !.ideal = ideal]
    <3>1. ExecutionPhases(call, p, i, batch) = UnlessEmpty(<< h, m, k >>, phase)
      BY <2>1 DEF ExecutionPhases, SumLayer, GenLayer, LayerPhases, ByProcessor,
                  BatchedLinearExecutionGPU
    <3>2. phase.flops = f
      <4> HIDE DEF f, bytes, ideal, moves, input
      <4> QED BY DEF Phase
    <3> HIDE DEF phase
    <3>3. f = h * w
      <4> DEFINE x == 2 * m * k * n
      <4>1. w = x
        BY <2>1 DEF BatchedWork
      <4>2. f = x * h
        OBVIOUS
      <4> HIDE DEF w, f, x
      <4> QED BY <1>1, <4>1, <4>2
    <3> QED BY <3>1, <3>2, <3>3
  <2>2. CASE p # "GPU"
    <3> DEFINE act == FromHost(Size(<< h, m, k >>), h * m * n)
               phase == NearWeight(i, p, h, m, k, Size(<< h, k, n >>), act)
    <3>1. ExecutionPhases(call, p, i, batch) = UnlessEmpty(<< h, m, k >>, phase)
      BY <2>2 DEF ExecutionPhases, SumLayer, GenLayer, LayerPhases, ByProcessor, Processor,
                  BatchedLinearExecutionLogic, BatchedLinearExecutionPIM, BatchedNear
    <3>2. phase.flops = 2 * h * m * k
      <4> HIDE DEF act
      <4> QED BY DEF NearWeight, Product, Phase
    <3> HIDE DEF phase
    <3>3. 2 * h * m * k = h * w
      <4>1. w = (2 * m) * k
        BY <2>2 DEF BatchedWork
      <4> HIDE DEF w
      <4>2. 2 * h * m * k = h * ((2 * m) * k)
        BY DEF Positive
      <4> QED BY <4>1, <4>2
    <3> QED BY <3>1, <3>2, <3>3
  <2> QED BY <2>1, <2>2
<1> HIDE DEF w
<1>3. PICK phase : /\ phase["flops"] = h * w
                   /\ ExecutionPhases(call, p, i, batch) = UnlessEmpty(<< h, m, k >>, phase)
  BY <1>2
<1>4. h * w \in Nat /\ (m = 0 => h * w = 0)
  BY <1>1, ProductType
<1>5. Sums(IF m = 0 THEN << >> ELSE << phase >>, "flops", h * w)
  BY <1>3, <1>4, SumsUnless
<1> QED BY <1>3, <1>5, HeadsEmpty DEF w

ActivationWork(p, precision, m, f) == IF p = "GPU" THEN 0 ELSE precision * (m * (2 + f))

LEMMA ActivationFlops ==
  ASSUME NEW call, call.layer = "ACTIVATION", NEW m \in Nat, NEW f \in Positive, NEW k \in Positive,
         call.in.shape = << m, k * f >>, call.out.shape = << m, k >>,
         NEW i, i.precision \in Nat, NEW batch, NEW p \in Processor
  PROVE  Sums(ExecutionPhases(call, p, i, batch), "flops", k * ActivationWork(p, i.precision, m, f))
<1> DEFINE w == ActivationWork(p, i.precision, m, f)
           l == k * f
           in == << m, l >>
           out == << m, k >>
           bytes == i.precision * (Size(out) + Size(in) + Size(out))
<1>1. l \in Positive /\ k \in Nat /\ f \in Nat
  BY ProductType DEF Positive
<1>2. /\ Size(in) = m * l /\ Size(out) = m * k
  <2> HIDE DEF l
  <2> QED BY <1>1, MatrixSize DEF Positive
<1>3. w \in Nat /\ (m = 0 => w = 0)
  <2>1. m * (2 + f) \in Nat /\ (m = 0 => m * (2 + f) = 0)
    BY <1>1, ProductType
  <2> DEFINE x == m * (2 + f)
  <2> HIDE DEF x
  <2>2. i.precision * x \in Nat /\ (x = 0 => i.precision * x = 0)
    BY <2>1, ProductType DEF x
  <2> QED BY <2>1, <2>2 DEF ActivationWork, x
<1>4. p # "GPU" => bytes = k * w
  <2>1. bytes = i.precision * (m * k + m * (k * f) + m * k)
    BY <1>2
  <2>2. m * k + m * (k * f) + m * k = k * (m * (2 + f))
    BY <1>1
  <2> DEFINE x == m * (2 + f)
  <2>3. x \in Nat
    BY <1>1, ProductType
  <2>4. p # "GPU" => w = i.precision * x
    BY DEF ActivationWork
  <2>5. bytes = i.precision * (k * x)
    BY <2>1, <2>2
  <2> HIDE DEF x, bytes, w
  <2>6. i.precision * (k * x) = k * (i.precision * x)
    BY <1>1, <2>3
  <2> QED BY <2>4, <2>5, <2>6
<1>5. \E phase : /\ phase["flops"] = k * w
                 /\ ExecutionPhases(call, p, i, batch) = UnlessEmpty(in, phase)
  <2> HIDE DEF bytes
  <2>1. ASSUME NEW moves, NEW ideal
        PROVE  /\ ActivationPhase(i, p, in, out, moves).flops = IF p = "GPU" THEN 0 ELSE bytes
               /\ [ActivationPhase(i, p, in, out, moves) EXCEPT !.ideal = ideal].flops
                    = IF p = "GPU" THEN 0 ELSE bytes
    <3>1. ActivationPhase(i, p, in, out, moves)
            = Phase(i, p, IF p = "GPU" THEN 0 ELSE bytes, bytes, moves)
      BY DEF ActivationPhase, bytes
    <3> DEFINE x == IF p = "GPU" THEN 0 ELSE bytes
    <3> HIDE DEF x
    <3>2. /\ Phase(i, p, x, bytes, moves).flops = x
          /\ [Phase(i, p, x, bytes, moves) EXCEPT !.ideal = ideal].flops = x
      BY DEF Phase
    <3> QED BY <3>1, <3>2 DEF x
  <2>2. p = "GPU" => k * w = 0
    BY <1>1 DEF ActivationWork
  <2> HIDE DEF w
  <2>3. CASE p = "GPU"
    <3> DEFINE phase == ActivationPhase(i, p, in, out, GateInputOutput(p, in, out))
    <3>1. ExecutionPhases(call, p, i, batch) = UnlessEmpty(in, phase)
      BY <2>3 DEF ExecutionPhases, SumLayer, GenLayer, LayerPhases, ByProcessor,
                  ActivationExecutionGPU
    <3>2. phase.flops = k * w
      BY <2>1, <2>2, <2>3
    <3> QED BY <3>1, <3>2
  <2>4. CASE p = "PIM"
    <3> DEFINE phase == ActivationPhase(i, p, in, out, GateInputOutput(p, in, out))
    <3>1. ExecutionPhases(call, p, i, batch) = UnlessEmpty(in, phase)
      BY <2>4 DEF ExecutionPhases, SumLayer, GenLayer, LayerPhases, ByProcessor,
                  ActivationExecutionPIM
    <3>2. phase.flops = k * w
      BY <1>4, <2>1, <2>4
    <3> QED BY <3>1, <3>2
  <2>5. CASE p = "LOGIC"
    <3> DEFINE moves == << GEMV("LOGIC", Size(out)), GEMV("LOGIC", Size(in)), GEMV("LOGIC", Size(out)) >>
               ideal == GateInputOutput(p, in, out)
               phase == [ActivationPhase(i, p, in, out, moves) EXCEPT !.ideal = ideal]
    <3>1. ExecutionPhases(call, p, i, batch) = UnlessEmpty(in, phase)
      BY <2>5 DEF ExecutionPhases, SumLayer, GenLayer, LayerPhases, ByProcessor,
                  ActivationExecutionLogic
    <3>2. phase.flops = k * w
      <4> HIDE DEF moves, ideal
      <4> QED BY <1>4, <2>1, <2>5
    <3> QED BY <3>1, <3>2
  <2> QED BY <2>3, <2>4, <2>5 DEF Processor
<1> HIDE DEF w
<1>6. PICK phase : /\ phase["flops"] = k * w
                   /\ ExecutionPhases(call, p, i, batch) = UnlessEmpty(in, phase)
  BY <1>5
<1>7. k * w \in Nat /\ (m = 0 => k * w = 0)
  BY <1>1, <1>3, ProductType
<1>8. Sums(IF m = 0 THEN << >> ELSE << phase >>, "flops", k * w)
  BY <1>6, <1>7, SumsUnless
<1>9. UnlessEmpty(in, phase) = IF m = 0 THEN << >> ELSE << phase >>
  <2> HIDE DEF l
  <2> QED BY <1>1, MatrixEmpty
<1> QED BY <1>6, <1>8, <1>9 DEF w

---------------------------------------------------------------------------
(* The shares of a call and the whole call.                                *)

\* h parts of work w, and g of them.
LEMMA Parts ==
  ASSUME NEW ps, NEW qs, NEW share \in Nat, NEW h \in Nat, NEW g \in Nat, NEW w \in Nat,
         share * h = g, Sums(ps, "flops", h * w), Sums(qs, "flops", g * w)
  PROVE  share * Flops(ps) = Flops(qs)
<1>1. Flops(ps) = h * w /\ Flops(qs) = g * w
  BY FlopsAre
<1>2. share * (h * w) = (share * h) * w
  BY Product3
<1> QED BY <1>1, <1>2

\* The work of an attention for one of its heads; KVH heads of keys and values in
\* grouped attention.
HeadUnits(layer, i) == IF layer = "ATTENTION_GEN" THEN i.KVH ELSE i.H
LatentContexts(i, seqs) ==
  Total([k \in 1 .. Len(seqs) |-> 2 * ((i.rank + i.rope) + i.rank) * seqs[k].n])
WorkOf(layer, p, i, seqs) ==
  CASE layer = "ATTENTION_GEN" ->
         IF p = "GPU" THEN GroupWork(i, seqs) ELSE 2 * GroupWork(i, seqs)
    [] layer = "ATTENTION_SUM" ->
         HeadWork(seqs, i.hd) + SoftmaxWork(seqs) + HeadWork(seqs, i.hd)
    [] layer = "MLA_SUM" ->
         IF i.use_flash_attention THEN FlashWork(i, p, seqs)
         ELSE HeadWork(seqs, i.hd + i.rope) + SoftmaxWork(seqs) + HeadWork(seqs, i.hd)
    [] layer = "ABSORBED_MLA_SUM" ->
         HeadWork(seqs, i.rank) + HeadWork(seqs, i.rope) + SoftmaxWork(seqs) + HeadWork(seqs, i.rank)
    [] layer = "MLA_GEN" ->
         IF i.use_flash_mla THEN HeadWork(seqs, i.hd + i.rope) + HeadWork(seqs, i.hd)
         ELSE HeadWork(seqs, i.hd + i.rope) + SoftmaxWork(seqs) + HeadWork(seqs, i.hd)
    [] layer = "ABSORBED_MLA_GEN" ->
         IF i.use_flash_mla THEN LatentContexts(i, seqs)
         ELSE HeadWork(seqs, i.rank) + HeadWork(seqs, i.rope) + SoftmaxWork(seqs)
                + HeadWork(seqs, i.rank)
UnitWork(layer, p, i, batch) ==
  IF Tokens(Chosen(layer, batch)) = 0 THEN 0 ELSE WorkOf(layer, p, i, Chosen(layer, batch))

LEMMA HeadWorkType ==
  ASSUME NEW seqs \in Seq(Spans), NEW dim \in Nat
  PROVE  HeadWork(seqs, dim) \in Nat /\ SoftmaxWork(seqs) \in Nat
<1> DEFINE g == [k \in 1 .. Len(seqs) |-> 2 * seqs[k].m * dim * seqs[k].n]
           f == [k \in 1 .. Len(seqs) |-> 7 * seqs[k].m * seqs[k].n]
<1>1. ASSUME NEW k \in 1 .. Len(seqs) PROVE g[k] \in Nat /\ f[k] \in Nat
  <2>1. seqs[k] \in Spans
    OBVIOUS
  <2>2. seqs[k].m \in Nat /\ seqs[k].n \in Nat
    BY <2>1 DEF Spans, RequestType
  <2> DEFINE m == seqs[k].m
             n == seqs[k].n
  <2> HIDE DEF m, n
  <2>3. 2 * m * dim * n \in Nat
    BY <2>2, TwoTimes DEF m, n
  <2>4. 7 * m * n \in Nat
    <3>1. 7 * m \in Nat /\ n \in Nat
      BY <2>2 DEF m, n
    <3> QED BY <3>1, ProductType
  <2> QED BY <2>3, <2>4 DEF m, n
<1>2. Numbers(g, Len(seqs)) /\ Numbers(f, Len(seqs))
  BY <1>1 DEF Numbers
<1> QED BY <1>2, TotalSum DEF HeadWork, SoftmaxWork

\* What the functions of an attention need of its LayerInfo.
AttentionInfo(layer, i) ==
  /\ layer \in AttentionLayers /\ Dimensions(i)
  /\ {i.use_flash_attention, i.use_flash_mla, i.nearbank} \subseteq BOOLEAN
  /\ layer = "ATTENTION_GEN" => i.group \in Nat
  /\ layer = "MLA_SUM" /\ i.use_flash_attention => HasTiles(i)
  /\ layer \in {"ABSORBED_MLA_SUM", "ABSORBED_MLA_GEN"} => i.rank \in Nat

LEMMA AttentionFlops ==
  ASSUME NEW call, NEW i, AttentionInfo(call.layer, i), NEW batch \in Seq(Spans),
         call.layer = "ATTENTION_SUM" => IntFits(i, get_sum(batch)), NEW p \in Processor
  PROVE  /\ Sums(ExecutionPhases(call, p, i, batch), "flops",
                 HeadUnits(call.layer, i) * UnitWork(call.layer, p, i, batch))
         /\ UnitWork(call.layer, p, i, batch) \in Nat /\ HeadUnits(call.layer, i) \in Nat
<1> DEFINE l == call.layer
           seqs == Chosen(l, batch)
<1>1. /\ l \in AttentionLayers /\ Dimensions(i) /\ i.H \in Nat /\ i.KVH \in Nat
      /\ {i.hd, i.rope, i.hd + i.rope} \subseteq Nat
      /\ seqs \in Seq(Spans) /\ HeadUnits(l, i) \in Nat
  <2>1. l \in AttentionLayers /\ Dimensions(i)
    BY DEF AttentionInfo
  <2>2. i.H \in Nat /\ i.KVH \in Nat /\ i.hd \in Nat /\ i.rope \in Nat
    BY <2>1 DEF Dimensions
  <2>3. i.hd + i.rope \in Nat /\ HeadUnits(l, i) \in Nat
    BY <2>2 DEF HeadUnits
  <2> QED BY <2>1, <2>2, <2>3, ChosenType
<1>2. CASE Tokens(seqs) = 0
  <2>1. ExecutionPhases(call, p, i, batch) = << >>
    BY <1>1, <1>2 DEF ExecutionPhases, Chosen, SumLayer, GenLayer, AttentionLayers, DecodeLayers
  <2>2. UnitWork(l, p, i, batch) = 0
    BY <1>2 DEF UnitWork, WorkOf
  <2> HIDE DEF l
  <2>3. HeadUnits(l, i) * 0 = 0
    BY <1>1
  <2> QED BY <1>1, <2>1, <2>2, <2>3, SumsNone DEF l
<1>3. CASE Tokens(seqs) # 0 /\ l = "ATTENTION_GEN"
  <2>1. ExecutionPhases(call, p, i, batch) = GenPhases(l, p, i, seqs)
    BY <1>3 DEF ExecutionPhases, Chosen, SumLayer, GenLayer
  <2>2. UnitWork(l, p, i, batch) = IF p = "GPU" THEN GroupWork(i, seqs) ELSE 2 * GroupWork(i, seqs)
    BY <1>3 DEF UnitWork, WorkOf
  <2>3. i.group \in Nat /\ i.nearbank \in BOOLEAN /\ HeadUnits(l, i) = i.KVH
    BY <1>3 DEF AttentionInfo, HeadUnits
  <2>4. GroupWork(i, seqs) \in Nat
    <3>1. HeadWork(seqs, i.hd) \in Nat
      BY <1>1, HeadWorkType
    <3> QED BY <2>3, <3>1, ProductType DEF GroupWork
  <2> HIDE DEF seqs
  <2>5. Sums(GenPhases("ATTENTION_GEN", p, i, seqs), "flops",
             i.KVH * (IF p = "GPU" THEN GroupWork(i, seqs) ELSE 2 * GroupWork(i, seqs)))
    BY <1>1, <2>3, AttentionGenGPU, AttentionGenLogic, AttentionGenPIM
       DEF GenPhases, ByProcessor, Processor
  <2> QED BY <1>1, <1>3, <2>1, <2>2, <2>3, <2>4, <2>5
<1>4. CASE Tokens(seqs) # 0 /\ l = "MLA_SUM" /\ i.use_flash_attention
  <2>1. ExecutionPhases(call, p, i, batch) = SumPhases(l, p, i, seqs)
    BY <1>4 DEF ExecutionPhases, Chosen, SumLayer, GenLayer
  <2>2. UnitWork(l, p, i, batch) = FlashWork(i, p, seqs) /\ HeadUnits(l, i) = i.H
    BY <1>4 DEF UnitWork, WorkOf, HeadUnits
  <2>3. HasTiles(i)
    BY <1>4 DEF AttentionInfo
  <2> HIDE DEF seqs
  <2> QED BY <1>1, <1>4, <2>1, <2>2, <2>3, LatentSumFlash
<1>5. CASE Tokens(seqs) # 0 /\ l # "ATTENTION_GEN" /\ ~(l = "MLA_SUM" /\ i.use_flash_attention)
  <2>1. SameAttention(l, i)
    BY <1>1, <1>5 DEF SameAttention, AttentionInfo
  <2>2. Sums(ExecutionPhases(call, p, i, batch), "flops", OwnWork(l, i, seqs))
    <3>1. CallWork(l, i, batch) = OwnWork(l, i, seqs)
      BY <1>5 DEF CallWork
    <3> QED BY <1>1, <2>1, <3>1, SameAttentionWork
  <2>3. HeadUnits(l, i) = i.H
    BY <1>5 DEF HeadUnits
  <2>4. OwnWork(l, i, seqs) = i.H * UnitWork(l, p, i, batch)
    BY <1>1, <1>5 DEF OwnWork, UnitWork, WorkOf, LatentContexts, AttentionSumWork, LatentSumWork, AbsorbedSumWork,
       LatentGenWork, LatentFlashWork, AbsorbedGenWork, AbsorbedFlashWork, AttentionLayers, DecodeLayers
  <2>5. /\ \A d \in Nat : HeadWork(seqs, d) \in Nat /\ SoftmaxWork(seqs) \in Nat
        /\ l \in {"ABSORBED_MLA_SUM", "ABSORBED_MLA_GEN"} =>
             /\ i.rank \in Nat
             /\ Total([k \in 1 .. Len(seqs) |-> 2 * ((i.rank + i.rope) + i.rank) * seqs[k].n]) \in Nat
    <3>1. l \in {"ABSORBED_MLA_SUM", "ABSORBED_MLA_GEN"} => i.rank \in Nat
      BY DEF AttentionInfo
    <3> QED BY <1>1, <3>1, HeadWorkType, AbsorbedFlashIs
  <2>6. UnitWork(l, p, i, batch) \in Nat
    <3> DEFINE x == HeadWork(seqs, i.hd)
               y == HeadWork(seqs, i.hd + i.rope)
               s == SoftmaxWork(seqs)
    <3>1. x \in Nat /\ y \in Nat /\ s \in Nat
      BY <1>1, <2>5
    <3>2. CASE l \in {"ATTENTION_SUM", "MLA_SUM", "MLA_GEN"}
      <4>1. UnitWork(l, p, i, batch) \in { x + s + x, y + s + x, y + x }
        BY <1>5, <3>2 DEF UnitWork, WorkOf
      <4> HIDE DEF x, y, s
      <4> QED BY <3>1, <4>1
    <3>3. CASE l \in {"ABSORBED_MLA_SUM", "ABSORBED_MLA_GEN"}
      <4> DEFINE u == HeadWork(seqs, i.rank)
                 v == HeadWork(seqs, i.rope)
                 z == Total([k \in 1 .. Len(seqs) |-> 2 * ((i.rank + i.rope) + i.rank) * seqs[k].n])
      <4>1. UnitWork(l, p, i, batch) \in { u + v + s + u, z }
        BY <1>5, <3>3 DEF UnitWork, WorkOf, LatentContexts
      <4>2. u \in Nat /\ v \in Nat /\ z \in Nat
        BY <1>1, <2>5, <3>3
      <4> HIDE DEF u, v, s, z
      <4> QED BY <3>1, <4>1, <4>2
    <3> QED BY <1>1, <1>5, <3>2, <3>3 DEF AttentionLayers, DecodeLayers
  <2> QED BY <1>1, <2>2, <2>3, <2>4, <2>6
<1> QED BY <1>1, <1>2, <1>3, <1>4, <1>5

---------------------------------------------------------------------------
(* A rank does its share of every call.                                    *)

\* A tile has room for a row of a head.
HasRoom(c) ==
  c.use_flash_attention =>
    4 * (c.model.head_dim + c.model.qk_rope_head_dim) * c.model.precision_byte <= SharedMem

\* The int products of the prompts do not wrap.
PromptsFit(c, batch) ==
  c.model.qk_rope_head_dim = 0 =>
    \A k \in DOMAIN batch :
      batch[k].sum => batch[k].m * batch[k].n * c.model.head_dim < IntLimit

LEMMA TileType ==
  ASSUME NEW i, Dimensions(i), i.hd # 0, 4 * (i.hd + i.rope) * i.precision <= SharedMem
  PROVE  HasTiles(i)
<1>1. i.hd \in Nat /\ i.rope \in Nat /\ i.precision \in Nat /\ i.precision # 0 /\ SharedMem \in Nat
  BY CostAssumption DEF Dimensions
<1> DEFINE x == 4 * (i.hd + i.rope)
           q == x * i.precision
<1>2. x \in Nat /\ x # 0 /\ i.hd + i.rope # 0
  BY <1>1
<1> HIDE DEF x
<1>3. q \in Nat /\ q # 0
  BY <1>1, <1>2, ProductType
<1>4. Tile(i) = SharedMem \div q /\ q <= SharedMem
  BY DEF Tile, x
<1> HIDE DEF q
<1>5. SharedMem \div q \in Nat /\ SharedMem \div q # 0
  BY <1>1, <1>3, <1>4
<1> QED BY <1>2, <1>4, <1>5 DEF HasTiles

LEMMA PairFields ==
  ASSUME NEW c, SystemType(c), NEW a, NEW b, Pair(c, a, b)
  PROVE  /\ b.layer = a.layer
         /\ b.info.precision = a.info.precision /\ b.info.hd = a.info.hd
         /\ b.info.rope = a.info.rope /\ b.info.rank = a.info.rank
         /\ b.info.use_flash_attention = a.info.use_flash_attention
         /\ b.info.use_flash_mla = a.info.use_flash_mla /\ b.info.nearbank = a.info.nearbank
         /\ a.info.precision \in Positive /\ a.info.hd \in Positive /\ a.info.rope \in Nat
         /\ a.info.precision = c.model.precision_byte /\ a.info.hd = c.model.head_dim
         /\ a.info.rope = c.model.qk_rope_head_dim
         /\ {a.info.use_flash_attention, a.info.use_flash_mla, a.info.nearbank} \subseteq BOOLEAN
         /\ a.info.use_flash_attention => c.use_flash_attention
<1>1. /\ Described(c, a, b) /\ b.layer = a.layer
  BY DEF Pair
<1>2. Model(c.model) /\ c.nearbank \in BOOLEAN
  BY DEF SystemType
<1> QED BY <1>1, <1>2 DEF Described, SharedFields, Model

LEMMA PairAttends ==
  ASSUME NEW c, SystemType(c), HasRoom(c), NEW a, NEW b, Pair(c, a, b), a.layer \in AttentionLayers
  PROVE  /\ AttentionInfo(a.layer, a.info) /\ AttentionInfo(b.layer, b.info)
         /\ c.ne_tp_dg * HeadUnits(a.layer, a.info) = HeadUnits(b.layer, b.info)
         /\ \A p, batch : UnitWork(b.layer, p, b.info, batch) = UnitWork(a.layer, p, a.info, batch)
<1> DEFINE i == a.info
           j == b.info
<1>1. Attends(c, a, b)
  BY DEF Pair, Computes, AttentionLayers, DecodeLayers
<1>2. c.ne_tp_dg \in Positive
  BY DEF SystemType, Shardable
<1>3. /\ i.H \in Positive /\ i.KVH \in Positive
      /\ c.ne_tp_dg * i.H = j.H /\ c.ne_tp_dg * i.KVH = j.KVH
      /\ i.group = j.group /\ {i.cols, j.cols} \subseteq Nat
      /\ (a.layer = "ATTENTION_GEN" => i.group = i.H \div i.KVH)
      /\ (a.layer # "ATTENTION_GEN" /\ a.layer # "ATTENTION_SUM" => i.rank \in Positive)
  BY <1>1 DEF Attends
<1>4. j.H \in Nat /\ j.KVH \in Nat
  BY <1>2, <1>3, ProductType DEF Positive
<1>5. Dimensions(i) /\ Dimensions(j)
  BY <1>3, <1>4, PairFields DEF Dimensions, Positive
<1>6. a.layer = "ATTENTION_GEN" => i.group \in Nat
  BY <1>3 DEF Positive
<1>7. i.use_flash_attention => HasTiles(i) /\ HasTiles(j)
  BY <1>5, PairFields, TileType DEF HasRoom, Positive
<1>8. AttentionInfo(a.layer, i) /\ AttentionInfo(b.layer, j)
  BY <1>3, <1>5, <1>6, <1>7, PairFields DEF AttentionInfo, AttentionLayers, DecodeLayers, Positive
<1>9. c.ne_tp_dg * HeadUnits(a.layer, i) = HeadUnits(b.layer, j)
  BY <1>3, PairFields DEF HeadUnits
<1>10. ASSUME NEW p, NEW batch
       PROVE  UnitWork(b.layer, p, j, batch) = UnitWork(a.layer, p, i, batch)
  <2>1. \A seqs : FlashWork(j, p, seqs) = FlashWork(i, p, seqs)
    BY PairFields DEF FlashWork, Tiles, TileWork, TileRows, TileColumns, Tile
  <2>2. \A seqs : GroupWork(j, seqs) = GroupWork(i, seqs)
    BY <1>3, PairFields DEF GroupWork
  <2>3. /\ j.hd = i.hd /\ j.rope = i.rope /\ j.rank = i.rank /\ b.layer = a.layer
        /\ j.use_flash_attention = i.use_flash_attention /\ j.use_flash_mla = i.use_flash_mla
    BY PairFields
  <2>4. \A seqs : LatentContexts(j, seqs) = LatentContexts(i, seqs)
    BY <2>3 DEF LatentContexts
  <2> HIDE DEF i, j
  <2>5. \A l, seqs : WorkOf(l, p, j, seqs) = WorkOf(l, p, i, seqs)
    BY <2>1, <2>2, <2>3, <2>4 DEF WorkOf
  <2> QED BY <2>3, <2>5 DEF UnitWork, i, j
<1> QED BY <1>8, <1>9, <1>10

LEMMA AttentionShare ==
  ASSUME NEW c, SystemType(c), HasRoom(c), NEW a, NEW b, Pair(c, a, b), a.layer \in AttentionLayers,
         NEW batch \in Seq(Spans), PromptsFit(c, batch), NEW p \in Processor
  PROVE  c.ne_tp_dg * Flops(ExecutionPhases(a, p, a.info, batch))
           = Flops(ExecutionPhases(b, p, b.info, batch))
<1>1. c.ne_tp_dg \in Nat
  BY DEF SystemType, Shardable, Positive
<1>2. a.layer = "ATTENTION_SUM" => IntFits(a.info, get_sum(batch)) /\ IntFits(b.info, get_sum(batch))
  <2>1. CASE a.layer = "ATTENTION_SUM"
    <3>1. c.model.qk_rope_head_dim = 0
      <4>1. Attends(c, a, b)
        BY DEF Pair, Computes, AttentionLayers, DecodeLayers
      <4> QED BY <2>1, <4>1 DEF Attends
    <3>2. \A k \in DOMAIN batch :
            batch[k].sum => batch[k].m * batch[k].n * c.model.head_dim < IntLimit
      BY <3>1 DEF PromptsFit
    <3> DEFINE S == { s \in Range(batch) : s.sum }
    <3>3. \A s \in S : s.m * s.n * c.model.head_dim < IntLimit
      BY <3>2 DEF Range
    <3>4. get_sum(batch) \in Seq(S)
      BY ChosenType
    <3> HIDE DEF S
    <3>5. \A k \in 1 .. Len(get_sum(batch)) : get_sum(batch)[k] \in S
      BY <3>4
    <3>6. a.info.hd = c.model.head_dim /\ b.info.hd = c.model.head_dim
      BY PairFields
    <3> QED BY <3>3, <3>5, <3>6 DEF IntFits
  <2> QED BY <2>1
<1>3. /\ AttentionInfo(a.layer, a.info) /\ AttentionInfo(b.layer, b.info)
      /\ c.ne_tp_dg * HeadUnits(a.layer, a.info) = HeadUnits(b.layer, b.info)
      /\ UnitWork(b.layer, p, b.info, batch) = UnitWork(a.layer, p, a.info, batch)
      /\ b.layer = a.layer
  BY PairAttends, PairFields
<1>4. /\ Sums(ExecutionPhases(a, p, a.info, batch), "flops",
              HeadUnits(a.layer, a.info) * UnitWork(a.layer, p, a.info, batch))
      /\ UnitWork(a.layer, p, a.info, batch) \in Nat /\ HeadUnits(a.layer, a.info) \in Nat
  BY <1>2, <1>3, AttentionFlops
<1>5. /\ Sums(ExecutionPhases(b, p, b.info, batch), "flops",
              HeadUnits(b.layer, b.info) * UnitWork(b.layer, p, b.info, batch))
      /\ HeadUnits(b.layer, b.info) \in Nat
  BY <1>2, <1>3, AttentionFlops
<1> QED BY <1>1, <1>3, <1>4, <1>5, Parts

LEMMA PairFlops ==
  ASSUME NEW c, SystemType(c), HasRoom(c), NEW a, NEW b, Pair(c, a, b), a.layer # "none",
         NEW batch \in Seq(Spans), PromptsFit(c, batch), NEW p \in Processor
  PROVE  \E share \in IF b.layer \in AttentionLayers THEN {c.ne_tp_dg}
                      ELSE {1, c.ne_tp_dg, c.e_tp_dg} :
           share * Flops(ExecutionPhases(a, p, a.info, batch))
             = Flops(ExecutionPhases(b, p, b.info, batch))
<1> DEFINE x == ExecutionPhases(a, p, a.info, batch)
           y == ExecutionPhases(b, p, b.info, batch)
<1>1. /\ {1, c.ne_tp_dg, c.e_tp_dg} \subseteq Nat /\ b.layer = a.layer
      /\ a.info.precision \in Nat /\ b.info.precision = a.info.precision
  BY PairFields DEF SystemType, Shardable, Positive
<1>2. CASE a.layer \in AttentionLayers
  BY <1>1, <1>2, AttentionShare
<1>3. CASE a.layer = "LINEAR"
  <2>1. PICK share \in {1, c.ne_tp_dg, c.e_tp_dg} : Projection(a, b, share)
    BY <1>3 DEF Pair, Computes, AttentionLayers, DecodeLayers
  <2>2. PICK m \in Nat, k, n, l, r \in Positive :
          /\ a.in.shape = << m, k >> /\ a.w = << k, n >>
          /\ b.in.shape = << m, l >> /\ b.w = << l, r >>
          /\ share * (k * n) = l * r
    BY <2>1 DEF Projection
  <2>3. Sums(x, "flops", m * (2 * (k * n))) /\ Sums(y, "flops", m * (2 * (l * r)))
    BY <1>1, <1>3, <2>2, LinearFlops
  <2> DEFINE v == k * n
             w == l * r
  <2>4. v \in Nat /\ w \in Nat /\ share \in Nat
    BY <1>1, ProductType DEF Positive
  <2>5. Flops(x) = m * (2 * v) /\ Flops(y) = m * (2 * w) /\ share * v = w
    BY <2>2, <2>3, FlopsAre
  <2> HIDE DEF v, w, x, y
  <2>6. share * (m * (2 * v)) = m * (2 * (share * v))
    BY <2>4
  <2>7. share * Flops(x) = Flops(y)
    BY <2>5, <2>6
  <2> QED BY <1>1, <1>3, <2>1, <2>7 DEF AttentionLayers, DecodeLayers, x, y
<1>4. CASE a.layer = "BATCHED_LINEAR"
  <2>1. HeadProjection(a, b, c.ne_tp_dg)
    BY <1>4 DEF Pair, Computes, AttentionLayers, DecodeLayers
  <2>2. PICK m \in Nat, h, g, k, n \in Positive :
          /\ a.in.shape = << h, m, k >> /\ a.w = << h, k, n >>
          /\ b.in.shape = << g, m, k >> /\ b.w = << g, k, n >>
          /\ c.ne_tp_dg * h = g
    BY <2>1 DEF HeadProjection
  <2>3. /\ Sums(x, "flops", h * BatchedWork(p, m, k, n))
        /\ Sums(y, "flops", g * BatchedWork(p, m, k, n))
    BY <1>1, <1>4, <2>2, BatchedFlops
  <2>4. BatchedWork(p, m, k, n) \in Nat
    <3> DEFINE z == 2 * m * k
    <3>1. z \in Nat
      <4>1. 2 * m \in Nat /\ k \in Nat
        BY DEF Positive
      <4> QED BY <4>1, ProductType
    <3>2. BatchedWork(p, m, k, n) = IF p = "GPU" THEN z * n ELSE z
      BY DEF BatchedWork
    <3> HIDE DEF z
    <3> QED BY <3>1, <3>2, ProductType DEF Positive
  <2>5. c.ne_tp_dg * Flops(x) = Flops(y)
    BY <1>1, <2>2, <2>3, <2>4, Parts DEF Positive
  <2> QED BY <1>1, <1>4, <2>5 DEF AttentionLayers, DecodeLayers
<1>5. CASE a.layer = "ACTIVATION"
  <2>1. PICK share \in {1, c.ne_tp_dg, c.e_tp_dg} : Activates(a, b, share)
    BY <1>5 DEF Pair, Computes, AttentionLayers, DecodeLayers
  <2>2. PICK m \in Nat, f, k, l \in Positive :
          /\ a.in.shape = << m, k * f >> /\ a.out.shape = << m, k >>
          /\ b.in.shape = << m, l * f >> /\ b.out.shape = << m, l >>
          /\ share * k = l
    BY <2>1 DEF Activates
  <2> DEFINE z == ActivationWork(p, a.info.precision, m, f)
  <2>3. Sums(x, "flops", k * z) /\ Sums(y, "flops", l * z)
    BY <1>1, <1>5, <2>2, ActivationFlops
  <2>4. z \in Nat
    <3> DEFINE q == m * (2 + f)
    <3>1. q \in Nat
      BY ProductType DEF Positive
    <3>2. z = IF p = "GPU" THEN 0 ELSE a.info.precision * q
      BY DEF ActivationWork
    <3> HIDE DEF q
    <3> QED BY <1>1, <3>1, <3>2, ProductType
  <2> HIDE DEF z
  <2>5. share * Flops(x) = Flops(y)
    BY <1>1, <2>2, <2>3, <2>4, Parts DEF Positive
  <2> QED BY <1>1, <1>5, <2>1, <2>5 DEF AttentionLayers, DecodeLayers
<1> QED BY <1>2, <1>3, <1>4, <1>5 DEF Pair, Computes

\* The graph of a device, and what the whole one would be.
LEMMA GraphsOf ==
  ASSUME PlaceInv, NEW d \in Devices
  PROVE  /\ SystemType(system) /\ HasRoom(system) /\ PromptsFit(system, work[d].batch)
         /\ WorkType(system, work[d]) /\ work[d].batch \in Seq(Spans)
         /\ calls[d] = Graph(system, work[d])
         /\ Calls(Unsharded(system), work[d]) = Graph(Unsharded(system), work[d])
         /\ Matched(system, calls[d], Calls(Unsharded(system), work[d]))
<1>1. system \in Systems /\ work \in Works(system) /\ calls[d] = Calls(system, work[d])
  BY DEF PlaceInv
<1>2. SystemType(system) /\ WorkType(system, work[d])
  BY <1>1, SystemsAssumption
<1>3. Work(work[d])
  BY <1>1, ExecutionAssumption
<1>4. HasRoom(system)
  BY <1>1, TilesAssumption DEF HasRoom
<1>5. PromptsFit(system, work[d].batch)
  BY <1>1, IntsFit DEF PromptsFit
<1>6. /\ Calls(system, work[d]) = Graph(system, work[d])
      /\ Calls(Unsharded(system), work[d]) = Graph(Unsharded(system), work[d])
  BY <1>1, CodeAssumption
<1>7. /\ Matched(system, Graph(system, work[d]), Graph(Unsharded(system), work[d]))
      /\ work[d].batch \in Seq(Spans)
  BY <1>2, <1>3, GraphMatched
<1> QED BY <1>1, <1>2, <1>4, <1>5, <1>6, <1>7

\* Of a system and its whole, the phases are those of the code.
LEMMA PhasesOf ==
  ASSUME PlaceInv, NEW d \in Devices, NEW s \in {system, Unsharded(system)},
         NEW k \in DOMAIN Calls(s, work[d]), Calls(s, work[d])[k].layer # "none",
         NEW p \in Processor, NEW i \in Infos(Calls(s, work[d])[k]),
         NEW seqs \in {work[d].batch, Started(work[d].batch), Shorter(work[d].batch)}
  PROVE  Phases(Calls(s, work[d])[k], p, i, seqs) = ExecutionPhases(Calls(s, work[d])[k], p, i, seqs)
<1>1. system \in Systems /\ work \in Works(system)
  BY DEF PlaceInv
<1>2. Calls(s, work[d]) = Graph(s, work[d])
  BY <1>1, CodeAssumption
<1>3. \A j \in DOMAIN Graph(s, work[d]) : \A q \in Processor :
        LET call == Graph(s, work[d])[j]
            batch == work[d].batch
        IN call.layer # "none" =>
             \A ss \in {batch, Started(batch), Shorter(batch)} : \A info \in Infos(call) :
               Phases(call, q, info, ss) = ExecutionPhases(call, q, info, ss)
  BY <1>1, CodeAssumption
<1> QED BY <1>2, <1>3

LEMMA ShardedStep ==
  ASSUME PlaceInv
  PROVE  WorkSharded
<1> SUFFICES ASSUME NEW d \in Devices
             PROVE  LET whole == Calls(Unsharded(system), work[d])
                    IN /\ \A k \in DOMAIN calls[d] : calls[d][k].fits
                       /\ Len(whole) = Len(calls[d])
                       /\ \A k \in DOMAIN whole :
                            whole[k].layer # "none" =>
                              \E share \in IF whole[k].layer \in AttentionLayers
                                           THEN {system.ne_tp_dg}
                                           ELSE {1, system.ne_tp_dg, system.e_tp_dg} :
                                share * CallFlops(calls[d][k], work[d].batch)
                                  = CallFlops(whole[k], work[d].batch)
  BY DEF WorkSharded
<1> DEFINE s == Unsharded(system)
           whole == Calls(s, work[d])
           batch == work[d].batch
<1>1. /\ SystemType(system) /\ HasRoom(system) /\ PromptsFit(system, batch)
      /\ batch \in Seq(Spans) /\ calls[d] = Calls(system, work[d])
      /\ Matched(system, calls[d], whole)
  BY GraphsOf DEF PlaceInv
<1>2. /\ DOMAIN calls[d] = 1 .. Len(calls[d]) /\ DOMAIN whole = 1 .. Len(whole)
      /\ Len(whole) = Len(calls[d])
      /\ \A k \in 1 .. Len(calls[d]) : Pair(system, calls[d][k], whole[k])
  BY <1>1 DEF Matched
<1>3. \A k \in DOMAIN calls[d] : calls[d][k].fits
  BY <1>2 DEF Pair, Fits
<1>4. ASSUME NEW k \in DOMAIN whole, whole[k].layer # "none"
      PROVE  \E share \in IF whole[k].layer \in AttentionLayers THEN {system.ne_tp_dg}
                          ELSE {1, system.ne_tp_dg, system.e_tp_dg} :
               share * CallFlops(calls[d][k], batch) = CallFlops(whole[k], batch)
  <2> DEFINE a == calls[d][k]
             b == whole[k]
             p == Head(a.processors)
  <2>1. Pair(system, a, b) /\ k \in DOMAIN Calls(system, work[d])
    BY <1>1, <1>2
  <2>2. /\ a.layer = b.layer /\ a.layer # "none" /\ a.processors = b.processors
        /\ a.processors # << >> /\ p \in Processor
    <3>1. /\ a.layer = b.layer /\ a.processors = b.processors /\ a.processors \in Seq(Processor)
          /\ (a.layer # "none" => a.processors # << >>)
      BY <2>1 DEF Pair
    <3> HIDE DEF a, b
    <3>2. a.processors # << >> /\ Head(a.processors) \in Processor
      BY <1>4, <3>1 DEF b
    <3> QED BY <1>4, <3>1, <3>2 DEF b
  <2>3. a.info \in Infos(a) /\ b.info \in Infos(b)
    BY DEF Infos
  <2>4. Phases(a, p, a.info, batch) = ExecutionPhases(a, p, a.info, batch)
    <3> DEFINE g == Calls(system, work[d])
    <3>1. a = g[k] /\ k \in DOMAIN g /\ g[k].layer # "none" /\ a.info \in Infos(g[k])
      BY <1>1, <2>1, <2>2, <2>3
    <3> HIDE DEF p, batch
    <3>2. Phases(g[k], p, a.info, batch) = ExecutionPhases(g[k], p, a.info, batch)
      BY <2>2, <3>1, PhasesOf DEF batch
    <3> QED BY <3>1, <3>2
  <2>5. Phases(b, p, b.info, batch) = ExecutionPhases(b, p, b.info, batch)
    BY <2>2, <2>3, PhasesOf
  <2>6. /\ CallFlops(a, batch) = Flops(ExecutionPhases(a, p, a.info, batch))
        /\ CallFlops(b, batch) = Flops(ExecutionPhases(b, p, b.info, batch))
    BY <2>2, <2>4, <2>5 DEF CallFlops
  <2> HIDE DEF a, b, p, batch
  <2>7. \E share \in IF b.layer \in AttentionLayers THEN {system.ne_tp_dg}
                     ELSE {1, system.ne_tp_dg, system.e_tp_dg} :
          share * Flops(ExecutionPhases(a, p, a.info, batch))
            = Flops(ExecutionPhases(b, p, b.info, batch))
    BY <1>1, <2>1, <2>2, PairFlops
  <2> QED BY <2>6, <2>7 DEF a, b, batch
<1> QED BY <1>2, <1>3, <1>4

\* Tensor parallel ranks divide the work of every decoder the program builds and lose
\* none of it, and the shapes that the modules hand on fit (parallel.cpp, layer.cpp).
THEOREM WorkShardedHolds == Spec => []WorkSharded
<1>1. Init => PlaceInv
  BY PlaceInit
<1>2. PlaceInv /\ [Next]_vars => PlaceInv'
  BY PlaceStep
<1>3. PlaceInv => WorkSharded
  BY ShardedStep
<1> QED BY <1>1, <1>2, <1>3, PTL DEF Spec

=============================================================================
