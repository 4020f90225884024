--------------------------- MODULE ExecutorProofs ---------------------------
(***************************************************************************)
(* What the execution functions report and charge: the bytes are those of  *)
(* the transfers, the tiles of flash attention cover a prompt, a longer    *)
(* context takes no less time, a call is the same work on every processor, *)
(* and the commands of a transfer stand for all of it.                     *)
(***************************************************************************)
EXTENDS DecoderProofs

---------------------------------------------------------------------------
(* The tiles of flash attention cover a prompt.                            *)

\* Nothing is left out of a sequence whose elements are all in S.
LEMMA AmongAll ==
  ASSUME NEW S, NEW seq \in Seq(S)
  PROVE  Among(seq, S) = seq
<1>1. PICK h : Keeps(h, S, seq, S) /\ Among(seq, S) = h[Len(seq)]
  BY AmongIs
<1> DEFINE n == Len(seq)
           Good == { j \in 0 .. n : Len(h[j]) = j /\ \A k \in 1 .. j : h[j][k] = seq[k] }
<1>2. n \in Nat /\ \A j \in 1 .. n : seq[j] \in S
  BY SeqDomain
<1>3. h[0] = << >> /\ \A j \in 0 .. n : h[j] \in Seq(S)
  BY <1>1, <1>2 DEF Keeps
<1>4. 0 \in Good
  BY <1>2, <1>3
<1>5. ASSUME NEW j \in 0 .. n - 1, j \in Good PROVE j + 1 \in Good
  <2>1. j + 1 \in 1 .. n /\ (j + 1) - 1 = j /\ j + 1 \in 0 .. n /\ j \in Nat /\ j \in 0 .. n
    BY <1>2, <1>5
  <2>2. h[j + 1] = Append(h[j], seq[j + 1]) /\ seq[j + 1] \in S
    BY <1>1, <1>2, <2>1 DEF Keeps
  <2>3. Len(h[j]) = j /\ h[j] \in Seq(S) /\ \A k \in 1 .. j : h[j][k] = seq[k]
    BY <1>3, <1>5, <2>1
  <2>4. Len(h[j + 1]) = j + 1 /\ \A k \in 1 .. j + 1 : h[j + 1][k] = seq[k]
    <3> DEFINE t == h[j]
               e == seq[j + 1]
    <3> HIDE DEF t, e
    <3>1. Len(Append(t, e)) = j + 1
      BY <2>2, <2>3 DEF t, e
    <3>2. \A k \in 1 .. j + 1 : Append(t, e)[k] = IF k <= j THEN t[k] ELSE e
      BY <2>1, <2>2, <2>3 DEF t, e
    <3> QED BY <2>1, <2>2, <2>3, <3>1, <3>2 DEF t, e
  <2> QED BY <2>1, <2>4
<1> HIDE DEF Good
<1>6. \A j \in 0 .. n : j \in Good
  BY <1>2, <1>4, <1>5, BoundedInduction
<1>7. Len(h[n]) = n /\ (\A k \in 1 .. n : h[n][k] = seq[k]) /\ h[n] \in Seq(S)
  BY <1>2, <1>3, <1>6 DEF Good
<1>8. h[n] = seq
  <2> DEFINE t == h[n]
  <2> HIDE DEF t
  <2> QED BY <1>7, SeqEqual DEF t
<1> QED BY <1>1, <1>8

LEMMA CeilCovers ==
  ASSUME NEW m \in Nat, NEW b \in Positive
  PROVE  CeilDiv(m, b) \in Nat /\ CeilDiv(m, b) * b >= m
<1> DEFINE q == CeilDiv(m, b)
           x == m + b - 1
<1>1. x \in Nat /\ b \in Nat /\ b > 0
  BY DEF Positive
<1>2. q = x \div b
  BY DEF CeilDiv
<1> HIDE DEF x
<1>3. x \div b \in Nat /\ x < b * (x \div b) + b
  BY <1>1
<1>4. q \in Nat /\ x < b * q + b
  BY <1>2, <1>3
<1>5. b * q = q * b
  BY <1>1, <1>4
<1> HIDE DEF q
<1> DEFINE y == q * b
<1> HIDE DEF y
<1>6. y \in Nat
  BY <1>1, <1>4, ProductType DEF y
<1>7. m + b - 1 < y + b
  BY <1>4, <1>5 DEF x, y
<1>8. y >= m
  BY <1>1, <1>6, <1>7
<1> QED BY <1>4, <1>8 DEF q, y

\* A product of larger numbers is larger.
LEMMA ProductMonotone ==
  ASSUME NEW a \in Nat, NEW b \in Nat, NEW x \in Nat, NEW y \in Nat, a <= x, b <= y
  PROVE  a * b <= x * y
<1>1. PICK d \in Nat : x = a + d
  <2>1. x - a \in Nat /\ x = a + (x - a)
    OBVIOUS
  <2> QED BY <2>1
<1>2. PICK e \in Nat : y = b + e
  <2>1. y - b \in Nat /\ y = b + (y - b)
    OBVIOUS
  <2> QED BY <2>1
<1>3. x * y = a * b + a * e + d * b + d * e
  BY <1>1, <1>2
<1>4. a * b \in Nat /\ a * e \in Nat /\ d * b \in Nat /\ d * e \in Nat
  BY ProductType
<1> QED BY <1>3, <1>4

LEMMA TilesCover ==
  ASSUME NEW i, HasTiles(i), NEW p \in Processor, NEW s \in Spans, s.m = s.n
  PROVE  2 * s.m * s.n * (2 * i.hd + i.rope) <= Tiles(i, p, s) * TileWork(i, p)
<1> DEFINE m == s.m
           r == TileRows(i, p)
           q == TileColumns(i, p)
           d == i.hd
           k == i.hd + i.rope
           a == CeilDiv(m, r)
           b == CeilDiv(m, q)
<1>1. m \in Nat /\ r \in Positive /\ q \in Positive /\ d \in Nat /\ k \in Nat
      /\ i.rope \in Nat
  BY TileShape DEF Spans, RequestType, HasTiles, Dimensions, Positive
<1>2. Tiles(i, p, s) = a * b
  BY DEF Tiles
<1>3. TileWork(i, p) = (2 * r * k * q) * 1 + (2 * r * d * q) * 1
  BY DEF TileWork, MatMul
<1>4. 2 * s.m * s.n * (2 * i.hd + i.rope) = 2 * m * m * (d + k)
  <2>1. 2 * i.hd + i.rope = d + k
    BY <1>1
  <2> QED BY <2>1
<1> HIDE DEF m, r, q, d, k
<1>5. a \in Nat /\ b \in Nat /\ a * r >= m /\ b * q >= m
  BY <1>1, CeilCovers
<1> HIDE DEF a, b
<1> DEFINE u == a * r
           v == b * q
<1>6. u \in Nat /\ v \in Nat /\ m <= u /\ m <= v
  BY <1>1, <1>5, ProductType DEF Positive
<1>7. m * m <= u * v /\ m * m \in Nat /\ u * v \in Nat
  <2> HIDE DEF u, v
  <2> QED BY <1>1, <1>6, ProductMonotone, ProductType
<1>8. (a * b) * ((2 * r * k * q) * 1 + (2 * r * d * q) * 1) = (u * v) * (2 * (d + k))
  BY <1>1, <1>5 DEF Positive
<1>9. 2 * m * m * (d + k) = (m * m) * (2 * (d + k))
  BY <1>1
<1> DEFINE x == m * m
           y == u * v
           z == 2 * (d + k)
<1>10. x <= y /\ x \in Nat /\ y \in Nat /\ z \in Nat
  BY <1>1, <1>7
<1> HIDE DEF x, y, z
<1>11. x * z <= y * z
  BY <1>10, ProductMonotone
<1> QED BY <1>2, <1>3, <1>4, <1>8, <1>9, <1>11 DEF x, y, z

\* The operations of a tiled prompt are at least those of its attention.
LEMMA FlashBound ==
  ASSUME NEW seqs \in Seq(Spans), \A k \in 1 .. Len(seqs) : seqs[k].m = seqs[k].n,
         NEW i, HasTiles(i), NEW p \in Processor
  PROVE  OverSequences(LAMBDA s : 2 * i.H * s.m * s.n * (2 * i.hd + i.rope), seqs)
           <= i.H * FlashWork(i, p, seqs)
<1> DEFINE N == Len(seqs)
           f == [k \in 1 .. N |-> 2 * i.H * seqs[k].m * seqs[k].n * (2 * i.hd + i.rope)]
           g == [k \in 1 .. N |-> Tiles(i, p, seqs[k]) * TileWork(i, p)]
           e == [k \in 1 .. N |-> i.H * g[k]]
<1>1. N \in Nat /\ i.H \in Nat /\ i.hd \in Nat /\ i.rope \in Nat /\ \A k \in 1 .. N : seqs[k] \in Spans
  BY DEF HasTiles, Dimensions
<1>2. ASSUME NEW k \in 1 .. N PROVE g[k] \in Nat /\ f[k] \in Nat /\ f[k] <= e[k] /\ e[k] \in Nat
  <2> DEFINE m == seqs[k].m
             n == seqs[k].n
             z == 2 * i.hd + i.rope
             x == 2 * m * n * z
             y == Tiles(i, p, seqs[k]) * TileWork(i, p)
  <2>1. m \in Nat /\ n \in Nat /\ z \in Nat /\ y \in Nat
    <3>1. seqs[k] \in Spans
      BY <1>1
    <3>2. y \in Nat
      BY <3>1, TilesType
    <3>3. m \in Nat /\ n \in Nat
      BY <3>1 DEF Spans, RequestType
    <3> QED BY <1>1, <3>2, <3>3
  <2>2. x <= y
    BY <1>1, TilesCover
  <2>3. f[k] = 2 * i.H * m * n * z /\ g[k] = y /\ e[k] = i.H * y
    OBVIOUS
  <2> HIDE DEF m, n, z, y, f, g, e
  <2>4. 2 * i.H * m * n * z = i.H * x /\ x \in Nat
    <3>1. x \in Nat
      BY <2>1, TwoTimes
    <3> DEFINE h == i.H
    <3>2. h \in Nat
      BY <1>1
    <3> HIDE DEF h
    <3>3. 2 * h * m * n * z = h * (2 * m * n * z)
      BY <2>1, <3>2
    <3> QED BY <3>1, <3>3 DEF h
  <2> HIDE DEF x
  <2>5. i.H * x <= i.H * y /\ i.H * x \in Nat /\ i.H * y \in Nat
    <3> DEFINE h == i.H
    <3>1. h \in Nat /\ h <= h /\ x \in Nat /\ y \in Nat /\ x <= y
      BY <1>1, <2>1, <2>2, <2>4 DEF x
    <3> HIDE DEF h
    <3>2. h * x <= h * y
      BY <3>1, ProductMonotone
    <3>3. h * x \in Nat /\ h * y \in Nat
      BY <3>1, ProductType
    <3> QED BY <3>2, <3>3 DEF h
  <2> QED BY <2>1, <2>3, <2>4, <2>5 DEF x
<1>3. /\ OverSequences(LAMBDA s : 2 * i.H * s.m * s.n * (2 * i.hd + i.rope), seqs) = Total(f)
      /\ FlashWork(i, p, seqs) = Total(g)
  BY DEF OverSequences, FlashWork
<1>4. Numbers(f, N) /\ Numbers(g, N) /\ Numbers(e, N) /\ Multiple(e, g, N, i.H)
  BY <1>1, <1>2 DEF Numbers, Multiple
<1>5. \A k \in 1 .. N : f[k] <= e[k]
  BY <1>2
<1> HIDE DEF f, g, e
<1>6. Total(f) <= Total(e) /\ Total(e) = i.H * Total(g)
  BY <1>4, <1>5, TotalMonotone, TotalTimes
<1> QED BY <1>3, <1>6

---------------------------------------------------------------------------
(* The call that is tried.                                                 *)

\* The call that is tried, and the whole one.
LEMMA TriedPair ==
  ASSUME PlaceInv, trial.step = "try"
  PROVE  /\ turn \in Devices /\ CallOf(turn).layer # "none"
         /\ cur[turn] \in DOMAIN Calls(system, work[turn])
         /\ CallOf(turn) = Calls(system, work[turn])[cur[turn]]
         /\ SystemType(system) /\ HasRoom(system) /\ PromptsFit(system, work[turn].batch)
         /\ work[turn].batch \in Seq(Spans)
         /\ \E b : Pair(system, CallOf(turn), b)
         /\ Head(CallOf(turn).processors) \in Processor
<1> DEFINE d == turn
           k == cur[d]
           a == CallOf(d)
<1>1. d \in Devices /\ ~Ends(d) /\ a.layer # "none" /\ calls[d] = Calls(system, work[d])
  BY DEF PlaceInv
<1>2. k \in DOMAIN calls[d] /\ a = calls[d][k]
  BY <1>1, AtCall DEF CallOf
<1>3. /\ SystemType(system) /\ HasRoom(system) /\ PromptsFit(system, work[d].batch)
      /\ work[d].batch \in Seq(Spans)
      /\ Matched(system, calls[d], Calls(Unsharded(system), work[d]))
  BY <1>1, GraphsOf
<1>4. Pair(system, a, Calls(Unsharded(system), work[d])[k])
  BY <1>2, <1>3 DEF Matched
<1>5. a.processors \in Seq(Processor) /\ a.processors # << >>
  BY <1>1, <1>4 DEF Pair
<1> HIDE DEF a
<1>6. Head(a.processors) \in Processor
  BY <1>5
<1> QED BY <1>1, <1>2, <1>3, <1>4, <1>6 DEF a

\* What the execution functions find of the call that is tried.
LEMMA TriedPhases ==
  ASSUME PlaceInv, trial.step = "try", NEW p \in Processor, NEW i \in Infos(CallOf(turn)),
         NEW seqs \in {work[turn].batch, Started(work[turn].batch), Shorter(work[turn].batch)}
  PROVE  Phases(CallOf(turn), p, i, seqs) = ExecutionPhases(CallOf(turn), p, i, seqs)
<1> DEFINE d == turn
           g == Calls(system, work[d])
<1>1. /\ d \in Devices /\ cur[d] \in DOMAIN g /\ CallOf(d) = g[cur[d]]
      /\ g[cur[d]].layer # "none"
  BY TriedPair
<1> HIDE DEF g
<1>2. Phases(g[cur[d]], p, i, seqs) = ExecutionPhases(g[cur[d]], p, i, seqs)
  BY <1>1, PhasesOf DEF g
<1> QED BY <1>1, <1>2

\* The prompts that start their sequences.
LEMMA StartedType ==
  ASSUME NEW batch \in Seq(Spans)
  PROVE  /\ Started(batch) \in Seq(Spans) /\ get_sum(Started(batch)) = Started(batch)
         /\ \A k \in 1 .. Len(Started(batch)) : Started(batch)[k].m = Started(batch)[k].n
<1> DEFINE T == { s \in Range(batch) : s.sum /\ s.m = s.n }
           seqs == Started(batch)
           S == { s \in Range(seqs) : s.sum }
<1>1. Among(batch, T) \in Seq(Spans) /\ Among(batch, T) \in Seq(Spans \cap T)
  BY AmongType
<1>2. seqs = Among(batch, T)
  BY DEF Started
<1>3. \A k \in 1 .. Len(seqs) : seqs[k] \in T
  <2> HIDE DEF T
  <2> QED BY <1>1, <1>2
<1>4. seqs \in Seq(S)
  <2>1. seqs \in Seq(Spans)
    BY <1>1, <1>2
  <2>2. \A k \in 1 .. Len(seqs) : seqs[k].sum
    BY <1>3
  <2> HIDE DEF seqs
  <2>3. \A k \in 1 .. Len(seqs) : seqs[k] \in S
    BY <2>1, <2>2 DEF Range
  <2> HIDE DEF S
  <2> QED BY <2>1, <2>3
<1>5. get_sum(seqs) = Among(seqs, S)
  BY DEF get_sum
<1>6. Among(seqs, S) = seqs
  <2> HIDE DEF seqs, S
  <2> QED BY <1>4, AmongAll
<1> QED BY <1>1, <1>2, <1>3, <1>5, <1>6

\* Without tokens to process there is nothing to attend for.
LEMMA NoTokens ==
  ASSUME NEW seqs \in Seq(Spans), Tokens(seqs) = 0
  PROVE  \A k \in 1 .. Len(seqs) : seqs[k].m = 0
<1> DEFINE g == [k \in 1 .. Len(seqs) |-> seqs[k].m]
<1>1. \A k \in 1 .. Len(seqs) : seqs[k] \in Spans
  OBVIOUS
<1>2. Numbers(g, Len(seqs)) /\ Tokens(seqs) = Total(g)
  BY <1>1 DEF Numbers, Tokens, OverSequences, Spans, RequestType
<1>3. \A k \in 1 .. Len(seqs) : g[k] \in Nat /\ g[k] <= Total(g)
  <2> HIDE DEF g
  <2> QED BY <1>2, TotalZero DEF Numbers
<1> QED BY <1>2, <1>3

LEMMA FlashStep ==
  ASSUME PlaceInv
  PROVE  FlashCovers
<1> SUFFICES ASSUME trial.step = "try", CallOf(turn).layer = "MLA_SUM",
                    CallOf(turn).info.use_flash_attention
             PROVE  LET i == CallOf(turn).info
                        started == Started(work[turn].batch)
                    IN Flops(Phases(CallOf(turn), Head(CallOf(turn).processors), i, started))
                         >= OverSequences(LAMBDA s : 2 * i.H * s.m * s.n * (2 * i.hd + i.rope), started)
  BY DEF FlashCovers
<1> DEFINE a == CallOf(turn)
           i == a.info
           p == Head(a.processors)
           started == Started(work[turn].batch)
           bound == OverSequences(LAMBDA s : 2 * i.H * s.m * s.n * (2 * i.hd + i.rope), started)
<1>1. PICK b : Pair(system, a, b)
  BY TriedPair
<1>2. p \in Processor /\ work[turn].batch \in Seq(Spans) /\ SystemType(system) /\ HasRoom(system)
  BY TriedPair
<1>3. HasTiles(i)
  <2>1. AttentionInfo(a.layer, i)
    BY <1>1, <1>2, PairAttends DEF AttentionLayers
  <2> QED BY <2>1 DEF AttentionInfo
<1>4. started \in Seq(Spans) /\ get_sum(started) = started
      /\ \A k \in 1 .. Len(started) : started[k].m = started[k].n
  BY <1>2, StartedType
<1>5. Phases(a, p, i, started) = ExecutionPhases(a, p, i, started)
  BY <1>2, TriedPhases DEF Infos
<1>6. ExecutionPhases(a, p, i, started)
        = IF Tokens(started) = 0 THEN << >> ELSE SumPhases("MLA_SUM", p, i, started)
  <2>1. a.layer = "MLA_SUM"
    OBVIOUS
  <2> HIDE DEF a, i, p, started
  <2> QED BY <1>4, <2>1 DEF ExecutionPhases, SumLayer, GenLayer
<1>7. Flops(Phases(a, p, i, started)) >= bound
  <2>1. CASE Tokens(started) = 0
    <3>1. Flops(Phases(a, p, i, started)) = 0
      BY <1>5, <1>6, <2>1, SumsNone, FlopsAre
    <3>2. bound = 0
      <4> DEFINE f == [k \in 1 .. Len(started) |-> 2 * i.H * started[k].m * started[k].n * (2 * i.hd + i.rope)]
      <4>1. \A k \in 1 .. Len(started) : f[k] = 0
        <5>1. ASSUME NEW k \in 1 .. Len(started) PROVE f[k] = 0
          <6> DEFINE m == started[k].m
                     n == started[k].n
                     h == i.H
                     z == 2 * i.hd + i.rope
          <6>1. m = 0 /\ n = 0
            BY <1>4, <2>1, NoTokens
          <6>2. h \in Nat /\ z \in Nat
            BY <1>3 DEF HasTiles, Dimensions
          <6>3. f[k] = 2 * h * m * n * z
            OBVIOUS
          <6> HIDE DEF f, m, n, h, z
          <6>4. 2 * h * 0 * 0 * z = 0
            BY <6>2
          <6> QED BY <6>1, <6>3, <6>4
        <5> QED BY <5>1
      <4>2. bound = Total(f)
        BY DEF OverSequences
      <4>3. Numbers(f, Len(started))
        BY <1>4, <4>1 DEF Numbers
      <4> HIDE DEF f, bound, started
      <4> QED BY <4>1, <4>2, <4>3, TotalZero
    <3> HIDE DEF bound
    <3> QED BY <3>1, <3>2
  <2>2. CASE Tokens(started) # 0
    <3>1. Flops(Phases(a, p, i, started)) = i.H * FlashWork(i, p, started)
      <4> HIDE DEF i, started, p
      <4>1. Sums(SumPhases("MLA_SUM", p, i, started), "flops", i.H * FlashWork(i, p, started))
        BY <1>2, <1>3, <1>4, LatentSumFlash DEF i
      <4> QED BY <1>5, <1>6, <2>2, <4>1, FlopsAre
    <3>2. bound <= i.H * FlashWork(i, p, started)
      BY <1>2, <1>3, <1>4, FlashBound
    <3> QED BY <3>1, <3>2
  <2> QED BY <2>1, <2>2
<1> QED BY <1>7

\* The tiles of flash attention leave no part of a prompt out, whatever the sizes.
THEOREM FlashCoversHolds == Spec => []FlashCovers
<1>1. Init => PlaceInv
  BY PlaceInit
<1>2. PlaceInv /\ [Next]_vars => PlaceInv'
  BY PlaceStep
<1>3. PlaceInv => FlashCovers
  BY FlashStep
<1> QED BY <1>1, <1>2, <1>3, PTL DEF Spec

---------------------------------------------------------------------------
(* The transfers of the phases and the bytes that they report.             *)

\* The bytes of a phase are the elements that its transfers move, q bytes each.
Accounts(phase, q) ==
  /\ phase.ideal \in Seq(Move)
  /\ \E x : Sums(phase.ideal, "size", x) /\ phase.bytes = q * x
AllAccount(ps, q) == \E n : /\ Phased(ps, n)
                            /\ \A k \in 1 .. n : Accounts(ps[k], q)

\* The transfers of all phases, one after the other.
LEMMA SizesFlatten ==
  ASSUME NEW ss, NEW n \in Nat, ss \in Seq(Seq(Move)), Len(ss) = n, NEW g, Numbers(g, n),
         \A k \in 1 .. n : Sums(ss[k], "size", g[k])
  PROVE  Sums(FlattenSeq(ss), "size", Total(g))
<1>1. PICK h : Joins(h, Move, ss) /\ FlattenSeq(ss) = h[n]
  BY FlattenIs
<1> DEFINE first(j) == [k \in 1 .. j |-> g[k]]
           Good == { j \in 0 .. n : Sums(h[j], "size", Total(first(j))) }
<1>2. h[0] = << >> /\ \A j \in 1 .. n : h[j] = h[j - 1] \o ss[j]
  BY <1>1 DEF Joins
<1>3. \A k \in 1 .. n : g[k] \in Nat
  BY DEF Numbers
<1>4. 0 \in Good
  <2>1. Total(first(0)) = 0
    BY TotalEmpty
  <2> HIDE DEF first
  <2> QED BY <1>2, <2>1, SumsNone
<1>5. ASSUME NEW j \in 0 .. n - 1, j \in Good PROVE j + 1 \in Good
  <2>1. j + 1 \in 1 .. n /\ (j + 1) - 1 = j /\ j + 1 \in 0 .. n /\ j \in Nat
    BY <1>5
  <2>2. h[j + 1] = h[j] \o ss[j + 1] /\ Sums(ss[j + 1], "size", g[j + 1])
    BY <1>2, <2>1
  <2>3. Total(first(j + 1)) = Total(first(j)) + g[j + 1]
    <3>1. /\ DOMAIN first(j) = 1 .. j /\ DOMAIN first(j + 1) = 1 .. j + 1 /\ g[j + 1] \in Int
          /\ \A k \in 1 .. j : first(j)[k] \in Int /\ first(j + 1)[k] = first(j)[k]
          /\ first(j + 1)[j + 1] = g[j + 1] /\ j \in Nat
      BY <1>3, <2>1
    <3> HIDE DEF first
    <3> QED BY <3>1, TotalAppend
  <2>4. Sums(h[j], "size", Total(first(j)))
    BY <1>5
  <2> HIDE DEF first
  <2>5. Sums(h[j] \o ss[j + 1], "size", Total(first(j)) + g[j + 1])
    BY <2>2, <2>4, SumsJoin
  <2> QED BY <2>1, <2>2, <2>3, <2>5
<1>6. \A j \in 0 .. n : j \in Good
  <2> HIDE DEF Good
  <2> QED BY <1>4, <1>5, BoundedInduction
<1>7. Total(first(n)) = Total(g)
  <2>1. DOMAIN first(n) = 1 .. n /\ \A k \in 1 .. n : first(n)[k] = g[k]
    OBVIOUS
  <2> HIDE DEF first
  <2> QED BY <2>1, TotalEqual
<1>8. Sums(h[n], "size", Total(first(n)))
  BY <1>6
<1> QED BY <1>1, <1>7, <1>8

LEMMA BytesAccounted ==
  ASSUME NEW ps, NEW q \in Nat, AllAccount(ps, q)
  PROVE  LET moves == IdealMoves(ps)
         IN Bytes(ps) = q * Total([k \in DOMAIN moves |-> moves[k].size])
<1>1. PICK n : /\ Phased(ps, n)
               /\ \A k \in 1 .. n : Accounts(ps[k], q)
  BY DEF AllAccount
<1> DEFINE g == [k \in 1 .. n |-> CHOOSE x : Sums(ps[k].ideal, "size", x) /\ ps[k].bytes = q * x]
           ss == [k \in 1 .. n |-> ps[k].ideal]
           f == [k \in 1 .. n |-> ps[k].bytes]
<1>2. n \in Nat /\ DOMAIN ps = 1 .. n /\ Len(ps) = n
  <2>1. n \in Nat /\ ps = [k \in 1 .. n |-> ps[k]]
    BY <1>1 DEF Phased
  <2>2. ps \in [1 .. n -> { ps[k] : k \in 1 .. n }]
    BY <2>1
  <2>3. ps \in Seq({ ps[k] : k \in 1 .. n }) /\ Len(ps) = n
    BY <2>1, <2>2, SequenceOfFunction
  <2> QED BY <2>1, <2>3
<1>3. ASSUME NEW k \in 1 .. n
      PROVE  Sums(ps[k].ideal, "size", g[k]) /\ ps[k].bytes = q * g[k] /\ ps[k].ideal \in Seq(Move)
  BY <1>1 DEF Accounts
<1>4. ss \in Seq(Seq(Move)) /\ Len(ss) = n
  <2>1. ss \in [1 .. n -> Seq(Move)]
    BY <1>3
  <2> HIDE DEF ss
  <2> QED BY <1>2, <2>1, SequenceOfFunction
<1>5. Numbers(g, n)
  <2>1. \A k \in 1 .. n : g[k] \in Nat
    <3> HIDE DEF g
    <3> QED BY <1>3, SumsNat
  <2> QED BY <1>2, <2>1 DEF Numbers
<1>6. Multiple(f, g, n, q)
  <2>1. \A k \in 1 .. n : f[k] = q * g[k]
    BY <1>3
  <2> HIDE DEF g
  <2> QED BY <2>1 DEF Multiple
<1>7. Bytes(ps) = Total(f)
  BY <1>2 DEF Bytes
<1>8. \A k \in 1 .. n : ss[k] = ps[k].ideal
  OBVIOUS
<1>9. IdealMoves(ps) = FlattenSeq(ss)
  BY <1>2 DEF IdealMoves
<1> HIDE DEF f, g, ss
<1>10. Sums(FlattenSeq(ss), "size", Total(g))
  BY <1>2, <1>3, <1>4, <1>5, <1>8, SizesFlatten
<1>11. Total(f) = q * Total(g)
  BY <1>5, <1>6, TotalTimes
<1> DEFINE moves == IdealMoves(ps)
<1>12. Sums(moves, "size", Total(g))
  BY <1>9, <1>10
<1> HIDE DEF moves
<1>13. Total([k \in DOMAIN moves |-> moves[k]["size"]]) = Total(g)
  BY <1>12, SumsAre
<1> QED BY <1>7, <1>11, <1>13 DEF moves

LEMMA AccountJoin ==
  ASSUME NEW q, NEW ps, AllAccount(ps, q), NEW qs, AllAccount(qs, q)
  PROVE  AllAccount(ps \o qs, q)
<1>1. PICK n : /\ Phased(ps, n)
               /\ \A k \in 1 .. n : Accounts(ps[k], q)
  BY DEF AllAccount
<1>2. PICK m : /\ Phased(qs, m)
               /\ \A k \in 1 .. m : Accounts(qs[k], q)
  BY DEF AllAccount
<1>3. Phased(ps \o qs, n + m) /\ Joining(ps \o qs, ps, n, qs, m)
  BY <1>1, <1>2, PhasedJoin
<1>4. n \in Nat /\ m \in Nat
  BY <1>1, <1>2 DEF Phased
<1>5. ASSUME NEW k \in 1 .. n + m PROVE Accounts((ps \o qs)[k], q)
  <2>1. CASE k \in 1 .. n
    BY <1>1, <1>3, <2>1 DEF Joining
  <2>2. CASE k \notin 1 .. n
    <3>1. k - n \in 1 .. m /\ n + (k - n) = k
      BY <1>4, <2>2
    <3> QED BY <1>2, <1>3, <3>1 DEF Joining
  <2> QED BY <2>1, <2>2
<1> QED BY <1>3, <1>5 DEF AllAccount

LEMMA AccountOne ==
  ASSUME NEW q, NEW phase, Accounts(phase, q)
  PROVE  AllAccount(<< phase >>, q) /\ AllAccount(<< >>, q)
<1> DEFINE s == << phase >>
           t == << >>
<1>1. Phased(s, 1) /\ s[1] = phase /\ Phased(t, 0)
  BY DEF Phased
<1>2. \A k \in 1 .. 1 : k = 1
  OBVIOUS
<1>3. \A k \in 1 .. 0 : FALSE
  OBVIOUS
<1> HIDE DEF s, t
<1>4. AllAccount(s, q) /\ AllAccount(t, q)
  BY <1>1, <1>2, <1>3 DEF AllAccount
<1> QED BY <1>4 DEF s, t

LEMMA AccountEach ==
  ASSUME NEW q, NEW n \in Nat, NEW ps, ps = [k \in 1 .. n |-> ps[k]],
         \A k \in 1 .. n : Accounts(ps[k], q)
  PROVE  AllAccount(ps, q)
BY DEF AllAccount, Phased

---------------------------------------------------------------------------

LEMMA MovesTwo ==
  ASSUME NEW p \in Processor, NEW a \in Nat, NEW b \in Nat, NEW x \in {Read(p, a), Write(p, a)},
         NEW y \in {Read(p, b), Write(p, b)}
  PROVE  << x, y >> \in Seq(Move) /\ Sums(<< x, y >>, "size", a + b)
<1>1. x \in Move /\ y \in Move /\ x["size"] = a /\ y["size"] = b
  BY DEF Move, Read, Write
<1> QED BY <1>1, SumsTwo

LEMMA MovesThree ==
  ASSUME NEW p \in Processor, NEW a \in Nat, NEW b \in Nat, NEW c \in Nat,
         NEW x \in {Read(p, a), Write(p, a)}, NEW y \in {Read(p, b), Write(p, b)},
         NEW z \in {Read(p, c), Write(p, c)}
  PROVE  << x, y, z >> \in Seq(Move) /\ Sums(<< x, y, z >>, "size", (a + b) + c)
<1>1. x \in Move /\ y \in Move /\ z \in Move /\ z["size"] = c
  BY DEF Move, Read, Write
<1>2. Sums(<< x, y >>, "size", a + b)
  BY MovesTwo
<1>3. Sums(<< z >>, "size", c)
  BY <1>1, SumsOne
<1>4. Sums(<< x, y >> \o << z >>, "size", (a + b) + c)
  BY <1>2, <1>3, SumsJoin
<1>5. << x, y >> \o << z >> = << x, y, z >>
  BY TripleOf
<1>6. << x, y, z >> \in Seq(Move)
  BY <1>1
<1>7. Sums(<< x, y, z >>, "size", (a + b) + c)
  BY <1>4, <1>5, Zenon
<1> QED BY <1>6, <1>7

\* A phase whose bytes are those of its transfers, whatever is charged.
LEMMA PhaseAccounts ==
  ASSUME NEW i, NEW p, NEW f, NEW bytes, NEW moves \in Seq(Move), NEW x,
         Sums(moves, "size", x), bytes = i.precision * x, NEW other
  PROVE  /\ Accounts(Phase(i, p, f, bytes, moves), i.precision)
         /\ Accounts([Phase(i, p, f, bytes, moves) EXCEPT !.charged = other], i.precision)
<1> DEFINE y == Phase(i, p, f, bytes, moves)
           z == [y EXCEPT !.charged = other]
<1>1. y.ideal = moves /\ y.bytes = bytes /\ z.ideal = moves /\ z.bytes = bytes
  BY DEF Phase
<1> HIDE DEF y, z
<1>2. Accounts(y, i.precision) /\ Accounts(z, i.precision)
  BY <1>1 DEF Accounts
<1> QED BY <1>2 DEF y, z

---------------------------------------------------------------------------
(* Latent attention reports what it transfers.                             *)

LEMMA FourTimes ==
  ASSUME NEW a \in Nat, NEW b \in Nat, NEW c \in Nat, NEW d \in Nat
  PROVE  a * b * c \in Nat /\ a * b * c * d \in Nat
<1> DEFINE x == a * b * c
<1>1. x \in Nat
  <2>1. a * b \in Nat
    BY ProductType
  <2> QED BY <2>1, ProductType
<1> HIDE DEF x
<1>2. x * d \in Nat
  BY <1>1, ProductType
<1> QED BY <1>1, <1>2 DEF x

\* A product for each head, with an operand of its own in each.
HeadMoves(p, h, m, k, n) == << Read(p, m * k * h), Read(p, k * n * h), Write(p, m * n * h) >>
HeadBytes(q, h, m, k, n) == q * (m * k + k * n + m * n) * h

LEMMA HeadProductAccounts ==
  ASSUME NEW i, NEW p \in Processor, NEW m \in Nat, NEW k \in Nat, NEW n \in Nat,
         i.H \in Nat, i.precision \in Nat, NEW phase,
         phase.ideal = HeadMoves(p, i.H, m, k, n),
         phase.bytes = HeadBytes(i.precision, i.H, m, k, n)
  PROVE  Accounts(phase, i.precision)
<1> DEFINE h == i.H
           q == i.precision
           moves == HeadMoves(p, h, m, k, n)
           x == (m * k * h + k * n * h) + m * n * h
<1>1. h \in Nat /\ q \in Nat
  OBVIOUS
<1> HIDE DEF h, q
<1>2. m * k * h \in Nat /\ k * n * h \in Nat /\ m * n * h \in Nat
  BY <1>1, FourTimes
<1>3. moves \in Seq(Move) /\ Sums(moves, "size", x)
  <2> DEFINE a == m * k * h
             b == k * n * h
             c == m * n * h
  <2>1. a \in Nat /\ b \in Nat /\ c \in Nat
    BY <1>2
  <2> HIDE DEF a, b, c
  <2>2. /\ << Read(p, a), Read(p, b), Write(p, c) >> \in Seq(Move)
        /\ Sums(<< Read(p, a), Read(p, b), Write(p, c) >>, "size", (a + b) + c)
    BY <2>1, MovesThree
  <2> QED BY <2>2 DEF a, b, c, HeadMoves
<1>4. q * (m * k + k * n + m * n) * h = q * x
  <2> DEFINE a == m * k
             b == k * n
             c == m * n
  <2>1. a \in Nat /\ b \in Nat /\ c \in Nat
    BY ProductType
  <2> HIDE DEF a, b, c
  <2>2. q * (a + b + c) * h = q * ((a * h + b * h) + c * h)
    BY <1>1, <2>1
  <2> QED BY <2>2 DEF a, b, c
<1>5. phase.ideal = moves /\ phase.bytes = q * x
  BY <1>4 DEF HeadBytes, h, q
<1> HIDE DEF x, moves
<1>6. Accounts(phase, q)
  BY <1>3, <1>5 DEF Accounts
<1> QED BY <1>6 DEF q

\* The operands and the scores of a prompt's latent attention.
LEMMA LatentSumAccounts ==
  ASSUME NEW i, Dimensions(i), i.KVH = i.H, NEW s \in Spans
  PROVE  /\ Accounts(MLASumScoringGPU(i, s), i.precision)
         /\ Accounts(MLASumContextGPU(i, s), i.precision)
<1> DEFINE k == i.hd + i.rope
           d == i.hd
           m == s.m
           n == s.n
<1>1. /\ i.H \in Nat /\ i.precision \in Nat /\ k \in Nat /\ d \in Nat /\ m \in Nat /\ n \in Nat
      /\ "GPU" \in Processor
  BY DEF Dimensions, Spans, RequestType, Processor
<1> DEFINE a == MLASumScoringGPU(i, s)
           b == MLASumContextGPU(i, s)
<1>2. a.ideal = HeadMoves("GPU", i.H, m, k, n) /\ a.bytes = HeadBytes(i.precision, i.H, m, k, n)
  <2> HIDE DEF k, m, n
  <2>1. a = [HeadProduct(i, "GPU", m, k, n) EXCEPT !.ideal[2] = Read("GPU", k * n * i.H)]
    BY DEF MLASumScoringGPU, MLASumScoring, m, k, n
  <2> HIDE DEF a
  <2> QED BY <2>1 DEF HeadProduct, Phase, HeadMoves, HeadBytes
<1>3. b.ideal = HeadMoves("GPU", i.H, m, n, d) /\ b.bytes = HeadBytes(i.precision, i.H, m, n, d)
  <2> HIDE DEF d, m, n
  <2>1. b = [HeadProduct(i, "GPU", m, n, d) EXCEPT !.ideal[2] = Read("GPU", n * d * i.H),
                                                   !.ram[2] = Read("GPU", n * d * i.H)]
    BY DEF MLASumContextGPU, MLASumContext, m, n, d
  <2> HIDE DEF b
  <2> QED BY <2>1 DEF HeadProduct, Phase, HeadMoves, HeadBytes
<1> HIDE DEF a, b, k, d, m, n
<1>4. Accounts(a, i.precision)
  BY <1>1, <1>2, HeadProductAccounts
<1>5. Accounts(b, i.precision)
  BY <1>1, <1>3, HeadProductAccounts
<1> QED BY <1>4, <1>5 DEF a, b

LEMMA SoftmaxAccounts ==
  ASSUME NEW i, Dimensions(i), NEW s \in Spans, NEW p \in Processor
  PROVE  Accounts(Softmax(i, s, p), i.precision) /\ SoftmaxOf(i, s, p) = Softmax(i, s, p)
<1> DEFINE score == s.m * s.n * i.H
           moves == << Read(p, score), Write(p, score) >>
           x == score + score
           bytes == i.precision * 2 * score
           f == 7 * score
<1>1. score \in Nat /\ i.precision \in Nat
  <2>1. s.m \in Nat /\ s.n \in Nat /\ i.H \in Nat /\ i.precision \in Nat
    BY DEF Dimensions, Spans, RequestType
  <2> QED BY <2>1, FourTimes
<1>2. Softmax(i, s, p) = Phase(i, p, f, bytes, moves) /\ SoftmaxOf(i, s, p) = Softmax(i, s, p)
  BY DEF Softmax, SoftmaxOf
<1> HIDE DEF score
<1>3. moves \in Seq(Move) /\ Sums(moves, "size", x)
  BY <1>1, MovesTwo
<1>4. bytes = i.precision * x
  BY <1>1
<1> HIDE DEF moves, bytes, x, f
<1>5. Accounts(Phase(i, p, f, bytes, moves), i.precision)
  BY <1>3, <1>4, PhaseAccounts
<1> QED BY <1>2, <1>5

LEMMA LatentProductAccounts ==
  ASSUME NEW i, NEW p \in Processor, NEW m \in Nat, NEW k \in Nat, NEW n \in Nat,
         i.H \in Nat, i.precision \in Nat
  PROVE  Accounts(LatentProduct(i, p, m, k, n), i.precision)
<1> DEFINE a == m * k * i.H
           b == k * n
           c == m * n * i.H
           f == MatMul(m, k, n, i.H)
           moves == << Read(p, a), Read(p, b), Write(p, c) >>
           bytes == i.precision * (a + b + c)
<1>1. a \in Nat /\ b \in Nat /\ c \in Nat
  BY FourTimes, ProductType
<1>2. LatentProduct(i, p, m, k, n) = Phase(i, p, f, bytes, moves)
  BY DEF LatentProduct
<1> HIDE DEF a, b, c, f
<1>3. moves \in Seq(Move) /\ Sums(moves, "size", (a + b) + c)
  BY <1>1, MovesThree
<1>4. bytes = i.precision * ((a + b) + c)
  OBVIOUS
<1> HIDE DEF moves, bytes
<1>5. Accounts(Phase(i, p, f, bytes, moves), i.precision)
  BY <1>3, <1>4, PhaseAccounts
<1> QED BY <1>2, <1>5

LEMMA SixOf ==
  ASSUME NEW a, NEW b, NEW c, NEW d, NEW e, NEW f
  PROVE  << a, b, c >> \o << d, e, f >> = << a, b, c, d, e, f >>
<1> DEFINE s == << a, b, c >>
           t == << d, e, f >>
           u == << a, b, c, d, e, f >>
           S == {a, b, c, d, e, f}
<1>1. /\ s \in Seq(S) /\ t \in Seq(S) /\ u \in Seq(S) /\ Len(s) = 3 /\ Len(t) = 3 /\ Len(u) = 6
      /\ s[1] = a /\ s[2] = b /\ s[3] = c /\ t[1] = d /\ t[2] = e /\ t[3] = f
      /\ u[1] = a /\ u[2] = b /\ u[3] = c /\ u[4] = d /\ u[5] = e /\ u[6] = f
  OBVIOUS
<1> HIDE DEF s, t, u, S
<1>2. /\ s \o t \in Seq(S) /\ Len(s \o t) = Len(s) + Len(t)
      /\ \A k \in 1 .. Len(s) + Len(t) :
           (s \o t)[k] = IF k <= Len(s) THEN s[k] ELSE t[k - Len(s)]
  BY <1>1, ConcatProperties
<1>3. Len(s) + Len(t) = 6
  BY <1>1
<1>4. /\ s \o t \in Seq(S) /\ Len(s \o t) = 6
      /\ \A k \in 1 .. 6 : (s \o t)[k] = IF k <= 3 THEN s[k] ELSE t[k - 3]
  BY <1>1, <1>2, <1>3
<1>5. \A k \in 1 .. 6 : (s \o t)[k] = u[k]
  BY <1>1, <1>4
<1>6. s \o t = u
  BY <1>1, <1>4, <1>5, SeqEqual
<1> QED BY <1>6 DEF s, t, u

LEMMA FlashAccounts ==
  ASSUME NEW i, NEW s \in Spans, NEW p \in Processor, HasTiles(i)
  PROVE  Accounts(FlashAttention(i, s, p, TileRows(i, p), TileColumns(i, p)), i.precision)
<1> DEFINE r == TileRows(i, p)
           c == TileColumns(i, p)
           k == i.hd + i.rope
           h == i.H
           d == i.hd
           columns == CeilDiv(s.m, c)
           tiles == CeilDiv(s.m, r) * columns
           query == r * k * tiles * h
           kv == c * (k + d) * columns * h
           out == r * d * tiles * h
           sums == 2 * r * tiles * h
           f == tiles * (MatMul(r, k, c, 1) + MatMul(r, d, c, 1)) * h
           bytes == i.precision * (query + kv + 2 * out + 2 * sums)
           left == << Read(p, query), Read(p, kv), Read(p, out) >>
           right == << Write(p, out), Read(p, sums), Write(p, sums) >>
           moves == << Read(p, query), Read(p, kv), Read(p, out), Write(p, out),
                       Read(p, sums), Write(p, sums) >>
<1>1. r \in Nat /\ r # 0 /\ c \in Nat /\ c # 0
  BY TileShape
<1>2. k \in Nat /\ h \in Nat /\ d \in Nat /\ k + d \in Nat /\ i.precision \in Nat /\ s.m \in Nat
  BY DEF HasTiles, Dimensions, Spans, RequestType
<1>3. FlashAttention(i, s, p, r, c) = Phase(i, p, f, bytes, moves)
  <2> HIDE DEF r, c
  <2> QED BY DEF FlashAttention
<1> HIDE DEF r, c, k, h, d
<1>4. columns \in Nat /\ CeilDiv(s.m, r) \in Nat
  BY <1>1, <1>2, CeilType
<1>5. tiles \in Nat
  <2> HIDE DEF columns
  <2> QED BY <1>4, ProductType
<1> HIDE DEF columns, tiles
<1>6. query \in Nat /\ kv \in Nat /\ out \in Nat /\ sums \in Nat
  <2> DEFINE e == k + d
  <2>1. e \in Nat /\ 2 \in Nat
    BY <1>2
  <2>2. kv = c * e * columns * h
    OBVIOUS
  <2> HIDE DEF e
  <2> QED BY <1>1, <1>2, <1>4, <1>5, <2>1, <2>2, FourTimes
<1> HIDE DEF query, kv, out, sums, f
<1>7. /\ left \in Seq(Move) /\ Sums(left, "size", (query + kv) + out)
      /\ right \in Seq(Move) /\ Sums(right, "size", (out + sums) + sums)
  BY <1>6, MovesThree
<1>8. left \o right = moves
  BY SixOf
<1> DEFINE x == ((query + kv) + out) + ((out + sums) + sums)
<1>9. bytes = i.precision * x
  BY <1>2, <1>6
<1> HIDE DEF left, right, moves, bytes, x
<1>10. Sums(left \o right, "size", x)
  BY <1>7, SumsJoin DEF x
<1>11. left \o right \in Seq(Move)
  BY <1>7, ConcatProperties
<1>12. Accounts(Phase(i, p, f, bytes, moves), i.precision)
  BY <1>8, <1>9, <1>10, <1>11, PhaseAccounts
<1> QED BY <1>3, <1>12 DEF r, c

LEMMA LatentSumTraffic ==
  ASSUME NEW seqs \in Seq(Spans), NEW i, Dimensions(i), i.KVH = i.H,
         i.use_flash_attention => HasTiles(i)
  PROVE  AllAccount(MultiLatentAttentionSumExecutionGPU(i, seqs), i.precision)
<1> DEFINE q == i.precision
           N == Len(seqs)
<1>1. N \in Nat /\ "GPU" \in Processor /\ \A k \in 1 .. N : seqs[k] \in Spans
  BY DEF Processor
<1>2. CASE i.use_flash_attention
  <2> DEFINE x == [k \in 1 .. N |-> MLASumFlashGPU(i, seqs[k])]
  <2>1. MultiLatentAttentionSumExecutionGPU(i, seqs) = x
    BY <1>2 DEF MultiLatentAttentionSumExecutionGPU, EachSequence
  <2>2. ASSUME NEW k \in 1 .. N PROVE Accounts(x[k], q)
    <3>1. x[k] = FlashAttention(i, seqs[k], "GPU", TileRows(i, "GPU"), TileColumns(i, "GPU"))
      BY DEF MLASumFlashGPU, TileRows, TileColumns
    <3> HIDE DEF x
    <3> QED BY <1>1, <1>2, <3>1, FlashAccounts
  <2>3. x = [k \in 1 .. N |-> x[k]]
    OBVIOUS
  <2> HIDE DEF x, N, q
  <2>4. AllAccount(x, q)
    BY <1>1, <2>2, <2>3, AccountEach
  <2> QED BY <2>1, <2>4 DEF q
<1>3. CASE ~i.use_flash_attention
  <2> DEFINE x == [k \in 1 .. N |-> MLASumScoringGPU(i, seqs[k])]
             y == [k \in 1 .. N |-> MLASumSoftmaxGPU(i, seqs[k])]
             z == [k \in 1 .. N |-> MLASumContextGPU(i, seqs[k])]
  <2>1. MultiLatentAttentionSumExecutionGPU(i, seqs) = (x \o y) \o z
    BY <1>3 DEF MultiLatentAttentionSumExecutionGPU, EachSequence
  <2>2. ASSUME NEW k \in 1 .. N PROVE Accounts(x[k], q) /\ Accounts(y[k], q) /\ Accounts(z[k], q)
    <3>1. /\ x[k] = MLASumScoringGPU(i, seqs[k]) /\ y[k] = Softmax(i, seqs[k], "GPU")
          /\ z[k] = MLASumContextGPU(i, seqs[k])
      BY DEF MLASumSoftmaxGPU
    <3> HIDE DEF x, y, z
    <3> QED BY <1>1, <3>1, LatentSumAccounts, SoftmaxAccounts
  <2>3. /\ x = [k \in 1 .. N |-> x[k]] /\ y = [k \in 1 .. N |-> y[k]]
        /\ z = [k \in 1 .. N |-> z[k]]
    OBVIOUS
  <2> HIDE DEF x, y, z, N, q
  <2>4. AllAccount(x, q) /\ AllAccount(y, q) /\ AllAccount(z, q)
    BY <1>1, <2>2, <2>3, AccountEach
  <2>5. AllAccount((x \o y) \o z, q)
    BY <2>4, AccountJoin
  <2> QED BY <2>1, <2>5 DEF q
<1> QED BY <1>2, <1>3

LEMMA AbsorbedSumTraffic ==
  ASSUME NEW seqs \in Seq(Spans), NEW i, Dimensions(i), i.rank \in Nat
  PROVE  AllAccount(AbsorbMLASumExecutionGPU(i, seqs), i.precision)
<1> DEFINE q == i.precision
           N == Len(seqs)
           x == [k \in 1 .. N |-> AbsorbSumScoringGPU(i, seqs[k])]
           v == [k \in 1 .. N |-> AbsorbSumRopeGPU(i, seqs[k])]
           y == [k \in 1 .. N |-> AbsorbSumSoftmaxGPU(i, seqs[k])]
           z == [k \in 1 .. N |-> AbsorbSumContextGPU(i, seqs[k])]
<1>1. N \in Nat /\ "GPU" \in Processor /\ \A k \in 1 .. N : seqs[k] \in Spans
  BY DEF Processor
<1>2. AbsorbMLASumExecutionGPU(i, seqs) = ((x \o v) \o y) \o z
  BY DEF AbsorbMLASumExecutionGPU, EachSequence
<1>3. ASSUME NEW k \in 1 .. N
      PROVE  Accounts(x[k], q) /\ Accounts(v[k], q) /\ Accounts(y[k], q) /\ Accounts(z[k], q)
  <2> DEFINE s == seqs[k]
             m == s.m
             n == s.n
  <2>1. /\ s \in Spans /\ m \in Nat /\ n \in Nat /\ i.H \in Nat /\ i.precision \in Nat
        /\ i.rope \in Nat
    BY <1>1 DEF Spans, RequestType, Dimensions
  <2>2. /\ x[k] = LatentProduct(i, "GPU", m, i.rank, n) /\ v[k] = LatentProduct(i, "GPU", m, i.rope, n)
        /\ y[k] = Softmax(i, s, "GPU") /\ z[k] = LatentProduct(i, "GPU", m, n, i.rank)
    BY DEF AbsorbSumScoringGPU, AbsorbSumRopeGPU, AbsorbSumSoftmaxGPU, AbsorbSumContextGPU
  <2> HIDE DEF x, v, y, z, m, n, s
  <2> QED BY <1>1, <2>1, <2>2, LatentProductAccounts, SoftmaxAccounts
<1>4. /\ x = [k \in 1 .. N |-> x[k]] /\ v = [k \in 1 .. N |-> v[k]]
      /\ y = [k \in 1 .. N |-> y[k]] /\ z = [k \in 1 .. N |-> z[k]]
  OBVIOUS
<1> HIDE DEF x, v, y, z, N, q
<1>5. AllAccount(x, q) /\ AllAccount(v, q) /\ AllAccount(y, q) /\ AllAccount(z, q)
  BY <1>1, <1>3, <1>4, AccountEach
<1>6. AllAccount(((x \o v) \o y) \o z, q)
  BY <1>5, AccountJoin
<1> QED BY <1>2, <1>6 DEF q

LEMMA AccountUnless ==
  ASSUME NEW q, NEW phase, Accounts(phase, q), NEW m \in Nat, NEW k \in Positive
  PROVE  AllAccount(UnlessEmpty(<< m, k >>, phase), q)
<1>1. AllAccount(<< phase >>, q) /\ AllAccount(<< >>, q)
  BY AccountOne
<1> QED BY <1>1, MatrixEmpty

LEMMA LinearTraffic ==
  ASSUME NEW call, call.layer = "LINEAR", NEW m \in Nat, NEW k \in Positive, NEW n \in Positive,
         call.in.shape = << m, k >>, call.w = << k, n >>, NEW i, i.precision \in Nat, NEW batch
  PROVE  AllAccount(ExecutionPhases(call, "GPU", i, batch), i.precision)
<1> DEFINE phase == LinearPhase(i, "GPU", << m, k >>, << k, n >>)
           a == m * k
           b == k * n
           c == m * n
           f == 2 * m * k * n
           moves == << Read("GPU", a), Read("GPU", b), Write("GPU", c) >>
           bytes == i.precision * (a + b + c)
<1>1. ExecutionPhases(call, "GPU", i, batch) = UnlessEmpty(<< m, k >>, phase)
  BY DEF ExecutionPhases, SumLayer, GenLayer, LayerPhases, ByProcessor, LinearExecutionGPU
<1>2. "GPU" \in Processor /\ k \in Nat /\ n \in Nat
  BY DEF Processor, Positive
<1>3. a \in Nat /\ b \in Nat /\ c \in Nat
  BY <1>2, ProductType
<1>4. Size(<< m, k >>) = a /\ Size(<< k, n >>) = b
  BY <1>2, MatrixSize
<1>5. phase = Phase(i, "GPU", f, bytes, moves)
  BY <1>4 DEF LinearPhase, Product, WithWeight, FromHost
<1> HIDE DEF a, b, c, f, phase
<1>6. moves \in Seq(Move) /\ Sums(moves, "size", (a + b) + c)
  BY <1>2, <1>3, MovesThree
<1>7. bytes = i.precision * ((a + b) + c)
  OBVIOUS
<1> HIDE DEF moves, bytes
<1>8. Accounts(phase, i.precision)
  BY <1>5, <1>6, <1>7, PhaseAccounts
<1> QED BY <1>1, <1>8, AccountUnless

LEMMA ActivationTraffic ==
  ASSUME NEW call, call.layer = "ACTIVATION", NEW m \in Nat, NEW l \in Positive, NEW k \in Positive,
         call.in.shape = << m, l >>, call.out.shape = << m, k >>,
         NEW i, i.precision \in Nat, NEW batch
  PROVE  AllAccount(ExecutionPhases(call, "GPU", i, batch), i.precision)
<1> DEFINE in == << m, l >>
           out == << m, k >>
           a == m * k
           b == m * l
           moves == << Read("GPU", a), Read("GPU", b), Write("GPU", a) >>
           bytes == i.precision * (a + b + a)
           phase == ActivationPhase(i, "GPU", in, out, GateInputOutput("GPU", in, out))
<1>1. ExecutionPhases(call, "GPU", i, batch) = UnlessEmpty(<< m, l >>, phase)
  BY DEF ExecutionPhases, SumLayer, GenLayer, LayerPhases, ByProcessor, ActivationExecutionGPU
<1>2. "GPU" \in Processor /\ k \in Nat /\ l \in Nat
  BY DEF Processor, Positive
<1>3. a \in Nat /\ b \in Nat
  BY <1>2, ProductType
<1>4. Size(in) = b /\ Size(out) = a
  BY <1>2, MatrixSize
<1>5. phase = Phase(i, "GPU", 0, bytes, moves)
  <2> HIDE DEF in, out
  <2> QED BY <1>4 DEF ActivationPhase, GateInputOutput
<1> HIDE DEF a, b, phase
<1>6. moves \in Seq(Move) /\ Sums(moves, "size", (a + b) + a)
  BY <1>2, <1>3, MovesThree
<1>7. bytes = i.precision * ((a + b) + a)
  OBVIOUS
<1> HIDE DEF moves, bytes
<1>8. Accounts(phase, i.precision)
  BY <1>5, <1>6, <1>7, PhaseAccounts
<1> QED BY <1>1, <1>8, AccountUnless

---------------------------------------------------------------------------
(* Decode steps with one token each.                                       *)

\* A sum over the sequences of a part for each and a part for each token of the context.
Affine(g, f, n, a, b) ==
  /\ a \in Nat /\ b \in Nat /\ DOMAIN g = 1 .. n
  /\ \A k \in 1 .. n : g[k] = a + b * f[k]

LEMMA AffineTotal ==
  ASSUME NEW f, NEW n, Numbers(f, n), NEW g, NEW a, NEW b, Affine(g, f, n, a, b)
  PROVE  Total(g) = n * a + b * Total(f) /\ Total(f) \in Nat
<1> DEFINE one == [k \in 1 .. n |-> 1]
           u == [k \in 1 .. n |-> a * one[k]]
           v == [k \in 1 .. n |-> b * f[k]]
<1>1. n \in Nat /\ a \in Nat /\ b \in Nat /\ \A k \in 1 .. n : f[k] \in Nat
  BY DEF Numbers, Affine
<1>2. Numbers(one, n) /\ Multiple(u, one, n, a) /\ Multiple(v, f, n, b)
  BY <1>1 DEF Numbers, Multiple
<1>3. SumOfTwo(g, u, v, n)
  BY <1>1 DEF Affine, SumOfTwo
<1>4. Total(one) = n
  <2>1. Total(one) = SumFunctionOnSet(one, 1 .. n) /\ IsFiniteSet(1 .. n)
    BY <1>2, TotalSum
  <2>2. \A k \in 1 .. n : one[k] = 1
    OBVIOUS
  <2> HIDE DEF one
  <2> DEFINE S == 1 .. n
  <2>3. IsFiniteSet(S) /\ 1 \in Int /\ (\A k \in S : one[k] = 1)
    BY <2>1, <2>2
  <2>4. Total(one) = SumFunctionOnSet(one, S)
    BY <2>1
  <2>5. Cardinality(S) = n
    BY <1>1, FS_Interval
  <2> HIDE DEF S
  <2>6. SumFunctionOnSet(one, S) = Cardinality(S) * 1
    BY <2>3, SumConstant
  <2> QED BY <1>1, <2>4, <2>5, <2>6
<1> HIDE DEF one, u, v
<1>5. /\ Total(u) = a * Total(one) /\ Numbers(u, n)
      /\ Total(v) = b * Total(f) /\ Numbers(v, n)
  BY <1>2, TotalTimes
<1>6. Total(g) = Total(u) + Total(v)
  BY <1>3, <1>5, TotalAdd
<1>7. Total(f) \in Nat
  BY TotalSum
<1>8. a * n = n * a
  BY <1>1
<1> QED BY <1>4, <1>5, <1>6, <1>7, <1>8

\* The tokens of the contexts, and the sequences that generate one token each.
Decodes(gen) == gen \in Seq(Spans) /\ \A k \in 1 .. Len(gen) : gen[k].m = 1

LEMMA ContextIs ==
  ASSUME NEW gen \in Seq(Spans)
  PROVE  /\ Numbers([k \in 1 .. Len(gen) |-> gen[k].n], Len(gen))
         /\ Context(gen) = Total([k \in 1 .. Len(gen) |-> gen[k].n]) /\ Context(gen) \in Nat
<1> DEFINE f == [k \in 1 .. Len(gen) |-> gen[k].n]
<1>1. Numbers(f, Len(gen)) /\ Context(gen) = Total(f)
  BY SequencesAre DEF Numbers, Context, OverSequences
<1> HIDE DEF f
<1>2. Total(f) \in Nat
  BY <1>1, TotalSum
<1> QED BY <1>1, <1>2 DEF f

LatentSizes(i, gen, dim) ==
  Len(gen) * dim * i.H + dim * Context(gen) + i.H * Context(gen)

LEMMA LatentTotal ==
  ASSUME NEW gen, Decodes(gen), NEW i, Dimensions(i), NEW dim \in Nat
  PROVE  OverSequences(LAMBDA s : s.m * dim * i.H + dim * s.n + s.m * s.n * i.H, gen)
           = LatentSizes(i, gen, dim)
<1> DEFINE N == Len(gen)
           f == [k \in 1 .. N |-> gen[k].n]
           g == [k \in 1 .. N |-> gen[k].m * dim * i.H + dim * gen[k].n + gen[k].m * gen[k].n * i.H]
           h == i.H
           a == dim * h
           b == dim + h
<1>1. gen \in Seq(Spans) /\ h \in Nat /\ a \in Nat /\ b \in Nat /\ N \in Nat
  BY ProductType DEF Decodes, Dimensions
<1>2. /\ Numbers(f, N) /\ Context(gen) = Total(f) /\ Context(gen) \in Nat
  BY <1>1, ContextIs
<1>3. ASSUME NEW k \in 1 .. N PROVE g[k] = a + b * f[k]
  <2> DEFINE n == gen[k].n
  <2>1. n \in Nat /\ gen[k].m = 1
    BY <1>1, SequencesAre DEF Decodes
  <2>2. g[k] = 1 * dim * h + dim * n + 1 * n * h
    BY <2>1
  <2>3. f[k] = n
    OBVIOUS
  <2> HIDE DEF g, f, n, h
  <2>4. 1 * dim * h + dim * n + 1 * n * h = dim * h + (dim + h) * n
    BY <1>1, <2>1
  <2> QED BY <2>2, <2>3, <2>4
<1>4. Affine(g, f, N, a, b)
  BY <1>1, <1>3 DEF Affine
<1>5. OverSequences(LAMBDA s : s.m * dim * i.H + dim * s.n + s.m * s.n * i.H, gen) = Total(g)
  BY DEF OverSequences
<1> HIDE DEF f, g
<1> DEFINE c == Total(f)
<1>6. Total(g) = N * a + b * c
  <2> HIDE DEF a, b, N
  <2> QED BY <1>2, <1>4, AffineTotal
<1> HIDE DEF N, h, c
<1>7. N * (dim * h) + (dim + h) * c = N * dim * h + dim * c + h * c
  <2>1. c \in Nat
    BY <1>2 DEF c
  <2>2. N * (dim * h) = N * dim * h
    BY <1>1, Product3
  <2> QED BY <1>1, <2>1, <2>2
<1> QED BY <1>2, <1>5, <1>6, <1>7 DEF LatentSizes, N, h, c

LEMMA LatentScoringAccounts ==
  ASSUME NEW gen, Decodes(gen), NEW i, Dimensions(i), NEW dim \in Nat, NEW p \in Processor, NEW other
  PROVE  /\ Accounts(LatentScoring(i, gen, p, dim), i.precision)
         /\ Accounts([LatentScoring(i, gen, p, dim) EXCEPT !.charged = other], i.precision)
<1> DEFINE c == Context(gen)
           x == Len(gen) * dim * i.H
           y == dim * c
           z == i.H * c
           moves == << Read(p, x), Read(p, y), Write(p, z) >>
           bytes == i.precision * OverSequences(LAMBDA s : s.m * dim * i.H + dim * s.n + s.m * s.n * i.H, gen)
           f == HeadFlops(i, gen, dim)
<1>1. c \in Nat /\ Len(gen) \in Nat /\ i.H \in Nat
  BY ContextIs, SequencesAre DEF Decodes, Dimensions
<1>2. LatentScoring(i, gen, p, dim) = Phase(i, p, f, bytes, moves)
  BY DEF LatentScoring
<1>3. bytes = i.precision * ((x + y) + z)
  BY LatentTotal DEF LatentSizes
<1> HIDE DEF c
<1>4. x \in Nat /\ y \in Nat /\ z \in Nat
  BY <1>1, FourTimes, ProductType
<1> HIDE DEF x, y, z, f, bytes
<1>5. moves \in Seq(Move) /\ Sums(moves, "size", (x + y) + z)
  BY <1>4, MovesThree
<1> HIDE DEF moves
<1>6. /\ Accounts(Phase(i, p, f, bytes, moves), i.precision)
      /\ Accounts([Phase(i, p, f, bytes, moves) EXCEPT !.charged = other], i.precision)
  BY <1>3, <1>5, PhaseAccounts
<1> QED BY <1>2, <1>6

LEMMA AbsorbContextAccounts ==
  ASSUME NEW gen, Decodes(gen), NEW i, Dimensions(i), i.rank \in Nat, NEW p \in Processor
  PROVE  Accounts(AbsorbGenContext(i, gen, p), i.precision)
<1> DEFINE c == Context(gen)
           d == i.rank
           n == Len(gen)
           h == i.H
           x == h * c
           y == c * d
           z == n * d * h
           moves == << Read(p, x), Read(p, y), Write(p, z) >>
           a == AbsorbGenContext(i, gen, p)
           phase == LatentScoring(i, gen, p, d)
           bytes == i.precision * OverSequences(LAMBDA s : s.m * d * h + d * s.n + s.m * s.n * h, gen)
<1>1. c \in Nat /\ n \in Nat /\ h \in Nat /\ d \in Nat
  BY ContextIs, SequencesAre DEF Decodes, Dimensions
<1>2. a = [phase EXCEPT !.ram = moves, !.ideal = moves]
  BY DEF AbsorbGenContext
<1>3. phase.bytes = bytes /\ DOMAIN phase = {"flops", "bytes", "compute", "memory", "ideal", "ram", "charged", "opb"}
  BY DEF LatentScoring, Phase
<1>4. bytes = i.precision * LatentSizes(i, gen, d)
  BY LatentTotal
<1>5. LatentSizes(i, gen, d) = n * d * h + d * c + h * c
  BY DEF LatentSizes
<1> HIDE DEF c, d, n, h, a, phase, bytes
<1>6. x \in Nat /\ y \in Nat /\ z \in Nat
  BY <1>1, FourTimes, ProductType
<1>7. n * d * h + d * c + h * c = (x + y) + z
  <2>1. d * c = c * d
    BY <1>1
  <2> HIDE DEF x, y, z
  <2>2. n * d * h + d * c + h * c = z + y + x
    BY <2>1 DEF x, y, z
  <2> QED BY <1>6, <2>2
<1> HIDE DEF x, y, z
<1>8. moves \in Seq(Move) /\ Sums(moves, "size", (x + y) + z)
  BY <1>6, MovesThree
<1> HIDE DEF moves
<1>9. a.ideal = moves /\ a.bytes = i.precision * ((x + y) + z)
  BY <1>2, <1>3, <1>4, <1>5, <1>7
<1>10. Accounts(a, i.precision)
  BY <1>8, <1>9 DEF Accounts
<1> QED BY <1>10 DEF a

LEMMA AbsorbFlashAccounts ==
  ASSUME NEW gen \in Seq(Spans), NEW i, Dimensions(i), i.rank \in Nat, NEW p \in Processor
  PROVE  Accounts(AbsorbGenFlash(i, gen, p), i.precision)
<1> DEFINE c == Context(gen)
           d == i.rank
           l == i.rank + i.rope
           n == Len(gen)
           h == i.H
           x == n * h * l
           y == c * l
           z == n * h * d
           moves == << Read(p, x), Read(p, y), Write(p, z) >>
           f == [k \in 1 .. n |-> gen[k].n]
           g == [k \in 1 .. n |-> i.H * (i.rank + i.rope) + gen[k].n * (i.rank + i.rope) + i.H * i.rank]
           flops == OverSequences(LAMBDA s : 2 * i.H * (i.rank + i.rope + i.rank) * s.n, gen)
           bytes == i.precision * Total(g)
<1>1. c \in Nat /\ n \in Nat /\ h \in Nat /\ d \in Nat /\ l \in Nat /\ Numbers(f, n) /\ c = Total(f)
  <2>1. c \in Nat /\ Numbers(f, n) /\ c = Total(f)
    BY ContextIs
  <2>2. n \in Nat /\ h \in Nat /\ d \in Nat /\ l \in Nat
    BY SequencesAre DEF Dimensions
  <2> QED BY <2>1, <2>2
<1>2. AbsorbGenFlash(i, gen, p) = Phase(i, p, flops, bytes, moves)
  BY DEF AbsorbGenFlash, OverSequences
<1>3. \A k \in 1 .. n : g[k] = h * l + gen[k].n * l + h * d /\ f[k] = gen[k].n /\ gen[k].n \in Nat
  BY SequencesAre
<1>4. DOMAIN g = 1 .. n
  OBVIOUS
<1> HIDE DEF c, d, l, n, h, f, g
<1> DEFINE a == h * l + h * d
<1>5. a \in Nat
  BY <1>1, ProductType
<1>6. Affine(g, f, n, a, l)
  <2>1. ASSUME NEW k \in 1 .. n PROVE g[k] = a + l * f[k]
    <3> DEFINE m == gen[k].n
    <3>1. m \in Nat /\ g[k] = h * l + m * l + h * d /\ f[k] = m
      BY <1>3
    <3> HIDE DEF m
    <3>2. m * l = l * m /\ m * l \in Nat /\ h * l \in Nat /\ h * d \in Nat
      BY <1>1, <3>1, ProductType
    <3> QED BY <3>1, <3>2
  <2> HIDE DEF a
  <2> QED BY <1>1, <1>4, <1>5, <2>1 DEF Affine
<1>7. Total(g) = n * a + l * c
  <2> HIDE DEF a
  <2> QED BY <1>1, <1>6, AffineTotal
<1>8. x \in Nat /\ y \in Nat /\ z \in Nat
  BY <1>1, FourTimes, ProductType
<1>9. n * a + l * c = (x + y) + z
  <2>1. n * (h * l) = n * h * l /\ n * (h * d) = n * h * d /\ l * c = c * l
    BY <1>1, Product3
  <2>2. n * (h * l + h * d) = n * (h * l) + n * (h * d)
    <3>1. h * l \in Nat /\ h * d \in Nat
      BY <1>1, ProductType
    <3> QED BY <1>1, <3>1
  <2>3. n * a = x + z
    BY <2>1, <2>2
  <2>4. l * c = y
    BY <2>1
  <2> HIDE DEF x, y, z, a
  <2> QED BY <1>8, <2>3, <2>4
<1> HIDE DEF x, y, z, flops, a
<1>10. moves \in Seq(Move) /\ Sums(moves, "size", (x + y) + z)
  BY <1>8, MovesThree
<1>11. bytes = i.precision * ((x + y) + z)
  BY <1>7, <1>9
<1> HIDE DEF moves, bytes
<1>12. Accounts(Phase(i, p, flops, bytes, moves), i.precision)
  BY <1>10, <1>11, PhaseAccounts
<1> QED BY <1>2, <1>12

LEMMA AbsorbedGenTraffic ==
  ASSUME NEW gen, Decodes(gen), NEW i, Dimensions(i), i.rank \in Nat, i.use_flash_mla \in BOOLEAN
  PROVE  AllAccount(AbsorbMLAGenExecutionGPU(i, gen), i.precision)
<1> DEFINE q == i.precision
           N == Len(gen)
<1>1. /\ N \in Nat /\ gen \in Seq(Spans) /\ "GPU" \in Processor /\ i.rope \in Nat
      /\ \A k \in 1 .. N : gen[k] \in Spans
  BY DEF Processor, Decodes, Dimensions
<1>2. CASE i.use_flash_mla
  <2>1. AbsorbMLAGenExecutionGPU(i, gen) = << AbsorbGenFlash(i, gen, "GPU") >>
    BY <1>2 DEF AbsorbMLAGenExecutionGPU, AbsorbGenFlashGPU
  <2>2. Accounts(AbsorbGenFlash(i, gen, "GPU"), q)
    BY <1>1, AbsorbFlashAccounts
  <2> QED BY <2>1, <2>2, AccountOne
<1>3. CASE ~i.use_flash_mla
  <2> DEFINE x == AbsorbGenScoringGPU(i, gen)
             r == AbsorbGenRopeGPU(i, gen)
             y == [k \in 1 .. N |-> AbsorbGenSoftmaxGPU(i, gen[k])]
             z == AbsorbGenContextGPU(i, gen)
  <2>1. AbsorbMLAGenExecutionGPU(i, gen) = (<< x, r >> \o y) \o << z >>
    BY <1>3 DEF AbsorbMLAGenExecutionGPU, EachSequence
  <2>2. Accounts(x, q) /\ Accounts(r, q) /\ Accounts(z, q)
    BY <1>1, LatentScoringAccounts, AbsorbContextAccounts
       DEF AbsorbGenScoringGPU, AbsorbGenRopeGPU, AbsorbGenContextGPU
  <2>3. ASSUME NEW k \in 1 .. N PROVE Accounts(y[k], q)
    <3>1. y[k] = SoftmaxOf(i, gen[k], "GPU")
      BY DEF AbsorbGenSoftmaxGPU
    <3> HIDE DEF y
    <3> QED BY <1>1, <3>1, SoftmaxAccounts
  <2>4. y = [k \in 1 .. N |-> y[k]]
    OBVIOUS
  <2> HIDE DEF x, r, y, z, q, N
  <2>5. AllAccount(y, q)
    BY <1>1, <2>3, <2>4, AccountEach
  <2>6. << x >> \o << r >> = << x, r >>
    BY PairOf
  <2>7. AllAccount(<< x >>, q) /\ AllAccount(<< r >>, q) /\ AllAccount(<< z >>, q)
    BY <2>2, AccountOne
  <2>8. AllAccount(<< x >> \o << r >>, q)
    BY <2>7, AccountJoin
  <2>9. AllAccount(<< x, r >>, q)
    BY <2>6, <2>8, Zenon
  <2>10. AllAccount((<< x, r >> \o y) \o << z >>, q)
    BY <2>5, <2>7, <2>9, AccountJoin
  <2> QED BY <2>1, <2>10 DEF q
<1> QED BY <1>2, <1>3

\* The decode steps of a batch with something to process have a token each.
LEMMA DecodesOne ==
  ASSUME NEW c, NEW w, WorkType(c, w), w.batch \in Seq(Spans), Tokens(get_gen(w.batch)) # 0
  PROVE  Decodes(get_gen(w.batch))
<1> DEFINE S == { s \in Range(w.batch) : ~s.sum }
           gen == get_gen(w.batch)
<1>1. gen \in Seq(Spans) /\ gen \in Seq(S)
  BY ChosenType
<1>2. PICK m \in {0, 1} : \A k \in DOMAIN w.batch : ~w.batch[k].sum => w.batch[k].m = m
  BY DEF WorkType
<1>3. \A s \in S : s.m = m
  BY <1>2 DEF Range
<1> HIDE DEF S
<1>4. \A k \in 1 .. Len(gen) : gen[k].m = m
  <2> HIDE DEF gen
  <2> QED BY <1>1, <1>3
<1>5. m # 0
  <2> SUFFICES ASSUME m = 0 PROVE FALSE
    OBVIOUS
  <2> DEFINE g == [k \in 1 .. Len(gen) |-> gen[k].m]
  <2>1. Tokens(gen) = Total(g)
    BY DEF Tokens, OverSequences
  <2>2. \A k \in 1 .. Len(gen) : g[k] = 0
    BY <1>4
  <2>3. Numbers(g, Len(gen))
    BY <1>1, <2>2, SequencesAre DEF Numbers
  <2> HIDE DEF g, gen
  <2>4. Total(g) = 0
    BY <2>2, <2>3, TotalZero
  <2> QED BY <2>1, <2>4 DEF gen
<1>6. m = 1
  BY <1>5
<1> HIDE DEF gen
<1>7. Decodes(gen)
  BY <1>1, <1>4, <1>6 DEF Decodes
<1> QED BY <1>7 DEF gen

LEMMA SumTraffic ==
  ASSUME NEW call, call.layer \in {"MLA_SUM", "ABSORBED_MLA_SUM"}, NEW i, AttentionInfo(call.layer, i),
         i.KVH = i.H, NEW batch \in Seq(Spans)
  PROVE  AllAccount(ExecutionPhases(call, "GPU", i, batch), i.precision)
<1> DEFINE seqs == get_sum(batch)
           q == i.precision
<1>1. seqs \in Seq(Spans)
  BY ChosenType
<1>2. ExecutionPhases(call, "GPU", i, batch)
        = IF Tokens(seqs) = 0 THEN << >> ELSE SumPhases(call.layer, "GPU", i, seqs)
  BY DEF ExecutionPhases, SumLayer, GenLayer
<1>3. Dimensions(i)
  BY DEF AttentionInfo
<1> HIDE DEF seqs
<1>4. AllAccount(SumPhases(call.layer, "GPU", i, seqs), q)
  <2>1. CASE call.layer = "MLA_SUM"
    <3>1. SumPhases(call.layer, "GPU", i, seqs) = MultiLatentAttentionSumExecutionGPU(i, seqs)
      BY <2>1 DEF SumPhases, ByProcessor
    <3>2. i.use_flash_attention => HasTiles(i)
      BY <2>1 DEF AttentionInfo
    <3>3. AllAccount(MultiLatentAttentionSumExecutionGPU(i, seqs), q)
      BY <1>1, <1>3, <3>2, LatentSumTraffic
    <3> QED BY <3>1, <3>3
  <2>2. CASE call.layer = "ABSORBED_MLA_SUM"
    <3>1. SumPhases(call.layer, "GPU", i, seqs) = AbsorbMLASumExecutionGPU(i, seqs)
      BY <2>2 DEF SumPhases, ByProcessor
    <3>2. i.rank \in Nat
      BY <2>2 DEF AttentionInfo
    <3>3. AllAccount(AbsorbMLASumExecutionGPU(i, seqs), q)
      BY <1>1, <1>3, <3>2, AbsorbedSumTraffic
    <3> QED BY <3>1, <3>3
  <2> QED BY <2>1, <2>2
<1>5. AllAccount(<< >>, q)
  <2> DEFINE ps == << >>
  <2>1. Phased(ps, 0) /\ \A k \in 1 .. 0 : FALSE
    BY DEF Phased
  <2> HIDE DEF ps
  <2> QED BY <2>1 DEF AllAccount, ps
<1> QED BY <1>2, <1>4, <1>5

LEMMA GenTraffic ==
  ASSUME NEW call, call.layer = "ABSORBED_MLA_GEN", NEW i, AttentionInfo(call.layer, i),
         NEW c, NEW w, WorkType(c, w), w.batch \in Seq(Spans)
  PROVE  AllAccount(ExecutionPhases(call, "GPU", i, w.batch), i.precision)
<1> DEFINE gen == get_gen(w.batch)
           q == i.precision
<1>1. ExecutionPhases(call, "GPU", i, w.batch)
        = IF Tokens(gen) = 0 THEN << >> ELSE AbsorbMLAGenExecutionGPU(i, gen)
  BY DEF ExecutionPhases, SumLayer, GenLayer, GenPhases, ByProcessor
<1>2. Dimensions(i) /\ i.rank \in Nat /\ i.use_flash_mla \in BOOLEAN
  BY DEF AttentionInfo
<1>3. Tokens(gen) # 0 => Decodes(gen)
  BY DecodesOne
<1> HIDE DEF gen
<1>4. Tokens(gen) # 0 => AllAccount(AbsorbMLAGenExecutionGPU(i, gen), q)
  BY <1>2, <1>3, AbsorbedGenTraffic
<1>5. AllAccount(<< >>, q)
  <2> DEFINE ps == << >>
  <2>1. Phased(ps, 0) /\ \A k \in 1 .. 0 : FALSE
    BY DEF Phased
  <2> HIDE DEF ps
  <2> QED BY <2>1 DEF AllAccount, ps
<1> QED BY <1>1, <1>4, <1>5

LEMMA TrafficStep ==
  ASSUME PlaceInv
  PROVE  AccountedTraffic
<1> SUFFICES ASSUME trial.step = "try", CallOf(turn).layer \in AccountedLayers
             PROVE  LET phases == Phases(CallOf(turn), "GPU", CallOf(turn).info, work[turn].batch)
                        moves == IdealMoves(phases)
                    IN Bytes(phases) = CallOf(turn).info.precision
                                         * Total([k \in DOMAIN moves |-> moves[k].size])
  BY DEF AccountedTraffic
<1> DEFINE a == CallOf(turn)
           i == a.info
           w == work[turn]
           q == i.precision
<1>1. PICK b : Pair(system, a, b)
  BY TriedPair
<1>2. /\ turn \in Devices /\ w.batch \in Seq(Spans) /\ SystemType(system) /\ HasRoom(system)
      /\ WorkType(system, w)
  BY TriedPair, GraphsOf
<1>3. Phases(a, "GPU", i, w.batch) = ExecutionPhases(a, "GPU", i, w.batch)
  BY TriedPhases DEF Infos, Processor
<1>4. q \in Nat
  BY <1>1, <1>2, PairFields DEF Positive
<1>5. AllAccount(ExecutionPhases(a, "GPU", i, w.batch), q)
  <2>1. CASE a.layer = "LINEAR"
    <3>1. \E share : Projection(a, b, share)
      BY <1>1, <2>1 DEF Pair, Computes, AttentionLayers, DecodeLayers
    <3>2. PICK m \in Nat, k, n \in Positive : a.in.shape = << m, k >> /\ a.w = << k, n >>
      BY <3>1 DEF Projection
    <3> QED BY <1>4, <2>1, <3>2, LinearTraffic
  <2>2. CASE a.layer = "ACTIVATION"
    <3>1. \E share : Activates(a, b, share)
      BY <1>1, <2>2 DEF Pair, Computes, AttentionLayers, DecodeLayers
    <3>2. PICK m \in Nat, f, k \in Positive : a.in.shape = << m, k * f >> /\ a.out.shape = << m, k >>
      BY <3>1 DEF Activates
    <3> DEFINE l == k * f
    <3>3. l \in Positive /\ a.in.shape = << m, l >>
      BY <3>2, ProductType DEF Positive
    <3> HIDE DEF l
    <3> QED BY <1>4, <2>2, <3>2, <3>3, ActivationTraffic
  <2>3. CASE a.layer \in {"MLA_SUM", "ABSORBED_MLA_SUM", "ABSORBED_MLA_GEN"}
    <3>1. a.layer \in AttentionLayers
      BY <2>3 DEF AttentionLayers, DecodeLayers
    <3>2. AttentionInfo(a.layer, i)
      BY <1>1, <1>2, <3>1, PairAttends
    <3>3. Attends(system, a, b)
      BY <1>1, <3>1 DEF Pair, Computes, AttentionLayers, DecodeLayers
    <3>4. i.KVH = i.H
      BY <2>3, <3>3 DEF Attends
    <3>5. CASE a.layer = "ABSORBED_MLA_GEN"
      <4> HIDE DEF a, w
      <4> QED BY <1>2, <3>2, <3>5, GenTraffic
    <3>6. CASE a.layer \in {"MLA_SUM", "ABSORBED_MLA_SUM"}
      BY <1>2, <3>2, <3>4, <3>6, SumTraffic
    <3> QED BY <2>3, <3>5, <3>6
  <2> QED BY <2>1, <2>2, <2>3 DEF AccountedLayers
<1> DEFINE phases == Phases(a, "GPU", i, w.batch)
           moves == IdealMoves(phases)
<1>6. AllAccount(phases, q)
  BY <1>3, <1>5
<1> HIDE DEF phases, q
<1>7. Bytes(phases) = q * Total([k \in DOMAIN moves |-> moves[k].size])
  BY <1>4, <1>6, BytesAccounted
<1> QED BY <1>7 DEF phases, q

\* The memory sizes that the functions of the GPU report are those of their
\* transfers, whatever the model, the batch and the shares.
THEOREM AccountedTrafficHolds == Spec => []AccountedTraffic
<1>1. Init => PlaceInv
  BY PlaceInit
<1>2. PlaceInv /\ [Next]_vars => PlaceInv'
  BY PlaceStep
<1>3. PlaceInv => AccountedTraffic
  BY TrafficStep
<1> QED BY <1>1, <1>2, <1>3, PTL DEF Spec

---------------------------------------------------------------------------
(* The time of the phases, for a context and for a longer one.             *)

Time(phase) == PhaseTime(phase, phase.memory)
NoSlower(a, b) == Time(a) \in Nat /\ Time(b) \in Nat /\ Time(a) <= Time(b)
AllNoSlower(ps, qs) == \E n : /\ Phased(ps, n) /\ Phased(qs, n)
                              /\ \A k \in 1 .. n : NoSlower(ps[k], qs[k])

LEMMA RunNoSlower ==
  ASSUME NEW ps, NEW qs, AllNoSlower(ps, qs)
  PROVE  RunIdeal(ps) <= RunIdeal(qs)
<1>1. PICK n : /\ Phased(ps, n) /\ Phased(qs, n)
               /\ \A k \in 1 .. n : NoSlower(ps[k], qs[k])
  BY DEF AllNoSlower
<1>2. ASSUME NEW rs, Phased(rs, n) PROVE Len(rs) = n
  <2>1. n \in Nat /\ rs = [k \in 1 .. n |-> rs[k]]
    BY <1>2 DEF Phased
  <2>2. rs \in [1 .. n -> { rs[k] : k \in 1 .. n }]
    BY <2>1
  <2> QED BY <2>1, <2>2, SequenceOfFunction
<1>3. Len(ps) = n /\ Len(qs) = n /\ n \in Nat
  BY <1>1, <1>2 DEF Phased
<1> DEFINE f == [k \in 1 .. n |-> Time(ps[k])]
           g == [k \in 1 .. n |-> Time(qs[k])]
<1>4. Numbers(f, n) /\ Numbers(g, n) /\ \A k \in 1 .. n : f[k] <= g[k]
  BY <1>1, <1>3 DEF Numbers, NoSlower
<1>5. RunIdeal(ps) = Total(f) /\ RunIdeal(qs) = Total(g)
  BY <1>3 DEF RunIdeal, Time
<1> HIDE DEF f, g
<1> QED BY <1>4, <1>5, TotalMonotone

LEMMA NoSlowerJoin ==
  ASSUME NEW ps, NEW qs, AllNoSlower(ps, qs), NEW rs, NEW ss, AllNoSlower(rs, ss)
  PROVE  AllNoSlower(ps \o rs, qs \o ss)
<1>1. PICK n : /\ Phased(ps, n) /\ Phased(qs, n)
               /\ \A k \in 1 .. n : NoSlower(ps[k], qs[k])
  BY DEF AllNoSlower
<1>2. PICK m : /\ Phased(rs, m) /\ Phased(ss, m)
               /\ \A k \in 1 .. m : NoSlower(rs[k], ss[k])
  BY DEF AllNoSlower
<1>3. /\ Phased(ps \o rs, n + m) /\ Joining(ps \o rs, ps, n, rs, m)
      /\ Phased(qs \o ss, n + m) /\ Joining(qs \o ss, qs, n, ss, m)
  BY <1>1, <1>2, PhasedJoin
<1>4. n \in Nat /\ m \in Nat
  BY <1>1, <1>2 DEF Phased
<1>5. ASSUME NEW k \in 1 .. n + m PROVE NoSlower((ps \o rs)[k], (qs \o ss)[k])
  <2>1. CASE k \in 1 .. n
    BY <1>1, <1>3, <2>1 DEF Joining
  <2>2. CASE k \notin 1 .. n
    <3>1. k - n \in 1 .. m /\ n + (k - n) = k
      BY <1>4, <2>2
    <3> QED BY <1>2, <1>3, <3>1 DEF Joining
  <2> QED BY <2>1, <2>2
<1> QED BY <1>3, <1>5 DEF AllNoSlower

LEMMA NoSlowerOne ==
  ASSUME NEW a, NEW b, NoSlower(a, b)
  PROVE  AllNoSlower(<< a >>, << b >>)
<1> DEFINE s == << a >>
           t == << b >>
<1>1. Phased(s, 1) /\ Phased(t, 1) /\ s[1] = a /\ t[1] = b
  BY DEF Phased
<1>2. \A k \in 1 .. 1 : k = 1
  OBVIOUS
<1> HIDE DEF s, t
<1>3. AllNoSlower(s, t)
  BY <1>1, <1>2 DEF AllNoSlower
<1> QED BY <1>3 DEF s, t

LEMMA NoSlowerNone == AllNoSlower(<< >>, << >>)
<1> DEFINE s == << >>
<1>1. Phased(s, 0) /\ \A k \in 1 .. 0 : FALSE
  BY DEF Phased
<1> HIDE DEF s
<1>2. AllNoSlower(s, s)
  BY <1>1 DEF AllNoSlower
<1> QED BY <1>2 DEF s

LEMMA NoSlowerEach ==
  ASSUME NEW n \in Nat, NEW ps, ps = [k \in 1 .. n |-> ps[k]], NEW qs, qs = [k \in 1 .. n |-> qs[k]],
         \A k \in 1 .. n : NoSlower(ps[k], qs[k])
  PROVE  AllNoSlower(ps, qs)
BY DEF AllNoSlower, Phased

---------------------------------------------------------------------------

LEMMA QuotientMonotone ==
  ASSUME NEW a \in Nat, NEW b \in Nat, a <= b, NEW d \in Positive
  PROVE  a \div d \in Nat /\ b \div d \in Nat /\ a \div d <= b \div d
<1> DEFINE x == a \div d
           y == b \div d
<1>1. /\ x \in Nat /\ y \in Nat /\ d \in Nat /\ d # 0
      /\ d * x <= a /\ b < d * y + d
  BY DEF Positive
<1> HIDE DEF x, y
<1>2. SUFFICES ASSUME y + 1 <= x PROVE FALSE
  BY <1>1 DEF x, y
<1>3. d * (y + 1) <= d * x
  BY <1>1, <1>2, ProductMonotone
<1>4. d * (y + 1) = d * y + d
  BY <1>1
<1>5. d * x \in Nat /\ d * y \in Nat
  BY <1>1, ProductType
<1> QED BY <1>1, <1>3, <1>4, <1>5

LEMMA LargerMonotone ==
  ASSUME NEW a \in Nat, NEW b \in Nat, NEW c \in Nat, NEW d \in Nat, a <= c, b <= d
  PROVE  Larger(a, b) \in Nat /\ Larger(c, d) \in Nat /\ Larger(a, b) <= Larger(c, d)
BY DEF Larger

LEMMA TimesType ==
  ASSUME NEW p \in Processor
  PROVE  FlopTime[p] \in Positive /\ ByteTime[p] \in Positive
BY CostAssumption DEF Positive

\* A phase takes the longer of the time of its operations and of its bytes.
Costs(a, p, q, flops, bytes) ==
  /\ a.opb = << >> /\ a.compute = ComputeTime(p, q, flops) /\ a.memory = MemoryTime(p, bytes)

LEMMA ComputeMonotone ==
  ASSUME NEW p \in Processor, NEW q, NEW x \in Nat, NEW y \in Nat, x <= y
  PROVE  /\ ComputeTime(p, q, x) \in Nat /\ ComputeTime(p, q, y) \in Nat
         /\ ComputeTime(p, q, x) <= ComputeTime(p, q, y)
<1> DEFINE t == FlopTime[p]
           d == IF p # "GPU" /\ q = 1 THEN 2 ELSE 1
           a == x * t
           b == y * t
<1>1. t \in Nat /\ d \in Positive
  BY TimesType DEF Positive
<1>2. ComputeTime(p, q, x) = a \div d /\ ComputeTime(p, q, y) = b \div d
  BY DEF ComputeTime
<1> HIDE DEF t, d
<1>3. a \in Nat /\ b \in Nat /\ a <= b
  BY <1>1, ProductType, ProductMonotone
<1> HIDE DEF a, b
<1> QED BY <1>1, <1>2, <1>3, QuotientMonotone

LEMMA MemoryMonotone ==
  ASSUME NEW p \in Processor, NEW x \in Nat, NEW y \in Nat, x <= y
  PROVE  /\ MemoryTime(p, x) \in Nat /\ MemoryTime(p, y) \in Nat
         /\ MemoryTime(p, x) <= MemoryTime(p, y)
<1> DEFINE t == ByteTime[p]
<1>1. t \in Nat
  BY TimesType DEF Positive
<1> HIDE DEF t
<1>2. x * t \in Nat /\ y * t \in Nat /\ x * t <= y * t
  BY <1>1, ProductType, ProductMonotone
<1> QED BY <1>2 DEF MemoryTime, t

LEMMA CostsNoSlower ==
  ASSUME NEW p \in Processor, NEW q, NEW x \in Nat, NEW y \in Nat, x <= y,
         NEW u \in Nat, NEW v \in Nat, u <= v,
         NEW a, Costs(a, p, q, x, u), NEW b, Costs(b, p, q, y, v)
  PROVE  NoSlower(a, b)
<1>1. /\ a.compute \in Nat /\ b.compute \in Nat /\ a.compute <= b.compute
      /\ a.memory \in Nat /\ b.memory \in Nat /\ a.memory <= b.memory
  BY ComputeMonotone, MemoryMonotone DEF Costs
<1>2. Time(a) = Larger(a.compute, a.memory) /\ Time(b) = Larger(b.compute, b.memory)
  BY DEF Time, PhaseTime, Costs
<1> DEFINE r == a.compute
           s == a.memory
           t == b.compute
           w == b.memory
<1>3. /\ r \in Nat /\ s \in Nat /\ t \in Nat /\ w \in Nat /\ r <= t /\ s <= w
      /\ Time(a) = Larger(r, s) /\ Time(b) = Larger(t, w)
  BY <1>1, <1>2
<1> HIDE DEF r, s, t, w
<1>4. Larger(r, s) \in Nat /\ Larger(t, w) \in Nat /\ Larger(r, s) <= Larger(t, w)
  BY <1>3, LargerMonotone
<1> QED BY <1>3, <1>4 DEF NoSlower

LEMMA PhaseCosts ==
  ASSUME NEW i, NEW p, NEW f, NEW bytes, NEW moves
  PROVE  Costs(Phase(i, p, f, bytes, moves), p, i.precision, f, bytes)
BY DEF Costs, Phase

Rises(x, y) == x \in Nat /\ y \in Nat /\ x <= y

LEMMA RisesPlus ==
  ASSUME NEW a, NEW b, Rises(a, b), NEW c, NEW d, Rises(c, d)
  PROVE  Rises(a + c, b + d)
BY DEF Rises

LEMMA RisesTimes ==
  ASSUME NEW a, NEW b, Rises(a, b), NEW c, NEW d, Rises(c, d)
  PROVE  Rises(a * c, b * d)
<1>1. a \in Nat /\ b \in Nat /\ c \in Nat /\ d \in Nat /\ a <= b /\ c <= d
  BY DEF Rises
<1>2. a * c \in Nat /\ b * d \in Nat /\ a * c <= b * d
  BY <1>1, ProductType, ProductMonotone
<1> QED BY <1>2 DEF Rises

LEMMA RisesSame == ASSUME NEW a \in Nat PROVE Rises(a, a)
BY DEF Rises

LEMMA RisesQuotient ==
  ASSUME NEW a, NEW b, Rises(a, b), NEW d \in Positive
  PROVE  Rises(a \div d, b \div d)
<1>1. a \in Nat /\ b \in Nat /\ a <= b
  BY DEF Rises
<1>2. a \div d \in Nat /\ b \div d \in Nat /\ a \div d <= b \div d
  BY <1>1, QuotientMonotone
<1> QED BY <1>2 DEF Rises

LEMMA RisesLarger ==
  ASSUME NEW a, NEW b, Rises(a, b), NEW c, NEW d, Rises(c, d)
  PROVE  Rises(Larger(a, c), Larger(b, d))
BY DEF Rises, Larger

LEMMA RisesTotal ==
  ASSUME NEW f, NEW g, NEW n \in Nat, DOMAIN f = 1 .. n, DOMAIN g = 1 .. n,
         \A k \in 1 .. n : Rises(f[k], g[k])
  PROVE  Rises(Total(f), Total(g))
<1>1. Numbers(f, n) /\ Numbers(g, n) /\ \A k \in 1 .. n : f[k] <= g[k]
  BY DEF Numbers, Rises
<1>2. Total(f) \in Nat /\ Total(g) \in Nat
  BY <1>1, TotalSum
<1>3. Total(f) <= Total(g)
  BY <1>1, TotalMonotone
<1> QED BY <1>2, <1>3 DEF Rises

---------------------------------------------------------------------------
(* The near-bank unit: a longer operand takes no less time, also where its *)
(* last row buffer fills up.                                               *)

LEMMA UnitType ==
  /\ {NearBank.banks, NearBank.rowbuffer, NearBank.fill, NearBank.pe} \subseteq Positive
  /\ {NearBank.quant, NearBank.dequant, NearBank.scoring, NearBank.softmax, NearBank.context}
       \subseteq BOOLEAN
BY CostAssumption DEF Positive

LEMMA BankRowType == BankRow \in Positive
<1> DEFINE a == NearBank.banks
           b == NearBank.rowbuffer
<1>1. a \in Positive /\ b \in Positive
  BY UnitType
<1> HIDE DEF a, b
<1>2. a * b \in Positive
  BY <1>1, ProductType DEF Positive
<1> QED
  BY <1>2 DEF BankRow, a, b

LEMMA FillsRise ==
  ASSUME NEW x, NEW y, Rises(x, y)
  PROVE  Rises(Fills(x), Fills(y)) /\ Fills(x) >= 1
<1> DEFINE r == BankRow
<1>1. r \in Positive
  BY BankRowType
<1>2. Fills(x) = Larger(1, (x + (r - 1)) \div r) /\ Fills(y) = Larger(1, (y + (r - 1)) \div r)
  BY DEF Fills, CeilDiv
<1> HIDE DEF r
<1>3. Rises(x + (r - 1), y + (r - 1))
  BY <1>1 DEF Rises, Positive
<1>4. Rises((x + (r - 1)) \div r, (y + (r - 1)) \div r)
  BY <1>1, <1>3, RisesQuotient
<1> DEFINE a == (x + (r - 1)) \div r
           b == (y + (r - 1)) \div r
<1> HIDE DEF a, b
<1>5. Rises(a, b) /\ Rises(1, 1)
  BY <1>4 DEF a, b, Rises
<1>6. Rises(Larger(1, a), Larger(1, b)) /\ Larger(1, a) >= 1
  BY <1>5, RisesLarger DEF Rises, Larger
<1> QED BY <1>2, <1>6 DEF a, b

LEMMA OverlappedRises ==
  ASSUME NEW x, NEW y, Rises(x, y), NEW v, NEW w, Rises(v, w)
  PROVE  Rises(Overlapped(x, v), Overlapped(y, w))
<1> DEFINE r == BankRow
           f == NearBank.fill
           small(z, u) == Larger((z * f) \div r, u)
           large(z, u) == f + Larger((Fills(z) - 1) * f, u)
<1>1. r \in Positive /\ f \in Positive /\ f \in Nat
  BY UnitType, BankRowType DEF Positive
<1>2. /\ Overlapped(x, v) = IF x <= r THEN small(x, v) ELSE large(x, v)
      /\ Overlapped(y, w) = IF y <= r THEN small(y, w) ELSE large(y, w)
  BY DEF Overlapped
<1>3. x \in Nat /\ y \in Nat /\ x <= y /\ v \in Nat /\ w \in Nat /\ v <= w /\ r \in Nat
  BY <1>1 DEF Rises, Positive
<1> HIDE DEF r, f
<1>4. Rises(small(x, v), small(y, w))
  <2>1. Rises(f, f)
    BY <1>1, RisesSame
  <2>2. Rises(x * f, y * f)
    BY <2>1, RisesTimes
  <2>3. Rises((x * f) \div r, (y * f) \div r)
    BY <1>1, <2>2, RisesQuotient
  <2> QED BY <2>3, RisesLarger
<1>5. Rises(large(x, v), large(y, w))
  <2>1. Rises(Fills(x), Fills(y)) /\ Fills(x) >= 1
    BY FillsRise
  <2>2. Rises(Fills(x) - 1, Fills(y) - 1)
    BY <2>1 DEF Rises
  <2>3. Rises(f, f)
    BY <1>1, RisesSame
  <2>4. Rises((Fills(x) - 1) * f, (Fills(y) - 1) * f)
    BY <2>2, <2>3, RisesTimes
  <2>5. Rises(Larger((Fills(x) - 1) * f, v), Larger((Fills(y) - 1) * f, w))
    BY <2>4, RisesLarger
  <2> QED BY <2>3, <2>5, RisesPlus
<1>6. x <= r => small(x, v) <= large(y, w)
  <2> SUFFICES ASSUME x <= r PROVE small(x, v) <= large(y, w)
    OBVIOUS
  <2> DEFINE a == (x * f) \div r
             b == (Fills(y) - 1) * f
             t == r * f
  <2>1. x * f <= t
    BY <1>1, <1>3, ProductMonotone
  <2>2. t \in Nat /\ x * f \in Nat /\ t \div r = f
    BY <1>1, <1>3, ProductType, ExactIs DEF Positive
  <2>3. a \in Nat /\ a <= f
    <3> DEFINE z == x * f
    <3> HIDE DEF t, z
    <3>1. z \in Nat /\ z <= t
      BY <2>1, <2>2 DEF z
    <3>2. z \div r \in Nat /\ z \div r <= t \div r
      BY <1>1, <2>2, <3>1, QuotientMonotone
    <3> QED BY <2>2, <3>2 DEF z
  <2>4. b \in Nat
    <3>1. Rises(Fills(x), Fills(y)) /\ Fills(x) >= 1
      BY FillsRise
    <3>2. Fills(y) - 1 \in Nat
      BY <3>1 DEF Rises
    <3> QED BY <1>1, <3>2, ProductType
  <2> HIDE DEF a, b
  <2>5. Larger(a, v) <= f + Larger(b, w)
    BY <1>1, <1>3, <2>3, <2>4 DEF Larger
  <2> QED BY <2>5 DEF a, b
<1> DEFINE sx == small(x, v)
           sy == small(y, w)
           lx == large(x, v)
           ly == large(y, w)
<1>7. Rises(sx, sy) /\ Rises(lx, ly) /\ (x <= r => sx <= ly)
  BY <1>4, <1>5, <1>6
<1>8. /\ Overlapped(x, v) = IF x <= r THEN sx ELSE lx
      /\ Overlapped(y, w) = IF y <= r THEN sy ELSE ly
  BY <1>2
<1> HIDE DEF sx, sy, lx, ly
<1> QED BY <1>3, <1>7, <1>8 DEF Rises

LEMMA LatencyRises ==
  ASSUME NEW q \in Nat, NEW m \in Nat, NEW k, NEW l, Rises(k, l), NEW n, NEW o, Rises(n, o)
  PROVE  /\ Rises(computeGEMVLatency(q, m, k, n).latency, computeGEMVLatency(q, m, l, o).latency)
         /\ Rises(computeGEMVLatency(q, m, k, n).rowbuffer, computeGEMVLatency(q, m, l, o).rowbuffer)
<1> DEFINE d == NearBank.banks
           e == NearBank.pe
           total(x, y) == (m * x + x * y + m * y) * q
           reduced(x, y) == IF NearBank.quant THEN (m * x + y * x) * q ELSE 0
           dequantised(x, y) == IF NearBank.dequant THEN 2 * x * y ELSE 0
           labour(x, y) == ((total(x, y) + reduced(x, y) + dequantised(x, y)) * e) \div d
<1>1. d \in Positive /\ e \in Nat /\ NearBank.fill \in Nat
  BY UnitType DEF Positive
<1>2. Rises(m, m) /\ Rises(q, q) /\ Rises(e, e) /\ Rises(2, 2) /\ Rises(0, 0)
      /\ Rises(NearBank.fill, NearBank.fill)
  BY <1>1, RisesSame
<1>3. /\ computeGEMVLatency(q, m, k, n).latency = Overlapped(total(k, n), labour(k, n))
      /\ computeGEMVLatency(q, m, l, o).latency = Overlapped(total(l, o), labour(l, o))
      /\ computeGEMVLatency(q, m, k, n).rowbuffer = Fills(total(k, n)) * NearBank.fill
      /\ computeGEMVLatency(q, m, l, o).rowbuffer = Fills(total(l, o)) * NearBank.fill
  BY DEF computeGEMVLatency
<1> HIDE DEF d, e
<1>4. Rises(m * k, m * l) /\ Rises(k * n, l * o) /\ Rises(m * n, m * o) /\ Rises(n * k, o * l)
  BY <1>2, RisesTimes
<1>5. Rises(total(k, n), total(l, o))
  <2>1. Rises(m * k + k * n + m * n, m * l + l * o + m * o)
    BY <1>4, RisesPlus
  <2> QED BY <1>2, <2>1, RisesTimes
<1>6. Rises(reduced(k, n), reduced(l, o))
  <2>1. Rises(m * k + n * k, m * l + o * l)
    BY <1>4, RisesPlus
  <2>2. Rises((m * k + n * k) * q, (m * l + o * l) * q)
    BY <1>2, <2>1, RisesTimes
  <2> QED BY <1>2, <2>2
<1>7. Rises(dequantised(k, n), dequantised(l, o))
  <2>1. Rises(2 * k, 2 * l)
    BY <1>2, RisesTimes
  <2>2. Rises(2 * k * n, 2 * l * o)
    BY <2>1, RisesTimes
  <2> QED BY <1>2, <2>2
<1> HIDE DEF total, reduced, dequantised
<1>8. Rises(labour(k, n), labour(l, o))
  <2>1. Rises(total(k, n) + reduced(k, n) + dequantised(k, n), total(l, o) + reduced(l, o) + dequantised(l, o))
    BY <1>5, <1>6, <1>7, RisesPlus
  <2>2. Rises((total(k, n) + reduced(k, n) + dequantised(k, n)) * e, (total(l, o) + reduced(l, o) + dequantised(l, o)) * e)
    BY <1>2, <2>1, RisesTimes
  <2> QED BY <1>1, <2>2, RisesQuotient
<1> HIDE DEF labour
<1>9. Rises(Overlapped(total(k, n), labour(k, n)), Overlapped(total(l, o), labour(l, o)))
  BY <1>5, <1>8, OverlappedRises
<1>10. Rises(Fills(total(k, n)) * NearBank.fill, Fills(total(l, o)) * NearBank.fill)
  <2>1. Rises(Fills(total(k, n)), Fills(total(l, o)))
    BY <1>5, FillsRise
  <2> QED BY <1>2, <2>1, RisesTimes
<1> QED BY <1>3, <1>9, <1>10

---------------------------------------------------------------------------
(* Decode steps, and the same ones with a longer context.                  *)

Lengthened(xs, ys) ==
  /\ Decodes(xs) /\ Decodes(ys) /\ Len(ys) = Len(xs) /\ Len(xs) # 0
  /\ \A k \in 1 .. Len(xs) : xs[k].n <= ys[k].n

LEMMA GrownRows ==
  ASSUME NEW xs, NEW ys, Lengthened(xs, ys)
  PROVE  /\ Len(xs) \in Nat /\ Len(ys) = Len(xs) /\ Rises(Len(xs), Len(ys))
         /\ \A k \in 1 .. Len(xs) : /\ xs[k].m = 1 /\ ys[k].m = 1
                                    /\ Rises(xs[k].m, ys[k].m) /\ Rises(xs[k].n, ys[k].n)
                                    /\ xs[k] \in Spans /\ ys[k] \in Spans /\ xs[k].n # 0
<1>1. xs \in Seq(Spans) /\ ys \in Seq(Spans) /\ Len(ys) = Len(xs)
  BY DEF Lengthened, Decodes
<1>2. Len(xs) \in Nat /\ Len(ys) \in Nat
  BY <1>1, SequencesAre
<1>3. ASSUME NEW k \in 1 .. Len(xs)
      PROVE  /\ xs[k].m = 1 /\ ys[k].m = 1 /\ xs[k].n \in Nat /\ ys[k].n \in Nat
             /\ xs[k].n <= ys[k].n /\ xs[k].m <= xs[k].n /\ xs[k] \in Spans /\ ys[k] \in Spans
  BY <1>1, <1>3, SequencesAre DEF Lengthened, Decodes
<1> QED BY <1>1, <1>2, <1>3 DEF Rises

LEMMA OverRises ==
  ASSUME NEW xs, NEW ys, Lengthened(xs, ys), NEW f, DOMAIN f = 1 .. Len(xs), NEW g, DOMAIN g = 1 .. Len(ys),
         \A k \in 1 .. Len(xs) : Rises(f[k], g[k])
  PROVE  Rises(Total(f), Total(g))
<1>1. Len(xs) \in Nat /\ Len(ys) = Len(xs)
  BY GrownRows
<1>2. DOMAIN g = 1 .. Len(xs)
  BY <1>1
<1> QED BY <1>1, <1>2, RisesTotal

LEMMA RisesThree ==
  ASSUME NEW a, NEW b, Rises(a, b), NEW c, NEW d, Rises(c, d), NEW e, NEW f, Rises(e, f)
  PROVE  Rises(a * c * e, b * d * f) /\ Rises(a + c + e, b + d + f)
<1>1. Rises(a * c, b * d) /\ Rises(a + c, b + d)
  BY RisesTimes, RisesPlus
<1> QED BY <1>1, RisesTimes, RisesPlus

LEMMA RisesFive ==
  ASSUME NEW a, NEW b, Rises(a, b), NEW c, NEW d, Rises(c, d), NEW e, NEW f, Rises(e, f),
         NEW g, NEW h, Rises(g, h), NEW i, NEW j, Rises(i, j)
  PROVE  Rises(a * c * e * g * i, b * d * f * h * j) /\ Rises(a * c * e * g, b * d * f * h)
<1>1. Rises(a * c * e, b * d * f)
  BY RisesThree
<1>2. Rises(a * c * e * g, b * d * f * h)
  BY <1>1, RisesTimes
<1>3. Rises(a * c * e * g * i, b * d * f * h * j)
  BY <1>2, RisesTimes
<1> QED BY <1>2, <1>3

LEMMA ContextRises ==
  ASSUME NEW xs, NEW ys, Lengthened(xs, ys)
  PROVE  Rises(Context(xs), Context(ys)) /\ Context(xs) \in Positive /\ Context(ys) \in Positive
<1> DEFINE f == [k \in 1 .. Len(xs) |-> xs[k].n]
           g == [k \in 1 .. Len(ys) |-> ys[k].n]
<1>1. Context(xs) = Total(f) /\ Context(ys) = Total(g)
  BY DEF Context, OverSequences
<1>2. \A k \in 1 .. Len(xs) : Rises(f[k], g[k])
  BY GrownRows
<1>3. DOMAIN f = 1 .. Len(xs) /\ DOMAIN g = 1 .. Len(ys) /\ Len(xs) \in Nat
  BY GrownRows
<1>4. 1 \in 1 .. Len(xs) /\ f[1] # 0
  BY <1>3, GrownRows DEF Lengthened
<1> HIDE DEF f, g
<1>5. Rises(Total(f), Total(g))
  BY <1>2, <1>3, OverRises
<1>6. Numbers(f, Len(xs))
  BY <1>2, <1>3 DEF Numbers, Rises
<1>7. f[1] <= Total(f) /\ f[1] \in Nat
  BY <1>4, <1>6, TotalZero DEF Numbers
<1> QED BY <1>1, <1>4, <1>5, <1>7 DEF Rises, Positive

LEMMA HeadFlopsRise ==
  ASSUME NEW xs, NEW ys, Lengthened(xs, ys), NEW i, Dimensions(i), NEW dim \in Nat
  PROVE  Rises(HeadFlops(i, xs, dim), HeadFlops(i, ys, dim))
<1> DEFINE f == [k \in 1 .. Len(xs) |-> 2 * xs[k].m * dim * xs[k].n * i.H]
           g == [k \in 1 .. Len(ys) |-> 2 * ys[k].m * dim * ys[k].n * i.H]
<1>1. HeadFlops(i, xs, dim) = Total(f) /\ HeadFlops(i, ys, dim) = Total(g)
  BY DEF HeadFlops, OverSequences
<1>2. ASSUME NEW k \in 1 .. Len(xs) PROVE Rises(f[k], g[k])
  <2>1. Rises(2, 2) /\ Rises(dim, dim) /\ Rises(i.H, i.H)
    BY RisesSame DEF Dimensions
  <2>2. Rises(xs[k].m, ys[k].m) /\ Rises(xs[k].n, ys[k].n) /\ k \in 1 .. Len(ys)
    BY GrownRows
  <2>3. f[k] = 2 * xs[k].m * dim * xs[k].n * i.H /\ g[k] = 2 * ys[k].m * dim * ys[k].n * i.H
    BY <2>2
  <2> HIDE DEF f, g
  <2> QED BY <2>1, <2>2, <2>3, RisesFive
<1>3. DOMAIN f = 1 .. Len(xs) /\ DOMAIN g = 1 .. Len(ys)
  OBVIOUS
<1> HIDE DEF f, g
<1> QED BY <1>1, <1>2, <1>3, OverRises

LEMMA GroupFlopsRise ==
  ASSUME NEW xs, NEW ys, Lengthened(xs, ys), NEW i, Dimensions(i), i.group \in Nat
  PROVE  Rises(GroupFlops(i, xs), GroupFlops(i, ys))
<1> DEFINE f == [k \in 1 .. Len(xs) |-> 2 * xs[k].m * i.hd * xs[k].n * i.group * i.KVH]
           g == [k \in 1 .. Len(ys) |-> 2 * ys[k].m * i.hd * ys[k].n * i.group * i.KVH]
<1>1. GroupFlops(i, xs) = Total(f) /\ GroupFlops(i, ys) = Total(g)
  BY DEF GroupFlops, OverSequences
<1>2. ASSUME NEW k \in 1 .. Len(xs) PROVE Rises(f[k], g[k])
  <2>1. Rises(2, 2) /\ Rises(i.hd, i.hd) /\ Rises(i.group, i.group) /\ Rises(i.KVH, i.KVH)
    BY RisesSame DEF Dimensions
  <2>2. Rises(xs[k].m, ys[k].m) /\ Rises(xs[k].n, ys[k].n) /\ k \in 1 .. Len(ys)
    BY GrownRows
  <2>3. Rises(2 * xs[k].m * i.hd * xs[k].n * i.group, 2 * ys[k].m * i.hd * ys[k].n * i.group)
    BY <2>1, <2>2, RisesFive
  <2>4. Rises(2 * xs[k].m * i.hd * xs[k].n * i.group * i.KVH, 2 * ys[k].m * i.hd * ys[k].n * i.group * i.KVH)
    BY <2>1, <2>3, RisesTimes
  <2>5. /\ f[k] = 2 * xs[k].m * i.hd * xs[k].n * i.group * i.KVH
        /\ g[k] = 2 * ys[k].m * i.hd * ys[k].n * i.group * i.KVH
    BY <2>2
  <2> HIDE DEF f, g
  <2> QED BY <2>4, <2>5
<1>3. DOMAIN f = 1 .. Len(xs) /\ DOMAIN g = 1 .. Len(ys)
  OBVIOUS
<1> HIDE DEF f, g
<1> QED BY <1>1, <1>2, <1>3, OverRises

LEMMA CacheBytesRise ==
  ASSUME NEW xs, NEW ys, Lengthened(xs, ys), NEW i, Dimensions(i)
  PROVE  Rises(CacheBytes(i, xs), CacheBytes(i, ys))
<1>1. Rises(i.precision, i.precision) /\ Rises(i.hd, i.hd) /\ Rises(i.KVH, i.KVH)
  BY RisesSame DEF Dimensions
<1>2. Rises(Context(xs), Context(ys))
  BY ContextRises
<1>3. Rises(i.precision * i.hd * i.KVH * Context(xs), i.precision * i.hd * i.KVH * Context(ys))
  BY <1>1, <1>2, RisesFive
<1> QED BY <1>3 DEF CacheBytes

LEMMA RisesNoSlower ==
  ASSUME NEW a, NEW b, a.opb = << >>, b.opb = << >>, Rises(a.compute, b.compute),
         Rises(a.memory, b.memory)
  PROVE  NoSlower(a, b)
<1>1. Time(a) = Larger(a.compute, a.memory) /\ Time(b) = Larger(b.compute, b.memory)
  BY DEF Time, PhaseTime
<1>2. Rises(Larger(a.compute, a.memory), Larger(b.compute, b.memory))
  BY RisesLarger
<1> QED BY <1>1, <1>2 DEF NoSlower, Rises

\* Phases of the same processor, the second with more to compute and to move.
LEMMA CostsRise ==
  ASSUME NEW p \in Processor, NEW q, NEW x, NEW y, Rises(x, y), NEW u, NEW v, Rises(u, v),
         NEW a, Costs(a, p, q, x, u), NEW b, Costs(b, p, q, y, v)
  PROVE  NoSlower(a, b)
<1>1. x \in Nat /\ y \in Nat /\ x <= y /\ u \in Nat /\ v \in Nat /\ u <= v
  BY DEF Rises
<1> QED BY <1>1, CostsNoSlower

---------------------------------------------------------------------------
(* The sizes of a longer context.                                          *)

LEMMA FlashRises ==
  ASSUME NEW xs, NEW ys, Lengthened(xs, ys), NEW c \in Nat
  PROVE  Rises(OverSequences(LAMBDA s : (s.m + s.n) * c, xs),
               OverSequences(LAMBDA s : (s.m + s.n) * c, ys))
<1> DEFINE f == [k \in 1 .. Len(xs) |-> (xs[k].m + xs[k].n) * c]
           g == [k \in 1 .. Len(ys) |-> (ys[k].m + ys[k].n) * c]
<1>1. /\ OverSequences(LAMBDA s : (s.m + s.n) * c, xs) = Total(f)
      /\ OverSequences(LAMBDA s : (s.m + s.n) * c, ys) = Total(g)
  BY DEF OverSequences
<1>2. ASSUME NEW k \in 1 .. Len(xs) PROVE Rises(f[k], g[k])
  <2>1. Rises(c, c)
    BY RisesSame
  <2>2. Rises(xs[k].m, ys[k].m) /\ Rises(xs[k].n, ys[k].n) /\ k \in 1 .. Len(ys)
    BY GrownRows
  <2>3. Rises(xs[k].m + xs[k].n, ys[k].m + ys[k].n)
    BY <2>1, <2>2, RisesPlus
  <2>4. Rises((xs[k].m + xs[k].n) * c, (ys[k].m + ys[k].n) * c)
    BY <2>1, <2>2, <2>3, RisesTimes
  <2>5. f[k] = (xs[k].m + xs[k].n) * c /\ g[k] = (ys[k].m + ys[k].n) * c
    BY <2>2
  <2> HIDE DEF f, g
  <2> QED BY <2>4, <2>5
<1>3. DOMAIN f = 1 .. Len(xs) /\ DOMAIN g = 1 .. Len(ys)
  OBVIOUS
<1> HIDE DEF f, g
<1> QED BY <1>1, <1>2, <1>3, OverRises

LEMMA ScoringRises ==
  ASSUME NEW xs, NEW ys, Lengthened(xs, ys), NEW c \in Nat
  PROVE  Rises(OverSequences(LAMBDA s : s.m * c + c * s.n + s.m * s.n, xs),
               OverSequences(LAMBDA s : s.m * c + c * s.n + s.m * s.n, ys))
<1> DEFINE f == [k \in 1 .. Len(xs) |-> xs[k].m * c + c * xs[k].n + xs[k].m * xs[k].n]
           g == [k \in 1 .. Len(ys) |-> ys[k].m * c + c * ys[k].n + ys[k].m * ys[k].n]
<1>1. /\ OverSequences(LAMBDA s : s.m * c + c * s.n + s.m * s.n, xs) = Total(f)
      /\ OverSequences(LAMBDA s : s.m * c + c * s.n + s.m * s.n, ys) = Total(g)
  BY DEF OverSequences
<1>2. ASSUME NEW k \in 1 .. Len(xs) PROVE Rises(f[k], g[k])
  <2>1. Rises(c, c)
    BY RisesSame
  <2>2. Rises(xs[k].m, ys[k].m) /\ Rises(xs[k].n, ys[k].n) /\ k \in 1 .. Len(ys)
    BY GrownRows
  <2>3. Rises(xs[k].m * c, ys[k].m * c)
    BY <2>1, <2>2, RisesTimes
  <2>4. Rises(c * xs[k].n, c * ys[k].n)
    BY <2>1, <2>2, <2>3, RisesTimes
  <2>5. Rises(xs[k].m * xs[k].n, ys[k].m * ys[k].n)
    BY <2>1, <2>2, <2>3, <2>4, RisesTimes
  <2>6. Rises(xs[k].m * c + c * xs[k].n + xs[k].m * xs[k].n, ys[k].m * c + c * ys[k].n + ys[k].m * ys[k].n)
    BY <2>1, <2>2, <2>3, <2>4, <2>5, RisesThree
  <2>7. f[k] = xs[k].m * c + c * xs[k].n + xs[k].m * xs[k].n /\ g[k] = ys[k].m * c + c * ys[k].n + ys[k].m * ys[k].n
    BY <2>2
  <2> HIDE DEF f, g
  <2> QED BY <2>6, <2>7
<1>3. DOMAIN f = 1 .. Len(xs) /\ DOMAIN g = 1 .. Len(ys)
  OBVIOUS
<1> HIDE DEF f, g
<1> QED BY <1>1, <1>2, <1>3, OverRises

LEMMA LatentContextRises ==
  ASSUME NEW xs, NEW ys, Lengthened(xs, ys), NEW c \in Nat
  PROVE  Rises(OverSequences(LAMBDA s : s.m * s.n + s.n * c + s.m * c, xs),
               OverSequences(LAMBDA s : s.m * s.n + s.n * c + s.m * c, ys))
<1> DEFINE f == [k \in 1 .. Len(xs) |-> xs[k].m * xs[k].n + xs[k].n * c + xs[k].m * c]
           g == [k \in 1 .. Len(ys) |-> ys[k].m * ys[k].n + ys[k].n * c + ys[k].m * c]
<1>1. /\ OverSequences(LAMBDA s : s.m * s.n + s.n * c + s.m * c, xs) = Total(f)
      /\ OverSequences(LAMBDA s : s.m * s.n + s.n * c + s.m * c, ys) = Total(g)
  BY DEF OverSequences
<1>2. ASSUME NEW k \in 1 .. Len(xs) PROVE Rises(f[k], g[k])
  <2>1. Rises(c, c)
    BY RisesSame
  <2>2. Rises(xs[k].m, ys[k].m) /\ Rises(xs[k].n, ys[k].n) /\ k \in 1 .. Len(ys)
    BY GrownRows
  <2>3. Rises(xs[k].m * xs[k].n, ys[k].m * ys[k].n)
    BY <2>1, <2>2, RisesTimes
  <2>4. Rises(xs[k].n * c, ys[k].n * c)
    BY <2>1, <2>2, <2>3, RisesTimes
  <2>5. Rises(xs[k].m * c, ys[k].m * c)
    BY <2>1, <2>2, <2>3, <2>4, RisesTimes
  <2>6. Rises(xs[k].m * xs[k].n + xs[k].n * c + xs[k].m * c, ys[k].m * ys[k].n + ys[k].n * c + ys[k].m * c)
    BY <2>1, <2>2, <2>3, <2>4, <2>5, RisesThree
  <2>7. f[k] = xs[k].m * xs[k].n + xs[k].n * c + xs[k].m * c /\ g[k] = ys[k].m * ys[k].n + ys[k].n * c + ys[k].m * c
    BY <2>2
  <2> HIDE DEF f, g
  <2> QED BY <2>6, <2>7
<1>3. DOMAIN f = 1 .. Len(xs) /\ DOMAIN g = 1 .. Len(ys)
  OBVIOUS
<1> HIDE DEF f, g
<1> QED BY <1>1, <1>2, <1>3, OverRises

LEMMA LatentFlopsRise ==
  ASSUME NEW xs, NEW ys, Lengthened(xs, ys), NEW c \in Nat
  PROVE  Rises(OverSequences(LAMBDA s : c * s.n, xs),
               OverSequences(LAMBDA s : c * s.n, ys))
<1> DEFINE f == [k \in 1 .. Len(xs) |-> c * xs[k].n]
           g == [k \in 1 .. Len(ys) |-> c * ys[k].n]
<1>1. /\ OverSequences(LAMBDA s : c * s.n, xs) = Total(f)
      /\ OverSequences(LAMBDA s : c * s.n, ys) = Total(g)
  BY DEF OverSequences
<1>2. ASSUME NEW k \in 1 .. Len(xs) PROVE Rises(f[k], g[k])
  <2>1. Rises(c, c)
    BY RisesSame
  <2>2. Rises(xs[k].m, ys[k].m) /\ Rises(xs[k].n, ys[k].n) /\ k \in 1 .. Len(ys)
    BY GrownRows
  <2>3. Rises(c * xs[k].n, c * ys[k].n)
    BY <2>1, <2>2, RisesTimes
  <2>4. f[k] = c * xs[k].n /\ g[k] = c * ys[k].n
    BY <2>2
  <2> HIDE DEF f, g
  <2> QED BY <2>3, <2>4
<1>3. DOMAIN f = 1 .. Len(xs) /\ DOMAIN g = 1 .. Len(ys)
  OBVIOUS
<1> HIDE DEF f, g
<1> QED BY <1>1, <1>2, <1>3, OverRises

LEMMA AbsorbedBytesRise ==
  ASSUME NEW xs, NEW ys, Lengthened(xs, ys), NEW c \in Nat, NEW d \in Nat, NEW e \in Nat
  PROVE  Rises(OverSequences(LAMBDA s : c + s.n * d + e, xs),
               OverSequences(LAMBDA s : c + s.n * d + e, ys))
<1> DEFINE f == [k \in 1 .. Len(xs) |-> c + xs[k].n * d + e]
           g == [k \in 1 .. Len(ys) |-> c + ys[k].n * d + e]
<1>1. /\ OverSequences(LAMBDA s : c + s.n * d + e, xs) = Total(f)
      /\ OverSequences(LAMBDA s : c + s.n * d + e, ys) = Total(g)
  BY DEF OverSequences
<1>2. ASSUME NEW k \in 1 .. Len(xs) PROVE Rises(f[k], g[k])
  <2>1. Rises(c, c) /\ Rises(d, d) /\ Rises(e, e)
    BY RisesSame
  <2>2. Rises(xs[k].m, ys[k].m) /\ Rises(xs[k].n, ys[k].n) /\ k \in 1 .. Len(ys)
    BY GrownRows
  <2>3. Rises(xs[k].n * d, ys[k].n * d)
    BY <2>1, <2>2, RisesTimes
  <2>4. Rises(c + xs[k].n * d + e, c + ys[k].n * d + e)
    BY <2>1, <2>2, <2>3, RisesThree
  <2>5. f[k] = c + xs[k].n * d + e /\ g[k] = c + ys[k].n * d + e
    BY <2>2
  <2> HIDE DEF f, g
  <2> QED BY <2>4, <2>5
<1>3. DOMAIN f = 1 .. Len(xs) /\ DOMAIN g = 1 .. Len(ys)
  OBVIOUS
<1> HIDE DEF f, g
<1> QED BY <1>1, <1>2, <1>3, OverRises

LEMMA LatentBytesRise ==
  ASSUME NEW xs, NEW ys, Lengthened(xs, ys), NEW c \in Nat, NEW h \in Nat
  PROVE  Rises(OverSequences(LAMBDA s : s.m * c * h + c * s.n + s.m * s.n * h, xs),
               OverSequences(LAMBDA s : s.m * c * h + c * s.n + s.m * s.n * h, ys))
<1> DEFINE f == [k \in 1 .. Len(xs) |-> xs[k].m * c * h + c * xs[k].n + xs[k].m * xs[k].n * h]
           g == [k \in 1 .. Len(ys) |-> ys[k].m * c * h + c * ys[k].n + ys[k].m * ys[k].n * h]
<1>1. /\ OverSequences(LAMBDA s : s.m * c * h + c * s.n + s.m * s.n * h, xs) = Total(f)
      /\ OverSequences(LAMBDA s : s.m * c * h + c * s.n + s.m * s.n * h, ys) = Total(g)
  BY DEF OverSequences
<1>2. ASSUME NEW k \in 1 .. Len(xs) PROVE Rises(f[k], g[k])
  <2>1. Rises(c, c) /\ Rises(h, h)
    BY RisesSame
  <2>2. Rises(xs[k].m, ys[k].m) /\ Rises(xs[k].n, ys[k].n) /\ k \in 1 .. Len(ys)
    BY GrownRows
  <2>3. Rises(xs[k].m * c * h, ys[k].m * c * h)
    BY <2>1, <2>2, RisesThree
  <2>4. Rises(c * xs[k].n, c * ys[k].n)
    BY <2>1, <2>2, <2>3, RisesTimes
  <2>5. Rises(xs[k].m * xs[k].n * h, ys[k].m * ys[k].n * h)
    BY <2>1, <2>2, <2>3, <2>4, RisesThree
  <2>6. Rises(xs[k].m * c * h + c * xs[k].n + xs[k].m * xs[k].n * h, ys[k].m * c * h + c * ys[k].n + ys[k].m * ys[k].n * h)
    BY <2>1, <2>2, <2>3, <2>4, <2>5, RisesThree
  <2>7. f[k] = xs[k].m * c * h + c * xs[k].n + xs[k].m * xs[k].n * h /\ g[k] = ys[k].m * c * h + c * ys[k].n + ys[k].m * ys[k].n * h
    BY <2>2
  <2> HIDE DEF f, g
  <2> QED BY <2>6, <2>7
<1>3. DOMAIN f = 1 .. Len(xs) /\ DOMAIN g = 1 .. Len(ys)
  OBVIOUS
<1> HIDE DEF f, g
<1> QED BY <1>1, <1>2, <1>3, OverRises

LEMMA GroupBytesRise ==
  ASSUME NEW xs, NEW ys, Lengthened(xs, ys), NEW c \in Nat, NEW h \in Nat, NEW e \in Positive
  PROVE  Rises(OverSequences(LAMBDA s : (s.m * c * h) \div e + c * s.n + (s.m * s.n * h) \div e, xs),
               OverSequences(LAMBDA s : (s.m * c * h) \div e + c * s.n + (s.m * s.n * h) \div e, ys))
<1> DEFINE f == [k \in 1 .. Len(xs) |-> (xs[k].m * c * h) \div e + c * xs[k].n + (xs[k].m * xs[k].n * h) \div e]
           g == [k \in 1 .. Len(ys) |-> (ys[k].m * c * h) \div e + c * ys[k].n + (ys[k].m * ys[k].n * h) \div e]
<1>1. /\ OverSequences(LAMBDA s : (s.m * c * h) \div e + c * s.n + (s.m * s.n * h) \div e, xs) = Total(f)
      /\ OverSequences(LAMBDA s : (s.m * c * h) \div e + c * s.n + (s.m * s.n * h) \div e, ys) = Total(g)
  BY DEF OverSequences
<1>2. ASSUME NEW k \in 1 .. Len(xs) PROVE Rises(f[k], g[k])
  <2>1. Rises(c, c) /\ Rises(h, h)
    BY RisesSame
  <2>2. Rises(xs[k].m, ys[k].m) /\ Rises(xs[k].n, ys[k].n) /\ k \in 1 .. Len(ys)
    BY GrownRows
  <2>3. Rises(xs[k].m * c * h, ys[k].m * c * h)
    BY <2>1, <2>2, RisesThree
  <2>4. Rises((xs[k].m * c * h) \div e, (ys[k].m * c * h) \div e)
    BY <2>1, <2>2, <2>3, RisesQuotient
  <2>5. Rises(c * xs[k].n, c * ys[k].n)
    BY <2>1, <2>2, <2>3, <2>4, RisesTimes
  <2>6. Rises(xs[k].m * xs[k].n * h, ys[k].m * ys[k].n * h)
    BY <2>1, <2>2, <2>3, <2>4, <2>5, RisesThree
  <2>7. Rises((xs[k].m * xs[k].n * h) \div e, (ys[k].m * ys[k].n * h) \div e)
    BY <2>1, <2>2, <2>3, <2>4, <2>5, <2>6, RisesQuotient
  <2>8. Rises((xs[k].m * c * h) \div e + c * xs[k].n + (xs[k].m * xs[k].n * h) \div e, (ys[k].m * c * h) \div e + c * ys[k].n + (ys[k].m * ys[k].n * h) \div e)
    BY <2>1, <2>2, <2>3, <2>4, <2>5, <2>6, <2>7, RisesThree
  <2>9. f[k] = (xs[k].m * c * h) \div e + c * xs[k].n + (xs[k].m * xs[k].n * h) \div e /\ g[k] = (ys[k].m * c * h) \div e + c * ys[k].n + (ys[k].m * ys[k].n * h) \div e
    BY <2>2
  <2> HIDE DEF f, g
  <2> QED BY <2>8, <2>9
<1>3. DOMAIN f = 1 .. Len(xs) /\ DOMAIN g = 1 .. Len(ys)
  OBVIOUS
<1> HIDE DEF f, g
<1> QED BY <1>1, <1>2, <1>3, OverRises

LEMMA SoftmaxFlopsRise ==
  ASSUME NEW xs, NEW ys, Lengthened(xs, ys), NEW h \in Nat
  PROVE  Rises(OverSequences(LAMBDA s : 7 * s.m * s.n * h, xs),
               OverSequences(LAMBDA s : 7 * s.m * s.n * h, ys))
<1> DEFINE f == [k \in 1 .. Len(xs) |-> 7 * xs[k].m * xs[k].n * h]
           g == [k \in 1 .. Len(ys) |-> 7 * ys[k].m * ys[k].n * h]
<1>1. /\ OverSequences(LAMBDA s : 7 * s.m * s.n * h, xs) = Total(f)
      /\ OverSequences(LAMBDA s : 7 * s.m * s.n * h, ys) = Total(g)
  BY DEF OverSequences
<1>2. ASSUME NEW k \in 1 .. Len(xs) PROVE Rises(f[k], g[k])
  <2>1. Rises(7, 7) /\ Rises(h, h)
    BY RisesSame
  <2>2. Rises(xs[k].m, ys[k].m) /\ Rises(xs[k].n, ys[k].n) /\ k \in 1 .. Len(ys)
    BY GrownRows
  <2>3. Rises(7 * xs[k].m * xs[k].n * h, 7 * ys[k].m * ys[k].n * h)
    BY <2>1, <2>2, RisesFive
  <2>4. f[k] = 7 * xs[k].m * xs[k].n * h /\ g[k] = 7 * ys[k].m * ys[k].n * h
    BY <2>2
  <2> HIDE DEF f, g
  <2> QED BY <2>3, <2>4
<1>3. DOMAIN f = 1 .. Len(xs) /\ DOMAIN g = 1 .. Len(ys)
  OBVIOUS
<1> HIDE DEF f, g
<1> QED BY <1>1, <1>2, <1>3, OverRises

---------------------------------------------------------------------------
(* The phases of latent attention take longer.                             *)

\* A phase of the decode steps on a processor, for a context and for a longer one.
LEMMA PhasesRise ==
  ASSUME NEW i, NEW p \in Processor, NEW x, NEW y, Rises(x, y), NEW u, NEW v, Rises(u, v),
         NEW moves, NEW others
  PROVE  NoSlower(Phase(i, p, x, u, moves), Phase(i, p, y, v, others))
<1> DEFINE a == Phase(i, p, x, u, moves)
           b == Phase(i, p, y, v, others)
<1>1. Costs(a, p, i.precision, x, u) /\ Costs(b, p, i.precision, y, v)
  BY PhaseCosts
<1> HIDE DEF a, b
<1>2. NoSlower(a, b)
  BY <1>1, CostsRise
<1> QED BY <1>2 DEF a, b

LEMMA LatentFlashSlower ==
  ASSUME NEW xs, NEW ys, Lengthened(xs, ys), NEW i, Dimensions(i), NEW p \in Processor
  PROVE  NoSlower(MLAGenFlash(i, xs, p), MLAGenFlash(i, ys, p))
<1> DEFINE c == (i.hd + i.rope) + i.hd
           u == OverSequences(LAMBDA s : (s.m + s.n) * ((i.hd + i.rope) + i.hd), xs)
           v == OverSequences(LAMBDA s : (s.m + s.n) * ((i.hd + i.rope) + i.hd), ys)
           k == i.hd + i.rope
           d == i.hd
           x == HeadFlops(i, xs, k) + HeadFlops(i, xs, d)
           y == HeadFlops(i, ys, k) + HeadFlops(i, ys, d)
<1>1. k \in Nat /\ d \in Nat /\ c \in Nat /\ i.precision \in Nat /\ i.H \in Nat
  BY DEF Dimensions
<1>2. Rises(x, y)
  BY <1>1, HeadFlopsRise, RisesPlus
<1>3. Rises(u, v)
  BY <1>1, FlashRises
<1>4. \E m, n : /\ MLAGenFlash(i, xs, p) = Phase(i, p, x, i.precision * i.H * u, m)
                /\ MLAGenFlash(i, ys, p) = Phase(i, p, y, i.precision * i.H * v, n)
  BY DEF MLAGenFlash
<1> HIDE DEF u, v, x, y
<1>5. Rises(i.precision * i.H * u, i.precision * i.H * v)
  BY <1>1, <1>3, RisesSame, RisesThree
<1> QED BY <1>2, <1>4, <1>5, PhasesRise

LEMMA LatentScoringSlower ==
  ASSUME NEW xs, NEW ys, Lengthened(xs, ys), NEW i, Dimensions(i), NEW p \in Processor
  PROVE  NoSlower(MLAGenScoring(i, xs, p), MLAGenScoring(i, ys, p))
<1> DEFINE u == OverSequences(LAMBDA s : s.m * (i.hd + i.rope) + (i.hd + i.rope) * s.n + s.m * s.n, xs)
           v == OverSequences(LAMBDA s : s.m * (i.hd + i.rope) + (i.hd + i.rope) * s.n + s.m * s.n, ys)
           x == HeadFlops(i, xs, i.hd + i.rope)
           y == HeadFlops(i, ys, i.hd + i.rope)
<1>1. i.precision \in Nat /\ i.H \in Nat /\ i.hd + i.rope \in Nat
  BY DEF Dimensions
<1>2. Rises(x, y)
  BY <1>1, HeadFlopsRise
<1>3. Rises(u, v)
  BY <1>1, ScoringRises
<1>4. \E m, n : /\ MLAGenScoring(i, xs, p) = Phase(i, p, x, i.precision * i.H * u, m)
                /\ MLAGenScoring(i, ys, p) = Phase(i, p, y, i.precision * i.H * v, n)
  BY DEF MLAGenScoring
<1> HIDE DEF u, v, x, y
<1>5. Rises(i.precision * i.H * u, i.precision * i.H * v)
  BY <1>1, <1>3, RisesSame, RisesThree
<1> QED BY <1>2, <1>4, <1>5, PhasesRise

LEMMA LatentContextSlower ==
  ASSUME NEW xs, NEW ys, Lengthened(xs, ys), NEW i, Dimensions(i), NEW p \in Processor
  PROVE  NoSlower(MLAGenContext(i, xs, p), MLAGenContext(i, ys, p))
<1> DEFINE u == OverSequences(LAMBDA s : s.m * s.n + s.n * i.hd + s.m * i.hd, xs)
           v == OverSequences(LAMBDA s : s.m * s.n + s.n * i.hd + s.m * i.hd, ys)
           x == HeadFlops(i, xs, i.hd)
           y == HeadFlops(i, ys, i.hd)
<1>1. i.precision \in Nat /\ i.H \in Nat /\ i.hd \in Nat
  BY DEF Dimensions
<1>2. Rises(x, y)
  BY <1>1, HeadFlopsRise
<1>3. Rises(u, v)
  BY <1>1, LatentContextRises
<1>4. \E m, n : /\ MLAGenContext(i, xs, p) = Phase(i, p, x, i.precision * i.H * u, m)
                /\ MLAGenContext(i, ys, p) = Phase(i, p, y, i.precision * i.H * v, n)
  BY DEF MLAGenContext
<1> HIDE DEF u, v, x, y
<1>5. Rises(i.precision * i.H * u, i.precision * i.H * v)
  BY <1>1, <1>3, RisesSame, RisesThree
<1> QED BY <1>2, <1>4, <1>5, PhasesRise

\* The softmax of a sequence, whose transfers take time whether they are counted or not.
LEMMA SoftmaxSlower ==
  ASSUME NEW xs, NEW ys, Lengthened(xs, ys), NEW k \in 1 .. Len(xs), NEW i, Dimensions(i), NEW p \in Processor
  PROVE  /\ NoSlower(SoftmaxOf(i, xs[k], p), SoftmaxOf(i, ys[k], p))
         /\ NoSlower(MLAGenSoftmax(i, xs[k], p), MLAGenSoftmax(i, ys[k], p))
<1> DEFINE s == xs[k]
           t == ys[k]
           x == s.m * s.n * i.H
           y == t.m * t.n * i.H
           q == i.precision
           a == SoftmaxOf(i, s, p)
           b == SoftmaxOf(i, t, p)
           c == MLAGenSoftmax(i, s, p)
           d == MLAGenSoftmax(i, t, p)
<1>1. Rises(i.H, i.H) /\ Rises(q, q) /\ Rises(7, 7) /\ Rises(2, 2)
  BY RisesSame DEF Dimensions
<1>2. Rises(s.m, t.m) /\ Rises(s.n, t.n)
  BY GrownRows
<1>3. Rises(x, y)
  BY <1>1, <1>2, RisesThree
<1>4. \E m, n : a = Phase(i, p, 7 * x, q * 2 * x, m) /\ b = Phase(i, p, 7 * y, q * 2 * y, n)
  BY DEF SoftmaxOf
<1>5. c = [a EXCEPT !.bytes = 0] /\ d = [b EXCEPT !.bytes = 0]
  BY DEF MLAGenSoftmax
<1> HIDE DEF x, y, a, b, c, d, q, s, t
<1>6. Rises(7 * x, 7 * y) /\ Rises(q * 2 * x, q * 2 * y)
  BY <1>1, <1>3, RisesTimes, RisesThree
<1> DEFINE f == 7 * x
           g == 7 * y
           u == q * 2 * x
           v == q * 2 * y
<1> HIDE DEF f, g, u, v
<1>7. Rises(f, g) /\ Rises(u, v) /\ \E m, n : a = Phase(i, p, f, u, m) /\ b = Phase(i, p, g, v, n)
  BY <1>4, <1>6 DEF f, g, u, v
<1>8. Costs(a, p, i.precision, f, u) /\ Costs(b, p, i.precision, g, v)
  BY <1>7, PhaseCosts
<1>9. /\ c.opb = a.opb /\ c.compute = a.compute /\ c.memory = a.memory
      /\ d.opb = b.opb /\ d.compute = b.compute /\ d.memory = b.memory
  BY <1>5, <1>7 DEF Phase
<1>10. Costs(c, p, i.precision, f, u) /\ Costs(d, p, i.precision, g, v)
  BY <1>8, <1>9 DEF Costs
<1>11. NoSlower(a, b) /\ NoSlower(c, d)
  BY <1>7, <1>8, <1>10, CostsRise
<1> QED BY <1>11 DEF a, b, c, d, s, t

LEMMA AbsorbedFlashSlower ==
  ASSUME NEW xs, NEW ys, Lengthened(xs, ys), NEW i, Dimensions(i), NEW p \in Processor, i.rank \in Nat
  PROVE  NoSlower(AbsorbGenFlash(i, xs, p), AbsorbGenFlash(i, ys, p))
<1> DEFINE u == OverSequences(LAMBDA s : i.H * (i.rank + i.rope) + s.n * (i.rank + i.rope) + i.H * i.rank, xs)
           v == OverSequences(LAMBDA s : i.H * (i.rank + i.rope) + s.n * (i.rank + i.rope) + i.H * i.rank, ys)
           x == OverSequences(LAMBDA s : 2 * i.H * (i.rank + i.rope + i.rank) * s.n, xs)
           y == OverSequences(LAMBDA s : 2 * i.H * (i.rank + i.rope + i.rank) * s.n, ys)
<1>1. i.precision \in Nat /\ i.H \in Nat /\ i.rank + i.rope \in Nat /\ i.H * (i.rank + i.rope) \in Nat /\ i.H * i.rank \in Nat /\ 2 * i.H * (i.rank + i.rope + i.rank) \in Nat
  BY DEF Dimensions
<1>2. Rises(x, y)
  BY <1>1, LatentFlopsRise
<1>3. Rises(u, v)
  BY <1>1, AbsorbedBytesRise
<1>4. \E m, n : /\ AbsorbGenFlash(i, xs, p) = Phase(i, p, x, i.precision * u, m)
                /\ AbsorbGenFlash(i, ys, p) = Phase(i, p, y, i.precision * v, n)
  BY DEF AbsorbGenFlash
<1> HIDE DEF u, v, x, y
<1>5. Rises(i.precision * u, i.precision * v)
  BY <1>1, <1>3, RisesSame, RisesTimes
<1> QED BY <1>2, <1>4, <1>5, PhasesRise

\* Phases with the costs of others.
LEMMA SameCosts ==
  ASSUME NEW a, NEW b, NoSlower(a, b), NEW c, NEW d, a.opb = << >>, b.opb = << >>,
         c.opb = << >> /\ c.compute = a.compute /\ c.memory = a.memory,
         d.opb = << >> /\ d.compute = b.compute /\ d.memory = b.memory
  PROVE  NoSlower(c, d)
<1>1. Time(c) = Time(a) /\ Time(d) = Time(b)
  BY DEF Time, PhaseTime
<1> QED BY <1>1 DEF NoSlower

LEMMA AbsorbedScoringSlower ==
  ASSUME NEW xs, NEW ys, Lengthened(xs, ys), NEW i, Dimensions(i), NEW p \in Processor, NEW dim \in Nat
  PROVE  /\ NoSlower(LatentScoring(i, xs, p, dim), LatentScoring(i, ys, p, dim))
         /\ NoSlower([LatentScoring(i, xs, p, dim) EXCEPT !.charged = << 3 >>],
                     [LatentScoring(i, ys, p, dim) EXCEPT !.charged = << 3 >>])
<1> DEFINE u == OverSequences(LAMBDA s : s.m * dim * i.H + dim * s.n + s.m * s.n * i.H, xs)
           v == OverSequences(LAMBDA s : s.m * dim * i.H + dim * s.n + s.m * s.n * i.H, ys)
           x == HeadFlops(i, xs, dim)
           y == HeadFlops(i, ys, dim)
           a == LatentScoring(i, xs, p, dim)
           b == LatentScoring(i, ys, p, dim)
           c == [a EXCEPT !.charged = << 3 >>]
           d == [b EXCEPT !.charged = << 3 >>]
<1>1. i.precision \in Nat /\ i.H \in Nat
  BY DEF Dimensions
<1>2. Rises(x, y)
  BY <1>1, HeadFlopsRise
<1>3. Rises(u, v)
  BY <1>1, LatentBytesRise
<1>4. \E m, n : a = Phase(i, p, x, i.precision * u, m) /\ b = Phase(i, p, y, i.precision * v, n)
  BY DEF LatentScoring
<1> HIDE DEF u, v, x, y, a, b
<1>5. Rises(i.precision * u, i.precision * v)
  BY <1>1, <1>3, RisesSame, RisesTimes
<1>6. NoSlower(a, b)
  BY <1>2, <1>4, <1>5, PhasesRise
<1>7. /\ a.opb = << >> /\ b.opb = << >>
      /\ c.opb = << >> /\ c.compute = a.compute /\ c.memory = a.memory
      /\ d.opb = << >> /\ d.compute = b.compute /\ d.memory = b.memory
  BY <1>4 DEF Phase
<1> HIDE DEF c, d
<1>8. NoSlower(c, d)
  BY <1>6, <1>7, SameCosts
<1> QED BY <1>6, <1>8 DEF a, b, c, d

LEMMA AbsorbedContextSlower ==
  ASSUME NEW xs, NEW ys, Lengthened(xs, ys), NEW i, Dimensions(i), NEW p \in Processor, i.rank \in Nat
  PROVE  NoSlower(AbsorbGenContext(i, xs, p), AbsorbGenContext(i, ys, p))
<1> DEFINE a == LatentScoring(i, xs, p, i.rank)
           b == LatentScoring(i, ys, p, i.rank)
           c == AbsorbGenContext(i, xs, p)
           d == AbsorbGenContext(i, ys, p)
<1>1. NoSlower(a, b)
  BY AbsorbedScoringSlower
<1>2. \E m, n : c = [a EXCEPT !.ram = m, !.ideal = m] /\ d = [b EXCEPT !.ram = n, !.ideal = n]
  BY DEF AbsorbGenContext
<1>3. /\ DOMAIN a = {"flops", "bytes", "compute", "memory", "ideal", "ram", "charged", "opb"}
      /\ DOMAIN b = DOMAIN a /\ a.opb = << >> /\ b.opb = << >>
  BY DEF LatentScoring, Phase
<1> HIDE DEF a, b, c, d
<1>4. /\ c.opb = << >> /\ c.compute = a.compute /\ c.memory = a.memory
      /\ d.opb = << >> /\ d.compute = b.compute /\ d.memory = b.memory
  BY <1>2, <1>3
<1>5. NoSlower(c, d)
  BY <1>1, <1>3, <1>4, SameCosts
<1> QED BY <1>5 DEF c, d

---------------------------------------------------------------------------

LatentGenPhases(i, gen, p) ==
  IF i.use_flash_mla THEN << MLAGenFlash(i, gen, p) >>
  ELSE (<< MLAGenScoring(i, gen, p) >> \o [k \in 1 .. Len(gen) |-> MLAGenSoftmax(i, gen[k], p)])
         \o << MLAGenContext(i, gen, p) >>
AbsorbedGenPhases(i, gen, p) ==
  IF i.use_flash_mla THEN << AbsorbGenFlash(i, gen, p) >>
  ELSE (<< LatentScoring(i, gen, p, i.rank), [LatentScoring(i, gen, p, i.rope) EXCEPT !.charged = << 3 >>] >>
          \o [k \in 1 .. Len(gen) |-> SoftmaxOf(i, gen[k], p)])
         \o << AbsorbGenContext(i, gen, p) >>

\* The functions of the three processors are the same.
LEMMA LatentGenIs ==
  ASSUME NEW i, NEW gen, NEW p \in Processor
  PROVE  /\ GenPhases("MLA_GEN", p, i, gen) = LatentGenPhases(i, gen, p)
         /\ GenPhases("ABSORBED_MLA_GEN", p, i, gen) = AbsorbedGenPhases(i, gen, p)
<1>1. GenPhases("MLA_GEN", p, i, gen) = LatentGenPhases(i, gen, p)
  <2>1. GenPhases("MLA_GEN", p, i, gen)
          = ByProcessor(p, MultiLatentAttentionGenExecutionGPU(i, gen),
                     MultiLatentAttentionGenExecutionLogic(i, gen),
                     MultiLatentAttentionGenExecutionPIM(i, gen))
    BY DEF GenPhases
  <2>2. CASE p = "GPU"
    BY <2>1, <2>2 DEF ByProcessor, LatentGenPhases, EachSequence, MultiLatentAttentionGenExecutionGPU,
       MLAGenFlashGPU, MLAGenScoringGPU, MLAGenSoftmaxGPU, MLAGenContextGPU
  <2>3. CASE p = "LOGIC"
    BY <2>1, <2>3 DEF ByProcessor, LatentGenPhases, EachSequence, MultiLatentAttentionGenExecutionLogic,
       MLAGenFlashLogic, MLAGenScoringLogic, MLAGenSoftmaxLogic, MLAGenContextLogic
  <2>4. CASE p = "PIM"
    BY <2>1, <2>4 DEF ByProcessor, LatentGenPhases, EachSequence, MultiLatentAttentionGenExecutionPIM,
       MLAGenFlashPIM, MLAGenScoringPIM, MLAGenSoftmaxPIM, MLAGenContextPIM
  <2> QED BY <2>2, <2>3, <2>4 DEF Processor
<1>2. GenPhases("ABSORBED_MLA_GEN", p, i, gen) = AbsorbedGenPhases(i, gen, p)
  <2>1. GenPhases("ABSORBED_MLA_GEN", p, i, gen)
          = ByProcessor(p, AbsorbMLAGenExecutionGPU(i, gen),
                     AbsorbMLAGenExecutionLogic(i, gen),
                     AbsorbMLAGenExecutionPIM(i, gen))
    BY DEF GenPhases
  <2>2. CASE p = "GPU"
    BY <2>1, <2>2 DEF ByProcessor, AbsorbedGenPhases, EachSequence, AbsorbMLAGenExecutionGPU,
       AbsorbGenFlashGPU, AbsorbGenScoringGPU, AbsorbGenRopeGPU, AbsorbGenSoftmaxGPU, AbsorbGenContextGPU
  <2>3. CASE p = "LOGIC"
    BY <2>1, <2>3 DEF ByProcessor, AbsorbedGenPhases, EachSequence, AbsorbMLAGenExecutionLogic,
       AbsorbGenFlashLogic, AbsorbGenScoringLogic, AbsorbGenRopeLogic, AbsorbGenSoftmaxLogic, AbsorbGenContextLogic
  <2>4. CASE p = "PIM"
    BY <2>1, <2>4 DEF ByProcessor, AbsorbedGenPhases, EachSequence, AbsorbMLAGenExecutionPIM,
       AbsorbGenFlashPIM, AbsorbGenScoringPIM, AbsorbGenRopePIM, AbsorbGenSoftmaxPIM, AbsorbGenContextPIM
  <2> QED BY <2>2, <2>3, <2>4 DEF Processor
<1> QED BY <1>1, <1>2

LEMMA LatentGenSlower ==
  ASSUME NEW xs, NEW ys, Lengthened(xs, ys), NEW i, Dimensions(i), NEW p \in Processor
  PROVE  AllNoSlower(GenPhases("MLA_GEN", p, i, xs), GenPhases("MLA_GEN", p, i, ys))
<1>1. CASE i.use_flash_mla
  <2>1. AllNoSlower(<< MLAGenFlash(i, xs, p) >>, << MLAGenFlash(i, ys, p) >>)
    BY LatentFlashSlower, NoSlowerOne
  <2> QED BY <1>1, <2>1, LatentGenIs DEF LatentGenPhases
<1>2. CASE ~i.use_flash_mla
  <2> DEFINE a == MLAGenScoring(i, xs, p)
             b == MLAGenScoring(i, ys, p)
             c == MLAGenContext(i, xs, p)
             d == MLAGenContext(i, ys, p)
             x == [k \in 1 .. Len(xs) |-> MLAGenSoftmax(i, xs[k], p)]
             y == [k \in 1 .. Len(ys) |-> MLAGenSoftmax(i, ys[k], p)]
             N == Len(xs)
  <2>1. NoSlower(a, b) /\ NoSlower(c, d)
    BY LatentScoringSlower, LatentContextSlower
  <2>2. N \in Nat /\ Len(ys) = N
    BY GrownRows
  <2>3. x = [k \in 1 .. N |-> x[k]] /\ y = [k \in 1 .. N |-> y[k]]
    BY <2>2
  <2>4. \A k \in 1 .. N : NoSlower(x[k], y[k])
    BY <2>2, SoftmaxSlower
  <2>5. /\ GenPhases("MLA_GEN", p, i, xs) = (<< a >> \o x) \o << c >>
        /\ GenPhases("MLA_GEN", p, i, ys) = (<< b >> \o y) \o << d >>
    BY <1>2, LatentGenIs DEF LatentGenPhases
  <2> HIDE DEF a, b, c, d, x, y, N
  <2>6. AllNoSlower(x, y)
    BY <2>2, <2>3, <2>4, NoSlowerEach
  <2>7. AllNoSlower(<< a >>, << b >>) /\ AllNoSlower(<< c >>, << d >>)
    BY <2>1, NoSlowerOne
  <2>8. AllNoSlower((<< a >> \o x) \o << c >>, (<< b >> \o y) \o << d >>)
    BY <2>6, <2>7, NoSlowerJoin
  <2> QED BY <2>5, <2>8
<1> QED BY <1>1, <1>2

LEMMA AbsorbedGenSlower ==
  ASSUME NEW xs, NEW ys, Lengthened(xs, ys), NEW i, Dimensions(i), i.rank \in Nat, NEW p \in Processor
  PROVE  AllNoSlower(GenPhases("ABSORBED_MLA_GEN", p, i, xs), GenPhases("ABSORBED_MLA_GEN", p, i, ys))
<1>1. CASE i.use_flash_mla
  <2>1. AllNoSlower(<< AbsorbGenFlash(i, xs, p) >>, << AbsorbGenFlash(i, ys, p) >>)
    BY AbsorbedFlashSlower, NoSlowerOne
  <2> QED BY <1>1, <2>1, LatentGenIs DEF AbsorbedGenPhases
<1>2. CASE ~i.use_flash_mla
  <2> DEFINE a == LatentScoring(i, xs, p, i.rank)
             b == LatentScoring(i, ys, p, i.rank)
             e == [LatentScoring(i, xs, p, i.rope) EXCEPT !.charged = << 3 >>]
             f == [LatentScoring(i, ys, p, i.rope) EXCEPT !.charged = << 3 >>]
             c == AbsorbGenContext(i, xs, p)
             d == AbsorbGenContext(i, ys, p)
             x == [k \in 1 .. Len(xs) |-> SoftmaxOf(i, xs[k], p)]
             y == [k \in 1 .. Len(ys) |-> SoftmaxOf(i, ys[k], p)]
             N == Len(xs)
  <2>1. NoSlower(a, b) /\ NoSlower(c, d) /\ NoSlower(e, f)
    <3>1. i.rope \in Nat
      BY DEF Dimensions
    <3> QED BY <3>1, AbsorbedScoringSlower, AbsorbedContextSlower
  <2>2. N \in Nat /\ Len(ys) = N
    BY GrownRows
  <2>3. x = [k \in 1 .. N |-> x[k]] /\ y = [k \in 1 .. N |-> y[k]]
    BY <2>2
  <2>4. \A k \in 1 .. N : NoSlower(x[k], y[k])
    BY <2>2, SoftmaxSlower
  <2>5. /\ GenPhases("ABSORBED_MLA_GEN", p, i, xs) = (<< a, e >> \o x) \o << c >>
        /\ GenPhases("ABSORBED_MLA_GEN", p, i, ys) = (<< b, f >> \o y) \o << d >>
    BY <1>2, LatentGenIs DEF AbsorbedGenPhases
  <2> HIDE DEF a, b, c, d, e, f, x, y, N
  <2>6. AllNoSlower(x, y)
    BY <2>2, <2>3, <2>4, NoSlowerEach
  <2>7. AllNoSlower(<< a >>, << b >>) /\ AllNoSlower(<< c >>, << d >>) /\ AllNoSlower(<< e >>, << f >>)
    BY <2>1, NoSlowerOne
  <2>8. AllNoSlower(<< a >> \o << e >>, << b >> \o << f >>)
    BY <2>7, NoSlowerJoin
  <2>9. << a >> \o << e >> = << a, e >> /\ << b >> \o << f >> = << b, f >>
    BY PairOf
  <2>10. AllNoSlower(<< a, e >>, << b, f >>)
    BY <2>8, <2>9, Zenon
  <2>11. AllNoSlower((<< a, e >> \o x) \o << c >>, (<< b, f >> \o y) \o << d >>)
    BY <2>6, <2>7, <2>10, NoSlowerJoin
  <2> QED BY <2>5, <2>11
<1> QED BY <1>1, <1>2

---------------------------------------------------------------------------
(* The phases of grouped heads take longer.                                *)

LEMMA GroupScoringSlower ==
  ASSUME NEW xs, NEW ys, Lengthened(xs, ys), NEW i, Dimensions(i), i.group \in Nat, i.KVH \in Positive
  PROVE  NoSlower(GenScoringGPU(i, xs), GenScoringGPU(i, ys))
<1> DEFINE u == OverSequences(LAMBDA s : (s.m * i.hd * i.H) \div i.KVH + i.hd * s.n + (s.m * s.n * i.H) \div i.KVH, xs)
           v == OverSequences(LAMBDA s : (s.m * i.hd * i.H) \div i.KVH + i.hd * s.n + (s.m * s.n * i.H) \div i.KVH, ys)
           x == GroupFlops(i, xs)
           y == GroupFlops(i, ys)
<1>1. i.precision \in Nat /\ i.H \in Nat /\ i.hd \in Nat /\ i.KVH \in Nat /\ "GPU" \in Processor
  BY DEF Dimensions, Processor
<1>2. Rises(x, y)
  BY GroupFlopsRise
<1>3. Rises(u, v)
  BY <1>1, GroupBytesRise
<1>4. \E m, n : /\ GenScoringGPU(i, xs) = Phase(i, "GPU", x, i.precision * i.KVH * u, m)
                /\ GenScoringGPU(i, ys) = Phase(i, "GPU", y, i.precision * i.KVH * v, n)
  BY DEF GenScoringGPU
<1> HIDE DEF u, v, x, y
<1>5. Rises(i.precision * i.KVH * u, i.precision * i.KVH * v)
  BY <1>1, <1>3, RisesSame, RisesThree
<1> QED BY <1>1, <1>2, <1>4, <1>5, PhasesRise

LEMMA GroupLogicSlower ==
  ASSUME NEW xs, NEW ys, Lengthened(xs, ys), NEW i, Dimensions(i), i.group \in Nat
  PROVE  NoSlower(GenProductLogic(i, xs), GenProductLogic(i, ys))
<1> DEFINE x == GroupFlops(i, xs)
           y == GroupFlops(i, ys)
           u == CacheBytes(i, xs)
           v == CacheBytes(i, ys)
           c == GenProductLogic(i, xs)
           d == GenProductLogic(i, ys)
<1>1. Rises(x, y) /\ Rises(u, v) /\ "LOGIC" \in Processor
  BY GroupFlopsRise, CacheBytesRise DEF Processor
<1>2. PICK m, n : /\ c = [Phase(i, "LOGIC", x, u, m) EXCEPT !.ideal = c.ideal]
                  /\ d = [Phase(i, "LOGIC", y, v, n) EXCEPT !.ideal = d.ideal]
  BY DEF GenProductLogic, Phase
<1> HIDE DEF x, y, u, v, c, d
<1> DEFINE a == Phase(i, "LOGIC", x, u, m)
           b == Phase(i, "LOGIC", y, v, n)
<1>3. NoSlower(a, b)
  BY <1>1, PhasesRise
<1>4. /\ a.opb = << >> /\ b.opb = << >>
      /\ c.opb = << >> /\ c.compute = a.compute /\ c.memory = a.memory
      /\ d.opb = << >> /\ d.compute = b.compute /\ d.memory = b.memory
  BY <1>2 DEF Phase
<1> HIDE DEF a, b
<1>5. NoSlower(c, d)
  BY <1>3, <1>4, SameCosts
<1> QED BY <1>5 DEF c, d

LEMMA HostTimeRises ==
  ASSUME NEW i, NEW x, NEW y, Rises(x, y)
  PROVE  Rises(HostTime(i, x), HostTime(i, y))
<1> DEFINE t == FlopTime["GPU"]
           d == IF i.precision = 1 THEN 2 ELSE 1
<1>1. t \in Nat /\ d \in Positive /\ Rises(t, t)
  <2>1. "GPU" \in Processor
    BY DEF Processor
  <2>2. t \in Nat
    BY <2>1, TimesType DEF Positive
  <2> QED BY <2>2, RisesSame DEF Positive
<1>2. HostTime(i, x) = (x * t) \div d /\ HostTime(i, y) = (y * t) \div d
  BY DEF HostTime
<1> HIDE DEF t, d
<1>3. Rises(x * t, y * t)
  BY <1>1, RisesTimes
<1> QED BY <1>1, <1>2, <1>3, RisesQuotient

LEMMA NearBankRises ==
  ASSUME NEW xs, NEW ys, Lengthened(xs, ys), NEW i, Dimensions(i), i.group \in Nat,
         NEW inPIM \in BOOLEAN, NEW l, NEW m, Rises(l, m), NEW r, NEW s, Rises(r, s)
  PROVE  /\ Rises(NearBankTime(i, xs, inPIM, l, r).compute, NearBankTime(i, ys, inPIM, m, s).compute)
         /\ Rises(NearBankTime(i, xs, inPIM, l, r).memory, NearBankTime(i, ys, inPIM, m, s).memory)
<1>1. Rises(i.group, i.group) /\ Rises(i.KVH, i.KVH)
  BY RisesSame DEF Dimensions
<1>2. CASE inPIM
  <2>1. Rises(i.group * i.KVH * l, i.group * i.KVH * m) /\ Rises(i.group * i.KVH * r, i.group * i.KVH * s)
    BY <1>1, RisesThree
  <2> QED BY <1>2, <2>1 DEF NearBankTime
<1>3. CASE ~inPIM
  <2>1. Rises(HostTime(i, GroupFlops(i, xs)), HostTime(i, GroupFlops(i, ys)))
    BY GroupFlopsRise, HostTimeRises
  <2>2. Rises(MemoryTime("GPU", CacheBytes(i, xs)), MemoryTime("GPU", CacheBytes(i, ys)))
    <3>1. Rises(CacheBytes(i, xs), CacheBytes(i, ys)) /\ "GPU" \in Processor
      BY CacheBytesRise DEF Processor
    <3>2. Rises(ByteTime["GPU"], ByteTime["GPU"])
      BY <3>1, TimesType, RisesSame DEF Positive
    <3>3. Rises(CacheBytes(i, xs) * ByteTime["GPU"], CacheBytes(i, ys) * ByteTime["GPU"])
      BY <3>1, <3>2, RisesTimes
    <3> QED BY <3>3 DEF MemoryTime
  <2> QED BY <1>3, <2>1, <2>2 DEF NearBankTime
<1> QED BY <1>2, <1>3

\* The time that is scaled by the operations per byte is that of the operations.
LEMMA ScaledTime ==
  ASSUME NEW a, NEW b \in Positive, NEW t \in Nat, NEW f \in Nat, NEW n \in Positive,
         a.opb = << n * f, n * b >>, a.memory = b * t
  PROVE  Time(a) = t * f /\ t * f \in Nat
<1> DEFINE d == n * b
           q == t * f
<1>1. d \in Positive /\ q \in Nat /\ b \in Nat /\ n \in Nat
  BY ProductType DEF Positive
<1>2. a.opb # << >> /\ a.opb[1] = n * f /\ a.opb[2] = d
  OBVIOUS
<1>3. Time(a) = (a.memory * (n * f)) \div d
  BY <1>2 DEF Time, PhaseTime
<1>4. (b * t) * (n * f) = (n * b) * (t * f)
  BY <1>1
<1>5. Time(a) = (d * q) \div d
  BY <1>3, <1>4
<1> HIDE DEF d, q
<1>6. Time(a) = q
  BY <1>1, <1>5, ExactIs
<1> QED BY <1>1, <1>6 DEF q

LEMMA GroupPIMSlower ==
  ASSUME NEW xs, NEW ys, Lengthened(xs, ys), NEW i, Dimensions(i), i.group \in Nat,
         i.hd \in Positive, i.KVH \in Positive, i.nearbank \in BOOLEAN, NEW t, NEW s,
         Rises(t.compute, s.compute), Rises(t.memory, s.memory), NEW n \in Positive
  PROVE  NoSlower(GenProductPIM(i, xs, t, n), GenProductPIM(i, ys, s, n))
<1> DEFINE x == GroupFlops(i, xs)
           y == GroupFlops(i, ys)
           u == CacheBytes(i, xs)
           v == CacheBytes(i, ys)
           c == GenProductPIM(i, xs, t, n)
           d == GenProductPIM(i, ys, s, n)
<1>1. Rises(x, y) /\ Rises(u, v) /\ "PIM" \in Processor
  BY GroupFlopsRise, CacheBytesRise DEF Processor
<1>2. CASE i.nearbank
  <2>1. /\ c.opb = << >> /\ c.compute = t.compute /\ c.memory = t.memory
        /\ d.opb = << >> /\ d.compute = s.compute /\ d.memory = s.memory
    BY <1>2 DEF GenProductPIM, Phase
  <2> HIDE DEF c, d
  <2>2. NoSlower(c, d)
    BY <2>1, RisesNoSlower
  <2> QED BY <2>2 DEF c, d
<1>3. CASE ~i.nearbank
  <2> DEFINE b == ByteTime["PIM"]
  <2>1. /\ c.opb = << n * x, n * u >> /\ c.memory = u * b
        /\ d.opb = << n * y, n * v >> /\ d.memory = v * b
    BY <1>3 DEF GenProductPIM, Phase, MemoryTime
  <2>2. u \in Positive /\ v \in Positive
    <3> DEFINE w == i.precision * i.hd * i.KVH
    <3>1. w \in Positive
      <4>1. i.precision * i.hd \in Positive
        BY ProductType DEF Dimensions, Positive
      <4> DEFINE z == i.precision * i.hd
      <4> HIDE DEF z
      <4>2. z * i.KVH \in Positive
        BY <4>1, ProductType DEF Positive, z
      <4> QED BY <4>2 DEF z
    <3>2. u = w * Context(xs) /\ v = w * Context(ys)
      BY DEF CacheBytes
    <3>3. Context(xs) \in Positive /\ Context(ys) \in Positive
      BY ContextRises
    <3> HIDE DEF u, v, w
    <3> QED BY <3>1, <3>2, <3>3, ProductType DEF Positive
  <2>3. b \in Nat /\ x \in Nat /\ y \in Nat
    BY <1>1, TimesType DEF Rises, Positive
  <2> HIDE DEF b, c, d, x, y, u, v
  <2>4. Time(c) = b * x /\ Time(d) = b * y
    BY <2>1, <2>2, <2>3, ScaledTime
  <2>5. Rises(b * x, b * y)
    BY <1>1, <2>3, RisesSame, RisesTimes
  <2>6. NoSlower(c, d)
    BY <2>4, <2>5 DEF NoSlower, Rises
  <2> QED BY <2>6 DEF c, d
<1> QED BY <1>2, <1>3

LEMMA GroupSoftmaxSlower ==
  ASSUME NEW xs, NEW ys, Lengthened(xs, ys), NEW i, Dimensions(i)
  PROVE  NoSlower(GenSoftmaxPIM(i, xs), GenSoftmaxPIM(i, ys))
<1> DEFINE x == OverSequences(LAMBDA s : 7 * s.m * s.n * i.H, xs)
           y == OverSequences(LAMBDA s : 7 * s.m * s.n * i.H, ys)
           c == GenSoftmaxPIM(i, xs)
           d == GenSoftmaxPIM(i, ys)
           f(z) == CASE ~i.nearbank -> ComputeTime("PIM", i.precision, z)
                     [] i.nearbank /\ NearBank.softmax -> 0
                     [] OTHER -> HostTime(i, z)
<1>1. i.H \in Nat /\ "PIM" \in Processor
  BY DEF Dimensions, Processor
<1>2. Rises(x, y)
  BY <1>1, SoftmaxFlopsRise
<1>3. /\ c.opb = << >> /\ c.compute = f(x) /\ c.memory = MemoryTime("PIM", 0)
      /\ d.opb = << >> /\ d.compute = f(y) /\ d.memory = MemoryTime("PIM", 0)
  BY DEF GenSoftmaxPIM, ComputeOnly, Phase
<1> HIDE DEF x, y, c, d
<1>4. Rises(MemoryTime("PIM", 0), MemoryTime("PIM", 0))
  BY <1>1, MemoryMonotone DEF Rises
<1>5. Rises(f(x), f(y))
  <2>1. Rises(ComputeTime("PIM", i.precision, x), ComputeTime("PIM", i.precision, y))
    BY <1>1, <1>2, ComputeMonotone DEF Rises
  <2>2. Rises(HostTime(i, x), HostTime(i, y)) /\ Rises(0, 0)
    BY <1>2, HostTimeRises, RisesSame
  <2>3. CASE ~i.nearbank
    BY <2>1, <2>3
  <2>4. CASE i.nearbank /\ NearBank.softmax
    BY <2>2, <2>4
  <2>5. CASE i.nearbank /\ ~NearBank.softmax
    BY <2>2, <2>5
  <2> QED BY <2>3, <2>4, <2>5
<1> HIDE DEF f
<1>6. NoSlower(c, d)
  BY <1>3, <1>4, <1>5, RisesNoSlower
<1> QED BY <1>6 DEF c, d

ScoringLatency(i, gen) ==
  Total([k \in 1 .. Len(gen) |-> computeGEMVLatency(i.precision, gen[k].m, i.hd, gen[k].n).latency])

ScoringRows(i, gen) ==
  Total([k \in 1 .. Len(gen) |-> computeGEMVLatency(i.precision, gen[k].m, i.hd, gen[k].n).rowbuffer])

ContextLatency(i, gen) ==
  Total([k \in 1 .. Len(gen) |-> computeGEMVLatency(i.precision, gen[k].m, gen[k].n, i.hd).latency])

ContextRows(i, gen) ==
  Total([k \in 1 .. Len(gen) |-> computeGEMVLatency(i.precision, gen[k].m, gen[k].n, i.hd).rowbuffer])

LEMMA ScoringLatencyRises ==
  ASSUME NEW xs, NEW ys, Lengthened(xs, ys), NEW i, Dimensions(i)
  PROVE  Rises(ScoringLatency(i, xs), ScoringLatency(i, ys))
<1> DEFINE f == [k \in 1 .. Len(xs) |-> computeGEMVLatency(i.precision, xs[k].m, i.hd, xs[k].n).latency]
           g == [k \in 1 .. Len(ys) |-> computeGEMVLatency(i.precision, ys[k].m, i.hd, ys[k].n).latency]
<1>1. ScoringLatency(i, xs) = Total(f) /\ ScoringLatency(i, ys) = Total(g)
  BY DEF ScoringLatency
<1>2. ASSUME NEW k \in 1 .. Len(xs) PROVE Rises(f[k], g[k])
  <2> DEFINE q == i.precision
             hd == i.hd
             n == xs[k].n
             o == ys[k].n
  <2>1. Rises(hd, hd) /\ q \in Nat /\ 1 \in Nat
    BY RisesSame DEF Dimensions
  <2>2. xs[k].m = 1 /\ ys[k].m = 1 /\ Rises(n, o) /\ k \in 1 .. Len(ys)
    BY GrownRows
  <2>3. /\ f[k] = computeGEMVLatency(q, 1, hd, n).latency
        /\ g[k] = computeGEMVLatency(q, 1, hd, o).latency
    BY <2>2
  <2> HIDE DEF f, g, q, hd, n, o
  <2> QED BY <2>1, <2>2, <2>3, LatencyRises
<1>3. DOMAIN f = 1 .. Len(xs) /\ DOMAIN g = 1 .. Len(ys)
  OBVIOUS
<1> HIDE DEF f, g
<1> QED BY <1>1, <1>2, <1>3, OverRises

LEMMA ScoringRowsRise ==
  ASSUME NEW xs, NEW ys, Lengthened(xs, ys), NEW i, Dimensions(i)
  PROVE  Rises(ScoringRows(i, xs), ScoringRows(i, ys))
<1> DEFINE f == [k \in 1 .. Len(xs) |-> computeGEMVLatency(i.precision, xs[k].m, i.hd, xs[k].n).rowbuffer]
           g == [k \in 1 .. Len(ys) |-> computeGEMVLatency(i.precision, ys[k].m, i.hd, ys[k].n).rowbuffer]
<1>1. ScoringRows(i, xs) = Total(f) /\ ScoringRows(i, ys) = Total(g)
  BY DEF ScoringRows
<1>2. ASSUME NEW k \in 1 .. Len(xs) PROVE Rises(f[k], g[k])
  <2> DEFINE q == i.precision
             hd == i.hd
             n == xs[k].n
             o == ys[k].n
  <2>1. Rises(hd, hd) /\ q \in Nat /\ 1 \in Nat
    BY RisesSame DEF Dimensions
  <2>2. xs[k].m = 1 /\ ys[k].m = 1 /\ Rises(n, o) /\ k \in 1 .. Len(ys)
    BY GrownRows
  <2>3. /\ f[k] = computeGEMVLatency(q, 1, hd, n).rowbuffer
        /\ g[k] = computeGEMVLatency(q, 1, hd, o).rowbuffer
    BY <2>2
  <2> HIDE DEF f, g, q, hd, n, o
  <2> QED BY <2>1, <2>2, <2>3, LatencyRises
<1>3. DOMAIN f = 1 .. Len(xs) /\ DOMAIN g = 1 .. Len(ys)
  OBVIOUS
<1> HIDE DEF f, g
<1> QED BY <1>1, <1>2, <1>3, OverRises

LEMMA ContextLatencyRises ==
  ASSUME NEW xs, NEW ys, Lengthened(xs, ys), NEW i, Dimensions(i)
  PROVE  Rises(ContextLatency(i, xs), ContextLatency(i, ys))
<1> DEFINE f == [k \in 1 .. Len(xs) |-> computeGEMVLatency(i.precision, xs[k].m, xs[k].n, i.hd).latency]
           g == [k \in 1 .. Len(ys) |-> computeGEMVLatency(i.precision, ys[k].m, ys[k].n, i.hd).latency]
<1>1. ContextLatency(i, xs) = Total(f) /\ ContextLatency(i, ys) = Total(g)
  BY DEF ContextLatency
<1>2. ASSUME NEW k \in 1 .. Len(xs) PROVE Rises(f[k], g[k])
  <2> DEFINE q == i.precision
             hd == i.hd
             n == xs[k].n
             o == ys[k].n
  <2>1. Rises(hd, hd) /\ q \in Nat /\ 1 \in Nat
    BY RisesSame DEF Dimensions
  <2>2. xs[k].m = 1 /\ ys[k].m = 1 /\ Rises(n, o) /\ k \in 1 .. Len(ys)
    BY GrownRows
  <2>3. /\ f[k] = computeGEMVLatency(q, 1, n, hd).latency
        /\ g[k] = computeGEMVLatency(q, 1, o, hd).latency
    BY <2>2
  <2> HIDE DEF f, g, q, hd, n, o
  <2> QED BY <2>1, <2>2, <2>3, LatencyRises
<1>3. DOMAIN f = 1 .. Len(xs) /\ DOMAIN g = 1 .. Len(ys)
  OBVIOUS
<1> HIDE DEF f, g
<1> QED BY <1>1, <1>2, <1>3, OverRises

LEMMA ContextRowsRise ==
  ASSUME NEW xs, NEW ys, Lengthened(xs, ys), NEW i, Dimensions(i)
  PROVE  Rises(ContextRows(i, xs), ContextRows(i, ys))
<1> DEFINE f == [k \in 1 .. Len(xs) |-> computeGEMVLatency(i.precision, xs[k].m, xs[k].n, i.hd).rowbuffer]
           g == [k \in 1 .. Len(ys) |-> computeGEMVLatency(i.precision, ys[k].m, ys[k].n, i.hd).rowbuffer]
<1>1. ContextRows(i, xs) = Total(f) /\ ContextRows(i, ys) = Total(g)
  BY DEF ContextRows
<1>2. ASSUME NEW k \in 1 .. Len(xs) PROVE Rises(f[k], g[k])
  <2> DEFINE q == i.precision
             hd == i.hd
             n == xs[k].n
             o == ys[k].n
  <2>1. Rises(hd, hd) /\ q \in Nat /\ 1 \in Nat
    BY RisesSame DEF Dimensions
  <2>2. xs[k].m = 1 /\ ys[k].m = 1 /\ Rises(n, o) /\ k \in 1 .. Len(ys)
    BY GrownRows
  <2>3. /\ f[k] = computeGEMVLatency(q, 1, n, hd).rowbuffer
        /\ g[k] = computeGEMVLatency(q, 1, o, hd).rowbuffer
    BY <2>2
  <2> HIDE DEF f, g, q, hd, n, o
  <2> QED BY <2>1, <2>2, <2>3, LatencyRises
<1>3. DOMAIN f = 1 .. Len(xs) /\ DOMAIN g = 1 .. Len(ys)
  OBVIOUS
<1> HIDE DEF f, g
<1> QED BY <1>1, <1>2, <1>3, OverRises

LEMMA GroupProductsSlower ==
  ASSUME NEW xs, NEW ys, Lengthened(xs, ys), NEW i, Dimensions(i), i.group \in Nat,
         i.hd \in Positive, i.KVH \in Positive, i.nearbank \in BOOLEAN
  PROVE  /\ NoSlower(GenScoringPIM(i, xs), GenScoringPIM(i, ys))
         /\ NoSlower(GenContextPIM(i, xs), GenContextPIM(i, ys))
<1>1. NearBank.scoring \in BOOLEAN /\ NearBank.context \in BOOLEAN /\ 1 \in Positive /\ 2 \in Positive
  BY UnitType DEF Positive
<1>2. NoSlower(GenScoringPIM(i, xs), GenScoringPIM(i, ys))
  <2> DEFINE l == ScoringLatency(i, xs)
             m == ScoringLatency(i, ys)
             r == ScoringRows(i, xs)
             w == ScoringRows(i, ys)
             t == NearBankTime(i, xs, NearBank.scoring, l, r)
             u == NearBankTime(i, ys, NearBank.scoring, m, w)
  <2>1. Rises(l, m) /\ Rises(r, w)
    BY ScoringLatencyRises, ScoringRowsRise
  <2>2. GenScoringPIM(i, xs) = GenProductPIM(i, xs, t, 1) /\ GenScoringPIM(i, ys) = GenProductPIM(i, ys, u, 1)
    BY DEF GenScoringPIM, OverSequences, ScoringLatency, ScoringRows
  <2> HIDE DEF l, m, r, w
  <2>3. Rises(t.compute, u.compute) /\ Rises(t.memory, u.memory)
    BY <1>1, <2>1, NearBankRises
  <2> HIDE DEF t, u
  <2> QED BY <1>1, <2>2, <2>3, GroupPIMSlower
<1>3. NoSlower(GenContextPIM(i, xs), GenContextPIM(i, ys))
  <2> DEFINE l == ContextLatency(i, xs)
             m == ContextLatency(i, ys)
             r == ContextRows(i, xs)
             w == ContextRows(i, ys)
             t == NearBankTime(i, xs, NearBank.context, l, r)
             u == NearBankTime(i, ys, NearBank.context, m, w)
  <2>1. Rises(l, m) /\ Rises(r, w)
    BY ContextLatencyRises, ContextRowsRise
  <2>2. GenContextPIM(i, xs) = GenProductPIM(i, xs, t, 2) /\ GenContextPIM(i, ys) = GenProductPIM(i, ys, u, 2)
    BY DEF GenContextPIM, OverSequences, ContextLatency, ContextRows
  <2> HIDE DEF l, m, r, w
  <2>3. Rises(t.compute, u.compute) /\ Rises(t.memory, u.memory)
    BY <1>1, <2>1, NearBankRises
  <2> HIDE DEF t, u
  <2> QED BY <1>1, <2>2, <2>3, GroupPIMSlower
<1> QED BY <1>2, <1>3

LEMMA GroupGenSlower ==
  ASSUME NEW xs, NEW ys, Lengthened(xs, ys), NEW i, Dimensions(i), i.group \in Nat,
         i.hd \in Positive, i.KVH \in Positive, i.nearbank \in BOOLEAN, NEW p \in Processor
  PROVE  AllNoSlower(GenPhases("ATTENTION_GEN", p, i, xs), GenPhases("ATTENTION_GEN", p, i, ys))
<1>1. CASE p = "GPU"
  <2>1. AllNoSlower(<< GenScoringGPU(i, xs) >>, << GenScoringGPU(i, ys) >>)
    BY GroupScoringSlower, NoSlowerOne
  <2> QED BY <1>1, <2>1 DEF GenPhases, ByProcessor, AttentionGenExecutionGPU
<1>2. CASE p = "LOGIC"
  <2> DEFINE a == GenProductLogic(i, xs)
             b == GenProductLogic(i, ys)
  <2>1. NoSlower(a, b)
    BY GroupLogicSlower
  <2>2. /\ GenPhases("ATTENTION_GEN", p, i, xs) = << a, a >>
        /\ GenPhases("ATTENTION_GEN", p, i, ys) = << b, b >>
    BY <1>2 DEF GenPhases, ByProcessor, AttentionGenExecutionLogic, GenScoringLogic, GenContextLogic
  <2> HIDE DEF a, b
  <2>3. AllNoSlower(<< a >>, << b >>)
    BY <2>1, NoSlowerOne
  <2>4. AllNoSlower(<< a >> \o << a >>, << b >> \o << b >>)
    BY <2>3, NoSlowerJoin
  <2>5. << a >> \o << a >> = << a, a >> /\ << b >> \o << b >> = << b, b >>
    BY PairOf
  <2>6. AllNoSlower(<< a, a >>, << b, b >>)
    BY <2>4, <2>5, Zenon
  <2> QED BY <2>2, <2>6
<1>3. CASE p = "PIM"
  <2> DEFINE a == GenScoringPIM(i, xs)
             b == GenScoringPIM(i, ys)
             c == GenSoftmaxPIM(i, xs)
             d == GenSoftmaxPIM(i, ys)
             e == GenContextPIM(i, xs)
             f == GenContextPIM(i, ys)
  <2>1. NoSlower(a, b) /\ NoSlower(c, d) /\ NoSlower(e, f)
    BY GroupProductsSlower, GroupSoftmaxSlower
  <2>2. /\ GenPhases("ATTENTION_GEN", p, i, xs) = << a, c, e >>
        /\ GenPhases("ATTENTION_GEN", p, i, ys) = << b, d, f >>
    BY <1>3 DEF GenPhases, ByProcessor, AttentionGenExecutionPIM
  <2> HIDE DEF a, b, c, d, e, f
  <2>3. /\ AllNoSlower(<< a >>, << b >>) /\ AllNoSlower(<< c >>, << d >>)
        /\ AllNoSlower(<< e >>, << f >>)
    BY <2>1, NoSlowerOne
  <2>4. AllNoSlower(<< a >> \o << c >>, << b >> \o << d >>)
    BY <2>3, NoSlowerJoin
  <2>5. << a >> \o << c >> = << a, c >> /\ << b >> \o << d >> = << b, d >>
    BY PairOf
  <2>6. AllNoSlower(<< a, c >>, << b, d >>)
    BY <2>4, <2>5, Zenon
  <2>7. AllNoSlower(<< a, c >> \o << e >>, << b, d >> \o << f >>)
    BY <2>3, <2>6, NoSlowerJoin
  <2>8. << a, c >> \o << e >> = << a, c, e >> /\ << b, d >> \o << f >> = << b, d, f >>
    BY TripleOf
  <2>9. AllNoSlower(<< a, c, e >>, << b, d, f >>)
    BY <2>7, <2>8, Zenon
  <2> QED BY <2>2, <2>9
<1> QED BY <1>1, <1>2, <1>3 DEF Processor

---------------------------------------------------------------------------
(* A batch with a token less of context keeps its decode steps.            *)

Earlier(s) == IF s.n > 1 THEN [s EXCEPT !.n = @ - 1] ELSE s

LEMMA EarlierIs ==
  ASSUME NEW s \in RequestType
  PROVE  /\ Earlier(s) \in RequestType /\ Earlier(s).sum = s.sum /\ Earlier(s).m = s.m
         /\ Earlier(s).n <= s.n /\ (s.n >= 1 => Earlier(s).n >= 1)
BY DEF Earlier, RequestType

\* One after the other, as the lists are made.
Follow(xs, ys) == Len(xs) = Len(ys) /\ \A k \in 1 .. Len(ys) : xs[k] = Earlier(ys[k])

LEMMA FollowAppend ==
  ASSUME NEW xs \in Seq(RequestType), NEW ys \in Seq(RequestType), Follow(xs, ys), NEW s \in RequestType
  PROVE  Follow(Append(xs, Earlier(s)), Append(ys, s))
<1> DEFINE e == Earlier(s)
           v == Append(xs, e)
           w == Append(ys, s)
           n == Len(ys)
<1>1. e \in RequestType /\ n \in Nat /\ Len(xs) = n
  BY EarlierIs DEF Follow
<1>2. /\ Len(v) = n + 1 /\ Len(w) = n + 1
      /\ \A k \in 1 .. n : v[k] = xs[k] /\ w[k] = ys[k]
      /\ v[n + 1] = e /\ w[n + 1] = s
  <2> HIDE DEF e
  <2> QED BY <1>1
<1>3. \A k \in 1 .. n : xs[k] = Earlier(ys[k])
  BY DEF Follow
<1> HIDE DEF v, w, n
<1>4. \A k \in 1 .. n + 1 : v[k] = Earlier(w[k])
  <2>1. ASSUME NEW k \in 1 .. n + 1 PROVE v[k] = Earlier(w[k])
    <3>1. CASE k \in 1 .. n
      BY <1>2, <1>3, <3>1
    <3>2. CASE k = n + 1
      BY <1>2, <3>2
    <3> QED BY <1>1, <3>1, <3>2
  <2> QED BY <2>1
<1>5. Follow(v, w)
  BY <1>2, <1>4 DEF Follow
<1> QED BY <1>5 DEF v, w

LEMMA ShorterChosen ==
  ASSUME NEW batch \in Seq(RequestType)
  PROVE  Follow(get_gen(Shorter(batch)), get_gen(batch))
<1> DEFINE short == Shorter(batch)
           n == Len(batch)
           S == { s \in Range(batch) : ~s.sum }
           T == { s \in Range(short) : ~s.sum }
<1>1. n \in Nat /\ DOMAIN batch = 1 .. n /\ \A k \in 1 .. n : batch[k] \in RequestType
  BY SeqDomain
<1>2. short = [k \in 1 .. n |-> Earlier(batch[k])]
  BY <1>1 DEF Shorter, Earlier
<1>3. /\ short \in Seq(RequestType) /\ Len(short) = n
      /\ \A k \in 1 .. n : short[k] = Earlier(batch[k])
  <2>1. \A k \in 1 .. n : Earlier(batch[k]) \in RequestType
    BY <1>1, EarlierIs
  <2>2. short \in [1 .. n -> RequestType]
    BY <1>2, <2>1
  <2> HIDE DEF short, n
  <2> QED BY <1>1, <1>2, <2>2, SequenceOfFunction
<1> HIDE DEF short, n
<1>4. \A k \in 1 .. n : batch[k] \in S <=> short[k] \in T
  <2>1. ASSUME NEW k \in 1 .. n PROVE batch[k] \in S <=> short[k] \in T
    <3>1. batch[k] \in Range(batch)
      BY <1>1 DEF Range
    <3>2. DOMAIN short = 1 .. n
      BY <1>2
    <3>3. short[k] \in Range(short)
      BY <3>2 DEF Range
    <3>4. short[k].sum = batch[k].sum
      BY <1>1, <1>3, EarlierIs
    <3> QED BY <3>1, <3>3, <3>4
  <2> QED BY <2>1
<1>5. get_gen(batch) = Among(batch, S) /\ get_gen(short) = Among(short, T)
  BY DEF get_gen
<1> HIDE DEF S, T
<1>6. PICK h : Keeps(h, RequestType, batch, S) /\ Among(batch, S) = h[n]
  BY AmongIs DEF n
<1>7. PICK g : Keeps(g, RequestType, short, T) /\ Among(short, T) = g[n]
  BY <1>3, AmongIs
<1> DEFINE Good == { j \in 0 .. n : Follow(g[j], h[j]) }
<1>8. 0 \in Good
  <2>1. g[0] = << >> /\ h[0] = << >>
    BY <1>6, <1>7 DEF Keeps
  <2> QED BY <1>1, <2>1 DEF Follow
<1>9. ASSUME NEW j \in 0 .. n - 1, j \in Good PROVE j + 1 \in Good
  <2>1. j + 1 \in 1 .. n /\ (j + 1) - 1 = j /\ j \in 0 .. n /\ j + 1 \in 0 .. n /\ Follow(g[j], h[j])
    BY <1>1, <1>9
  <2>2. h[j] \in Seq(RequestType) /\ g[j] \in Seq(RequestType)
    BY <1>3, <1>6, <1>7, <2>1 DEF Keeps, n
  <2>3. /\ h[j + 1] = IF batch[j + 1] \in S THEN Append(h[j], batch[j + 1]) ELSE h[j]
        /\ g[j + 1] = IF short[j + 1] \in T THEN Append(g[j], short[j + 1]) ELSE g[j]
    BY <1>3, <1>6, <1>7, <2>1 DEF Keeps, n
  <2>4. short[j + 1] = Earlier(batch[j + 1]) /\ batch[j + 1] \in RequestType
    BY <1>1, <1>3, <2>1
  <2>5. CASE batch[j + 1] \in S
    <3>1. /\ h[j + 1] = Append(h[j], batch[j + 1])
          /\ g[j + 1] = Append(g[j], Earlier(batch[j + 1]))
      BY <1>4, <2>1, <2>3, <2>4, <2>5
    <3>2. Follow(Append(g[j], Earlier(batch[j + 1])), Append(h[j], batch[j + 1]))
      BY <2>1, <2>2, <2>4, FollowAppend
    <3> QED BY <2>1, <3>1, <3>2
  <2>6. CASE batch[j + 1] \notin S
    <3>1. h[j + 1] = h[j] /\ g[j + 1] = g[j]
      BY <1>4, <2>1, <2>3, <2>6
    <3> QED BY <2>1, <3>1
  <2> QED BY <2>5, <2>6
<1> HIDE DEF Good
<1>10. \A j \in 0 .. n : j \in Good
  BY <1>1, <1>8, <1>9, BoundedInduction
<1>11. Follow(g[n], h[n])
  BY <1>1, <1>10 DEF Good
<1> QED BY <1>5, <1>6, <1>7, <1>11 DEF short

LEMMA ShorterGrown ==
  ASSUME NEW c, NEW w, WorkType(c, w), w.batch \in Seq(Spans)
  PROVE  LET xs == get_gen(Shorter(w.batch))
             ys == get_gen(w.batch)
         IN Tokens(xs) = Tokens(ys) /\ (Tokens(ys) # 0 => Lengthened(xs, ys))
<1> DEFINE xs == get_gen(Shorter(w.batch))
           ys == get_gen(w.batch)
<1>1. w.batch \in Seq(RequestType)
  BY DEF WorkType
<1>2. Follow(xs, ys)
  BY <1>1, ShorterChosen
<1>3. ys \in Seq(Spans)
  BY ChosenType
<1>4. Tokens(ys) # 0 => Decodes(ys)
  BY DecodesOne
<1>5. Spans \subseteq RequestType /\ \A s \in Spans : s.m <= s.n /\ s.m \in Nat /\ s.n \in Nat
  BY DEF Spans, RequestType
<1>6. xs \in Seq(RequestType)
  <2>1. Shorter(w.batch) \in Seq(RequestType)
    <3>1. /\ w.batch = [k \in 1 .. Len(w.batch) |-> w.batch[k]]
          /\ Len(w.batch) \in Nat /\ \A k \in 1 .. Len(w.batch) : w.batch[k] \in RequestType
      BY <1>1, SeqDomain
    <3>2. Shorter(w.batch) = [k \in 1 .. Len(w.batch) |-> Earlier(w.batch[k])]
      BY <3>1 DEF Shorter, Earlier
    <3>3. Shorter(w.batch) \in [1 .. Len(w.batch) -> RequestType]
      BY <3>1, <3>2, EarlierIs
    <3> QED BY <3>1, <3>2, <3>3, SequenceOfFunction
  <2> DEFINE short == Shorter(w.batch)
             T == { s \in Range(short) : ~s.sum }
  <2>2. xs = Among(short, T)
    BY DEF get_gen
  <2> HIDE DEF T, short, xs
  <2> QED BY <2>1, <2>2, AmongType DEF short
<1> HIDE DEF xs, ys
<1>7. Len(xs) = Len(ys) /\ Len(ys) \in Nat
      /\ \A k \in 1 .. Len(ys) : xs[k] = Earlier(ys[k]) /\ ys[k] \in Spans /\ ys[k] \in RequestType
  BY <1>2, <1>3, <1>5, SeqDomain DEF Follow
<1>8. \A k \in 1 .. Len(ys) : /\ xs[k] \in RequestType /\ xs[k].m = ys[k].m /\ xs[k].n <= ys[k].n
                              /\ ys[k].n >= 1 => xs[k].n >= 1
  BY <1>7, EarlierIs
<1>9. Tokens(xs) = Tokens(ys)
  <2> DEFINE f == [k \in 1 .. Len(xs) |-> xs[k].m]
             g == [k \in 1 .. Len(ys) |-> ys[k].m]
  <2>1. Tokens(xs) = Total(f) /\ Tokens(ys) = Total(g)
    BY DEF Tokens, OverSequences
  <2>2. f = g
    BY <1>7, <1>8
  <2> HIDE DEF f, g
  <2> QED BY <2>1, <2>2
<1>10. ASSUME Tokens(ys) # 0 PROVE Lengthened(xs, ys)
  <2>1. Decodes(ys) /\ \A k \in 1 .. Len(ys) : ys[k].m = 1
    BY <1>4, <1>10 DEF Decodes
  <2>2. ASSUME NEW k \in 1 .. Len(xs)
        PROVE  xs[k].m = 1 /\ xs[k] \in Spans /\ xs[k].n <= ys[k].n
    <3>1. ys[k].m = 1 /\ ys[k] \in Spans /\ xs[k].m = 1 /\ xs[k] \in RequestType /\ xs[k].n <= ys[k].n
      BY <1>7, <1>8, <2>1, <2>2
    <3>2. ys[k].n >= 1
      BY <1>5, <3>1
    <3>3. xs[k].n >= 1
      BY <1>7, <1>8, <2>2, <3>2
    <3> QED BY <3>1, <3>3 DEF Spans
  <2>3. xs \in Seq(Spans)
    <3>1. xs = [k \in 1 .. Len(xs) |-> xs[k]] /\ Len(xs) \in Nat
      BY <1>6, SeqDomain
    <3>2. xs \in [1 .. Len(xs) -> Spans]
      BY <2>2, <3>1
    <3> QED BY <3>1, <3>2, SequenceOfFunction
  <2>4. Len(xs) # 0
    <3> SUFFICES ASSUME Len(ys) = 0 PROVE FALSE
      BY <1>7
    <3> DEFINE g == [k \in 1 .. Len(ys) |-> ys[k].m]
    <3>1. Tokens(ys) = Total(g)
      BY DEF Tokens, OverSequences
    <3>2. Numbers(g, 0) /\ \A k \in 1 .. 0 : g[k] = 0
      BY DEF Numbers
    <3> HIDE DEF g
    <3>3. Total(g) = 0
      BY <3>2, TotalZero
    <3> QED BY <1>10, <3>1, <3>3
  <2>5. Decodes(xs)
    BY <2>2, <2>3 DEF Decodes
  <2> QED BY <1>7, <2>1, <2>2, <2>4, <2>5 DEF Lengthened
<1> QED BY <1>9, <1>10 DEF xs, ys

LEMMA GenSlower ==
  ASSUME NEW call, call.layer \in DecodeLayers, NEW i, AttentionInfo(call.layer, i),
         i.hd \in Positive, i.KVH \in Positive, i.nearbank \in BOOLEAN,
         NEW p \in Processor, NEW c, NEW w, WorkType(c, w), w.batch \in Seq(Spans)
  PROVE  AllNoSlower(ExecutionPhases(call, p, i, Shorter(w.batch)), ExecutionPhases(call, p, i, w.batch))
<1> DEFINE xs == get_gen(Shorter(w.batch))
           ys == get_gen(w.batch)
           l == call.layer
<1>1. Tokens(xs) = Tokens(ys) /\ (Tokens(ys) # 0 => Lengthened(xs, ys))
  BY ShorterGrown
<1>2. l \notin SumLayer /\ l \in GenLayer
  BY DEF DecodeLayers, SumLayer, GenLayer
<1>3. /\ ExecutionPhases(call, p, i, Shorter(w.batch))
           = IF Tokens(xs) = 0 THEN << >> ELSE GenPhases(l, p, i, xs)
      /\ ExecutionPhases(call, p, i, w.batch)
           = IF Tokens(ys) = 0 THEN << >> ELSE GenPhases(l, p, i, ys)
  BY <1>2 DEF ExecutionPhases
<1>4. /\ Dimensions(i) /\ (l = "ATTENTION_GEN" => i.group \in Nat)
      /\ (l = "ABSORBED_MLA_GEN" => i.rank \in Nat)
  BY DEF AttentionInfo
<1>5. l \in {"ATTENTION_GEN", "MLA_GEN", "ABSORBED_MLA_GEN"}
  BY DEF DecodeLayers
<1> HIDE DEF xs, ys, l
<1>6. Tokens(ys) # 0 => AllNoSlower(GenPhases(l, p, i, xs), GenPhases(l, p, i, ys))
  <2> SUFFICES ASSUME Tokens(ys) # 0 PROVE AllNoSlower(GenPhases(l, p, i, xs), GenPhases(l, p, i, ys))
    OBVIOUS
  <2>1. Lengthened(xs, ys)
    BY <1>1
  <2>2. CASE l = "ATTENTION_GEN"
    <3>1. i.group \in Nat
      BY <1>4, <2>2
    <3>2. AllNoSlower(GenPhases("ATTENTION_GEN", p, i, xs), GenPhases("ATTENTION_GEN", p, i, ys))
      BY <1>4, <2>1, <3>1, GroupGenSlower
    <3> QED BY <2>2, <3>2
  <2>3. CASE l = "MLA_GEN"
    <3>1. AllNoSlower(GenPhases("MLA_GEN", p, i, xs), GenPhases("MLA_GEN", p, i, ys))
      BY <1>4, <2>1, LatentGenSlower
    <3> QED BY <2>3, <3>1
  <2>4. CASE l = "ABSORBED_MLA_GEN"
    <3>1. i.rank \in Nat
      BY <1>4, <2>4
    <3>2. AllNoSlower(GenPhases("ABSORBED_MLA_GEN", p, i, xs), GenPhases("ABSORBED_MLA_GEN", p, i, ys))
      BY <1>4, <2>1, <3>1, AbsorbedGenSlower
    <3> QED BY <2>4, <3>2
  <2> QED BY <1>5, <2>2, <2>3, <2>4
<1> QED BY <1>1, <1>3, <1>6, NoSlowerNone

LEMMA LongerStep ==
  ASSUME PlaceInv
  PROVE  LongerIsSlower
<1> SUFFICES ASSUME trial.step = "try", CallOf(turn).layer \in DecodeLayers, NEW p \in Processor
             PROVE  RunIdeal(Phases(CallOf(turn), p, CallOf(turn).info, Shorter(work[turn].batch)))
                      <= RunIdeal(Phases(CallOf(turn), p, CallOf(turn).info, work[turn].batch))
  BY DEF LongerIsSlower
<1> DEFINE a == CallOf(turn)
           i == a.info
           w == work[turn]
<1>1. PICK b : Pair(system, a, b)
  BY TriedPair
<1>2. /\ turn \in Devices /\ w.batch \in Seq(Spans) /\ SystemType(system) /\ HasRoom(system)
      /\ WorkType(system, w)
  BY TriedPair, GraphsOf
<1>3. /\ Phases(a, p, i, w.batch) = ExecutionPhases(a, p, i, w.batch)
      /\ Phases(a, p, i, Shorter(w.batch)) = ExecutionPhases(a, p, i, Shorter(w.batch))
  BY TriedPhases DEF Infos
<1>4. a.layer \in AttentionLayers
  BY DEF AttentionLayers, DecodeLayers
<1>5. AttentionInfo(a.layer, i)
  BY <1>1, <1>2, <1>4, PairAttends
<1>6. i.KVH \in Positive
  <2>1. Attends(system, a, b)
    BY <1>1, <1>4 DEF Pair, Computes, AttentionLayers, DecodeLayers
  <2> QED BY <2>1 DEF Attends
<1>7. i.hd \in Positive /\ i.nearbank \in BOOLEAN
  BY <1>1, <1>2, PairFields
<1>8. a.layer \in DecodeLayers
  OBVIOUS
<1> HIDE DEF a, i, w
<1>9. AllNoSlower(ExecutionPhases(a, p, i, Shorter(w.batch)), ExecutionPhases(a, p, i, w.batch))
  BY <1>2, <1>5, <1>6, <1>7, <1>8, GenSlower
<1> QED BY <1>3, <1>9, RunNoSlower DEF a, i, w

\* A decode step whose contexts are a token longer takes no less time on any
\* processor, also where a row buffer of the near-bank unit fills up, whatever
\* the model, the batch and the shares.
THEOREM LongerIsSlowerHolds == Spec => []LongerIsSlower
<1>1. Init => PlaceInv
  BY PlaceInit
<1>2. PlaceInv /\ [Next]_vars => PlaceInv'
  BY PlaceStep
<1>3. PlaceInv => LongerIsSlower
  BY LongerStep
<1> QED BY <1>1, <1>2, <1>3, PTL DEF Spec
---------------------------------------------------------------------------
(* Work that takes no time on one processor takes none on another.         *)

\* In both memory models, and whatever the others take.
TakesTime(phase) ==
  /\ phase.opb = << >>
  /\ \/ phase.compute # 0
     \/ phase.memory # 0 /\ (phase.charged # << >> => phase.ram[phase.charged[1]].size # 0)
Worked(ps) == \E n : Phased(ps, n) /\ \E k \in 1 .. n : TakesTime(ps[k])

LEMMA PhasedLength ==
  ASSUME NEW ps, NEW n, Phased(ps, n)
  PROVE  n \in Nat /\ DOMAIN ps = 1 .. n /\ Len(ps) = n
BY DEF Phased

\* More phases take no less time.
LEMMA WorkedJoin ==
  ASSUME NEW ps, Worked(ps), NEW qs, NEW m, Phased(qs, m)
  PROVE  Worked(ps \o qs)
<1>1. PICK n : Phased(ps, n) /\ \E k \in 1 .. n : TakesTime(ps[k])
  BY DEF Worked
<1>2. PICK k \in 1 .. n : TakesTime(ps[k])
  BY <1>1
<1>3. Phased(ps \o qs, n + m) /\ Joining(ps \o qs, ps, n, qs, m)
  BY <1>1, PhasedJoin
<1>4. n \in Nat /\ m \in Nat
  BY <1>1 DEF Phased
<1>5. (ps \o qs)[k] = ps[k] /\ k \in 1 .. n + m
  BY <1>3, <1>4 DEF Joining
<1>6. TakesTime((ps \o qs)[k])
  BY <1>2, <1>5
<1> QED
  BY <1>3, <1>5, <1>6 DEF Worked

LEMMA WorkedOne ==
  ASSUME NEW phase, TakesTime(phase)
  PROVE  Worked(<< phase >>)
<1>1. Phased(<< phase >>, 1)
  BY DEF Phased
<1>2. << phase >>[1] = phase /\ 1 \in 1 .. 1
  OBVIOUS
<1> HIDE DEF TakesTime
<1>3. TakesTime(<< phase >>[1])
  BY <1>2
<1> QED
  BY <1>1, <1>2, <1>3 DEF Worked

LEMMA WorkedEach ==
  ASSUME NEW n \in Nat, NEW ps, ps = [k \in 1 .. n |-> ps[k]], NEW k \in 1 .. n, TakesTime(ps[k])
  PROVE  Worked(ps)
BY DEF Worked, Phased

\* Two operations or more take time: a unit is at most halved.
LEMMA ComputeTakes ==
  ASSUME NEW p \in Processor, NEW q, NEW f \in Nat, f >= 2
  PROVE  ComputeTime(p, q, f) # 0
<1> DEFINE u == FlopTime[p]
<1>1. u \in Positive
  BY TimesType
<1> HIDE DEF u
<1>2. f * u >= 2 /\ f * u \in Nat
  BY <1>1 DEF Positive
<1> DEFINE x == f * u
<1>3. x >= 2 /\ x \in Nat
  BY <1>2
<1> HIDE DEF x
<1>4. x \div 2 # 0 /\ x \div 1 # 0
  BY <1>3
<1>5. ComputeTime(p, q, f) = x \div (IF p # "GPU" /\ q = 1 THEN 2 ELSE 1)
  BY DEF ComputeTime, x, u
<1> QED
  BY <1>4, <1>5

LEMMA CostsTakes ==
  ASSUME NEW p \in Processor, NEW q, NEW f \in Nat, f >= 2, NEW bytes, NEW phase,
         Costs(phase, p, q, f, bytes)
  PROVE  TakesTime(phase)
BY ComputeTakes DEF Costs, TakesTime

LEMMA PhaseTakes ==
  ASSUME NEW i, NEW p \in Processor, NEW f \in Nat, f >= 2, NEW bytes, NEW moves
  PROVE  TakesTime(Phase(i, p, f, bytes, moves))
BY PhaseCosts, CostsTakes

Held(layer, precision, phase, cache) ==
  \A j \in 1 .. Len(phase.ram) : KeyOf(layer, precision, phase.ram[j]) \in DOMAIN cache

\* A transfer that is charged takes time, if it moves something.
LEMMA ChargedTakes ==
  ASSUME RamulatorTakesTime, NEW phase, OnePhase(phase), NEW cache, CacheType(cache),
         NEW layer, NEW precision \in Positive, Held(layer, precision, phase, cache),
         phase.charged # << >>
  PROVE  LET f == [k \in DOMAIN phase.charged |->
                     cache[KeyOf(layer, precision, phase.ram[phase.charged[k]])]]
         IN /\ Numbers(f, Len(phase.charged))
            /\ phase.ram[phase.charged[1]].size # 0 => Total(f) # 0
<1> DEFINE f == [k \in DOMAIN phase.charged |->
                   cache[KeyOf(layer, precision, phase.ram[phase.charged[k]])]]
           n == Len(phase.charged)
<1>1. /\ phase.charged \in Seq(Nat) /\ phase.ram \in Seq(Move)
      /\ \A j \in DOMAIN phase.charged : phase.charged[j] \in DOMAIN phase.ram
  BY DEF OnePhase, PhaseType
<1>2. n \in Nat /\ DOMAIN phase.charged = 1 .. n /\ n # 0 /\ DOMAIN phase.ram = 1 .. Len(phase.ram)
  BY <1>1
<1>3. ASSUME NEW k \in 1 .. n
      PROVE  KeyOf(layer, precision, phase.ram[phase.charged[k]]) \in DOMAIN cache
  BY <1>1, <1>2 DEF Held
<1>4. cache \in [DOMAIN cache -> Nat] /\ Timed(cache)
  BY DEF CacheType
<1>5. Numbers(f, n)
  BY <1>2, <1>3, <1>4 DEF Numbers
<1>6. ASSUME phase.ram[phase.charged[1]].size # 0
      PROVE  Total(f) # 0
  <2> DEFINE move == phase.ram[phase.charged[1]]
             key == KeyOf(layer, precision, move)
  <2>7. 1 \in 1 .. n /\ 1 \in DOMAIN phase.charged
    BY <1>2
  <2>8. phase.charged[1] \in 1 .. Len(phase.ram)
    BY <1>1, <1>2, <2>7
  <2>1. move \in Move /\ move.size \in Nat
    <3> DEFINE r == phase.ram
               j == phase.charged[1]
    <3>1. r \in Seq(Move) /\ j \in 1 .. Len(r)
      BY <1>1, <2>8
    <3> HIDE DEF r, j
    <3>2. r[j] \in Move
      BY <3>1
    <3> QED
      BY <3>2 DEF Move, r, j
  <2>2. move.size * precision # 0
    BY <2>1, <1>6 DEF Positive
  <2>3. key[4] = move.size * precision
    BY DEF KeyOf, CacheKey
  <2>4. key \in DOMAIN cache
    BY <1>2, <1>3
  <2> HIDE DEF key, move
  <2>5. cache[key] # 0
    BY <1>4, <2>2, <2>3, <2>4 DEF Timed
  <2>6. f[1] = cache[key]
    BY <2>7 DEF key, move
  <2>9. f[1] \in Nat
    BY <1>5, <2>7 DEF Numbers
  <2>10. f[1] <= Total(f) /\ Total(f) \in Nat
    <3> HIDE DEF f
    <3> QED
      BY <1>5, <2>7, TotalZero, TotalSum
  <2> HIDE DEF f
  <2> QED
    BY <2>5, <2>6, <2>9, <2>10
<1> QED
  BY <1>5, <1>6

LEMMA CostTakes ==
  ASSUME RamulatorTakesTime, NEW phase, OnePhase(phase), NEW cache, CacheType(cache),
         NEW layer, NEW precision \in Positive, Held(layer, precision, phase, cache)
  PROVE  /\ CachedCost(layer, precision, phase, cache) \in Nat /\ Time(phase) \in Nat
         /\ TakesTime(phase) =>
              CachedCost(layer, precision, phase, cache) # 0 /\ Time(phase) # 0
<1> DEFINE f == [k \in DOMAIN phase.charged |->
                   cache[KeyOf(layer, precision, phase.ram[phase.charged[k]])]]
           t == IF phase.charged = << >> THEN phase.memory ELSE Total(f)
<1>1. phase.compute \in Nat /\ phase.memory \in Nat
  BY DEF OnePhase, PhaseType
<1>2. phase.charged # << >> =>
        Total(f) \in Nat /\ (phase.ram[phase.charged[1]].size # 0 => Total(f) # 0)
  <2> SUFFICES ASSUME phase.charged # << >>
               PROVE  Total(f) \in Nat /\ (phase.ram[phase.charged[1]].size # 0 => Total(f) # 0)
    OBVIOUS
  <2>1. Numbers(f, Len(phase.charged)) /\ (phase.ram[phase.charged[1]].size # 0 => Total(f) # 0)
    BY ChargedTakes
  <2> HIDE DEF f
  <2> QED
    BY <2>1, TotalSum
<1>3. CachedCost(layer, precision, phase, cache) = PhaseTime(phase, t)
  BY DEF CachedCost
<1> HIDE DEF f
<1>4. t \in Nat
  BY <1>1, <1>2
<1>5. PhaseTime(phase, t) \in Nat /\ PhaseTime(phase, phase.memory) \in Nat
  BY <1>1, <1>4, PhaseTimeType
<1>6. ASSUME TakesTime(phase)
      PROVE  PhaseTime(phase, t) # 0 /\ PhaseTime(phase, phase.memory) # 0
  <2>1. /\ phase.opb = << >>
        /\ phase.compute # 0 \/ (phase.memory # 0 /\ t # 0)
    BY <1>2, <1>6 DEF TakesTime
  <2> HIDE DEF t
  <2> QED
    BY <1>1, <1>4, <2>1 DEF PhaseTime, Larger
<1> QED
  BY <1>3, <1>5, <1>6 DEF Time

\* The simulated time and the ideal one: none of both, when there is nothing to do,
\* and some of both, when a phase takes time.
LEMMA WorkedTakes ==
  ASSUME RamulatorTakesTime, NEW phases, Countable(phases), Worked(phases), NEW cache,
         CacheType(cache), NEW layer, NEW precision \in Positive,
         InCache(layer, precision, phases, cache)
  PROVE  CachedTotal(layer, precision, phases, cache) # 0
<1>1. PICK n : Phased(phases, n) /\ \E k \in 1 .. n : TakesTime(phases[k])
  BY DEF Worked
<1>2. PICK k \in 1 .. n : TakesTime(phases[k])
  BY <1>1
<1>3. n \in Nat /\ Len(phases) = n
  BY <1>1, PhasedLength
<1> DEFINE f == [j \in 1 .. Len(phases) |-> CachedCost(layer, precision, phases[j], cache)]
<1>4. ASSUME NEW j \in 1 .. n
      PROVE  /\ CachedCost(layer, precision, phases[j], cache) \in Nat
             /\ TakesTime(phases[j]) => CachedCost(layer, precision, phases[j], cache) # 0
  <2>1. OnePhase(phases[j])
    BY <1>3, PhaseOf
  <2>2. Held(layer, precision, phases[j], cache)
    BY <1>3 DEF Held, InCache
  <2> QED
    BY <2>1, <2>2, CostTakes
<1>5. Numbers(f, n) /\ f[k] # 0
  BY <1>2, <1>3, <1>4 DEF Numbers
<1> HIDE DEF f
<1>6. f[k] <= Total(f) /\ Total(f) \in Nat /\ f[k] \in Nat
  BY <1>5, TotalZero, TotalSum DEF Numbers
<1>7. Total(f) # 0
  BY <1>5, <1>6
<1> QED
  BY <1>7 DEF CachedTotal, f

LEMMA WorkedRuns ==
  ASSUME NEW phases, Countable(phases), Worked(phases)
  PROVE  RunIdeal(phases) # 0
<1>1. PICK n : Phased(phases, n) /\ \E k \in 1 .. n : TakesTime(phases[k])
  BY DEF Worked
<1>2. PICK k \in 1 .. n : TakesTime(phases[k])
  BY <1>1
<1>3. n \in Nat /\ Len(phases) = n
  BY <1>1, PhasedLength
<1> DEFINE f == [j \in 1 .. Len(phases) |-> PhaseTime(phases[j], phases[j].memory)]
<1>4. ASSUME NEW j \in 1 .. n
      PROVE  /\ PhaseTime(phases[j], phases[j].memory) \in Nat
             /\ phases[j].compute \in Nat /\ phases[j].memory \in Nat
  BY <1>3, PhaseOf, PhaseTimeType
<1>5. PhaseTime(phases[k], phases[k].memory) # 0
  BY <1>2, <1>4 DEF TakesTime, PhaseTime, Larger
<1>6. Numbers(f, n) /\ f[k] # 0
  BY <1>3, <1>4, <1>5 DEF Numbers
<1> HIDE DEF f
<1>7. f[k] <= Total(f) /\ Total(f) \in Nat /\ f[k] \in Nat
  BY <1>6, TotalZero, TotalSum DEF Numbers
<1>8. Total(f) # 0
  BY <1>6, <1>7
<1> QED
  BY <1>8 DEF RunIdeal, f

LEMMA NoneTakes ==
  ASSUME NEW layer, NEW precision, NEW cache
  PROVE  RunIdeal(<< >>) = 0 /\ CachedTotal(layer, precision, << >>, cache) = 0
<1> DEFINE f == [j \in 1 .. Len(<< >>) |-> PhaseTime(<< >>[j], << >>[j].memory)]
           g == [j \in 1 .. Len(<< >>) |-> CachedCost(layer, precision, << >>[j], cache)]
<1>1. DOMAIN f = {} /\ DOMAIN g = {}
  OBVIOUS
<1>2. RunIdeal(<< >>) = Total(f) /\ CachedTotal(layer, precision, << >>, cache) = Total(g)
  BY DEF RunIdeal, CachedTotal
<1> HIDE DEF f, g
<1> QED
  BY <1>1, <1>2, TotalEmpty

\* There is nothing to process: no tokens of the kind, or an empty input.
NothingToDo(call, batch) ==
  IF call.layer \in AttentionLayers THEN Tokens(Chosen(call.layer, batch)) = 0
  ELSE Size(call.in.shape) = 0
WhenNeeded(call, p, i, batch) ==
  IF NothingToDo(call, batch) THEN ExecutionPhases(call, p, i, batch) = << >>
  ELSE Worked(ExecutionPhases(call, p, i, batch))

LEMMA Twice ==
  ASSUME NEW a \in Positive, NEW b \in Positive, NEW c \in Positive, NEW d \in Positive
  PROVE  /\ a * b \in Positive /\ a * b * c \in Positive
         /\ 2 * a * b * c \in Nat /\ 2 * a * b * c >= 2
         /\ 2 * a * b * c * d \in Nat /\ 2 * a * b * c * d >= 2
<1>1. a * b \in Positive /\ (a * b) * c \in Positive
  <2>1. a * b \in Positive
    BY ProductType DEF Positive
  <2> DEFINE x == a * b
  <2> HIDE DEF x
  <2>2. x * c \in Positive
    BY <2>1, ProductType DEF Positive, x
  <2> QED
    BY <2>1, <2>2 DEF x
<1> DEFINE y == a * b * c
<1>2. y \in Positive
  BY <1>1
<1>3. 2 * a * b * c = 2 * y
  BY DEF Positive
<1> HIDE DEF y
<1>4. y * d \in Positive
  BY <1>2, ProductType DEF Positive
<1>5. (2 * y) * d = 2 * (y * d)
  BY <1>2 DEF Positive
<1>6. 2 * a * b * c * d = (2 * a * b * c) * d
  OBVIOUS
<1> DEFINE z == y * d
<1>7. z \in Positive
  BY <1>4
<1> HIDE DEF z
<1>8. 2 * z >= 2 /\ 2 * y >= 2 /\ 2 * z \in Nat /\ 2 * y \in Nat
  BY <1>2, <1>7 DEF Positive
<1>9. 2 * a * b * c * d = 2 * z
  BY <1>3, <1>5, <1>6 DEF z
<1> QED
  BY <1>1, <1>3, <1>8, <1>9

LEMMA LinearWhenNeeded ==
  ASSUME NEW call, call.layer = "LINEAR", NEW m \in Nat, NEW k \in Positive, NEW n \in Positive,
         call.in.shape = << m, k >>, call.w = << k, n >>, NEW i, NEW batch, NEW p \in Processor
  PROVE  WhenNeeded(call, p, i, batch)
<1> DEFINE phase == LinearPhase(i, p, << m, k >>, << k, n >>)
           bytes == i.precision * (m * k + k * n + m * n)
<1>1. ExecutionPhases(call, p, i, batch) = UnlessEmpty(<< m, k >>, phase)
  BY DEF ExecutionPhases, SumLayer, GenLayer, LayerPhases, ByProcessor, Processor,
         LinearExecutionGPU, LinearExecutionLogic, LinearExecutionPIM
<1>2. Costs(phase, p, i.precision, 2 * m * k * n, bytes)
  BY DEF LinearPhase, NearWeight, Product, Phase, Costs
<1>3. NothingToDo(call, batch) <=> m = 0
  <2>1. Size(<< m, k >>) = m * k
    BY MatrixSize DEF Positive
  <2>2. m * k = 0 <=> m = 0
    BY ProductType DEF Positive
  <2> QED
    BY <2>1, <2>2 DEF NothingToDo, AttentionLayers, DecodeLayers
<1> HIDE DEF phase, bytes
<1>4. ASSUME m # 0
      PROVE  Worked(<< phase >>)
  <2>1. 2 * m * k * n \in Nat /\ 2 * m * k * n >= 2
    BY <1>4, Twice DEF Positive
  <2> DEFINE f == 2 * m * k * n
  <2> HIDE DEF f
  <2>2. TakesTime(phase)
    BY <1>2, <2>1, CostsTakes DEF f
  <2> QED
    BY <2>2, WorkedOne
<1> QED
  BY <1>1, <1>3, <1>4, MatrixEmpty DEF WhenNeeded

LEMMA BatchedWhenNeeded ==
  ASSUME NEW call, call.layer = "BATCHED_LINEAR", NEW m \in Nat, NEW h \in Positive,
         NEW k \in Positive, NEW n \in Positive,
         call.in.shape = << h, m, k >>, call.w = << h, k, n >>, NEW i, NEW batch,
         NEW p \in Processor
  PROVE  WhenNeeded(call, p, i, batch)
<1> DEFINE f == IF p = "GPU" THEN 2 * m * k * n * h ELSE 2 * h * m * k
<1>1. \E phase, bytes : /\ Costs(phase, p, i.precision, f, bytes)
                        /\ ExecutionPhases(call, p, i, batch) = UnlessEmpty(<< h, m, k >>, phase)
  <2>1. CASE p = "GPU"
    <3> DEFINE input == IF i.duplicated_input THEN m * k ELSE m * k * h
               moves(size) == << Read("GPU", size), Read("GPU", k * n * h),
                                 Write("GPU", m * n * h) >>
               bytes == i.precision * (input + k * n * h + m * n * h)
               ideal == moves(Size(<< h, m, k >>))
               g == 2 * m * k * n * h
               phase == [Phase(i, "GPU", g, bytes, moves(input)) EXCEPT !.ideal = ideal]
    <3>1. ExecutionPhases(call, p, i, batch) = UnlessEmpty(<< h, m, k >>, phase)
      BY <2>1 DEF ExecutionPhases, SumLayer, GenLayer, LayerPhases, ByProcessor,
                  BatchedLinearExecutionGPU
    <3>2. Costs(phase, "GPU", i.precision, g, bytes)
      <4> HIDE DEF g, bytes, ideal, moves, input
      <4> QED BY DEF Phase, Costs
    <3> HIDE DEF phase
    <3> QED BY <2>1, <3>1, <3>2
  <2>2. CASE p # "GPU"
    <3> DEFINE act == FromHost(Size(<< h, m, k >>), h * m * n)
               bytes == i.precision * (h * m + m * k + h * k)
               phase == NearWeight(i, p, h, m, k, Size(<< h, k, n >>), act)
    <3>1. ExecutionPhases(call, p, i, batch) = UnlessEmpty(<< h, m, k >>, phase)
      BY <2>2 DEF ExecutionPhases, SumLayer, GenLayer, LayerPhases, ByProcessor, Processor,
                  BatchedLinearExecutionLogic, BatchedLinearExecutionPIM, BatchedNear
    <3>2. Costs(phase, p, i.precision, 2 * h * m * k, bytes)
      <4> HIDE DEF act
      <4> QED BY DEF NearWeight, Product, Phase, Costs
    <3> HIDE DEF phase
    <3> QED BY <2>2, <3>1, <3>2
  <2> QED BY <2>1, <2>2
<1>2. NothingToDo(call, batch) <=> m = 0
  <2>1. Size(<< h, m, k >>) = (h * m) * k
    BY HeadsSize DEF Positive
  <2>2. m = 0 => (h * m) * k = 0
    BY DEF Positive
  <2>3. m # 0 => (h * m) * k # 0
    <3> SUFFICES ASSUME m # 0 PROVE (h * m) * k # 0
      OBVIOUS
    <3>1. m \in Positive
      BY DEF Positive
    <3>2. h * m * k \in Positive
      BY <3>1, Twice
    <3> QED
      BY <3>2 DEF Positive
  <2> QED
    BY <2>1, <2>2, <2>3 DEF NothingToDo, AttentionLayers, DecodeLayers
<1>3. m # 0 => f \in Nat /\ f >= 2
  BY Twice DEF Positive
<1> HIDE DEF f
<1>4. PICK phase, bytes : /\ Costs(phase, p, i.precision, f, bytes)
                          /\ ExecutionPhases(call, p, i, batch) = UnlessEmpty(<< h, m, k >>, phase)
  BY <1>1
<1>5. m # 0 => Worked(<< phase >>)
  BY <1>3, <1>4, CostsTakes, WorkedOne
<1> QED
  BY <1>2, <1>4, <1>5, HeadsEmpty DEF WhenNeeded

LEMMA ActivationWhenNeeded ==
  ASSUME NEW call, call.layer = "ACTIVATION", NEW m \in Nat, NEW l \in Positive, NEW k \in Positive,
         call.in.shape = << m, l >>, call.out.shape = << m, k >>,
         NEW i, i.precision \in Positive, NEW batch, NEW p \in Processor
  PROVE  WhenNeeded(call, p, i, batch)
<1> DEFINE in == << m, l >>
           out == << m, k >>
           bytes == i.precision * (Size(out) + Size(in) + Size(out))
           f == IF p = "GPU" THEN 0 ELSE bytes
           moves == IF p = "LOGIC"
                    THEN << GEMV("LOGIC", Size(out)), GEMV("LOGIC", Size(in)), GEMV("LOGIC", Size(out)) >>
                    ELSE GateInputOutput(p, in, out)
           phase == IF p = "LOGIC"
                    THEN [ActivationPhase(i, p, in, out, moves) EXCEPT !.ideal = GateInputOutput("LOGIC", in, out)]
                    ELSE ActivationPhase(i, p, in, out, moves)
<1>1. ExecutionPhases(call, p, i, batch) = UnlessEmpty(in, phase)
  BY DEF ExecutionPhases, SumLayer, GenLayer, LayerPhases, ByProcessor, Processor,
         ActivationExecutionGPU, ActivationExecutionLogic, ActivationExecutionPIM
<1>2. Size(in) = m * l /\ Size(out) = m * k
  BY MatrixSize DEF Positive
<1>3. NothingToDo(call, batch) <=> m = 0
  <2>1. m * l = 0 <=> m = 0
    BY ProductType DEF Positive
  <2> QED
    BY <1>2, <2>1 DEF NothingToDo, AttentionLayers, DecodeLayers
<1>4. ASSUME m # 0
      PROVE  bytes \in Nat /\ bytes >= 2 /\ Size(out) # 0
  <2> DEFINE x == Size(out)
             y == Size(in)
  <2>1. x \in Positive /\ y \in Positive
    BY <1>2, <1>4, ProductType DEF Positive
  <2> HIDE DEF x, y
  <2>2. x + y + x \in Nat /\ x + y + x >= 2
    BY <2>1 DEF Positive
  <2> DEFINE z == x + y + x
  <2> HIDE DEF z
  <2>3. i.precision * z \in Nat /\ i.precision * z >= 2
    BY <2>2 DEF Positive, z
  <2> QED
    BY <2>1, <2>3 DEF x, y, z, Positive
<1>5. /\ Costs(phase, p, i.precision, f, bytes)
      /\ phase.charged = [j \in DOMAIN moves |-> j] /\ phase.ram = moves
  <2>1. ActivationPhase(i, p, in, out, moves) = Phase(i, p, f, bytes, moves)
    BY DEF ActivationPhase
  <2> DEFINE ideal == GateInputOutput("LOGIC", in, out)
  <2>2. phase = IF p = "LOGIC" THEN [Phase(i, p, f, bytes, moves) EXCEPT !.ideal = ideal]
                ELSE Phase(i, p, f, bytes, moves)
    BY <2>1
  <2> HIDE DEF phase, f, bytes, moves, ideal
  <2> QED
    BY <2>2 DEF Phase, Costs
<1>6. moves[1].size = Size(out) /\ 1 \in DOMAIN moves
  BY DEF GateInputOutput, Read, Write, GEMV
<1> HIDE DEF phase, moves
<1>7. ASSUME m # 0
      PROVE  TakesTime(phase)
  <2>1. CASE p = "GPU"
    <3>1. phase.memory = bytes * ByteTime[p] /\ phase.opb = << >>
      BY <1>5 DEF Costs, MemoryTime
    <3>2. ByteTime[p] \in Positive /\ bytes \in Positive
      BY <1>4, <1>7, TimesType DEF Positive
    <3> HIDE DEF bytes
    <3>3. phase.memory # 0
      BY <3>1, <3>2, ProductType DEF Positive
    <3>4. phase.charged[1] = 1
      BY <1>5, <1>6
    <3>5. phase.ram[phase.charged[1]].size # 0
      BY <1>4, <1>5, <1>6, <1>7, <3>4
    <3> QED
      BY <3>1, <3>3, <3>5 DEF TakesTime
  <2>2. CASE p # "GPU"
    <3>1. f = bytes
      BY <2>2
    <3> HIDE DEF f, bytes
    <3> QED
      BY <1>4, <1>5, <1>7, <3>1, CostsTakes
  <2> QED
    BY <2>1, <2>2
<1>8. m # 0 => Worked(<< phase >>)
  BY <1>7, WorkedOne
<1> QED
  BY <1>1, <1>3, <1>8, MatrixEmpty DEF WhenNeeded

\* The host's share of two operations or more takes time.
LEMMA HostTakes ==
  ASSUME NEW i, NEW f \in Nat, f >= 2
  PROVE  HostTime(i, f) # 0
<1> DEFINE u == FlopTime["GPU"]
           x == f * u
<1>1. u \in Positive
  BY TimesType DEF Processor
<1> HIDE DEF u
<1>2. x >= 2 /\ x \in Nat
  BY <1>1 DEF Positive
<1>3. HostTime(i, f) = x \div (IF i.precision = 1 THEN 2 ELSE 1)
  BY DEF HostTime, u
<1> HIDE DEF x
<1>4. x \div 2 # 0 /\ x \div 1 # 0
  BY <1>2
<1> QED
  BY <1>3, <1>4

\* Also at the rates of the GPU.
LEMMA RatedTakes ==
  ASSUME NEW i, NEW p \in Processor, NEW f \in Nat, f >= 2, NEW bytes, NEW phase,
         Costs(phase, p, i.precision, f, bytes), phase.flops = f,
         {"compute", "opb"} \subseteq DOMAIN phase
  PROVE  TakesTime(Rated(p, i, phase))
<1>1. CASE p = "GPU"
  <2>1. TakesTime(phase)
    BY CostsTakes
  <2> QED
    BY <1>1, <2>1 DEF Rated
<1>2. CASE p # "GPU"
  <2> DEFINE x == AtGPURates(i, phase)
  <2>1. x.compute = HostTime(i, f) /\ x.opb = phase.opb
    BY DEF AtGPURates
  <2>2. phase.opb = << >>
    BY DEF Costs
  <2>3. Rated(p, i, phase) = x
    BY <1>2 DEF Rated
  <2> HIDE DEF x
  <2> QED
    BY <2>1, <2>2, <2>3, HostTakes DEF TakesTime
<1> QED
  BY <1>1, <1>2

Sized(layer, i) ==
  /\ AttentionInfo(layer, i) /\ {i.precision, i.hd, i.H, i.KVH} \subseteq Positive
  /\ layer = "ATTENTION_GEN" => i.group \in Positive
  /\ layer \in {"ABSORBED_MLA_SUM", "ABSORBED_MLA_GEN"} => i.rank \in Positive

\* The first phase of a sequence, in the attention of a prompt.
SumStart(layer, p, i, s) ==
  CASE layer = "ATTENTION_SUM" ->
         ByProcessor(p, SumScoringGPU(i, s), SumScoringLogic(i, s), SumScoringPIM(i, s))
    [] layer = "MLA_SUM" ->
         Rated(p, i,
               IF i.use_flash_attention
               THEN FlashAttention(i, s, p, TileRows(i, p), TileColumns(i, p))
               ELSE MLASumScoring(i, s, p))
    [] layer = "ABSORBED_MLA_SUM" ->
         ByProcessor(p, AbsorbSumScoringGPU(i, s), AbsorbSumScoringLogic(i, s), AbsorbSumScoringPIM(i, s))
Starts(layer, p, i, seqs) == [k \in 1 .. Len(seqs) |-> SumStart(layer, p, i, seqs[k])]

LEMMA ThenOthers ==
  ASSUME NEW x, Worked(x), NEW n, NEW y, Phased(y, n), NEW z, Phased(z, n)
  PROVE  Worked((x \o y) \o z)
BY WorkedJoin

LEMMA ThenThree ==
  ASSUME NEW x, Worked(x), NEW n, NEW v, Phased(v, n), NEW y, Phased(y, n), NEW z, Phased(z, n)
  PROVE  Worked(((x \o v) \o y) \o z)
BY WorkedJoin

LEMMA AttentionStarts ==
  ASSUME NEW seqs \in Seq(Spans), NEW i, NEW p \in Processor,
         Worked(Starts("ATTENTION_SUM", p, i, seqs))
  PROVE  Worked(SumPhases("ATTENTION_SUM", p, i, seqs))
<1> DEFINE n == Len(seqs)
           x == Starts("ATTENTION_SUM", p, i, seqs)
           y == [k \in 1 .. Len(seqs) |-> ByProcessor(p, SumSoftmaxGPU(i, seqs[k]), SumSoftmaxLogic(i, seqs[k]), SumSoftmaxPIM(i, seqs[k]))]
           z == [k \in 1 .. Len(seqs) |-> ByProcessor(p, SumContextGPU(i, seqs[k]), SumContextLogic(i, seqs[k]), SumContextPIM(i, seqs[k]))]
<1>1. SumPhases("ATTENTION_SUM", p, i, seqs) = (x \o y) \o z
  <2>1. CASE p = "GPU"
    BY <2>1 DEF SumPhases, ByProcessor, AttentionSumExecutionGPU, EachSequence, Starts, SumStart
  <2>2. CASE p = "LOGIC"
    BY <2>2 DEF SumPhases, ByProcessor, AttentionSumExecutionLogic, EachSequence, Starts, SumStart
  <2>3. CASE p = "PIM"
    BY <2>3 DEF SumPhases, ByProcessor, AttentionSumExecutionPIM, EachSequence, Starts, SumStart
  <2> QED
    BY <2>1, <2>2, <2>3 DEF Processor
<1>2. Phased(y, n) /\ Phased(z, n)
  BY SequencesAre DEF Phased
<1> HIDE DEF x, y, z
<1> QED
  BY <1>1, <1>2, ThenOthers DEF x

LEMMA LatentStarts ==
  ASSUME NEW seqs \in Seq(Spans), NEW i, NEW p \in Processor,
         Worked(Starts("MLA_SUM", p, i, seqs))
  PROVE  Worked(SumPhases("MLA_SUM", p, i, seqs))
<1> DEFINE n == Len(seqs)
           x == Starts("MLA_SUM", p, i, seqs)
           y == [k \in 1 .. Len(seqs) |-> Rated(p, i, Softmax(i, seqs[k], p))]
           z == [k \in 1 .. Len(seqs) |-> Rated(p, i, MLASumContext(i, seqs[k], p))]
<1>1. SumPhases("MLA_SUM", p, i, seqs) = IF i.use_flash_attention THEN x ELSE (x \o y) \o z
  <2>1. CASE p = "GPU"
    BY <2>1 DEF SumPhases, ByProcessor, MultiLatentAttentionSumExecutionGPU, EachSequence, Starts,
                SumStart, MLASumFlashGPU, MLASumScoringGPU, MLASumSoftmaxGPU, MLASumContextGPU,
                TileRows, TileColumns, Rated
  <2>2. CASE p = "LOGIC"
    BY <2>2 DEF SumPhases, ByProcessor, MultiLatentAttentionSumExecutionLogic, EachSequence, Starts,
                SumStart, MLASumFlashLogic, MLASumScoringLogic, MLASumSoftmaxLogic,
                MLASumContextLogic, TileRows, TileColumns, Rated
  <2>3. CASE p = "PIM"
    BY <2>3 DEF SumPhases, ByProcessor, MultiLatentAttentionSumExecutionPIM, EachSequence, Starts,
                SumStart, MLASumFlashPIM, MLASumScoringPIM, MLASumSoftmaxPIM, MLASumContextPIM,
                TileRows, TileColumns, Rated
  <2> QED
    BY <2>1, <2>2, <2>3 DEF Processor
<1>2. Phased(y, n) /\ Phased(z, n)
  BY SequencesAre DEF Phased
<1> HIDE DEF x, y, z
<1> QED
  BY <1>1, <1>2, ThenOthers DEF x

LEMMA AbsorbedStarts ==
  ASSUME NEW seqs \in Seq(Spans), NEW i, NEW p \in Processor,
         Worked(Starts("ABSORBED_MLA_SUM", p, i, seqs))
  PROVE  Worked(SumPhases("ABSORBED_MLA_SUM", p, i, seqs))
<1> DEFINE n == Len(seqs)
           x == Starts("ABSORBED_MLA_SUM", p, i, seqs)
           v == [k \in 1 .. Len(seqs) |-> ByProcessor(p, AbsorbSumRopeGPU(i, seqs[k]), AbsorbSumRopeLogic(i, seqs[k]), AbsorbSumRopePIM(i, seqs[k]))]
           y == [k \in 1 .. Len(seqs) |-> ByProcessor(p, AbsorbSumSoftmaxGPU(i, seqs[k]), AbsorbSumSoftmaxLogic(i, seqs[k]), AbsorbSumSoftmaxPIM(i, seqs[k]))]
           z == [k \in 1 .. Len(seqs) |-> ByProcessor(p, AbsorbSumContextGPU(i, seqs[k]), AbsorbSumContextLogic(i, seqs[k]), AbsorbSumContextPIM(i, seqs[k]))]
<1>1. SumPhases("ABSORBED_MLA_SUM", p, i, seqs) = ((x \o v) \o y) \o z
  <2>1. CASE p = "GPU"
    BY <2>1 DEF SumPhases, ByProcessor, AbsorbMLASumExecutionGPU, EachSequence, Starts, SumStart
  <2>2. CASE p = "LOGIC"
    BY <2>2 DEF SumPhases, ByProcessor, AbsorbMLASumExecutionLogic, EachSequence, Starts, SumStart
  <2>3. CASE p = "PIM"
    BY <2>3 DEF SumPhases, ByProcessor, AbsorbMLASumExecutionPIM, EachSequence, Starts, SumStart
  <2> QED
    BY <2>1, <2>2, <2>3 DEF Processor
<1>2. Phased(v, n) /\ Phased(y, n) /\ Phased(z, n)
  BY SequencesAre DEF Phased
<1> HIDE DEF x, v, y, z
<1> QED
  BY <1>1, <1>2, ThenThree DEF x

LEMMA MatMulTakes ==
  ASSUME NEW m \in Positive, NEW k \in Positive, NEW n \in Positive, NEW h \in Positive
  PROVE  MatMul(m, k, n, h) \in Nat /\ MatMul(m, k, n, h) >= 2
BY Twice DEF MatMul

\* A phase of a prompt's attention for a sequence that has tokens.
LEMMA StartTakes ==
  ASSUME NEW layer \in SumLayer, NEW i, Sized(layer, i), NEW s \in Spans, s.m # 0,
         layer = "ATTENTION_SUM" => s.m * s.n * i.hd < IntLimit, NEW p \in Processor
  PROVE  TakesTime(SumStart(layer, p, i, s))
<1>1. /\ s.m \in Positive /\ s.n \in Positive
      /\ i.hd \in Positive /\ i.H \in Positive /\ i.rope \in Nat /\ i.hd + i.rope \in Positive
      /\ {i.use_flash_attention} \subseteq BOOLEAN
  BY DEF Sized, AttentionInfo, Dimensions, Spans, RequestType, Positive
<1> DEFINE m == s.m
           n == s.n
           q == i.precision
<1>2. m \in Positive /\ n \in Positive
  BY <1>1
<1>3. CASE layer = "ATTENTION_SUM"
  <2> DEFINE f == MatMul(m, i.hd, n, i.H)
  <2>1. IntMatMul(m, i.hd, n, i.H) = f
    <3> DEFINE fits == m * n * i.hd < IntLimit
    <3>1. fits /\ m \in Nat /\ n \in Nat /\ i.hd \in Nat /\ i.H \in Nat
      BY <1>1, <1>3 DEF Positive
    <3> HIDE DEF m, n
    <3> QED
      BY <3>1, IntProduct
  <2>2. f \in Nat /\ f >= 2
    BY <1>1, MatMulTakes
  <2> DEFINE phase == SumStart(layer, p, i, s)
  <2>3. \E bytes : Costs(phase, p, q, f, bytes)
    <3>1. CASE p = "GPU"
      <4>1. Costs(phase, p, q, f, q * Int32(m * i.hd * i.H + i.hd * n * i.KVH + m * n * i.H))
        <5> HIDE DEF q
        <5> QED
          BY <1>3, <3>1 DEF SumStart, ByProcessor, SumScoringGPU, Phase, Costs, q
      <4> QED
        BY <4>1
    <3>2. CASE p = "LOGIC"
      <4>1. Costs(phase, p, q, f, Int32((m * i.hd * i.H + i.hd * n * i.KVH) * q))
        BY <1>3, <2>1, <3>2 DEF SumStart, ByProcessor, SumScoringLogic, Phase, Costs
      <4> QED
        BY <4>1
    <3>3. CASE p = "PIM"
      <4>1. Costs(phase, p, q, f, Int32((m * i.hd * i.H + i.hd * n * i.KVH) * q))
        BY <1>3, <2>1, <3>3 DEF SumStart, ByProcessor, SumScoringPIM, Phase, Costs
      <4> QED
        BY <4>1
    <3> QED
      BY <3>1, <3>2, <3>3 DEF Processor
  <2> HIDE DEF phase, f, q
  <2>4. TakesTime(phase)
    BY <2>2, <2>3, CostsTakes
  <2> QED
    BY <2>4 DEF phase
<1>4. CASE layer = "MLA_SUM" /\ ~i.use_flash_attention
  <2> DEFINE d == i.hd + i.rope
             f == MatMul(m, d, n, i.H)
  <2>1. f \in Nat /\ f >= 2
    BY <1>1, MatMulTakes
  <2>2. /\ Costs(MLASumScoring(i, s, p), p, q, f, q * (m * d + d * n + m * n) * i.H)
        /\ MLASumScoring(i, s, p).flops = f
        /\ {"compute", "opb"} \subseteq DOMAIN MLASumScoring(i, s, p)
    BY DEF MLASumScoring, HeadProduct, Phase, Costs
  <2>3. SumStart(layer, p, i, s) = Rated(p, i, MLASumScoring(i, s, p))
    BY <1>4 DEF SumStart
  <2> DEFINE phase == MLASumScoring(i, s, p)
             bytes == q * (m * d + d * n + m * n) * i.H
  <2> HIDE DEF phase, f, bytes
  <2>4. TakesTime(Rated(p, i, phase))
    BY <2>1, <2>2, RatedTakes DEF phase, bytes
  <2> QED
    BY <2>3, <2>4 DEF phase
<1>5. CASE layer = "ABSORBED_MLA_SUM"
  <2> DEFINE d == i.rank
             f == MatMul(m, d, n, i.H)
             bytes == q * (m * d * i.H + d * n + m * n * i.H)
  <2>1. f \in Nat /\ f >= 2
    <3>1. d \in Positive
      BY <1>5 DEF Sized
    <3> QED
      BY <1>1, <3>1, MatMulTakes
  <2> DEFINE phase == SumStart(layer, p, i, s)
  <2>2. Costs(phase, p, q, f, bytes)
    <3>1. CASE p = "GPU"
      BY <1>5, <3>1 DEF SumStart, ByProcessor, AbsorbSumScoringGPU, LatentProduct, Phase, Costs
    <3>2. CASE p = "LOGIC"
      BY <1>5, <3>2 DEF SumStart, ByProcessor, AbsorbSumScoringLogic, LatentProduct, Phase, Costs
    <3>3. CASE p = "PIM"
      BY <1>5, <3>3 DEF SumStart, ByProcessor, AbsorbSumScoringPIM, OneGEMV, LatentProduct, Phase, Costs
    <3> QED
      BY <3>1, <3>2, <3>3 DEF Processor
  <2> HIDE DEF phase, f, q, bytes
  <2>4. TakesTime(phase)
    BY <2>1, <2>2, CostsTakes
  <2> QED
    BY <2>4 DEF phase
<1>6. CASE layer = "MLA_SUM" /\ i.use_flash_attention
  <2>1. HasTiles(i)
    BY <1>6 DEF Sized, AttentionInfo
  <2> DEFINE r == TileRows(i, p)
             c == TileColumns(i, p)
             phase == FlashAttention(i, s, p, r, c)
             a == Tiles(i, p, s)
             w == TileWork(i, p)
  <2>2. SumStart(layer, p, i, s) = Rated(p, i, phase)
    BY <1>6 DEF SumStart
  <2>3. r \in Positive /\ c \in Positive
    BY <2>1, TileShape DEF Positive
  <2>4. a \in Positive
    <3>1. CeilDiv(m, r) \in Positive /\ CeilDiv(m, c) \in Positive
      <4>1. ASSUME NEW b \in Positive PROVE CeilDiv(m, b) \in Positive
        <5> DEFINE x == CeilDiv(m, b)
        <5>1. x \in Nat /\ x * b >= m
          BY <1>2, CeilCovers DEF Positive
        <5> HIDE DEF x, m
        <5>2. x # 0
          BY <1>2, <5>1 DEF Positive
        <5> QED
          BY <5>1, <5>2 DEF x, Positive
      <4> QED
        BY <2>3, <4>1
    <3> QED
      BY <3>1, ProductType DEF Tiles, Positive
  <2>5. w \in Nat /\ w >= 2
    <3> HIDE DEF r, c, m, a
    <3>4. 1 \in Positive
      BY DEF Positive
    <3>1. MatMul(r, i.hd + i.rope, c, 1) >= 2 /\ MatMul(r, i.hd + i.rope, c, 1) \in Nat
      BY <1>1, <2>3, <3>4, MatMulTakes
    <3>2. MatMul(r, i.hd, c, 1) \in Nat
      BY <1>1, <2>3, <3>4, MatMulTakes
    <3> DEFINE x == MatMul(r, i.hd + i.rope, c, 1)
               y == MatMul(r, i.hd, c, 1)
    <3> HIDE DEF x, y
    <3>3. x + y \in Nat /\ x + y >= 2
      BY <3>1, <3>2 DEF x, y
    <3> QED
      BY <3>3 DEF TileWork, x, y, r, c
  <2> DEFINE f == a * w * i.H
  <2> HIDE DEF a, w
  <2>6. f \in Nat /\ f >= 2
    <3>1. a * w \in Nat /\ a * w >= 2
      BY <2>4, <2>5 DEF Positive
    <3> DEFINE x == a * w
    <3>3. x \in Nat /\ x >= 2 /\ i.H \in Nat /\ i.H >= 1
      BY <1>1, <3>1 DEF Positive
    <3> DEFINE h == i.H
    <3> HIDE DEF x, h
    <3>2. x * h \in Nat /\ x * h >= 2
      BY <3>3 DEF h
    <3> QED
      BY <3>2 DEF x, h
  <2>7. phase.flops = f
    BY FlashPhase DEF a, w
  <2>8. /\ \E bytes, g : Costs(phase, p, q, g, bytes) /\ phase.flops = g
        /\ {"compute", "opb"} \subseteq DOMAIN phase
    <3> HIDE DEF r, c
    <3> DEFINE k == i.hd + i.rope
               tiles == CeilDiv(s.m, r) * CeilDiv(s.m, c)
               query == r * k * tiles * i.H
               kv == c * (k + i.hd) * CeilDiv(s.m, c) * i.H
               out == r * i.hd * tiles * i.H
               sums == 2 * r * tiles * i.H
               g == tiles * (MatMul(r, k, c, 1) + MatMul(r, i.hd, c, 1)) * i.H
               bytes == q * (query + kv + 2 * out + 2 * sums)
               moves == << Read(p, query), Read(p, kv), Read(p, out), Write(p, out),
                           Read(p, sums), Write(p, sums) >>
    <3>1. phase = Phase(i, p, g, bytes, moves)
      BY DEF FlashAttention
    <3> HIDE DEF phase, g, bytes, moves
    <3>2. Costs(phase, p, q, g, bytes)
      BY <3>1, PhaseCosts
    <3>3. phase.flops = g /\ {"compute", "opb"} \subseteq DOMAIN phase
      BY <3>1 DEF Phase
    <3> QED
      BY <3>2, <3>3
  <2> HIDE DEF phase, f
  <2>9. TakesTime(Rated(p, i, phase))
    BY <2>6, <2>7, <2>8, RatedTakes
  <2> QED
    BY <2>2, <2>9
<1> QED
  BY <1>3, <1>4, <1>5, <1>6 DEF SumLayer

\* A batch with tokens has a sequence with tokens.
LEMMA TokensSomewhere ==
  ASSUME NEW seqs \in Seq(Spans), Tokens(seqs) # 0
  PROVE  \E k \in 1 .. Len(seqs) : seqs[k].m # 0
<1> DEFINE g == [k \in 1 .. Len(seqs) |-> seqs[k].m]
           n == Len(seqs)
<1>1. Numbers(g, n)
  BY SequencesAre DEF Numbers
<1>2. Tokens(seqs) = Total(g)
  BY DEF Tokens, OverSequences
<1>3. SUFFICES ASSUME \A k \in 1 .. n : seqs[k].m = 0 PROVE FALSE
  OBVIOUS
<1>4. \A k \in 1 .. n : g[k] = 0
  BY <1>1, <1>3
<1> HIDE DEF g, n
<1> QED
  BY <1>1, <1>2, <1>4, TotalZero

LEMMA SumWorked ==
  ASSUME NEW layer \in SumLayer, NEW i, Sized(layer, i), NEW seqs \in Seq(Spans), Tokens(seqs) # 0,
         layer = "ATTENTION_SUM" => IntFits(i, seqs), NEW p \in Processor
  PROVE  Worked(SumPhases(layer, p, i, seqs))
<1>1. PICK k \in 1 .. Len(seqs) : seqs[k].m # 0
  BY TokensSomewhere
<1>2. Len(seqs) \in Nat /\ seqs[k] \in Spans
  BY SeqDomain
<1>3. TakesTime(SumStart(layer, p, i, seqs[k]))
  <2>1. layer = "ATTENTION_SUM" => seqs[k].m * seqs[k].n * i.hd < IntLimit
    BY DEF IntFits
  <2> DEFINE s == seqs[k]
  <2>2. s \in Spans /\ s.m # 0 /\ (layer = "ATTENTION_SUM" => s.m * s.n * i.hd < IntLimit)
    BY <1>1, <1>2, <2>1
  <2> HIDE DEF s
  <2>3. TakesTime(SumStart(layer, p, i, s))
    BY <2>2, StartTakes
  <2> QED
    BY <2>3 DEF s
<1> DEFINE ps == Starts(layer, p, i, seqs)
           n == Len(seqs)
<1>4. ps = [j \in 1 .. n |-> ps[j]] /\ ps[k] = SumStart(layer, p, i, seqs[k])
  BY DEF Starts
<1>5. k \in 1 .. n /\ n \in Nat
  BY <1>2
<1> HIDE DEF ps, n
<1>6. TakesTime(ps[k])
  BY <1>3, <1>4
<1>7. Worked(ps)
  BY <1>4, <1>5, <1>6, WorkedEach
<1> QED
  BY <1>7, AttentionStarts, LatentStarts, AbsorbedStarts DEF SumLayer, ps

LEMMA SumWhenNeeded ==
  ASSUME NEW call, call.layer \in SumLayer, NEW i, Sized(call.layer, i), NEW batch \in Seq(Spans),
         call.layer = "ATTENTION_SUM" => IntFits(i, get_sum(batch)), NEW p \in Processor
  PROVE  WhenNeeded(call, p, i, batch)
<1> DEFINE seqs == get_sum(batch)
<1>1. seqs \in Seq(Spans)
  BY ChosenType
<1>2. ExecutionPhases(call, p, i, batch)
        = IF Tokens(seqs) = 0 THEN << >> ELSE SumPhases(call.layer, p, i, seqs)
  BY DEF ExecutionPhases, SumLayer, GenLayer
<1>3. NothingToDo(call, batch) <=> Tokens(seqs) = 0
  BY DEF NothingToDo, Chosen, SumLayer, AttentionLayers
<1> HIDE DEF seqs
<1>4. Tokens(seqs) # 0 => Worked(SumPhases(call.layer, p, i, seqs))
  BY <1>1, SumWorked DEF seqs
<1> QED
  BY <1>2, <1>3, <1>4 DEF WhenNeeded

(* The decode steps: all of them have a token.                             *)

\* The products of a decode step that has a token are some.
LEMMA HeadWorkTakes ==
  ASSUME NEW gen, Decodes(gen), Len(gen) # 0, NEW dim \in Positive
  PROVE  HeadWork(gen, dim) \in Nat /\ HeadWork(gen, dim) >= 2
<1> DEFINE g == [k \in 1 .. Len(gen) |-> 2 * gen[k].m * dim * gen[k].n]
           n == Len(gen)
<1>1. gen \in Seq(Spans) /\ n \in Nat /\ 1 \in 1 .. n
  BY SequencesAre DEF Decodes
<1>2. ASSUME NEW k \in 1 .. n
      PROVE  g[k] \in Nat /\ g[k] >= 2
  <2> DEFINE m == gen[k].m
             l == gen[k].n
  <2>1. m = 1 /\ l \in Nat /\ m <= l
    BY <1>1, SequencesAre DEF Decodes
  <2>2. l \in Positive /\ m \in Positive
    BY <2>1 DEF Positive
  <2>3. g[k] = 2 * m * dim * l
    OBVIOUS
  <2> HIDE DEF g, m, l
  <2> QED
    BY <2>2, <2>3, Twice
<1>3. Numbers(g, n)
  BY <1>1, <1>2 DEF Numbers
<1>4. HeadWork(gen, dim) = Total(g)
  BY DEF HeadWork
<1> HIDE DEF g
<1>5. g[1] <= Total(g) /\ Total(g) \in Nat
  BY <1>1, <1>3, TotalZero, TotalSum
<1>6. g[1] \in Nat /\ g[1] >= 2
  BY <1>1, <1>2
<1> QED
  BY <1>4, <1>5, <1>6

\* So is the product with the heads.
LEMMA HeadFlopsTake ==
  ASSUME NEW gen, Decodes(gen), Len(gen) # 0, NEW i, Dimensions(i), i.H \in Positive,
         NEW dim \in Positive
  PROVE  HeadFlops(i, gen, dim) \in Nat /\ HeadFlops(i, gen, dim) >= 2
<1>1. HeadFlops(i, gen, dim) = i.H * HeadWork(gen, dim)
  BY HeadFlopsIs DEF Decodes, Positive
<1>2. HeadWork(gen, dim) \in Nat /\ HeadWork(gen, dim) >= 2
  BY HeadWorkTakes
<1> DEFINE w == HeadWork(gen, dim)
           h == i.H
<1>3. w \in Nat /\ w >= 2 /\ h \in Nat /\ h >= 1
  BY <1>2 DEF Positive
<1> HIDE DEF w, h
<1>4. h * w \in Nat /\ h * w >= 2
  BY <1>3
<1> QED
  BY <1>1, <1>4 DEF w, h

\* A total whose first part is two or more is two or more.
LEMMA TotalTakes ==
  ASSUME NEW g, NEW n, Numbers(g, n), n # 0, g[1] >= 2
  PROVE  Total(g) \in Nat /\ Total(g) >= 2
<1>1. n \in Nat /\ 1 \in 1 .. n
  BY DEF Numbers
<1>2. g[1] \in Nat /\ g[1] <= Total(g) /\ Total(g) \in Nat
  BY <1>1, TotalZero, TotalSum DEF Numbers
<1> QED
  BY <1>2

\* Decode steps of latent attention are work on every processor.
LEMMA LatentGenWorked ==
  ASSUME NEW gen, Decodes(gen), Len(gen) # 0, NEW i, Dimensions(i), i.H \in Positive,
         i.hd \in Positive, NEW p \in Processor
  PROVE  Worked(GenPhases("MLA_GEN", p, i, gen))
<1> DEFINE d == i.hd + i.rope
           x == HeadFlops(i, gen, d)
           y == HeadFlops(i, gen, i.hd)
<1>1. d \in Positive
  BY DEF Dimensions, Positive
<1>2. x \in Nat /\ x >= 2 /\ y \in Nat /\ y >= 2
  <2> HIDE DEF d
  <2> QED
    BY <1>1, HeadFlopsTake
<1>3. CASE i.use_flash_mla
  <2> DEFINE k == i.hd + i.rope
             bytes == i.precision * i.H * OverSequences(LAMBDA s : (s.m + s.n) * (k + i.hd), gen)
             moves == << Read(p, Len(gen) * i.H * k), Read(p, Context(gen) * k * i.H),
                         Read(p, Context(gen) * i.hd * i.H), Write(p, Len(gen) * i.H * i.hd) >>
             phase == MLAGenFlash(i, gen, p)
  <2>1. phase = Phase(i, p, x + y, bytes, moves)
    BY DEF MLAGenFlash
  <2> DEFINE f == x + y
  <2> HIDE DEF x, y
  <2>2. f \in Nat /\ f >= 2
    BY <1>2
  <2> HIDE DEF f, bytes, moves
  <2>3. TakesTime(Phase(i, p, f, bytes, moves))
    BY <2>2, PhaseTakes
  <2>4. TakesTime(phase)
    BY <2>1, <2>3 DEF f
  <2> HIDE DEF phase
  <2>5. Worked(<< phase >>)
    BY <2>4, WorkedOne
  <2> QED
    BY <1>3, <2>5, LatentGenIs DEF LatentGenPhases, phase
<1>4. CASE ~i.use_flash_mla
  <2> DEFINE a == MLAGenScoring(i, gen, p)
             ss == [k \in 1 .. Len(gen) |-> MLAGenSoftmax(i, gen[k], p)]
             c == MLAGenContext(i, gen, p)
  <2>1. TakesTime(a)
    <3> DEFINE k == i.hd + i.rope
               bytes == i.precision * i.H * OverSequences(LAMBDA s : s.m * k + k * s.n + s.m * s.n, gen)
               moves == << Read(p, Len(gen) * i.H * k), Read(p, Context(gen) * k * i.H),
                           Write(p, i.H * Context(gen)) >>
    <3>1. a = Phase(i, p, x, bytes, moves)
      BY DEF MLAGenScoring
    <3> HIDE DEF a, bytes, moves, x
    <3> QED
      BY <1>2, <3>1, PhaseTakes
  <2>2. Len(gen) \in Nat
    BY SequencesAre DEF Decodes
  <2>3. Phased(ss, Len(gen)) /\ Phased(<< c >>, 1)
    BY <2>2 DEF Phased
  <2>4. GenPhases("MLA_GEN", p, i, gen) = (<< a >> \o ss) \o << c >>
    BY <1>4, LatentGenIs DEF LatentGenPhases
  <2> HIDE DEF a, ss, c
  <2>5. Worked(<< a >>)
    BY <2>1, WorkedOne
  <2>6. Worked((<< a >> \o ss) \o << c >>)
    BY <2>3, <2>5, WorkedJoin
  <2> QED
    BY <2>4, <2>6
<1> QED
  BY <1>3, <1>4

\* Absorbed decode steps in one phase take time.
LEMMA AbsorbedFlashTakes ==
  ASSUME NEW gen, Decodes(gen), Len(gen) # 0, NEW i, Dimensions(i), i.H \in Positive,
         i.rank \in Positive, NEW p \in Processor
  PROVE  TakesTime(AbsorbGenFlash(i, gen, p))
<1> DEFINE g == [k \in 1 .. Len(gen) |-> 2 * ((i.rank + i.rope) + i.rank) * gen[k].n]
           n == Len(gen)
           k == i.rank + i.rope
           h == i.H
           t == Total(g)
<1>1. n \in Nat /\ 1 \in 1 .. n /\ gen \in Seq(Spans)
  BY SequencesAre DEF Decodes
<1>2. k + i.rank \in Positive
  BY DEF Dimensions, Positive
<1>3. ASSUME NEW j \in 1 .. n
      PROVE  g[j] \in Nat /\ g[j] >= 2
  <2> DEFINE l == gen[j].n
             c == k + i.rank
  <2>1. l \in Positive
    BY <1>1, SequencesAre DEF Decodes, Positive
  <2>2. g[j] = 2 * c * l /\ c \in Positive
    BY <1>2
  <2> HIDE DEF g, l, c
  <2>3. 2 * c * l * 1 \in Nat /\ 2 * c * l * 1 >= 2
    <3>1. 1 \in Positive
      BY DEF Positive
    <3> QED
      BY <2>1, <2>2, <3>1, Twice
  <2> QED
    BY <2>1, <2>2, <2>3 DEF Positive
<1>4. Numbers(g, n) /\ g[1] >= 2
  BY <1>1, <1>3 DEF Numbers
<1>5. OverSequences(LAMBDA s : 2 * i.H * ((i.rank + i.rope) + i.rank) * s.n, gen) = h * t
  BY <1>1, AbsorbedFlashIs DEF Positive
<1> DEFINE f == OverSequences(LAMBDA s : 2 * i.H * ((i.rank + i.rope) + i.rank) * s.n, gen)
           bytes == i.precision * OverSequences(LAMBDA s : i.H * k + s.n * k + i.H * i.rank, gen)
           moves == << Read(p, Len(gen) * i.H * k), Read(p, Context(gen) * k),
                       Write(p, Len(gen) * i.H * i.rank) >>
<1>6. AbsorbGenFlash(i, gen, p) = Phase(i, p, f, bytes, moves)
  BY DEF AbsorbGenFlash
<1>7. f = h * t
  BY <1>5
<1> HIDE DEF g, n, f, bytes, moves
<1>8. t \in Nat /\ t >= 2
  BY <1>1, <1>4, TotalTakes
<1>9. h \in Nat /\ h >= 1
  BY DEF Positive
<1> HIDE DEF t, h
<1>10. f \in Nat /\ f >= 2
  BY <1>7, <1>8, <1>9
<1>11. TakesTime(Phase(i, p, f, bytes, moves))
  BY <1>10, PhaseTakes
<1> QED
  BY <1>6, <1>11

\* Absorbed decode steps are work on every processor.
LEMMA AbsorbedGenWorked ==
  ASSUME NEW gen, Decodes(gen), Len(gen) # 0, NEW i, Dimensions(i), i.H \in Positive,
         i.rank \in Positive, NEW p \in Processor
  PROVE  Worked(GenPhases("ABSORBED_MLA_GEN", p, i, gen))
<1>1. CASE i.use_flash_mla
  <2> DEFINE phase == AbsorbGenFlash(i, gen, p)
  <2>1. TakesTime(phase)
    BY AbsorbedFlashTakes
  <2> HIDE DEF phase
  <2>2. Worked(<< phase >>)
    BY <2>1, WorkedOne
  <2> QED
    BY <1>1, <2>2, LatentGenIs DEF AbsorbedGenPhases, phase
<1>2. CASE ~i.use_flash_mla
  <2> DEFINE a == LatentScoring(i, gen, p, i.rank)
             b == [LatentScoring(i, gen, p, i.rope) EXCEPT !.charged = << 3 >>]
             ss == [k \in 1 .. Len(gen) |-> SoftmaxOf(i, gen[k], p)]
             c == AbsorbGenContext(i, gen, p)
             x == HeadFlops(i, gen, i.rank)
  <2>1. TakesTime(a)
    <3>1. x \in Nat /\ x >= 2
      BY HeadFlopsTake
    <3> DEFINE dim == i.rank
               bytes == i.precision * OverSequences(LAMBDA s : s.m * dim * i.H + dim * s.n + s.m * s.n * i.H, gen)
               moves == << Read(p, Len(gen) * dim * i.H), Read(p, dim * Context(gen)),
                           Write(p, i.H * Context(gen)) >>
    <3>2. a = Phase(i, p, x, bytes, moves)
      BY DEF LatentScoring
    <3> HIDE DEF a, bytes, moves, x
    <3> QED
      BY <3>1, <3>2, PhaseTakes
  <2>2. Len(gen) \in Nat
    BY SequencesAre DEF Decodes
  <2>3. Phased(ss, Len(gen)) /\ Phased(<< b >>, 1) /\ Phased(<< c >>, 1)
    BY <2>2 DEF Phased
  <2>4. GenPhases("ABSORBED_MLA_GEN", p, i, gen) = (<< a, b >> \o ss) \o << c >>
    BY <1>2, LatentGenIs DEF AbsorbedGenPhases
  <2> HIDE DEF a, b, ss, c
  <2>5. << a >> \o << b >> = << a, b >>
    BY PairOf
  <2>6. Worked(<< a >>)
    BY <2>1, WorkedOne
  <2>7. Worked(<< a >> \o << b >>)
    BY <2>3, <2>6, WorkedJoin
  <2>8. Worked(<< a, b >>)
    BY <2>5, <2>7, Zenon
  <2>9. Worked((<< a, b >> \o ss) \o << c >>)
    BY <2>3, <2>8, WorkedJoin
  <2> QED
    BY <2>4, <2>9
<1> QED
  BY <1>1, <1>2

\* The products of grouped heads are some.
LEMMA GroupFlopsTake ==
  ASSUME NEW gen, Decodes(gen), Len(gen) # 0, NEW i, Dimensions(i), i.group \in Positive,
         i.KVH \in Positive, i.hd \in Positive
  PROVE  GroupFlops(i, gen) \in Nat /\ GroupFlops(i, gen) >= 2
<1>1. GroupFlops(i, gen) = i.KVH * (i.group * HeadWork(gen, i.hd))
  BY GroupFlopsIs DEF Decodes, Positive
<1>2. HeadWork(gen, i.hd) \in Nat /\ HeadWork(gen, i.hd) >= 2
  BY HeadWorkTakes
<1> DEFINE w == HeadWork(gen, i.hd)
           g == i.group
           h == i.KVH
<1>3. w \in Nat /\ w >= 2 /\ h \in Nat /\ h >= 1 /\ g \in Nat /\ g >= 1
  BY <1>2 DEF Positive
<1> HIDE DEF w, g, h
<1>4. g * w \in Nat /\ g * w >= 2
  BY <1>3
<1> DEFINE v == g * w
<1> HIDE DEF v
<1>5. h * v \in Nat /\ h * v >= 2
  BY <1>3, <1>4 DEF v
<1> QED
  BY <1>1, <1>5 DEF w, g, h, v

\* A row buffer is filled at least once.
LEMMA RowsTake ==
  ASSUME NEW gen, Decodes(gen), Len(gen) # 0, NEW i, Dimensions(i)
  PROVE  ScoringRows(i, gen) \in Nat /\ ScoringRows(i, gen) # 0
<1> DEFINE g == [k \in 1 .. Len(gen) |-> computeGEMVLatency(i.precision, gen[k].m, i.hd, gen[k].n).rowbuffer]
           n == Len(gen)
<1>1. n \in Nat /\ 1 \in 1 .. n /\ gen \in Seq(Spans)
  BY SequencesAre DEF Decodes
<1>2. ASSUME NEW k \in 1 .. n
      PROVE  g[k] \in Nat /\ g[k] # 0
  <2> DEFINE m == gen[k].m
             l == gen[k].n
             d == i.hd
             total == (m * d + d * l + m * l) * i.precision
             r == Fills(total)
  <2>1. m \in Nat /\ l \in Nat /\ d \in Nat /\ i.precision \in Nat
    BY <1>1, SequencesAre DEF Dimensions
  <2>2. Rises(total, total)
    <3> DEFINE q == i.precision
               a == m * d + d * l + m * l
    <3> HIDE DEF m, l, d, q
    <3>1. m * d \in Nat /\ d * l \in Nat /\ m * l \in Nat
      BY <2>1, ProductType
    <3>2. a \in Nat
      BY <3>1
    <3> HIDE DEF a
    <3>3. a * q \in Nat
      BY <2>1, <3>2, ProductType DEF q
    <3> QED
      BY <3>3 DEF Rises, a, q
  <2> HIDE DEF total
  <2>3. r \in Nat /\ r >= 1
    BY <2>2, FillsRise DEF Rises
  <2>4. NearBank.fill \in Positive
    BY UnitType
  <2>5. g[k] = r * NearBank.fill
    BY DEF computeGEMVLatency, total
  <2> DEFINE f == NearBank.fill
  <2> HIDE DEF r, g, f
  <2>6. r * f \in Nat /\ r * f # 0
    BY <2>3, <2>4, ProductType DEF Positive, f
  <2> QED
    BY <2>5, <2>6 DEF f
<1>3. ScoringRows(i, gen) = Total(g)
  BY DEF ScoringRows
<1>4. Numbers(g, n) /\ g[1] # 0
  BY <1>1, <1>2 DEF Numbers
<1> HIDE DEF g, n
<1>5. g[1] <= Total(g) /\ Total(g) \in Nat /\ g[1] \in Nat
  BY <1>1, <1>4, TotalZero, TotalSum DEF Numbers
<1> QED
  BY <1>3, <1>4, <1>5

\* The scores of the near-bank units take time.
LEMMA NearScoringTakes ==
  ASSUME NEW gen, Decodes(gen), Len(gen) # 0, NEW i, Dimensions(i), i.group \in Positive,
         i.KVH \in Positive, i.hd \in Positive, i.nearbank
  PROVE  TakesTime(GenScoringPIM(i, gen))
<1> DEFINE l == ScoringLatency(i, gen)
           r == ScoringRows(i, gen)
           t == NearBankTime(i, gen, NearBank.scoring, l, r)
           phase == GenProductPIM(i, gen, t, 1)
<1>1. GenScoringPIM(i, gen) = phase
  BY DEF GenScoringPIM, OverSequences, ScoringLatency, ScoringRows
<1>2. r \in Nat /\ r # 0
  BY RowsTake
<1> HIDE DEF l, r
<1>3. t.compute # 0 \/ t.memory # 0
  <2>1. CASE NearBank.scoring
    <3> DEFINE g == i.group
               h == i.KVH
    <3>1. t.memory = g * h * r
      BY <2>1 DEF NearBankTime
    <3>2. g \in Positive /\ h \in Positive /\ r \in Positive
      BY <1>2 DEF Positive
    <3> HIDE DEF g, h
    <3>3. g * h * r \in Positive
      BY <3>2, Twice
    <3> QED
      BY <3>1, <3>3 DEF Positive
  <2>2. CASE ~NearBank.scoring
    <3>1. t.compute = HostTime(i, GroupFlops(i, gen))
      BY <2>2 DEF NearBankTime
    <3>2. GroupFlops(i, gen) \in Nat /\ GroupFlops(i, gen) >= 2
      BY GroupFlopsTake
    <3>3. HostTime(i, GroupFlops(i, gen)) # 0
      BY <3>2, HostTakes
    <3> QED
      BY <3>1, <3>3
  <2> QED
    BY <2>1, <2>2
<1> HIDE DEF t
<1>4. phase.opb = << >> /\ phase.compute = t.compute /\ phase.memory = t.memory /\ phase.charged = << >>
  BY DEF GenProductPIM, Phase
<1> HIDE DEF phase
<1>5. TakesTime(phase)
  BY <1>3, <1>4 DEF TakesTime
<1> QED
  BY <1>1, <1>5

\* So does the softmax of the PIM without near-bank units.
LEMMA GroupSoftmaxTakes ==
  ASSUME NEW gen, Decodes(gen), Len(gen) # 0, NEW i, Dimensions(i), i.H \in Positive, ~i.nearbank
  PROVE  TakesTime(GenSoftmaxPIM(i, gen))
<1> DEFINE g == [k \in 1 .. Len(gen) |-> 7 * gen[k].m * gen[k].n * i.H]
           n == Len(gen)
           f == Total(g)
           phase == GenSoftmaxPIM(i, gen)
<1>1. n \in Nat /\ 1 \in 1 .. n /\ gen \in Seq(Spans)
  BY SequencesAre DEF Decodes
<1>2. ASSUME NEW k \in 1 .. n
      PROVE  g[k] \in Nat /\ g[k] >= 2
  <2> DEFINE l == gen[k].n
             h == i.H
  <2>1. l \in Positive /\ gen[k].m = 1 /\ h \in Positive
    BY <1>1, SequencesAre DEF Decodes, Positive
  <2>2. g[k] = 7 * 1 * l * h
    BY <2>1
  <2> HIDE DEF g, l, h
  <2>3. l * h \in Positive
    BY <2>1, Twice
  <2>4. 7 * 1 * l * h = 7 * (l * h)
    BY <2>1 DEF Positive
  <2> DEFINE x == l * h
  <2> HIDE DEF x
  <2>5. 7 * x \in Nat /\ 7 * x >= 2
    BY <2>3 DEF x, Positive
  <2> QED
    BY <2>2, <2>4, <2>5 DEF x
<1>3. Numbers(g, n) /\ g[1] >= 2
  BY <1>1, <1>2 DEF Numbers
<1>4. OverSequences(LAMBDA s : 7 * s.m * s.n * i.H, gen) = f
  BY DEF OverSequences
<1>5. phase.opb = << >> /\ phase.compute = ComputeTime("PIM", i.precision, f)
  <2> HIDE DEF f
  <2> QED
    BY <1>4 DEF GenSoftmaxPIM, ComputeOnly, Phase
<1> HIDE DEF g, n, phase
<1>6. f \in Nat /\ f >= 2
  BY <1>1, <1>3, TotalTakes
<1> HIDE DEF f
<1>7. phase.compute # 0
  BY <1>5, <1>6, ComputeTakes DEF Processor
<1> QED
  BY <1>5, <1>7 DEF TakesTime, phase

\* One phase of the first two that takes time makes three of them work.
LEMMA WorkedAfter ==
  ASSUME NEW a, NEW b, NEW c, TakesTime(a) \/ TakesTime(b)
  PROVE  Worked(<< a, b, c >>)
<1>1. Phased(<< a, b, c >>, 3)
  BY DEF Phased
<1>2. << a, b, c >>[1] = a /\ << a, b, c >>[2] = b /\ 1 \in 1 .. 3 /\ 2 \in 1 .. 3
  OBVIOUS
<1> DEFINE ps == << a, b, c >>
<1> HIDE DEF ps
<1>3. Phased(ps, 3) /\ ps[1] = a /\ ps[2] = b
  BY <1>1, <1>2 DEF ps
<1>4. TakesTime(ps[1]) \/ TakesTime(ps[2])
  BY <1>3
<1>5. Worked(ps)
  BY <1>2, <1>3, <1>4 DEF Worked
<1> QED
  BY <1>5 DEF ps

\* Decode steps of grouped heads are work on every processor.
LEMMA GroupGenWorked ==
  ASSUME NEW gen, Decodes(gen), Len(gen) # 0, NEW i, Dimensions(i), i.group \in Positive,
         i.KVH \in Positive, i.hd \in Positive, i.H \in Positive, NEW p \in Processor
  PROVE  Worked(GenPhases("ATTENTION_GEN", p, i, gen))
<1> DEFINE f == GroupFlops(i, gen)
<1>1. f \in Nat /\ f >= 2
  BY GroupFlopsTake
<1>2. CASE p = "GPU"
  <2> DEFINE bytes == i.precision * i.KVH * OverSequences(LAMBDA s : (s.m * i.hd * i.H) \div i.KVH + i.hd * s.n
                                                          + (s.m * s.n * i.H) \div i.KVH, gen)
             moves == << Read("GPU", Context(gen) * i.hd * i.KVH) >>
             phase == GenScoringGPU(i, gen)
  <2>1. phase = Phase(i, "GPU", f, bytes, moves)
    BY DEF GenScoringGPU
  <2> HIDE DEF f, bytes, moves, phase
  <2>2. TakesTime(phase)
    BY <1>1, <2>1, PhaseTakes DEF Processor
  <2>3. Worked(<< phase >>)
    BY <2>2, WorkedOne
  <2> QED
    BY <1>2, <2>3 DEF GenPhases, ByProcessor, AttentionGenExecutionGPU, phase
<1>3. CASE p = "LOGIC"
  <2> DEFINE phase == GenProductLogic(i, gen)
             bytes == CacheBytes(i, gen)
  <2>1. Costs(phase, "LOGIC", i.precision, f, bytes)
    BY DEF GenProductLogic, Phase, Costs
  <2>2. GenPhases("ATTENTION_GEN", p, i, gen) = << phase, phase >>
    BY <1>3 DEF GenPhases, ByProcessor, AttentionGenExecutionLogic, GenScoringLogic, GenContextLogic
  <2> HIDE DEF f, bytes, phase
  <2>3. TakesTime(phase)
    BY <1>1, <2>1, CostsTakes DEF Processor
  <2>4. Worked(<< phase >>) /\ Phased(<< phase >>, 1)
    BY <2>3, WorkedOne DEF Phased
  <2>5. Worked(<< phase >> \o << phase >>)
    BY <2>4, WorkedJoin
  <2>6. << phase >> \o << phase >> = << phase, phase >>
    BY PairOf
  <2>7. Worked(<< phase, phase >>)
    BY <2>5, <2>6, Zenon
  <2> QED
    BY <2>2, <2>7
<1>4. CASE p = "PIM"
  <2>1. TakesTime(GenScoringPIM(i, gen)) \/ TakesTime(GenSoftmaxPIM(i, gen))
    BY NearScoringTakes, GroupSoftmaxTakes
  <2>2. Worked(<< GenScoringPIM(i, gen), GenSoftmaxPIM(i, gen), GenContextPIM(i, gen) >>)
    BY <2>1, WorkedAfter
  <2> QED
    BY <1>4, <2>2 DEF GenPhases, ByProcessor, AttentionGenExecutionPIM
<1> QED
  BY <1>2, <1>3, <1>4 DEF Processor

\* A decode layer takes time exactly when there is a token to decode.
LEMMA GenWhenNeeded ==
  ASSUME NEW call, call.layer \in DecodeLayers, NEW i, Sized(call.layer, i), NEW p \in Processor,
         NEW c, NEW w, WorkType(c, w), w.batch \in Seq(Spans)
  PROVE  WhenNeeded(call, p, i, w.batch)
<1> DEFINE gen == get_gen(w.batch)
           l == call.layer
<1>1. ExecutionPhases(call, p, i, w.batch)
        = IF Tokens(gen) = 0 THEN << >> ELSE GenPhases(l, p, i, gen)
  BY DEF ExecutionPhases, SumLayer, GenLayer, DecodeLayers
<1>2. NothingToDo(call, w.batch) <=> Tokens(gen) = 0
  BY DEF NothingToDo, Chosen, SumLayer, AttentionLayers, DecodeLayers
<1>3. ASSUME Tokens(gen) # 0
      PROVE  Worked(GenPhases(l, p, i, gen))
  <2>1. Decodes(gen)
    BY <1>3, DecodesOne
  <2>2. gen \in Seq(Spans)
    BY <2>1 DEF Decodes
  <2> HIDE DEF gen
  <2>3. Len(gen) # 0
    BY <1>3, <2>2, TokensSomewhere
  <2>4. /\ Dimensions(i) /\ i.hd \in Positive /\ i.H \in Positive /\ i.KVH \in Positive
        /\ l = "ATTENTION_GEN" => i.group \in Positive
        /\ l = "ABSORBED_MLA_GEN" => i.rank \in Positive
    BY DEF Sized, AttentionInfo
  <2>5. l \in {"ATTENTION_GEN", "MLA_GEN", "ABSORBED_MLA_GEN"}
    BY DEF DecodeLayers
  <2> HIDE DEF l
  <2>6. CASE l = "ATTENTION_GEN"
    BY <2>1, <2>3, <2>4, <2>6, GroupGenWorked
  <2>7. CASE l = "MLA_GEN"
    BY <2>1, <2>3, <2>4, <2>7, LatentGenWorked
  <2>8. CASE l = "ABSORBED_MLA_GEN"
    BY <2>1, <2>3, <2>4, <2>8, AbsorbedGenWorked
  <2> QED
    BY <2>5, <2>6, <2>7, <2>8
<1> HIDE DEF gen
<1> QED
  BY <1>1, <1>2, <1>3 DEF WhenNeeded

\* What the LayerInfo of a call says, also with the columns that an execution leaves.
SameButColumns(i, j) ==
  /\ i.cols \in Nat
  /\ \A f \in InfoFields \ {"cols"} : i[f] = j[f]

\* The info that a call is tried with differs from its own in the columns at most.
LEMMA InfosAre ==
  ASSUME NEW c, SystemType(c), NEW a, NEW b, Pair(c, a, b), a.layer \in AttentionLayers,
         NEW i \in Infos(a)
  PROVE  SameButColumns(i, a.info)
<1>1. DOMAIN a.info = InfoFields /\ Attends(c, a, b)
  BY DEF Pair, Described, Computes, AttentionLayers, DecodeLayers
<1>2. a.info.cols \in Nat /\ a.info.H \in Nat /\ a.info.KVH \in Nat /\ a.info.hd \in Nat
  BY <1>1, PairFields DEF Attends, Positive
<1>3. Columns(a) \subseteq Nat
  <2> DEFINE h == a.info.H
             g == a.info.KVH
             d == a.info.hd
  <2>1. d * h \in Nat /\ d * g \in Nat
    BY <1>2, ProductType
  <2> QED
    BY <1>2, <2>1 DEF Columns
<1>4. CASE i = a.info
  BY <1>2, <1>4 DEF SameButColumns
<1>5. CASE i # a.info
  <2>1. PICK cols \in Columns(a) : i = [a.info EXCEPT !.cols = cols]
    BY <1>5 DEF Infos
  <2>2. "cols" \in InfoFields
    BY DEF InfoFields
  <2>3. i.cols = cols
    BY <1>1, <2>1, <2>2
  <2>4. \A f \in InfoFields \ {"cols"} : i[f] = a.info[f]
    BY <1>1, <2>1
  <2> QED
    BY <1>3, <2>3, <2>4 DEF SameButColumns
<1> QED
  BY <1>4, <1>5

\* Then all the other fields are the same,
LEMMA InfoKept ==
  ASSUME NEW i, NEW j, SameButColumns(i, j)
  PROVE  /\ i.cols \in Nat
         /\ i.precision = j.precision /\ i.hd = j.hd /\ i.H = j.H /\ i.KVH = j.KVH
         /\ i.group = j.group /\ i.rope = j.rope /\ i.rank = j.rank
         /\ i.use_flash_attention = j.use_flash_attention
         /\ i.use_flash_mla = j.use_flash_mla /\ i.nearbank = j.nearbank
BY DEF SameButColumns, InfoFields

\* and so are the sizes that the phases need.
LEMMA SizedKept ==
  ASSUME NEW layer, NEW j, Sized(layer, j), NEW i, SameButColumns(i, j)
  PROVE  Sized(layer, i)
<1>1. /\ i.cols \in Nat
      /\ i.precision = j.precision /\ i.hd = j.hd /\ i.H = j.H /\ i.KVH = j.KVH
      /\ i.group = j.group /\ i.rope = j.rope /\ i.rank = j.rank
      /\ i.use_flash_attention = j.use_flash_attention
      /\ i.use_flash_mla = j.use_flash_mla /\ i.nearbank = j.nearbank
  BY InfoKept
<1>2. AttentionInfo(layer, j)
  BY DEF Sized
<1>3. Dimensions(i)
  BY <1>1, <1>2 DEF AttentionInfo, Dimensions
<1>4. Tile(i) = Tile(j)
  BY <1>1 DEF Tile
<1>5. HasTiles(j) => HasTiles(i)
  BY <1>1, <1>3, <1>4 DEF HasTiles
<1>6. AttentionInfo(layer, i)
  BY <1>1, <1>2, <1>3, <1>5 DEF AttentionInfo
<1> QED
  BY <1>1, <1>6 DEF Sized

\* The sizes of an attention layer of a pair.
LEMMA PairSized ==
  ASSUME NEW c, SystemType(c), HasRoom(c), NEW a, NEW b, Pair(c, a, b), a.layer \in AttentionLayers
  PROVE  Sized(a.layer, a.info)
<1> DEFINE i == a.info
<1>1. Attends(c, a, b)
  BY DEF Pair, Computes, AttentionLayers, DecodeLayers
<1>2. AttentionInfo(a.layer, i)
  BY PairAttends
<1>3. i.precision \in Positive /\ i.hd \in Positive /\ i.H \in Positive /\ i.KVH \in Positive
  BY <1>1, PairFields DEF Attends
<1>4. a.layer = "ATTENTION_GEN" => i.group \in Positive
  <2> SUFFICES ASSUME a.layer = "ATTENTION_GEN" PROVE i.group \in Positive
    OBVIOUS
  <2>1. i.group = i.H \div i.KVH /\ i.KVH <= i.H
    BY <1>1 DEF Attends
  <2> DEFINE h == i.H
             g == i.KVH
  <2>2. h \in Nat /\ g \in Nat /\ g >= 1 /\ g <= h
    BY <1>3, <2>1 DEF Positive
  <2> HIDE DEF h, g
  <2>3. h \div g \in Nat /\ h \div g >= 1
    BY <2>2
  <2> QED
    BY <2>1, <2>3 DEF h, g, Positive
<1>5. a.layer \in {"ABSORBED_MLA_SUM", "ABSORBED_MLA_GEN"} => i.rank \in Positive
  BY <1>1 DEF Attends
<1> QED
  BY <1>2, <1>3, <1>4, <1>5 DEF Sized

\* The operations of a prompt are counted in an int that holds them.
LEMMA PromptsAreInts ==
  ASSUME NEW c, SystemType(c), NEW a, NEW b, Pair(c, a, b), a.layer = "ATTENTION_SUM",
         NEW batch \in Seq(Spans), PromptsFit(c, batch)
  PROVE  IntFits(a.info, get_sum(batch))
<1>1. c.model.qk_rope_head_dim = 0
  <2>1. Attends(c, a, b)
    BY DEF Pair, Computes, AttentionLayers, DecodeLayers
  <2> QED
    BY <2>1 DEF Attends
<1>2. \A k \in DOMAIN batch :
        batch[k].sum => batch[k].m * batch[k].n * c.model.head_dim < IntLimit
  BY <1>1 DEF PromptsFit
<1> DEFINE S == { s \in Range(batch) : s.sum }
<1>3. \A s \in S : s.m * s.n * c.model.head_dim < IntLimit
  BY <1>2 DEF Range
<1>4. get_sum(batch) \in Seq(S)
  BY ChosenType
<1> HIDE DEF S
<1>5. \A k \in 1 .. Len(get_sum(batch)) : get_sum(batch)[k] \in S
  BY <1>4
<1>6. a.info.hd = c.model.head_dim
  BY PairFields
<1> QED
  BY <1>3, <1>5, <1>6 DEF IntFits

\* Whatever the processor and the columns, a call of a decoder takes no time when
\* there is nothing to do, and some time otherwise.
LEMMA PairNeeded ==
  ASSUME NEW c, SystemType(c), HasRoom(c), NEW a, NEW b, Pair(c, a, b), a.layer # "none",
         NEW w, WorkType(c, w), w.batch \in Seq(Spans), PromptsFit(c, w.batch),
         NEW i \in Infos(a), NEW p \in Processor
  PROVE  WhenNeeded(a, p, i, w.batch)
<1>1. CASE a.layer \in AttentionLayers
  <2>1. Sized(a.layer, i) /\ SameButColumns(i, a.info)
    BY <1>1, InfosAre, PairSized, SizedKept
  <2>2. CASE a.layer \in DecodeLayers
    BY <2>1, <2>2, GenWhenNeeded
  <2>3. CASE a.layer \notin DecodeLayers
    <3>1. a.layer \in SumLayer
      BY <1>1, <2>3 DEF AttentionLayers, SumLayer
    <3>2. a.layer = "ATTENTION_SUM" => IntFits(i, get_sum(w.batch))
      <4>1. SUFFICES ASSUME a.layer = "ATTENTION_SUM" PROVE IntFits(i, get_sum(w.batch))
        OBVIOUS
      <4>2. IntFits(a.info, get_sum(w.batch))
        BY <4>1, PromptsAreInts
      <4>3. i.hd = a.info.hd
        BY <2>1, InfoKept
      <4> QED
        BY <4>2, <4>3 DEF IntFits
    <3> QED
      BY <2>1, <3>1, <3>2, SumWhenNeeded
  <2> QED
    BY <2>2, <2>3
<1>2. CASE a.layer = "LINEAR"
  <2>1. \E share : Projection(a, b, share)
    BY <1>2 DEF Pair, Computes, AttentionLayers, DecodeLayers
  <2>2. PICK m \in Nat, k, n \in Positive : a.in.shape = << m, k >> /\ a.w = << k, n >>
    BY <2>1 DEF Projection
  <2> QED
    BY <1>2, <2>2, LinearWhenNeeded
<1>3. CASE a.layer = "BATCHED_LINEAR"
  <2>1. HeadProjection(a, b, c.ne_tp_dg)
    BY <1>3 DEF Pair, Computes, AttentionLayers, DecodeLayers
  <2>2. PICK m \in Nat, h, k, n \in Positive : a.in.shape = << h, m, k >> /\ a.w = << h, k, n >>
    BY <2>1 DEF HeadProjection
  <2> QED
    BY <1>3, <2>2, BatchedWhenNeeded
<1>4. CASE a.layer = "ACTIVATION"
  <2>1. \E share : Activates(a, b, share)
    BY <1>4 DEF Pair, Computes, AttentionLayers, DecodeLayers
  <2>2. PICK m \in Nat, f, k \in Positive : a.in.shape = << m, k * f >> /\ a.out.shape = << m, k >>
    BY <2>1 DEF Activates
  <2> DEFINE l == k * f
  <2>3. l \in Positive /\ a.in.shape = << m, l >>
    BY <2>2, ProductType DEF Positive
  <2> HIDE DEF l
  <2>4. i.precision \in Positive
    <3>1. a.info.precision \in Positive /\ DOMAIN a.info = InfoFields
      BY PairFields DEF Pair, Described
    <3>2. i.precision = a.info.precision
      BY <3>1 DEF Infos, InfoFields
    <3> QED
      BY <3>1, <3>2
  <2> QED
    BY <1>4, <2>2, <2>3, <2>4, ActivationWhenNeeded
<1> QED
  BY <1>1, <1>2, <1>3, <1>4 DEF Pair, Computes

\* The columns that an execution leaves to the next.
LEMMA InfoTried ==
  ASSUME NEW a, NEW cols \in Columns(a)
  PROVE  [a.info EXCEPT !.cols = cols] \in Infos(a)
BY DEF Infos

\* The precision that a call is tried with is not zero.
LEMMA PrecisionTried ==
  ASSUME NEW c, SystemType(c), NEW a, NEW b, Pair(c, a, b), NEW i \in Infos(a)
  PROVE  i.precision \in Positive
<1>1. a.info.precision \in Positive /\ DOMAIN a.info = InfoFields
  BY PairFields DEF Pair, Described
<1>2. i.precision = a.info.precision
  BY <1>1 DEF Infos, InfoFields
<1> QED
  BY <1>1, <1>2

\* The call that is tried takes time exactly when it has work.
LEMMA TriedNeeded ==
  ASSUME PlaceInv, trial.step = "try", NEW i \in Infos(CallOf(turn)), NEW p \in Processor
  PROVE  /\ WhenNeeded(CallOf(turn), p, i, work[turn].batch)
         /\ Phases(CallOf(turn), p, i, work[turn].batch)
              = ExecutionPhases(CallOf(turn), p, i, work[turn].batch)
         /\ i.precision \in Positive
<1> DEFINE a == CallOf(turn)
           w == work[turn]
<1>1. PICK b : Pair(system, a, b)
  BY TriedPair
<1>2. /\ turn \in Devices /\ w.batch \in Seq(Spans) /\ SystemType(system) /\ HasRoom(system)
      /\ WorkType(system, w) /\ PromptsFit(system, w.batch) /\ a.layer # "none"
  BY TriedPair, GraphsOf
<1>3. Phases(a, p, i, w.batch) = ExecutionPhases(a, p, i, w.batch)
  BY TriedPhases
<1>4. i \in Infos(a)
  OBVIOUS
<1> HIDE DEF a, w
<1>5. i.precision \in Positive
  BY <1>1, <1>2, <1>4, PrecisionTried
<1>6. WhenNeeded(a, p, i, w.batch)
  BY <1>1, <1>2, <1>4, PairNeeded
<1> QED
  BY <1>3, <1>5, <1>6 DEF a, w

\* The duration of an attempt is zero exactly if there is nothing to do.
LEMMA AttemptZero ==
  ASSUME RamulatorTakesTime, PlaceInv, trial.step = "try", trial.left # << >>,
         NEW i, i = [CallOf(turn).info EXCEPT !.cols = trial.cols],
         NEW p, p = Head(trial.left), NEW cache, CacheType(cache),
         Settled(system, CallOf(turn), p, i, work[turn].batch, cache)
  PROVE  Attempt(system, CallOf(turn), p, i, work[turn].batch, cache).total = 0
           <=> NothingToDo(CallOf(turn), work[turn].batch)
<1> DEFINE a == CallOf(turn)
           batch == work[turn].batch
           phases == Phases(a, p, i, batch)
           layer == KeyLayer(a)
           t == Attempt(system, a, p, i, batch, cache).total
<1>1. p \in Processor /\ Countable(phases)
  BY Tried
<1>2. i \in Infos(a)
  BY InfoTried DEF PlaceInv
<1>3. WhenNeeded(a, p, i, batch) /\ phases = ExecutionPhases(a, p, i, batch)
      /\ i.precision \in Positive
  BY <1>1, <1>2, TriedNeeded
<1>4. /\ NothingToDo(a, batch) => phases = << >>
      /\ ~NothingToDo(a, batch) => Worked(phases)
  BY <1>3 DEF WhenNeeded
<1>5. system.use_ramulator => InCache(layer, i.precision, phases, cache)
  BY DEF Settled
<1>6. t = IF system.use_ramulator THEN CachedTotal(layer, i.precision, phases, cache)
          ELSE RunIdeal(phases)
  BY DEF Attempt
<1> SUFFICES t = 0 <=> NothingToDo(a, batch)
  OBVIOUS
<1> HIDE DEF phases, layer, t, a, batch
<1>7. CASE NothingToDo(a, batch)
  BY <1>4, <1>6, <1>7, NoneTakes
<1>8. CASE ~NothingToDo(a, batch)
  <2>1. RunIdeal(phases) # 0
    BY <1>1, <1>4, <1>8, WorkedRuns
  <2>2. system.use_ramulator => CachedTotal(layer, i.precision, phases, cache) # 0
    BY <1>1, <1>3, <1>4, <1>5, <1>8, WorkedTakes
  <2>3. t # 0
    BY <1>6, <2>1, <2>2
  <2> QED
    BY <1>8, <2>3
<1> QED
  BY <1>7, <1>8

\* The processors tried for a call agree on whether it takes time at all.
ZeroInv ==
  trial.step # "push" =>
    /\ trial.tried \in Seq(ExecStatus)
    /\ \A k \in DOMAIN trial.tried :
         trial.tried[k].total = 0 <=> NothingToDo(CallOf(turn), work[turn].batch)

\* A trial is free for all the processors tried so far, or for none.
LEMMA ZeroTry ==
  ASSUME RamulatorTimes, RamulatorTakesTime, PlaceInv, TypeInv, ZeroInv, NEW d \in Devices, Try(d)
  PROVE  ZeroInv'
<1> DEFINE p == Head(trial.left)
           i == [CallOf(turn).info EXCEPT !.cols = trial.cols]
           e == executePType(system, CallOf(turn), p, i, work[turn].batch, execution_time_cache,
                             dram[turn])
           result == e.status
           none == NothingToDo(CallOf(turn), work[turn].batch)
<1>1. turn = d /\ trial.step = "try" /\ trial.left # << >>
  BY DEF Try, Runs
<1>2. result \in ExecStatus /\ (result.total = 0 <=> none)
  <2>1. CacheType(execution_time_cache) /\ dram[turn] \in Nat
    BY <1>1 DEF TypeInv
  <2>2. /\ e.status \in ExecStatus /\ CacheType(e.dram.cache)
        /\ Delivers(e, system, CallOf(turn), p, i, work[turn].batch)
    BY <1>1, <2>1, Executed
  <2> DEFINE after == e.dram.cache
  <2>3. /\ CacheType(after) /\ Settled(system, CallOf(turn), p, i, work[turn].batch, after)
        /\ result = Attempt(system, CallOf(turn), p, i, work[turn].batch, after)
    BY <2>2 DEF Delivers
  <2> HIDE DEF after, result
  <2>4. Attempt(system, CallOf(turn), p, i, work[turn].batch, after).total = 0 <=> none
    BY <1>1, <2>3, AttemptZero
  <2> QED
    BY <2>2, <2>3, <2>4 DEF result
<1>3. /\ trial'.step = "try" /\ trial'.tried = Append(trial.tried, result)
      /\ UNCHANGED << turn, work, calls, cur >>
  <2>1. {"step", "tried"} \subseteq DOMAIN trial
    BY DEF PlaceInv, NoTrial
  <2>2. /\ trial' = [trial EXCEPT
                       !.left = Tail(@),
                       !.optimal = IF Better(@, result) THEN result ELSE @,
                       !.tried = Append(@, result),
                       !.cols = IF CallOf(d).layer = "ATTENTION_SUM"
                                THEN ColsAfterSum(i, p) ELSE @]
        /\ UNCHANGED << turn, work, calls, cur >>
    BY <1>1 DEF Try
  <2> HIDE DEF result, e, i, p
  <2> QED
    BY <1>1, <2>1, <2>2
<1>4. trial.tried \in Seq(ExecStatus) /\ \A k \in DOMAIN trial.tried : trial.tried[k].total = 0 <=> none
  BY <1>1 DEF ZeroInv
<1>5. NothingToDo(CallOf(turn), work[turn].batch)' = none
  BY <1>3 DEF CallOf, NothingToDo
<1> DEFINE tried == trial.tried
           all == Append(tried, result)
<1> HIDE DEF p, i, e, result, none, tried
<1>6. /\ all \in Seq(ExecStatus) /\ DOMAIN all = 1 .. Len(tried) + 1 /\ all[Len(tried) + 1] = result
      /\ Len(tried) \in Nat /\ DOMAIN tried = 1 .. Len(tried)
      /\ \A k \in 1 .. Len(tried) : all[k] = tried[k]
  BY <1>2, <1>4 DEF tried
<1>7. trial'.tried = all
  BY <1>3 DEF tried
<1> HIDE DEF all
<1>8. ASSUME NEW k \in DOMAIN all PROVE all[k].total = 0 <=> none
  <2>1. k \in 1 .. Len(tried) \/ k = Len(tried) + 1
    BY <1>6
  <2> QED
    BY <1>2, <1>4, <1>6, <2>1 DEF tried
<1> QED
  BY <1>5, <1>6, <1>7, <1>8 DEF ZeroInv

\* No step makes one processor free that is not free on another.
LEMMA ZeroStep ==
  ASSUME RamulatorTimes, RamulatorTakesTime
  PROVE  PlaceInv /\ TypeInv /\ ZeroInv /\ [Next]_vars => ZeroInv'
<1> SUFFICES ASSUME PlaceInv, TypeInv, ZeroInv, [Next]_vars PROVE ZeroInv'
  OBVIOUS
<1>1. ASSUME NEW d \in Devices, Push(d) PROVE ZeroInv'
  <2>1. trial'.tried = << >>
    BY <1>1 DEF Push, NoTrial
  <2> QED
    BY <2>1 DEF ZeroInv
<1>2. ASSUME NEW d \in Devices, Deliver(d) PROVE ZeroInv'
  <2>1. /\ trial.step = "try" /\ trial' = [trial EXCEPT !.step = "pop"]
        /\ UNCHANGED << turn, work, calls, cur >>
    BY <1>2 DEF Deliver, Runs
  <2>2. trial'.tried = trial.tried
    BY <2>1
  <2>3. NothingToDo(CallOf(turn), work[turn].batch)' = NothingToDo(CallOf(turn), work[turn].batch)
    BY <2>1 DEF CallOf, NothingToDo
  <2> QED
    BY <2>1, <2>2, <2>3 DEF ZeroInv
<1>3. ASSUME NEW d \in Devices, Pop(d) PROVE ZeroInv'
  <2>1. trial'.step = "push"
    BY <1>3 DEF Pop, NoTrial
  <2> QED
    BY <2>1 DEF ZeroInv
<1>4. ASSUME NEW d \in Devices, Synchronise(d) PROVE ZeroInv'
  <2>1. trial.step = "push" /\ trial' = trial
    BY <1>4 DEF Synchronise, Runs, PlaceInv
  <2> QED
    BY <2>1 DEF ZeroInv
<1>5. ASSUME NEW d \in Devices, NextDevice(d) PROVE ZeroInv'
  <2>1. trial.step = "push" /\ trial' = trial
    BY <1>5 DEF NextDevice, PlaceInv
  <2> QED
    BY <2>1 DEF ZeroInv
<1>6. CASE Restart
  <2>1. trial.step = "push" /\ trial' = trial
    BY <1>6 DEF Restart, AllDone, PlaceInv
  <2> QED
    BY <2>1 DEF ZeroInv
<1>7. CASE UNCHANGED vars
  <2>1. UNCHANGED << trial, turn, work, calls, cur >>
    BY <1>7 DEF vars
  <2>2. NothingToDo(CallOf(turn), work[turn].batch)' = NothingToDo(CallOf(turn), work[turn].batch)
    BY <2>1 DEF CallOf, NothingToDo
  <2> QED
    BY <2>1, <2>2 DEF ZeroInv
<1> QED
  BY <1>1, <1>2, <1>3, <1>4, <1>5, <1>6, <1>7, ZeroTry DEF Next

\* What the invariant says of the trials that are over.
LEMMA ZeroIsTogether ==
  ASSUME PlaceInv, ZeroInv
  PROVE  ZeroTogether
<1>1. CASE trial.step = "push"
  <2>1. trial.tried = << >>
    BY <1>1 DEF PlaceInv, NoTrial
  <2>2. DOMAIN trial.tried = {}
    BY <2>1
  <2> QED
    BY <2>2 DEF ZeroTogether
<1>2. CASE trial.step # "push"
  BY <1>2 DEF ZeroInv, ZeroTogether
<1> QED
  BY <1>1, <1>2

\* The floating point operations of a call are those of the GPU on every processor.
LEMMA SameOperations ==
  ASSUME NEW c, SystemType(c), HasRoom(c), NEW a, NEW b, Pair(c, a, b), a.layer \in SameLayers,
         ~(a.layer = "MLA_SUM" /\ a.info.use_flash_attention),
         NEW batch \in Seq(Spans), PromptsFit(c, batch), NEW p \in Processor
  PROVE  Flops(ExecutionPhases(a, p, a.info, batch)) = Flops(ExecutionPhases(a, "GPU", a.info, batch))
<1> DEFINE i == a.info
<1>1. "GPU" \in Processor
  BY DEF Processor
<1>2. CASE a.layer = "LINEAR"
  <2>1. \E share : Projection(a, b, share)
    BY <1>2 DEF Pair, Computes, AttentionLayers, DecodeLayers
  <2>2. PICK m \in Nat, k, n \in Positive : a.in.shape = << m, k >> /\ a.w = << k, n >>
    BY <2>1 DEF Projection
  <2> DEFINE x == m * (2 * (k * n))
  <2>3. \A q \in Processor : Sums(ExecutionPhases(a, q, i, batch), "flops", x)
    BY <1>2, <2>2, LinearFlops
  <2> HIDE DEF x, i
  <2>4. \A q \in Processor : Flops(ExecutionPhases(a, q, i, batch)) = x
    BY <2>3, FlopsAre
  <2> QED
    BY <1>1, <2>4 DEF i
<1>3. CASE a.layer # "LINEAR"
  <2>1. a.layer \in AttentionLayers \ {"ATTENTION_GEN"}
    BY <1>3 DEF SameLayers, AttentionLayers, DecodeLayers
  <2>2. AttentionInfo(a.layer, i)
    BY <2>1, PairAttends
  <2>3. SameAttention(a.layer, i) /\ Dimensions(i)
    BY <2>1, <2>2 DEF SameAttention, AttentionInfo
  <2>4. a.layer = "ATTENTION_SUM" => IntFits(i, get_sum(batch))
    BY PromptsAreInts
  <2> DEFINE x == CallWork(a.layer, i, batch)
  <2> HIDE DEF i
  <2>5. \A q \in Processor : Sums(ExecutionPhases(a, q, i, batch), "flops", x)
    BY <2>3, <2>4, SameAttentionWork
  <2> HIDE DEF x
  <2>6. \A q \in Processor : Flops(ExecutionPhases(a, q, i, batch)) = x
    BY <2>5, FlopsAre
  <2> QED
    BY <1>1, <2>6 DEF i
<1> QED
  BY <1>2, <1>3

\* The operations of the call that is tried are those of the GPU.
LEMMA TriedFlops ==
  ASSUME PlaceInv, trial.step = "try", CallOf(turn).layer \in SameLayers,
         ~(CallOf(turn).layer = "MLA_SUM" /\ CallOf(turn).info.use_flash_attention),
         NEW p \in Processor
  PROVE  Flops(Phases(CallOf(turn), p, CallOf(turn).info, work[turn].batch))
           = Flops(Phases(CallOf(turn), "GPU", CallOf(turn).info, work[turn].batch))
<1> DEFINE a == CallOf(turn)
           batch == work[turn].batch
<1>1. PICK b : Pair(system, a, b)
  BY TriedPair
<1>2. /\ batch \in Seq(Spans) /\ SystemType(system) /\ HasRoom(system) /\ PromptsFit(system, batch)
      /\ a.layer \in SameLayers /\ ~(a.layer = "MLA_SUM" /\ a.info.use_flash_attention)
  BY TriedPair
<1>3. \A q \in Processor : Phases(a, q, a.info, batch) = ExecutionPhases(a, q, a.info, batch)
  BY TriedPhases DEF Infos
<1>4. "GPU" \in Processor
  BY DEF Processor
<1> SUFFICES Flops(Phases(a, p, a.info, batch)) = Flops(Phases(a, "GPU", a.info, batch))
  OBVIOUS
<1> HIDE DEF a, batch
<1>5. Flops(ExecutionPhases(a, p, a.info, batch)) = Flops(ExecutionPhases(a, "GPU", a.info, batch))
  BY <1>1, <1>2, SameOperations
<1> QED
  BY <1>3, <1>4, <1>5

\* The invariant gives the property.
LEMMA SameWorkStep ==
  ASSUME PlaceInv, ZeroInv
  PROVE  SameWork
BY TriedFlops, ZeroIsTogether DEF SameWork

\* The same call is the same work on every processor: as many operations, where all
\* the cost functions count them alike, and whatever the layer and the memory model,
\* some time on all of the processors tried or on none of them.
THEOREM SameWorkHolds == RamulatorTimes /\ RamulatorTakesTime => (Spec => []SameWork)
<1> SUFFICES ASSUME RamulatorTimes, RamulatorTakesTime PROVE Spec => []SameWork
  OBVIOUS
<1> DEFINE Inv == PlaceInv /\ TypeInv /\ ZeroInv
<1>1. Init => Inv
  <2>1. Init => ZeroInv
    BY DEF Init, NoTrial, ZeroInv
  <2> QED
    BY <2>1, PlaceInit, TypeInit
<1>2. Inv /\ [Next]_vars => Inv'
  BY PlaceStep, TypeStep, ZeroStep
<1>3. Inv => SameWork
  BY SameWorkStep
<1> QED
  BY <1>1, <1>2, <1>3, PTL DEF Spec

\* With the cost functions of the code, Executor::execution keeps the fastest of the
\* processors it tried: a duration of zero can stand for "none tried yet".
THEOREM FastestOfCodeHolds == RamulatorTimes /\ RamulatorTakesTime => (Spec => []ChosenFastest)
<1> SUFFICES ASSUME RamulatorTimes, RamulatorTakesTime PROVE Spec => []ChosenFastest
  OBVIOUS
<1>1. Spec => []SameWork
  BY SameWorkHolds
<1>2. SameWork => ZeroTogether
  BY DEF SameWork
<1>3. Spec /\ []ZeroTogether => []ChosenFastest
  BY ChosenFastestHolds
<1> QED
  BY <1>1, <1>2, <1>3, PTL

---------------------------------------------------------------------------
(* Remainders: what is counted of an interval by a remainder.              *)

\* Quotient and remainder.
LEMMA Divided ==
  ASSUME NEW n \in Nat, NEW m \in Positive
  PROVE  /\ n \div m \in Nat /\ n % m \in 0 .. m - 1
         /\ n = m * (n \div m) + (n % m)
<1> DEFINE r == n % m
           d == n \div m
<1>1. d \in Nat
  BY QuotientType DEF Positive
<1>2. r \in 0 .. m - 1 /\ n = m * d + r
  BY DEF Positive
<1> QED
  BY <1>1, <1>2

\* Quotients and remainders are numbers, remainders are below the divisor.
LEMMA Remains ==
  ASSUME NEW n \in Nat, NEW m \in Positive
  PROVE  n \div m \in Nat /\ n % m \in Nat /\ n % m < m
<1>1. m \in Nat
  BY DEF Positive
<1>2. n \div m \in Nat /\ n % m \in 0 .. m - 1
  BY Divided
<1> DEFINE r == n % m
<1> HIDE DEF r
<1>3. r \in Nat /\ r < m
  BY <1>1, <1>2 DEF r
<1> QED
  BY <1>2, <1>3 DEF r

\* They are known from what they make up.
LEMMA DividedIs ==
  ASSUME NEW m \in Positive, NEW n \in Nat, NEW q \in Int, NEW r \in 0 .. m - 1, n = m * q + r
  PROVE  n \div m = q /\ n % m = r
<1> DEFINE k == n \div m
           s == n % m
<1>1. k \in Nat /\ s \in 0 .. m - 1 /\ n = m * k + s
  BY Divided
<1>2. m \in Nat /\ m >= 1
  BY DEF Positive
<1> HIDE DEF k, s
<1>3. \A a, b \in Int : a < b => m * a + m <= m * b
  <2> SUFFICES ASSUME NEW a \in Int, NEW b \in Int, a < b PROVE m * a + m <= m * b
    OBVIOUS
  <2> DEFINE c == b - (a + 1)
  <2>1. c \in Nat /\ b = (a + 1) + c
    OBVIOUS
  <2> HIDE DEF c
  <2>2. m * c \in Nat
    BY <1>2, <2>1
  <2>3. m * b = m * a + m + m * c
    BY <1>2, <2>1
  <2>4. m * a \in Int
    BY <1>2
  <2> QED
    BY <1>2, <2>2, <2>3, <2>4
<1>4. m * k \in Int /\ m * q \in Int
  BY <1>1, <1>2
<1>5. ~(k < q)
  <2>1. k < q => m * k + m <= m * q
    BY <1>1, <1>3
  <2> QED
    BY <1>1, <1>2, <1>4, <2>1
<1>6. ~(q < k)
  <2>1. q < k => m * q + m <= m * k
    BY <1>1, <1>3
  <2> QED
    BY <1>1, <1>2, <1>4, <2>1
<1>7. k = q
  BY <1>1, <1>5, <1>6
<1>8. s = r
  BY <1>1, <1>4, <1>7
<1> QED
  BY <1>7, <1>8 DEF k, s

\* Two fields of an address, and one.
LEMMA MixedRadix ==
  ASSUME NEW n \in Nat, NEW c \in Positive, NEW m \in Positive
  PROVE  /\ c * m \in Positive
         /\ n \div (c * m) = (n \div c) \div m
         /\ n % (c * m) = c * ((n \div c) % m) + (n % c)
<1> DEFINE q == n \div c
           r == n % c
           u == q \div m
           v == q % m
           x == c * m
           w == c * v + r
<1>1. q \in Nat /\ r \in 0 .. c - 1 /\ n = c * q + r
  BY Divided
<1>2. u \in Nat /\ v \in 0 .. m - 1 /\ q = m * u + v
  BY <1>1, Divided
<1>3. c \in Nat /\ c >= 1 /\ m \in Nat /\ m >= 1
  BY DEF Positive
<1>4. x \in Positive
  BY ProductType DEF Positive
<1> HIDE DEF q, r, u, v, x
<1>5. w \in 0 .. x - 1
  <2>1. c * v <= c * (m - 1) /\ c * v \in Nat
    <3>1. m - 1 = v + (m - 1 - v) /\ m - 1 - v \in Nat /\ v \in Nat
      BY <1>2, <1>3
    <3> DEFINE y == m - 1 - v
    <3>2. y \in Nat /\ m - 1 = v + y
      BY <3>1
    <3> HIDE DEF y
    <3>3. c * (m - 1) = c * v + c * y
      BY <1>3, <3>1, <3>2
    <3>4. c * y \in Nat /\ c * v \in Nat
      BY <1>3, <3>1, <3>2
    <3> QED
      BY <3>3, <3>4
  <2>2. c * (m - 1) = x - c /\ x \in Nat
    BY <1>3, <1>4 DEF x, Positive
  <2> QED
    BY <1>1, <1>3, <2>1, <2>2
<1>6. n = x * u + w
  <2>1. c * (m * u + v) = (c * m) * u + c * v
    BY <1>2, <1>3
  <2>2. c * q = x * u + c * v
    BY <1>2, <2>1 DEF x
  <2>3. x * u \in Nat /\ c * v \in Nat
    BY <1>2, <1>3, <1>4 DEF Positive
  <2> QED
    BY <1>1, <2>2, <2>3
<1> HIDE DEF w
<1>7. n \div x = u /\ n % x = w
  BY <1>2, <1>4, <1>5, <1>6, DividedIs
<1> QED
  BY <1>4, <1>7 DEF w, x, u, v, q, r

\* A multiple of a product is one of the first factor, and its quotient one of the second.
LEMMA RadixZero ==
  ASSUME NEW n \in Nat, NEW c \in Positive, NEW m \in Positive
  PROVE  n % (c * m) = 0 <=> n % c = 0 /\ (n \div c) % m = 0
<1> DEFINE v == (n \div c) % m
           r == n % c
<1>1. n % (c * m) = c * v + r
  BY MixedRadix
<1>2. v \in Nat /\ r \in Nat /\ c \in Nat /\ c >= 1
  BY Divided DEF Positive
<1> HIDE DEF v, r
<1>3. c * v \in Nat /\ (c * v = 0 <=> v = 0)
  BY <1>2
<1> QED
  BY <1>1, <1>2, <1>3 DEF v, r

\* Quotient and remainder determine a number.
LEMMA SameParts ==
  ASSUME NEW a \in Nat, NEW b \in Nat, NEW m \in Positive, a % m = b % m, a \div m = b \div m
  PROVE  a = b
<1>1. a = m * (a \div m) + (a % m) /\ b = m * (b \div m) + (b % m)
  BY Divided
<1> QED
  BY <1>1

---------------------------------------------------------------------------
(* Counting sets by a function, and sums of counts.                      *)

\* A set that 0 .. q - 1 is mapped onto, one to one, has q members.
LEMMA CountBy ==
  ASSUME NEW S, NEW q \in Nat, NEW f, f = [i \in 0 .. q - 1 |-> f[i]],
         \A i \in 0 .. q - 1 : f[i] \in S,
         \A i, j \in 0 .. q - 1 : f[i] = f[j] => i = j,
         \A s \in S : \E i \in 0 .. q - 1 : f[i] = s
  PROVE  IsFiniteSet(S) /\ Cardinality(S) = q
<1> DEFINE I == 0 .. q - 1
<1>1. IsFiniteSet(I) /\ Cardinality(I) = q
  <2> DEFINE b == q - 1
  <2>1. b \in Int /\ 0 \in Int /\ b = q - 1
    OBVIOUS
  <2> HIDE DEF b
  <2>2. IsFiniteSet(0 .. b) /\ Cardinality(0 .. b) = IF 0 > b THEN 0 ELSE b - 0 + 1
    BY <2>1, FS_Interval
  <2>3. (IF 0 > b THEN 0 ELSE b - 0 + 1) = q
    BY <2>1
  <2> QED
    BY <2>1, <2>2, <2>3
<1>2. f \in Bijection(I, S)
  BY DEF Bijection, Injection, Surjection, IsInjective
<1>3. ExistsBijection(I, S)
  BY <1>2 DEF ExistsBijection
<1> QED
  BY <1>1, <1>3, FS_Bijection

\* The numbers below t that leave the remainder r.
LEMMA CountBelow ==
  ASSUME NEW t \in Nat, NEW m \in Positive, NEW r \in 0 .. m - 1
  PROVE  LET S == { j \in 0 .. t - 1 : j % m = r }
             q == (t + (m - 1 - r)) \div m
         IN IsFiniteSet(S) /\ q \in Nat /\ Cardinality(S) = q
<1> DEFINE S == { j \in 0 .. t - 1 : j % m = r }
           z == t + (m - 1 - r)
           q == z \div m
           f == [i \in 0 .. q - 1 |-> m * i + r]
<1>1. m \in Nat /\ m >= 1 /\ z \in Nat
  BY DEF Positive
<1>2. q \in Nat /\ z % m \in 0 .. m - 1 /\ z = m * q + (z % m)
  BY <1>1, Divided
<1>3. m * q <= z /\ z < m * q + m /\ m * q \in Nat
  BY <1>1, <1>2
<1> HIDE DEF q
<1>4. ASSUME NEW i \in 0 .. q - 1 PROVE m * i + r \in S
  <2>1. i \in Nat /\ m * i \in Nat /\ q = i + 1 + (q - i - 1) /\ q - i - 1 \in Nat
    BY <1>1, <1>2
  <2> DEFINE y == q - i - 1
  <2>2. y \in Nat /\ q = i + 1 + y
    BY <2>1
  <2> HIDE DEF y
  <2>3. m * q = m * i + m + m * y /\ m * y \in Nat
    BY <1>1, <2>1, <2>2
  <2>4. m * i + r < t /\ m * i + r \in Nat
    BY <1>1, <1>3, <2>1, <2>3
  <2>5. (m * i + r) % m = r
    BY <2>1, <2>4, DividedIs
  <2> QED
    BY <2>4, <2>5
<1>5. ASSUME NEW j \in S PROVE \E i \in 0 .. q - 1 : m * i + r = j
  <2> DEFINE i == j \div m
  <2>1. j \in Nat /\ j < t /\ j % m = r
    OBVIOUS
  <2>2. i \in Nat /\ j = m * i + r
    BY <2>1, Divided
  <2> HIDE DEF i
  <2>3. i < q
    <3> SUFFICES ASSUME i >= q PROVE FALSE
      BY <1>2, <2>2
    <3> DEFINE y == i - q
    <3>1. y \in Nat /\ i = q + y
      BY <1>2, <2>2
    <3> HIDE DEF y
    <3>2. m * i = m * q + m * y /\ m * y \in Nat
      BY <1>1, <1>2, <3>1
    <3> QED
      BY <1>1, <1>3, <2>1, <2>2, <3>2
  <2> QED
    BY <1>2, <2>2, <2>3
<1>6. ASSUME NEW i \in 0 .. q - 1, NEW j \in 0 .. q - 1, m * i + r = m * j + r PROVE i = j
  <2>1. i \in Nat /\ j \in Nat /\ m * i \in Nat /\ m * j \in Nat
    BY <1>1, <1>2
  <2>2. m * i = m * j
    BY <1>6, <2>1
  <2>3. m * (i - j) = 0
    BY <1>1, <2>1, <2>2
  <2> QED
    BY <1>1, <2>1, <2>3
<1> DEFINE T == S
<1>7. \A i \in 0 .. q - 1 : f[i] = m * i + r
  OBVIOUS
<1>8. f = [i \in 0 .. q - 1 |-> f[i]]
  OBVIOUS
<1> HIDE DEF f, S
<1>9. IsFiniteSet(S) /\ Cardinality(S) = q
  BY <1>2, <1>4, <1>5, <1>6, <1>7, <1>8, CountBy
<1> QED
  BY <1>2, <1>9 DEF S, q

\* Of m * q numbers that follow one another q leave the remainder r.
LEMMA CountShifted ==
  ASSUME NEW m \in Positive, NEW q \in Nat, NEW k \in Nat, NEW r \in 0 .. m - 1
  PROVE  LET S == { s \in 0 .. m * q - 1 : (s + k) % m = r }
         IN IsFiniteSet(S) /\ Cardinality(S) = q
<1> DEFINE S == { s \in 0 .. m * q - 1 : (s + k) % m = r }
           e == (r - k) % m
           w == (r - k) \div m
           f == [i \in 0 .. q - 1 |-> m * i + e]
<1>1. m \in Nat /\ m >= 1 /\ m * q \in Nat
  BY DEF Positive
<1>2. e \in 0 .. m - 1 /\ w \in Int /\ r - k = m * w + e
  BY DEF Positive
<1>3. m * w \in Int
  BY <1>1, <1>2
<1> HIDE DEF e, w
<1>4. ASSUME NEW i \in 0 .. q - 1 PROVE m * i + e \in S
  <2> DEFINE y == q - i - 1
             u == i - w
  <2>1. i \in Nat /\ m * i \in Nat /\ y \in Nat /\ q = i + 1 + y /\ u \in Int /\ i = w + u
    BY <1>1, <1>2
  <2> HIDE DEF y, u
  <2>2. m * q = m * i + m + m * y /\ m * y \in Nat /\ m * i = m * w + m * u /\ m * u \in Int
    BY <1>1, <1>2, <2>1
  <2>3. m * i + e < m * q /\ m * i + e \in Nat
    BY <1>1, <1>2, <2>1, <2>2
  <2>4. m * i + e + k = m * u + r /\ m * i + e + k \in Nat
    BY <1>1, <1>2, <1>3, <2>1, <2>2
  <2>5. (m * i + e + k) % m = r
    BY <2>1, <2>4, DividedIs
  <2> QED
    BY <1>1, <2>3, <2>5
<1>5. ASSUME NEW s \in S PROVE \E i \in 0 .. q - 1 : m * i + e = s
  <2> DEFINE u == (s + k) \div m
             i == u + w
  <2>1. s \in Nat /\ s < m * q /\ s + k \in Nat /\ (s + k) % m = r
    BY <1>1
  <2>2. u \in Nat /\ s + k = m * u + r
    BY <2>1, Divided
  <2> HIDE DEF u
  <2>3. i \in Int /\ i = u + w
    BY <1>2, <2>2
  <2> HIDE DEF i
  <2>4. m * i = m * u + m * w /\ m * u \in Int
    BY <1>1, <1>2, <2>2, <2>3
  <2>5. s = m * i + e
    BY <1>1, <1>2, <1>3, <2>1, <2>2, <2>4
  <2>6. i >= 0
    <3> SUFFICES ASSUME i <= -1 PROVE FALSE
      BY <2>3
    <3> DEFINE y == -1 - i
    <3>1. y \in Nat /\ i = -1 - y
      BY <2>3
    <3> HIDE DEF y
    <3>2. m * i = -m - m * y /\ m * y \in Nat
      BY <1>1, <3>1
    <3> QED
      BY <1>1, <1>2, <2>1, <2>5, <3>2
  <2>7. i < q
    <3> SUFFICES ASSUME i >= q PROVE FALSE
      BY <2>3
    <3> DEFINE y == i - q
    <3>1. y \in Nat /\ i = q + y
      BY <2>3
    <3> HIDE DEF y
    <3>2. m * i = m * q + m * y /\ m * y \in Nat
      BY <1>1, <3>1
    <3> QED
      BY <1>1, <1>2, <2>1, <2>5, <3>2
  <2> QED
    BY <2>3, <2>5, <2>6, <2>7
<1>6. ASSUME NEW i \in 0 .. q - 1, NEW j \in 0 .. q - 1, m * i + e = m * j + e PROVE i = j
  <2>1. i \in Nat /\ j \in Nat /\ m * i \in Nat /\ m * j \in Nat
    BY <1>1
  <2>2. m * i = m * j
    BY <1>2, <1>6, <2>1
  <2>3. m * (i - j) = 0
    BY <1>1, <2>1, <2>2
  <2> QED
    BY <1>1, <2>1, <2>3
<1>7. \A i \in 0 .. q - 1 : f[i] = m * i + e
  OBVIOUS
<1>8. f = [i \in 0 .. q - 1 |-> f[i]]
  OBVIOUS
<1> HIDE DEF f, S
<1>9. IsFiniteSet(S) /\ Cardinality(S) = q
  BY <1>4, <1>5, <1>6, <1>7, <1>8, CountBy
<1> QED
  BY <1>9 DEF S

\* The sum of zeros and ones counts the ones.
LEMMA CountSum ==
  ASSUME NEW S, IsFiniteSet(S), NEW A \in SUBSET S, NEW h,
         \A x \in S : h[x] = IF x \in A THEN 1 ELSE 0
  PROVE  SumFunctionOnSet(h, S) = Cardinality(A)
<1> DEFINE f == [x \in A |-> 1]
<1>1. \A x \in A : f[x] \in Int /\ f[x] = 1
  OBVIOUS
<1>2. \A x \in S : h[x] = IF x \in A THEN f[x] ELSE 0
  OBVIOUS
<1> HIDE DEF f
<1>3. SumFunctionOnSet(h, S) = SumFunctionOnSet(f, A)
  BY <1>1, <1>2, SumOver
<1>4. IsFiniteSet(A) /\ Cardinality(A) \in Nat
  BY FS_Subset, FS_CardinalityType
<1>5. SumFunctionOnSet(f, A) = Cardinality(A) * 1
  <2>1. 1 \in Int
    OBVIOUS
  <2> QED
    BY <1>1, <1>4, <2>1, SumConstant
<1> QED
  BY <1>3, <1>4, <1>5

\* If each of n shifts meets c of the starts, then all starts together meet n * c.
StartsInto(T, H, k) == { s \in T : s + k \in H }
ShiftsInto(n, H, s) == { k \in 0 .. n - 1 : s + k \in H }
AllMeet(T, n, H, c) == \A k \in 0 .. n - 1 : Cardinality(StartsInto(T, H, k)) = c
Meetings(g, T, n, H) == \A s \in T : g[s] = Cardinality(ShiftsInto(n, H, s))

LEMMA DoubleCount ==
  ASSUME NEW T, IsFiniteSet(T), NEW n \in Nat, NEW c \in Nat, NEW H, NEW g,
         AllMeet(T, n, H, c), Meetings(g, T, n, H)
  PROVE  SumFunctionOnSet(g, T) = n * c
<1> DEFINE K == 0 .. n - 1
           one(s, k) == IF s + k \in H THEN 1 ELSE 0
           f == [s \in T |-> [k \in K |-> one(s, k)]]
           rows == [s \in T |-> SumFunctionOnSet(f[s], K)]
           columns == [k \in K |-> SumFunctionOnSet([s \in T |-> f[s][k]], T)]
<1>1. IsFiniteSet(K) /\ Cardinality(K) = n
  <2> DEFINE b == n - 1
  <2>1. b \in Int /\ 0 \in Int /\ b = n - 1
    OBVIOUS
  <2> HIDE DEF b
  <2>2. IsFiniteSet(0 .. b) /\ Cardinality(0 .. b) = IF 0 > b THEN 0 ELSE b - 0 + 1
    BY <2>1, FS_Interval
  <2>3. (IF 0 > b THEN 0 ELSE b - 0 + 1) = n
    BY <2>1
  <2> QED
    BY <2>1, <2>2, <2>3
<1>2. \A s \in T : \A k \in K : f[s][k] = one(s, k) /\ f[s][k] \in Int
  OBVIOUS
<1>3. \A s \in T : rows[s] = g[s]
  <2> SUFFICES ASSUME NEW s \in T PROVE SumFunctionOnSet(f[s], K) = Cardinality({ k \in K : s + k \in H })
    BY DEF Meetings, ShiftsInto
  <2> DEFINE A == { k \in K : s + k \in H }
  <2>1. A \in SUBSET K /\ \A k \in K : f[s][k] = IF k \in A THEN 1 ELSE 0
    BY <1>2
  <2> HIDE DEF A, K, f
  <2>2. SumFunctionOnSet(f[s], K) = Cardinality(A)
    BY <1>1, <2>1, CountSum
  <2> QED
    BY <2>2 DEF A
<1>4. \A k \in K : columns[k] = c
  <2> SUFFICES ASSUME NEW k \in K PROVE SumFunctionOnSet([s \in T |-> f[s][k]], T) = c
    OBVIOUS
  <2> DEFINE A == { s \in T : s + k \in H }
             h == [s \in T |-> f[s][k]]
  <2>1. A \in SUBSET T /\ \A s \in T : h[s] = IF s \in A THEN 1 ELSE 0
    BY <1>2
  <2>2. Cardinality(A) = c
    BY DEF AllMeet, StartsInto
  <2> HIDE DEF A, h
  <2>3. SumFunctionOnSet(h, T) = Cardinality(A)
    BY <2>1, CountSum
  <2> QED
    BY <2>2, <2>3 DEF h
<1>5. SumFunctionOnSet(rows, T) = SumFunctionOnSet(columns, K)
  <2>1. \A s \in T : \A k \in K : f[s][k] \in Int
    BY <1>2
  <2> HIDE DEF K, f
  <2> QED
    BY <1>1, <2>1, SumExchange
<1>6. SumFunctionOnSet(columns, K) = n * c
  <2>1. c \in Int
    OBVIOUS
  <2> HIDE DEF columns
  <2>2. SumFunctionOnSet(columns, K) = Cardinality(K) * c
    BY <1>1, <1>4, <2>1, SumConstant
  <2> QED
    BY <1>1, <2>2
<1>7. SumFunctionOnSet(g, T) = SumFunctionOnSet(rows, T)
  <2>1. \A s \in T : rows[s] \in Int
    <3> SUFFICES ASSUME NEW s \in T PROVE SumFunctionOnSet(f[s], K) \in Int
      OBVIOUS
    <3>1. \A k \in K : f[s][k] \in Int
      BY <1>2
    <3> HIDE DEF f, K
    <3> QED
      BY <1>1, <3>1, SumType
  <2>2. \A s \in T : g[s] = rows[s]
    BY <1>3
  <2> HIDE DEF rows
  <2> QED
    BY <2>1, <2>2, SumEqual
<1> QED
  BY <1>5, <1>6, <1>7

\* The commands of a transfer whose object starts at bundle s.
Commands(on, req, size, s) == GeneratePIMCommand(on, req, MemoryObject(s * Granul, size))

\* The commands of all starts, as a sum over a function.
LEMMA CommandSum ==
  ASSUME NEW on, NEW req, NEW size, NEW S, IsFiniteSet(S)
  PROVE  MapThenSumSet(LAMBDA s : Cardinality(Commands(on, req, size, s)), S)
           = SumFunctionOnSet([s \in S |-> Cardinality(Commands(on, req, size, s))], S)
<1> DEFINE c(s) == Cardinality(Commands(on, req, size, s))
           f == [s \in S |-> c(s)]
           Direct(g) == g = [T \in SUBSET S |-> IF T = {} THEN 0 ELSE c(NextOf(T)) + g[T \ {NextOf(T)}]]
<1>1. MapThenSumSet(LAMBDA s : c(s), S) = (CHOOSE g : Direct(g))[S]
  BY DEF MapThenSumSet, MapThenFoldSet, NextOf
<1>2. SumFunctionOnSet(f, S) = (CHOOSE g : SumTable(g, f, S))[S]
  BY DEF SumFunctionOnSet, FoldFunctionOnSet, MapThenFoldSet, SumTable, NextOf
<1>3. \A T \in SUBSET S : T # {} => f[NextOf(T)] = c(NextOf(T))
  BY DEF NextOf
<1> HIDE DEF f, c
<1>4. ASSUME NEW g PROVE Direct(g) <=> SumTable(g, f, S)
  <2> DEFINE a == [T \in SUBSET S |-> IF T = {} THEN 0 ELSE c(NextOf(T)) + g[T \ {NextOf(T)}]]
             b == [T \in SUBSET S |-> IF T = {} THEN 0 ELSE f[NextOf(T)] + g[T \ {NextOf(T)}]]
  <2>1. a = b
    BY <1>3
  <2> QED
    BY <2>1 DEF SumTable
<1> HIDE DEF Direct
<1>5. (CHOOSE g : Direct(g)) = (CHOOSE g : SumTable(g, f, S))
  BY <1>4
<1> QED
  BY <1>1, <1>2, <1>5 DEF f, c

---------------------------------------------------------------------------
(* The fields of an address.                                               *)

\* What is left after each of the fields.
Lefts(q, address, sizes) ==
  /\ q[0] = address
  /\ \A j \in 1 .. Len(sizes) : q[j] = q[j - 1] \div sizes[j]
  /\ \A j \in 0 .. Len(sizes) : q[j] \in Nat

FieldStep(v, size) == [left |-> v.left \div size, at |-> Append(v.at, v.left % size)]
FieldSteps(h, address, sizes) ==
  /\ h[0] = [left |-> address, at |-> << >>]
  /\ \A j \in 1 .. Len(sizes) : h[j] = FieldStep(h[j - 1], sizes[j])
  /\ \A j \in 0 .. Len(sizes) : h[j] \in [left : Nat, at : Seq(Nat)]

\* The fold over the sizes of the fields, step by step.
LEMMA FieldsFold ==
  ASSUME NEW address \in Nat, NEW sizes \in Seq(Positive)
  PROVE  \E h : FieldSteps(h, address, sizes) /\ Fields(address, sizes) = h[Len(sizes)]
<1> DEFINE n == Len(sizes)
           V == [left : Nat, at : Seq(Nat)]
           base == [left |-> address, at |-> << >>]
           op(v, j) == FieldStep(v, sizes[j])
           F == [z \in V \X (1 .. n) |-> op(z[1], z[2])]
           Fold(h) == h = [T \in SUBSET (1 .. n) |->
                             IF T = {} THEN base ELSE op(h[T \ {Max(T)}], Max(T))]
           it == CHOOSE h : Fold(h)
           h == [j \in 0 .. n |-> it[1 .. j]]
<1>1. n \in Nat /\ DOMAIN sizes = 1 .. n /\ \A j \in 1 .. n : sizes[j] \in Positive
  BY SeqDomain
<1>2. IsFiniteSet(1 .. n) /\ 1 .. n \subseteq Int /\ base \in V
  BY <1>1, FS_Interval
<1>3. Fields(address, sizes) = it[1 .. n]
  BY <1>1 DEF Fields, FoldLeft, MapThenFoldSet, FieldStep
<1>4. \A v \in V : \A j \in 1 .. n : op(v, j) \in V
  <2> SUFFICES ASSUME NEW v \in V, NEW j \in 1 .. n PROVE FieldStep(v, sizes[j]) \in V
    OBVIOUS
  <2>1. v.left \in Nat /\ v.at \in Seq(Nat) /\ sizes[j] \in Positive
    BY <1>1
  <2>2. v.left \div sizes[j] \in Nat /\ v.left % sizes[j] \in Nat
    BY <2>1, Remains
  <2>3. Append(v.at, v.left % sizes[j]) \in Seq(Nat)
    BY <2>1, <2>2
  <2> QED
    BY <2>2, <2>3 DEF FieldStep
<1>5. F \in [V \X (1 .. n) -> V] /\ \A v \in V : \A k \in 1 .. n : F[<< v, k >>] = op(v, k)
  <2> HIDE DEF op, V
  <2> QED
    BY <1>4
<1> HIDE DEF F, op, n, V, base
<1>6. PICK g : FoldTable(g, F, base, 1 .. n)
  BY <1>2, FoldExists
<1>7. \A T \in SUBSET (1 .. n) : g[T] \in V
  BY <1>2, <1>5, <1>6, FoldClosed
<1>8. \A T \in SUBSET (1 .. n) : T # {} => Max(T) \in T
  BY <1>2, MaxMember
<1>9. Fold(g)
  <2>1. ASSUME NEW T \in SUBSET (1 .. n)
        PROVE  g[T] = IF T = {} THEN base ELSE op(g[T \ {Max(T)}], Max(T))
    <3>1. CASE T = {}
      BY <1>6, <3>1 DEF FoldTable
    <3>2. CASE T # {}
      <4>1. Max(T) \in 1 .. n /\ g[T \ {Max(T)}] \in V
        BY <1>7, <1>8, <3>2
      <4>2. g[T] = F[<< g[T \ {Max(T)}], Max(T) >>]
        BY <1>6, <3>2 DEF FoldTable
      <4> QED
        BY <1>5, <3>2, <4>1, <4>2
    <3> QED
      BY <3>1, <3>2
  <2>2. g = [T \in SUBSET (1 .. n) |-> g[T]]
    BY <1>6 DEF FoldTable
  <2> QED
    BY <2>1, <2>2
<1>10. Fold(it)
  <2> HIDE DEF Fold
  <2> QED
    BY <1>9
<1> HIDE DEF it
<1>11. h[0] = base
  <2>1. 1 .. 0 = {} /\ {} \in SUBSET (1 .. n) /\ 0 \in 0 .. n
    BY <1>1
  <2> QED
    BY <1>10, <2>1
<1>12. ASSUME NEW j \in 1 .. n PROVE h[j] = op(h[j - 1], j) /\ j - 1 \in 0 .. n
  <2>1. /\ j \in Nat \ {0} /\ j \in 0 .. n /\ j - 1 \in 0 .. n
        /\ 1 .. j \in SUBSET (1 .. n)
    BY <1>1
  <2>2. Max(1 .. j) = j /\ (1 .. j) \ {j} = 1 .. j - 1 /\ 1 .. j # {}
    BY <2>1, MaxPrefix
  <2>3. it[1 .. j] = op(it[(1 .. j) \ {Max(1 .. j)}], Max(1 .. j))
    BY <1>10, <2>1, <2>2
  <2> QED
    BY <2>1, <2>2, <2>3
<1>13. h[n] = it[1 .. n]
  BY <1>1
<1> HIDE DEF h
<1> DEFINE Good == { j \in 0 .. n : h[j] \in V }
<1>14. \A j \in 0 .. n : j \in Good
  <2>1. 0 \in Good
    BY <1>1, <1>2, <1>11
  <2>2. ASSUME NEW j \in 0 .. n - 1, j \in Good PROVE j + 1 \in Good
    <3>1. j + 1 \in 1 .. n /\ j + 1 \in 0 .. n /\ (j + 1) - 1 = j
      BY <1>1
    <3>2. h[j + 1] = op(h[j], j + 1)
      BY <1>12, <3>1
    <3> QED
      BY <1>4, <2>2, <3>1, <3>2
  <2> HIDE DEF Good
  <2> QED
    BY <1>1, <2>1, <2>2, BoundedInduction
<1>15. FieldSteps(h, address, sizes)
  BY <1>11, <1>12, <1>14 DEF FieldSteps, op, n, base, V
<1> QED
  BY <1>3, <1>13, <1>15 DEF n

\* The j-th field is what is left after the fields before it, modulo its size.
LEMMA FieldsAre ==
  ASSUME NEW address \in Nat, NEW sizes \in Seq(Positive)
  PROVE  \E q : /\ Lefts(q, address, sizes)
                /\ Fields(address, sizes).left = q[Len(sizes)]
                /\ \A j \in 1 .. Len(sizes) : Fields(address, sizes).at[j] = q[j - 1] % sizes[j]
<1> DEFINE n == Len(sizes)
<1>1. n \in Nat /\ \A j \in 1 .. n : sizes[j] \in Positive
  BY SeqDomain
<1>2. PICK h : FieldSteps(h, address, sizes) /\ Fields(address, sizes) = h[n]
  BY FieldsFold
<1> DEFINE q == [j \in 0 .. n |-> h[j].left]
           Right(j) == Len(h[j].at) = j /\ \A i \in 1 .. j : h[j].at[i] = h[i - 1].left % sizes[i]
           Good == { j \in 0 .. n : Right(j) }
<1>3. \A j \in 0 .. n : h[j].left \in Nat /\ h[j].at \in Seq(Nat)
  BY <1>2 DEF FieldSteps
<1>4. h[0].left = address /\ h[0].at = << >>
  BY <1>2 DEF FieldSteps
<1>5. ASSUME NEW j \in 1 .. n
      PROVE  /\ j - 1 \in 0 .. n /\ j \in 0 .. n
             /\ h[j].left = h[j - 1].left \div sizes[j]
             /\ h[j].at = Append(h[j - 1].at, h[j - 1].left % sizes[j])
  <2>1. h[j] = FieldStep(h[j - 1], sizes[j])
    BY <1>2 DEF FieldSteps
  <2> QED
    BY <1>1, <2>1 DEF FieldStep
<1>6. \A j \in 0 .. n : j \in Good
  <2>1. 0 \in Good
    BY <1>1, <1>4
  <2>2. ASSUME NEW j \in 0 .. n - 1, j \in Good PROVE j + 1 \in Good
    <3> DEFINE s == h[j].at
               e == h[j].left % sizes[j + 1]
    <3>1. j \in Nat /\ j + 1 \in 1 .. n /\ j + 1 \in 0 .. n /\ (j + 1) - 1 = j /\ j \in 0 .. n
      BY <1>1
    <3>2. h[j + 1].at = Append(s, e)
      BY <1>5, <3>1
    <3>3. s \in Seq(Nat) /\ e \in Nat
      <4>1. h[j].left \in Nat /\ sizes[j + 1] \in Positive
        BY <1>1, <1>3, <3>1
      <4> QED
        BY <1>3, <3>1, <4>1, Remains
    <3>4. Len(s) = j /\ \A i \in 1 .. j : s[i] = h[i - 1].left % sizes[i]
      BY <2>2
    <3>5. e = h[(j + 1) - 1].left % sizes[j + 1]
      BY <3>1
    <3> HIDE DEF s, e
    <3>6. /\ Len(Append(s, e)) = j + 1 /\ Append(s, e)[j + 1] = e
          /\ \A i \in 1 .. j : Append(s, e)[i] = s[i]
      BY <3>1, <3>3, <3>4
    <3>7. \A i \in 1 .. j + 1 : i \in 1 .. j \/ i = j + 1
      BY <3>1
    <3>8. Right(j + 1)
      BY <3>2, <3>4, <3>5, <3>6, <3>7
    <3> QED
      BY <3>1, <3>8
  <2> HIDE DEF Good
  <2> QED
    BY <1>1, <2>1, <2>2, BoundedInduction
<1>7. n \in 0 .. n /\ Right(n)
  BY <1>1, <1>6
<1>8. Lefts(q, address, sizes)
  BY <1>1, <1>3, <1>4, <1>5 DEF Lefts
<1>9. \A j \in 1 .. n : h[n].at[j] = q[j - 1] % sizes[j]
  BY <1>5, <1>7
<1>10. h[n].left = q[n]
  BY <1>7
<1> QED
  BY <1>2, <1>8, <1>9, <1>10

---------------------------------------------------------------------------
(* The fields of the two address maps.                                   *)

\* What is left of a bundle's number after each field of an address.
AfterCube(a) == a \div NumCube
AfterChannel(a) == AfterCube(a) \div NumChannel
AfterRank(a) == AfterChannel(a) \div NumRank
AfterGroup(a) == AfterRank(a) \div NumBankgroup
AfterBank(a) == AfterGroup(a) \div NumBank
LogicGroup(a) == AfterChannel(a) \div NumBankgroup
LogicLow(a) == LogicGroup(a) \div 2
LogicCol(a) == LogicLow(a) \div NumCol
LogicRow(a) == LogicCol(a) \div NumRow
LogicHigh(a) == LogicRow(a) \div 2

\* The sizes of the address map are not zero.
LEMMA MapSizes ==
  /\ {NumCube, NumChannel, NumLogicCube, NumRank, NumBankgroup, NumBank, NumCol, NumRow, Granul, 2}
       \subseteq Positive
BY CostAssumption, DramAssumption DEF Positive

\* What is left after each field is a number.
LEMMA LeftsType ==
  ASSUME NEW a \in Nat
  PROVE  /\ {AfterCube(a), AfterChannel(a), AfterRank(a), AfterGroup(a), AfterBank(a)} \subseteq Nat
         /\ {LogicGroup(a), LogicLow(a), LogicCol(a), LogicRow(a), LogicHigh(a)} \subseteq Nat
<1>1. AfterCube(a) \in Nat
  BY MapSizes, Remains DEF AfterCube
<1>2. AfterChannel(a) \in Nat
  BY <1>1, MapSizes, Remains DEF AfterChannel
<1>3. AfterRank(a) \in Nat /\ LogicGroup(a) \in Nat
  BY <1>2, MapSizes, Remains DEF AfterRank, LogicGroup
<1>4. AfterGroup(a) \in Nat /\ LogicLow(a) \in Nat
  BY <1>3, MapSizes, Remains DEF AfterGroup, LogicLow
<1>5. AfterBank(a) \in Nat /\ LogicCol(a) \in Nat
  BY <1>4, MapSizes, Remains DEF AfterBank, LogicCol
<1>6. LogicRow(a) \in Nat
  BY <1>5, MapSizes, Remains DEF LogicRow
<1>7. LogicHigh(a) \in Nat
  BY <1>6, MapSizes, Remains DEF LogicHigh
<1> QED
  BY <1>1, <1>2, <1>3, <1>4, <1>5, <1>6, <1>7

\* The bundle of the address of a bundle.
LEMMA BundleAddress ==
  ASSUME NEW a \in Nat
  PROVE  (a * Granul) \div Granul = a
<1> DEFINE n == a * Granul
           g == Granul
<1>1. g \in Positive /\ 0 \in 0 .. g - 1 /\ a \in Int
  BY MapSizes DEF Positive
<1>2. n \in Nat /\ n = g * a + 0
  <2>1. g \in Nat
    BY <1>1 DEF Positive
  <2> HIDE DEF g
  <2>2. a * g \in Nat /\ a * g = g * a + 0
    BY <2>1
  <2> QED
    BY <2>2 DEF g
<1> HIDE DEF n, g
<1>3. n \div g = a
  BY <1>1, <1>2, DividedIs
<1> QED
  BY <1>3 DEF n, g

\* The fields of the first map: cube, channel, rank, bank group, bank, column, row.
LEMMA PlainFields ==
  ASSUME NEW a \in Nat
  PROVE  addrToVec(a * Granul)
           = [cube |-> a % NumCube, channel |-> AfterCube(a) % NumChannel,
              rank |-> AfterChannel(a) % NumRank, bankgroup |-> AfterRank(a) % NumBankgroup,
              bank |-> AfterGroup(a) % NumBank, col |-> AfterBank(a) % NumCol,
              row |-> AfterBank(a) \div NumCol]
<1> DEFINE sizes == << NumCube, NumChannel, NumRank, NumBankgroup, NumBank, NumCol >>
           f == Fields(a, sizes)
<1>1. /\ sizes \in Seq(Positive) /\ Len(sizes) = 6
      /\ sizes[1] = NumCube /\ sizes[2] = NumChannel /\ sizes[3] = NumRank
      /\ sizes[4] = NumBankgroup /\ sizes[5] = NumBank /\ sizes[6] = NumCol
  BY MapSizes
<1>2. addrToVec(a * Granul)
        = [cube |-> f.at[1], channel |-> f.at[2], rank |-> f.at[3], bankgroup |-> f.at[4],
           bank |-> f.at[5], col |-> f.at[6], row |-> f.left]
  BY BundleAddress DEF addrToVec
<1> HIDE DEF sizes, f
<1>3. PICK q : /\ Lefts(q, a, sizes) /\ f.left = q[6]
               /\ \A j \in 1 .. 6 : f.at[j] = q[j - 1] % sizes[j]
  <2>1. sizes \in Seq(Positive)
    BY <1>1
  <2>2. \E q : /\ Lefts(q, a, sizes) /\ Fields(a, sizes).left = q[Len(sizes)]
               /\ \A j \in 1 .. Len(sizes) : Fields(a, sizes).at[j] = q[j - 1] % sizes[j]
    BY <2>1, FieldsAre
  <2> QED
    BY <1>1, <2>2, Zenon DEF f
<1>4. q[0] = a /\ \A j \in 1 .. 6 : q[j] = q[j - 1] \div sizes[j]
  BY <1>1, <1>3 DEF Lefts
<1>5. /\ 1 \in 1 .. 6 /\ 2 \in 1 .. 6 /\ 3 \in 1 .. 6 /\ 4 \in 1 .. 6 /\ 5 \in 1 .. 6 /\ 6 \in 1 .. 6
      /\ 1 - 1 = 0 /\ 2 - 1 = 1 /\ 3 - 1 = 2 /\ 4 - 1 = 3 /\ 5 - 1 = 4 /\ 6 - 1 = 5
  OBVIOUS
<1>6. /\ q[1] = AfterCube(a) /\ q[2] = AfterChannel(a) /\ q[3] = AfterRank(a)
      /\ q[4] = AfterGroup(a) /\ q[5] = AfterBank(a) /\ q[6] = AfterBank(a) \div NumCol
  BY <1>1, <1>4, <1>5 DEF AfterCube, AfterChannel, AfterRank, AfterGroup, AfterBank
<1>7. /\ f.at[1] = a % NumCube /\ f.at[2] = AfterCube(a) % NumChannel
      /\ f.at[3] = AfterChannel(a) % NumRank /\ f.at[4] = AfterRank(a) % NumBankgroup
      /\ f.at[5] = AfterGroup(a) % NumBank /\ f.at[6] = AfterBank(a) % NumCol
      /\ f.left = AfterBank(a) \div NumCol
  BY <1>1, <1>3, <1>4, <1>5, <1>6
<1> QED
  BY <1>2, <1>7

\* The fields of the map of LOGIC: bank group and half of the bank before column and row.
LEMMA LogicFields ==
  ASSUME NEW a \in Nat, NumLogicCube = NumCube
  PROVE  addrToVecLOGIC(a * Granul)
           = [cube |-> a % NumCube, channel |-> AfterCube(a) % NumChannel,
              rank |-> LogicHigh(a) % NumRank, bankgroup |-> AfterChannel(a) % NumBankgroup,
              bank |-> 2 * (LogicRow(a) % 2) + (LogicGroup(a) % 2), col |-> LogicLow(a) % NumCol,
              row |-> LogicCol(a) % NumRow]
<1> DEFINE sizes == << NumLogicCube, NumChannel, NumBankgroup, 2, NumCol, NumRow, 2, NumRank >>
           f == Fields(a, sizes)
<1>1. /\ sizes \in Seq(Positive) /\ Len(sizes) = 8
      /\ sizes[1] = NumCube /\ sizes[2] = NumChannel /\ sizes[3] = NumBankgroup /\ sizes[4] = 2
      /\ sizes[5] = NumCol /\ sizes[6] = NumRow /\ sizes[7] = 2 /\ sizes[8] = NumRank
  BY MapSizes
<1>2. addrToVecLOGIC(a * Granul)
        = [cube |-> f.at[1], channel |-> f.at[2], rank |-> f.at[8], bankgroup |-> f.at[3],
           bank |-> 2 * f.at[7] + f.at[4], col |-> f.at[5], row |-> f.at[6]]
  BY BundleAddress DEF addrToVecLOGIC
<1> HIDE DEF sizes, f
<1>3. PICK q : /\ Lefts(q, a, sizes) /\ \A j \in 1 .. 8 : f.at[j] = q[j - 1] % sizes[j]
  <2>1. sizes \in Seq(Positive)
    BY <1>1
  <2>2. \E q : /\ Lefts(q, a, sizes) /\ Fields(a, sizes).left = q[Len(sizes)]
               /\ \A j \in 1 .. Len(sizes) : Fields(a, sizes).at[j] = q[j - 1] % sizes[j]
    BY <2>1, FieldsAre
  <2> QED
    BY <1>1, <2>2, Zenon DEF f
<1>4. q[0] = a /\ \A j \in 1 .. 8 : q[j] = q[j - 1] \div sizes[j]
  BY <1>1, <1>3 DEF Lefts
<1>5. /\ 1 \in 1 .. 8 /\ 2 \in 1 .. 8 /\ 3 \in 1 .. 8 /\ 4 \in 1 .. 8 /\ 5 \in 1 .. 8 /\ 6 \in 1 .. 8
      /\ 7 \in 1 .. 8 /\ 8 \in 1 .. 8
      /\ 1 - 1 = 0 /\ 2 - 1 = 1 /\ 3 - 1 = 2 /\ 4 - 1 = 3 /\ 5 - 1 = 4 /\ 6 - 1 = 5
      /\ 7 - 1 = 6 /\ 8 - 1 = 7
  OBVIOUS
<1>6. /\ q[1] = AfterCube(a) /\ q[2] = AfterChannel(a) /\ q[3] = LogicGroup(a)
      /\ q[4] = LogicLow(a) /\ q[5] = LogicCol(a) /\ q[6] = LogicRow(a) /\ q[7] = LogicHigh(a)
  BY <1>1, <1>4, <1>5 DEF AfterCube, AfterChannel, LogicGroup, LogicLow, LogicCol, LogicRow, LogicHigh
<1>7. /\ f.at[1] = a % NumCube /\ f.at[2] = AfterCube(a) % NumChannel
      /\ f.at[3] = AfterChannel(a) % NumBankgroup /\ f.at[4] = LogicGroup(a) % 2
      /\ f.at[5] = LogicLow(a) % NumCol /\ f.at[6] = LogicCol(a) % NumRow
      /\ f.at[7] = LogicRow(a) % 2 /\ f.at[8] = LogicHigh(a) % NumRank
  BY <1>1, <1>3, <1>4, <1>5, <1>6
<1> QED
  BY <1>2, <1>7

\* The memory that the weights of the energy are made for: bank groups of four banks,
\* four of them in a rank, an even number of channels, as many cubes on either map,
\* and PIM commands for all banks at a time.
SpreadEvenly ==
  /\ NumBankgroup = 4 /\ NumBank = 4
  /\ NumChannel % 2 = 0 /\ NumLogicCube = NumCube /\ BandwidthX.PIM = 16

\* Both pseudo channels of the first channel, and the first bank of all.
FirstChannel == { a \in Nat : a % NumCube = 0 /\ AfterCube(a) % NumChannel \in {0, 1} }
FirstBanks(on) ==
  { a \in Nat : /\ a % NumCube = 0 /\ AfterCube(a) % NumChannel = 0
                /\ IF on = "LOGIC" THEN AfterChannel(a) % NumBankgroup = 0 /\ LogicGroup(a) % 2 = 0
                   ELSE /\ AfterChannel(a) % NumRank = 0 /\ AfterRank(a) % NumBankgroup = 0
                        /\ AfterGroup(a) % NumBank = 0 }

\* There are two channels at least, as their number is even.
LEMMA TwoChannels ==
  ASSUME SpreadEvenly
  PROVE  NumChannel \in Positive /\ NumChannel >= 2
<1>1. NumChannel \in Positive /\ NumChannel % 2 = 0
  BY MapSizes DEF SpreadEvenly
<1> QED
  BY <1>1 DEF Positive

\* The place of an address vector keeps what lies below the channel.
LEMMA PlaceOf ==
  ASSUME NEW v, NEW c \in Nat, v.cube = c, NEW d \in Nat, v.channel = d, d < NumChannel,
         NumChannel \in Positive, NumChannel >= 2
  PROVE  LET w == ramul_addr_vec(v)
         IN /\ w.rank = v.rank /\ w.bankgroup = v.bankgroup /\ w.bank = v.bank
            /\ w.row = v.row /\ w.col = v.col
            /\ w.channel = 0 <=> c = 0 /\ d \in {0, 1}
            /\ w.channel = 0 /\ w.pseudo = 0 <=> c = 0 /\ d = 0
            /\ w.channel \in Nat /\ w.pseudo \in Nat
            /\ NumChannel * c + d = 2 * w.channel + w.pseudo
<1> DEFINE h == NumChannel
           x == h * c + d
           w == ramul_addr_vec(v)
<1>1. h \in Nat /\ h >= 2 /\ h * c \in Nat
  BY DEF Positive
<1>2. w.channel = x \div 2 /\ w.pseudo = x % 2
  BY DEF ramul_addr_vec
<1>3. c # 0 => h * c >= h
  <2> SUFFICES ASSUME c # 0 PROVE h * c >= h
    OBVIOUS
  <2> DEFINE b == c - 1
  <2>1. b \in Nat /\ c = b + 1
    OBVIOUS
  <2> HIDE DEF b, h
  <2>2. h * c = h * b + h /\ h * b \in Nat
    BY <1>1, <2>1
  <2> QED
    BY <1>1, <2>2
<1>4. x \in Nat /\ (x = 0 <=> c = 0 /\ d = 0) /\ (x < 2 <=> c = 0 /\ d \in {0, 1})
  <2>1. CASE c = 0
    <3>1. h * c = 0
      BY <1>1, <2>1
    <3> QED
      BY <2>1, <3>1
  <2>2. CASE c # 0
    BY <1>1, <1>3, <2>2
  <2> QED
    BY <2>1, <2>2
<1>5. /\ w.rank = v.rank /\ w.bankgroup = v.bankgroup /\ w.bank = v.bank
      /\ w.row = v.row /\ w.col = v.col
  BY DEF ramul_addr_vec
<1> HIDE DEF w, x, h
<1>6. /\ x \div 2 \in Nat /\ x % 2 \in Nat /\ x = 2 * (x \div 2) + (x % 2)
      /\ x \div 2 = 0 <=> x < 2
      /\ x \div 2 = 0 /\ x % 2 = 0 <=> x = 0
  BY <1>4
<1>7. /\ w.channel = 0 <=> c = 0 /\ d \in {0, 1}
      /\ w.channel = 0 /\ w.pseudo = 0 <=> c = 0 /\ d = 0
      /\ w.channel \in Nat /\ w.pseudo \in Nat /\ x = 2 * w.channel + w.pseudo
  BY <1>2, <1>4, <1>6
<1> QED
  BY <1>5, <1>7 DEF w, x, h

---------------------------------------------------------------------------
(* The commands of a transfer as residues of an address.                 *)

\* The place of bundle a of the memory, on the map of a processor.
Place(on, a) ==
  ramul_addr_vec(IF on = "LOGIC" THEN addrToVecLOGIC(a * Granul) ELSE addrToVec(a * Granul))

\* The k-th bundle of an object that starts at bundle s is bundle s + k of the memory.
LEMMA PlaceAt ==
  ASSUME NEW on, NEW size, NEW s \in Nat, NEW k \in Nat
  PROVE  getAddrVec(MemoryObject(s * Granul, size), k, on) = Place(on, s + k)
<1> DEFINE g == Granul
<1>1. g \in Nat
  BY MapSizes DEF Positive
<1> HIDE DEF g
<1>2. s * g + k * g = (s + k) * g
  BY <1>1
<1>3. s * Granul + k * Granul = (s + k) * Granul
  BY <1>2 DEF g
<1>4. MemoryObject(s * Granul, size).address = s * Granul
  BY DEF MemoryObject
<1> QED
  BY <1>3, <1>4 DEF getAddrVec, Place

\* The fields of a place, the rank, bank group, bank, row and column of its map.
LEMMA PlaceFields ==
  ASSUME SpreadEvenly, NEW on, NEW a \in Nat
  PROVE  LET w == Place(on, a)
             v == IF on = "LOGIC" THEN addrToVecLOGIC(a * Granul) ELSE addrToVec(a * Granul)
         IN /\ w.rank = v.rank /\ w.bankgroup = v.bankgroup /\ w.bank = v.bank
            /\ w.row = v.row /\ w.col = v.col
            /\ w.channel = 0 <=> a \in FirstChannel
            /\ w.channel = 0 /\ w.pseudo = 0 <=> a % NumCube = 0 /\ AfterCube(a) % NumChannel = 0
            /\ w.channel \in Nat /\ w.pseudo \in Nat
            /\ NumChannel * (a % NumCube) + (AfterCube(a) % NumChannel) = 2 * w.channel + w.pseudo
<1> DEFINE v == IF on = "LOGIC" THEN addrToVecLOGIC(a * Granul) ELSE addrToVec(a * Granul)
           c == a % NumCube
           d == AfterCube(a) % NumChannel
<1>1. v.cube = c /\ v.channel = d
  <2>1. CASE on = "LOGIC"
    <3>1. v = addrToVecLOGIC(a * Granul)
      BY <2>1
    <3> HIDE DEF v
    <3>2. v = [cube |-> c, channel |-> d,
               rank |-> LogicHigh(a) % NumRank, bankgroup |-> AfterChannel(a) % NumBankgroup,
               bank |-> 2 * (LogicRow(a) % 2) + (LogicGroup(a) % 2), col |-> LogicLow(a) % NumCol,
               row |-> LogicCol(a) % NumRow]
      BY <3>1, LogicFields DEF SpreadEvenly
    <3> HIDE DEF c, d
    <3> QED
      BY <3>2
  <2>2. CASE on # "LOGIC"
    <3>1. v = addrToVec(a * Granul)
      BY <2>2
    <3> HIDE DEF v
    <3>2. v = [cube |-> c, channel |-> d,
               rank |-> AfterChannel(a) % NumRank, bankgroup |-> AfterRank(a) % NumBankgroup,
               bank |-> AfterGroup(a) % NumBank, col |-> AfterBank(a) % NumCol,
               row |-> AfterBank(a) \div NumCol]
      BY <3>1, PlainFields
    <3> HIDE DEF c, d
    <3> QED
      BY <3>2
  <2> QED
    BY <2>1, <2>2
<1>2. c \in Nat /\ d \in Nat /\ d < NumChannel
  <2>1. AfterCube(a) \in Nat /\ NumCube \in Positive /\ NumChannel \in Positive
    BY LeftsType, MapSizes
  <2> QED
    BY <2>1, Remains
<1>3. a \in FirstChannel <=> c = 0 /\ d \in {0, 1}
  BY DEF FirstChannel
<1>4. Place(on, a) = ramul_addr_vec(v)
  BY DEF Place
<1> HIDE DEF v, c, d
<1>5. LET w == ramul_addr_vec(v)
      IN /\ w.rank = v.rank /\ w.bankgroup = v.bankgroup /\ w.bank = v.bank
         /\ w.row = v.row /\ w.col = v.col
         /\ w.channel = 0 <=> c = 0 /\ d \in {0, 1}
         /\ w.channel = 0 /\ w.pseudo = 0 <=> c = 0 /\ d = 0
         /\ w.channel \in Nat /\ w.pseudo \in Nat
         /\ NumChannel * c + d = 2 * w.channel + w.pseudo
  BY <1>1, <1>2, PlaceOf, TwoChannels
<1> QED
  BY <1>3, <1>4, <1>5 DEF v, c, d

\* The fields of the two maps that the kernels look at.
LEMMA PlainPlace ==
  ASSUME SpreadEvenly, NEW on, on # "LOGIC", NEW a \in Nat
  PROVE  LET w == Place(on, a)
         IN /\ w.rank = AfterChannel(a) % NumRank /\ w.bankgroup = AfterRank(a) % NumBankgroup
            /\ w.bank = AfterGroup(a) % NumBank
            /\ w.col = AfterBank(a) % NumCol /\ w.row = AfterBank(a) \div NumCol
<1> DEFINE v == addrToVec(a * Granul)
           w == Place(on, a)
<1>1. /\ w.rank = v.rank /\ w.bankgroup = v.bankgroup /\ w.bank = v.bank
      /\ w.row = v.row /\ w.col = v.col
  BY PlaceFields
<1> HIDE DEF v, w
<1>2. v = [cube |-> a % NumCube, channel |-> AfterCube(a) % NumChannel,
           rank |-> AfterChannel(a) % NumRank, bankgroup |-> AfterRank(a) % NumBankgroup,
           bank |-> AfterGroup(a) % NumBank, col |-> AfterBank(a) % NumCol,
           row |-> AfterBank(a) \div NumCol]
  BY PlainFields DEF v
<1>3. /\ v.rank = AfterChannel(a) % NumRank /\ v.bankgroup = AfterRank(a) % NumBankgroup
      /\ v.bank = AfterGroup(a) % NumBank
      /\ v.col = AfterBank(a) % NumCol /\ v.row = AfterBank(a) \div NumCol
  BY <1>2, Zenon
<1> QED
  BY <1>1, <1>3 DEF w

\* The place on the map of LOGIC.
LEMMA LogicPlace ==
  ASSUME SpreadEvenly, NEW a \in Nat
  PROVE  LET w == Place("LOGIC", a)
         IN /\ w.rank = LogicHigh(a) % NumRank /\ w.bankgroup = AfterChannel(a) % NumBankgroup
            /\ w.bank = 2 * (LogicRow(a) % 2) + (LogicGroup(a) % 2)
            /\ w.col = LogicLow(a) % NumCol /\ w.row = LogicCol(a) % NumRow
<1> DEFINE v == addrToVecLOGIC(a * Granul)
           w == Place("LOGIC", a)
<1>1. /\ w.rank = v.rank /\ w.bankgroup = v.bankgroup /\ w.bank = v.bank
      /\ w.row = v.row /\ w.col = v.col
  BY PlaceFields
<1> HIDE DEF v, w
<1>2. v = [cube |-> a % NumCube, channel |-> AfterCube(a) % NumChannel,
           rank |-> LogicHigh(a) % NumRank, bankgroup |-> AfterChannel(a) % NumBankgroup,
           bank |-> 2 * (LogicRow(a) % 2) + (LogicGroup(a) % 2), col |-> LogicLow(a) % NumCol,
           row |-> LogicCol(a) % NumRow]
  BY LogicFields DEF v, SpreadEvenly
<1>3. /\ v.rank = LogicHigh(a) % NumRank /\ v.bankgroup = AfterChannel(a) % NumBankgroup
      /\ v.bank = 2 * (LogicRow(a) % 2) + (LogicGroup(a) % 2)
      /\ v.col = LogicLow(a) % NumCol /\ v.row = LogicCol(a) % NumRow
  BY <1>2, Zenon
<1> QED
  BY <1>1, <1>3 DEF w

\* A plain transfer sends the bundles of the first channel.
LEMMA PlainCommands ==
  ASSUME SpreadEvenly, NEW on, NEW req, req # "kGEMV", NEW size, NEW s \in Nat
  PROVE  Commands(on, req, size, s)
           = { k \in 0 .. (size \div Granul) - 1 : s + k \in FirstChannel }
<1> DEFINE object == MemoryObject(s * Granul, size)
           n == size \div Granul
<1>1. object.num_bundle = n
  BY DEF MemoryObject
<1> HIDE DEF object, n
<1>2. Commands(on, req, size, s)
        = { k \in 0 .. n - 1 : getAddrVec(object, k, on).channel = 0 }
  BY <1>1 DEF Commands, GeneratePIMCommand, Transferred, Places, object
<1>3. \A k \in 0 .. n - 1 : getAddrVec(object, k, on).channel = 0 <=> s + k \in FirstChannel
  <2> TAKE k \in 0 .. n - 1
  <2>1. k \in Nat /\ s + k \in Nat
    OBVIOUS
  <2>2. getAddrVec(object, k, on) = Place(on, s + k)
    BY <2>1, PlaceAt DEF object
  <2>3. Place(on, s + k).channel = 0 <=> s + k \in FirstChannel
    BY <2>1, PlaceFields
  <2> QED
    BY <2>2, <2>3
<1>4. { k \in 0 .. n - 1 : getAddrVec(object, k, on).channel = 0 }
        = { k \in 0 .. n - 1 : s + k \in FirstChannel }
  BY <1>3
<1> QED
  BY <1>2, <1>4 DEF n

\* A GEMV sends the bundles of the first bank of all.
LEMMA FirstPlace ==
  ASSUME SpreadEvenly, NEW p \in {"LOGIC", "PIM"}, NEW a \in Nat
  PROVE  FirstOfAll(p, Place(IF p = "LOGIC" THEN "LOGIC" ELSE "GPU", a)) <=> a \in FirstBanks(p)
<1> DEFINE w == Place(IF p = "LOGIC" THEN "LOGIC" ELSE "GPU", a)
<1>1. w.channel = 0 /\ w.pseudo = 0 <=> a % NumCube = 0 /\ AfterCube(a) % NumChannel = 0
  BY PlaceFields
<1>2. CASE p = "LOGIC"
  <2> DEFINE y == LogicGroup(a) % 2
             x == LogicRow(a) % 2
  <2>1. w = Place("LOGIC", a)
    BY <1>2
  <2>2. w.bankgroup = AfterChannel(a) % NumBankgroup /\ w.bank = 2 * x + y
    BY <2>1, LogicPlace
  <2>3. x \in Nat /\ y \in Nat /\ y < 2
    <3>1. LogicGroup(a) \in Nat /\ LogicRow(a) \in Nat /\ 2 \in Positive
      BY LeftsType, MapSizes
    <3> QED
      BY <3>1, Remains
  <2>4. FirstOfAll(p, w) <=> w.channel = 0 /\ w.pseudo = 0 /\ w.bankgroup = 0 /\ w.bank % 2 = 0
    BY <1>2 DEF FirstOfAll
  <2>5. a \in FirstBanks(p) <=> /\ a % NumCube = 0 /\ AfterCube(a) % NumChannel = 0
                                /\ AfterChannel(a) % NumBankgroup = 0 /\ y = 0
    BY <1>2 DEF FirstBanks
  <2> HIDE DEF x, y, w
  <2>6. w.bank % 2 = 0 <=> y = 0
    BY <2>2, <2>3
  <2> QED
    BY <1>1, <2>2, <2>4, <2>5, <2>6 DEF w
<1>3. CASE p = "PIM"
  <2>1. w = Place("GPU", a)
    BY <1>3
  <2>2. /\ w.rank = AfterChannel(a) % NumRank /\ w.bankgroup = AfterRank(a) % NumBankgroup
        /\ w.bank = AfterGroup(a) % NumBank
    BY <2>1, PlainPlace
  <2>3. FirstBank(w.bank) <=> w.bank = 0
    BY DEF FirstBank, SpreadEvenly
  <2>4. FirstOfAll(p, w) <=> /\ w.channel = 0 /\ w.pseudo = 0 /\ w.bankgroup = 0
                             /\ w.rank = 0 /\ FirstBank(w.bank)
    BY <1>3 DEF FirstOfAll
  <2>5. a \in FirstBanks(p) <=>
          /\ a % NumCube = 0 /\ AfterCube(a) % NumChannel = 0
          /\ AfterChannel(a) % NumRank = 0 /\ AfterRank(a) % NumBankgroup = 0
          /\ AfterGroup(a) % NumBank = 0
    BY <1>3 DEF FirstBanks
  <2> HIDE DEF w
  <2> QED
    BY <1>1, <2>2, <2>3, <2>4, <2>5 DEF w
<1> QED
  BY <1>2, <1>3

\* The commands of a GEMV are the bundles in the first banks.
LEMMA KernelCommands ==
  ASSUME SpreadEvenly, NEW p \in {"LOGIC", "PIM"}, NEW size, NEW s \in Nat
  PROVE  Commands(p, "kGEMV", size, s)
           = { k \in 0 .. (size \div Granul) - 1 : s + k \in FirstBanks(p) }
<1> DEFINE object == MemoryObject(s * Granul, size)
           n == size \div Granul
           type == IF p = "LOGIC" THEN "LOGIC" ELSE "GPU"
<1>1. object.num_bundle = n
  BY DEF MemoryObject
<1> HIDE DEF object, n, type
<1>2. Commands(p, "kGEMV", size, s)
        = { k \in 0 .. n - 1 : FirstOfAll(p, getAddrVec(object, k, type)) }
  BY <1>1 DEF Commands, GeneratePIMCommand, GEMVKernel, Places, object, type
<1>3. \A k \in 0 .. n - 1 : FirstOfAll(p, getAddrVec(object, k, type)) <=> s + k \in FirstBanks(p)
  <2> TAKE k \in 0 .. n - 1
  <2>1. k \in Nat /\ s + k \in Nat
    OBVIOUS
  <2>2. getAddrVec(object, k, type) = Place(type, s + k)
    BY <2>1, PlaceAt DEF object
  <2>3. FirstOfAll(p, Place(type, s + k)) <=> s + k \in FirstBanks(p)
    BY <2>1, FirstPlace DEF type
  <2> QED
    BY <2>2, <2>3
<1>4. { k \in 0 .. n - 1 : FirstOfAll(p, getAddrVec(object, k, type)) }
        = { k \in 0 .. n - 1 : s + k \in FirstBanks(p) }
  BY <1>3
<1> QED
  BY <1>2, <1>4 DEF n

---------------------------------------------------------------------------
(* The commands of all starts together account for every bundle.         *)

\* The first channel, and the first bank of all, come back at regular distances.
AllChannels == NumCube * NumChannel

LEMMA ChannelsType ==
  /\ AllChannels \in Positive
  /\ \A a \in Nat : /\ AfterChannel(a) = a \div AllChannels
                    /\ a % AllChannels = NumCube * (AfterCube(a) % NumChannel) + (a % NumCube)
                    /\ a % AllChannels = 0 <=> a % NumCube = 0 /\ AfterCube(a) % NumChannel = 0
<1>1. NumCube \in Positive /\ NumChannel \in Positive
  BY MapSizes
<1>2. AllChannels \in Positive
  <2>1. 0 \in Nat
    OBVIOUS
  <2> QED
    BY <1>1, <2>1, MixedRadix DEF AllChannels
<1>3. ASSUME NEW a \in Nat
      PROVE  /\ AfterChannel(a) = a \div AllChannels
             /\ a % AllChannels = NumCube * (AfterCube(a) % NumChannel) + (a % NumCube)
             /\ a % AllChannels = 0 <=> a % NumCube = 0 /\ AfterCube(a) % NumChannel = 0
  BY <1>1, <1>3, MixedRadix, RadixZero, Zenon DEF AllChannels, AfterChannel, AfterCube
<1> QED
  BY <1>2, <1>3

\* The first channel is two residues of the address.
LEMMA FirstChannelIs ==
  ASSUME SpreadEvenly, NEW a \in Nat
  PROVE  /\ 0 \in 0 .. AllChannels - 1 /\ NumCube \in 0 .. AllChannels - 1 /\ NumCube # 0
         /\ a \in FirstChannel <=> a % AllChannels = 0 \/ a % AllChannels = NumCube
<1> DEFINE c == NumCube
           m == NumChannel
           y == AfterCube(a) % NumChannel
           z == a % NumCube
<1>1. c \in Positive /\ m \in Positive /\ m >= 2
  BY MapSizes, TwoChannels
<1>2. y \in Nat /\ z \in Nat /\ z < c
  BY <1>1, LeftsType, Remains
<1>3. a % AllChannels = c * y + z
  BY ChannelsType
<1>4. a \in FirstChannel <=> z = 0 /\ y \in {0, 1}
  BY DEF FirstChannel
<1>5. AllChannels = c * m
  BY DEF AllChannels
<1> HIDE DEF c, m, y, z
<1>6. 0 \in 0 .. AllChannels - 1 /\ c \in 0 .. AllChannels - 1 /\ c # 0
  <2> DEFINE b == m - 2
  <2>1. b \in Nat /\ m = 2 + b
    BY <1>1 DEF Positive
  <2> HIDE DEF b
  <2>2. c * m = c + c + c * b /\ c * b \in Nat
    BY <1>1, <2>1 DEF Positive
  <2> QED
    BY <1>1, <1>5, <2>2 DEF Positive
<1>7. z = 0 /\ y \in {0, 1} <=> c * y + z = 0 \/ c * y + z = c
  <2>1. CASE y = 0
    <3>1. c * y = 0
      BY <1>1, <2>1 DEF Positive
    <3> QED
      BY <1>1, <1>2, <2>1, <3>1 DEF Positive
  <2>2. CASE y = 1
    <3>1. c * y = c
      BY <1>1, <2>2 DEF Positive
    <3> QED
      BY <1>1, <1>2, <2>2, <3>1 DEF Positive
  <2>3. CASE y # 0 /\ y # 1
    <3> DEFINE b == y - 2
    <3>1. b \in Nat /\ y = 2 + b
      BY <1>2, <2>3
    <3> HIDE DEF b
    <3>2. c * y = c + c + c * b /\ c * b \in Nat
      BY <1>1, <3>1 DEF Positive
    <3> QED
      BY <1>1, <1>2, <2>3, <3>2 DEF Positive
  <2> QED
    BY <2>1, <2>2, <2>3
<1> QED
  BY <1>3, <1>4, <1>6, <1>7 DEF c

\* One more field of an address.
LEMMA NextField ==
  ASSUME NEW a \in Nat, NEW c \in Positive, NEW m \in Positive, NEW b, b = a \div c
  PROVE  /\ c * m \in Positive /\ b \div m = a \div (c * m)
         /\ a % (c * m) = 0 <=> a % c = 0 /\ b % m = 0
<1>1. c * m \in Positive /\ a \div (c * m) = (a \div c) \div m
  BY MixedRadix
<1>2. a % (c * m) = 0 <=> a % c = 0 /\ (a \div c) % m = 0
  BY RadixZero
<1> QED
  BY <1>1, <1>2, Zenon

AllBanksOf(channels) == channels * (16 * NumRank)

\* The first banks are the multiples of a distance, another one on each map.
LEMMA FirstBanksAre ==
  ASSUME SpreadEvenly, NEW a \in Nat
  PROVE  /\ AllBanksOf(AllChannels) \in Positive /\ AllChannels * 8 \in Positive
         /\ a \in FirstBanks("PIM") <=> a % AllBanksOf(AllChannels) = 0
         /\ a \in FirstBanks("LOGIC") <=> a % (AllChannels * 8) = 0
<1> DEFINE X == AllChannels
           R == NumRank
<1>1. /\ X \in Positive /\ R \in Positive /\ AfterChannel(a) = a \div X
      /\ a % X = 0 <=> a % NumCube = 0 /\ AfterCube(a) % NumChannel = 0
  BY ChannelsType, MapSizes
<1>2. /\ a \in FirstBanks("PIM") <=> /\ a % X = 0 /\ AfterChannel(a) % R = 0
                                     /\ AfterRank(a) % 4 = 0 /\ AfterGroup(a) % 4 = 0
      /\ a \in FirstBanks("LOGIC") <=> /\ a % X = 0 /\ AfterChannel(a) % 4 = 0
                                       /\ LogicGroup(a) % 2 = 0
  BY <1>1 DEF FirstBanks, SpreadEvenly
<1>3. /\ AfterRank(a) = AfterChannel(a) \div R /\ AfterGroup(a) = AfterRank(a) \div 4
      /\ LogicGroup(a) = AfterChannel(a) \div 4
  BY DEF AfterRank, AfterGroup, LogicGroup, SpreadEvenly
<1>4. 2 \in Positive /\ 4 \in Positive
  BY DEF Positive
<1>5. AllBanksOf(X) = X * (16 * R)
  BY DEF AllBanksOf
<1> HIDE DEF X, R
<1>6. /\ X * R \in Positive /\ AfterRank(a) = a \div (X * R)
      /\ a % (X * R) = 0 <=> a % X = 0 /\ AfterChannel(a) % R = 0
  BY <1>1, <1>3, NextField
<1>7. /\ X * R * 4 \in Positive /\ AfterGroup(a) = a \div (X * R * 4)
      /\ a % (X * R * 4) = 0 <=> a % (X * R) = 0 /\ AfterRank(a) % 4 = 0
  BY <1>3, <1>4, <1>6, NextField
<1>8. /\ X * R * 4 * 4 \in Positive
      /\ a % (X * R * 4 * 4) = 0 <=> a % (X * R * 4) = 0 /\ AfterGroup(a) % 4 = 0
  BY <1>4, <1>7, NextField
<1>9. /\ X * 4 \in Positive /\ LogicGroup(a) = a \div (X * 4)
      /\ a % (X * 4) = 0 <=> a % X = 0 /\ AfterChannel(a) % 4 = 0
  BY <1>1, <1>3, <1>4, NextField
<1>10. /\ X * 4 * 2 \in Positive
       /\ a % (X * 4 * 2) = 0 <=> a % (X * 4) = 0 /\ LogicGroup(a) % 2 = 0
  BY <1>4, <1>9, NextField
<1>11. X * R * 4 * 4 = X * (16 * R) /\ X * 4 * 2 = X * 8
  BY <1>1 DEF Positive
<1> QED
  BY <1>2, <1>5, <1>6, <1>7, <1>8, <1>9, <1>10, <1>11 DEF X

\* Over all the addresses that a tensor may have, a bundle becomes a command as often.
LEMMA ChannelCount ==
  ASSUME SpreadEvenly, NEW k \in Nat
  PROVE  Cardinality({ s \in 0 .. AllChannels - 1 : s + k \in FirstChannel }) = 2
<1> DEFINE X == AllChannels
           A(r) == { s \in 0 .. X * 1 - 1 : (s + k) % X = r }
<1>1. X \in Positive /\ X * 1 = X
  BY ChannelsType DEF Positive
<1>2. 0 \in 0 .. X - 1 /\ NumCube \in 0 .. X - 1 /\ NumCube # 0
  BY FirstChannelIs, 0 \in Nat
<1>3. IsFiniteSet(A(0)) /\ Cardinality(A(0)) = 1
  BY <1>1, <1>2, CountShifted
<1>4. IsFiniteSet(A(NumCube)) /\ Cardinality(A(NumCube)) = 1
  BY <1>1, <1>2, CountShifted
<1>5. { s \in 0 .. X - 1 : s + k \in FirstChannel } = A(0) \cup A(NumCube)
  <2>1. \A s \in 0 .. X - 1 : s + k \in FirstChannel <=> (s + k) % X = 0 \/ (s + k) % X = NumCube
    <3> TAKE s \in 0 .. X - 1
    <3>1. s + k \in Nat
      BY <1>1 DEF Positive
    <3> QED
      BY <3>1, FirstChannelIs
  <2> QED
    BY <1>1, <2>1
<1>6. A(0) \cap A(NumCube) = {}
  BY <1>2
<1> HIDE DEF A
<1>7. Cardinality(A(0) \cup A(NumCube)) = 2
  BY <1>3, <1>4, <1>6, FS_Union, FS_EmptySet
<1> QED
  BY <1>5, <1>7 DEF X

\* Of all starts that spread over the banks, as many meet a first bank whatever the bundle.
LEMMA BankCount ==
  ASSUME SpreadEvenly, NEW p \in {"LOGIC", "PIM"}, NEW k \in Nat
  PROVE  Cardinality({ s \in 0 .. AllBanksOf(AllChannels) - 1 : s + k \in FirstBanks(p) })
           = IF p = "PIM" THEN 1 ELSE 2 * NumRank
<1> DEFINE m == IF p = "PIM" THEN AllBanksOf(AllChannels) ELSE AllChannels * 8
           q == IF p = "PIM" THEN 1 ELSE 2 * NumRank
<1>1. AllChannels \in Nat /\ NumRank \in Nat
  BY ChannelsType, MapSizes DEF Positive
<1>2. m \in Positive /\ q \in Nat /\ m * q = AllBanksOf(AllChannels)
  <2>1. AllBanksOf(AllChannels) \in Positive /\ AllChannels * 8 \in Positive
    BY FirstBanksAre, 0 \in Nat
  <2>2. (AllChannels * 8) * (2 * NumRank) = AllChannels * (16 * NumRank)
    BY <1>1
  <2> QED
    BY <1>1, <2>1, <2>2 DEF AllBanksOf, Positive
<1>3. \A a \in Nat : a \in FirstBanks(p) <=> a % m = 0
  BY FirstBanksAre
<1> HIDE DEF m, q
<1>4. { s \in 0 .. AllBanksOf(AllChannels) - 1 : s + k \in FirstBanks(p) }
        = { s \in 0 .. m * q - 1 : (s + k) % m = 0 }
  <2>1. \A s \in 0 .. m * q - 1 : s + k \in FirstBanks(p) <=> (s + k) % m = 0
    <3> TAKE s \in 0 .. m * q - 1
    <3>1. s + k \in Nat
      OBVIOUS
    <3> QED
      BY <1>3, <3>1
  <2> QED
    BY <1>2, <2>1
<1>5. 0 \in 0 .. m - 1
  BY <1>2 DEF Positive
<1>6. Cardinality({ s \in 0 .. m * q - 1 : (s + k) % m = 0 }) = q
  BY <1>2, <1>5, CountShifted
<1> QED
  BY <1>4, <1>6 DEF q

\* The commands of a transfer, weighed as the energy weighs them, account for every
\* bundle once.
LEMMA WeighsAll ==
  ASSUME SpreadEvenly, NEW on, NEW req, NEW size \in Nat,
         \/ on = "GPU" /\ req # "kGEMV"
         \/ on \in {"LOGIC", "PIM"} /\ req = "kGEMV",
         on = "PIM" => NumRank = 2
  PROVE  LET starts == 0 .. Interleaved(req) - 1
             counted == MapThenSumSet(LAMBDA s : Cardinality(Commands(on, req, size, s)), starts)
         IN counted * Weight(on, req) = Cardinality(starts) * (size \div Granul)
<1> DEFINE X == AllChannels
           T == Interleaved(req)
           starts == 0 .. T - 1
           n == size \div Granul
           H == IF req = "kGEMV" THEN FirstBanks(on) ELSE FirstChannel
           counted == MapThenSumSet(LAMBDA s : Cardinality(Commands(on, req, size, s)), starts)
           each == IF on = "GPU" THEN 2 ELSE IF on = "PIM" THEN 1 ELSE 2 * NumRank
<1>1. X \in Positive /\ NumRank \in Nat
  BY ChannelsType, MapSizes DEF Positive
<1>2. T = IF req = "kGEMV" THEN AllBanksOf(X) ELSE X
  <2>1. NumCube \in Nat /\ NumChannel \in Nat
    BY MapSizes DEF Positive
  <2>2. NumRank * 4 * 4 = 16 * NumRank
    BY <1>1
  <2>3. NumCube * NumChannel * 1 = NumCube * NumChannel
    BY <2>1
  <2> QED
    BY <2>2, <2>3 DEF Interleaved, AllChannels, AllBanksOf, SpreadEvenly
<1>3. T \in Nat /\ IsFiniteSet(starts) /\ Cardinality(starts) = T
  <2>1. T \in Nat
    BY <1>1, <1>2 DEF Positive, AllBanksOf
  <2> HIDE DEF T
  <2> QED
    BY <2>1, FS_Interval
<1>4. n \in Nat
  BY MapSizes, Remains
<1>5. \A s \in starts : Commands(on, req, size, s) = { k \in 0 .. n - 1 : s + k \in H }
  <2> TAKE s \in starts
  <2>1. s \in Nat
    BY <1>3
  <2> QED
    BY <2>1, PlainCommands, KernelCommands
<1>6. \A k \in 0 .. n - 1 : Cardinality(StartsInto(starts, H, k)) = each
  <2> TAKE k \in 0 .. n - 1
  <2>1. k \in Nat
    BY <1>4
  <2>2. CASE on = "GPU" /\ req # "kGEMV"
    BY <1>2, <2>1, <2>2, ChannelCount DEF StartsInto
  <2>3. CASE on \in {"LOGIC", "PIM"} /\ req = "kGEMV"
    BY <1>2, <2>1, <2>3, BankCount DEF StartsInto
  <2> QED
    BY <2>2, <2>3
<1>7. each \in Nat
  BY <1>1
<1> HIDE DEF n, H, each, starts, counted, T
<1> DEFINE g == [s \in starts |-> Cardinality(Commands(on, req, size, s))]
<1>8. counted = SumFunctionOnSet(g, starts)
  BY <1>3, CommandSum DEF counted
<1>9. /\ AllMeet(starts, n, H, each)
      /\ Meetings(g, starts, n, H)
  BY <1>5, <1>6, Zenon DEF AllMeet, Meetings, ShiftsInto
<1>10. counted = n * each
  <2> HIDE DEF g
  <2>1. SumFunctionOnSet(g, starts) = n * each
    BY <1>3, <1>4, <1>7, <1>9, DoubleCount
  <2> QED
    BY <1>8, <2>1
<1>11. each * Weight(on, req) = T /\ Weight(on, req) \in Nat
  <2>1. CASE on = "GPU" /\ req # "kGEMV"
    <3> DEFINE h == X \div 2
    <3>1. X % 2 = 0
      <4> DEFINE b == NumChannel \div 2
      <4>1. b \in Nat /\ NumChannel = 2 * b /\ NumCube \in Nat
        <5>1. NumChannel \in Nat /\ NumChannel % 2 = 0 /\ NumCube \in Nat
          BY MapSizes DEF SpreadEvenly, Positive
        <5> QED
          BY <5>1
      <4> HIDE DEF b
      <4>2. X = 2 * (NumCube * b) /\ NumCube * b \in Nat
        BY <4>1 DEF AllChannels
      <4> HIDE DEF X
      <4> QED
        BY <4>2
    <3>2. h \in Nat /\ X = 2 * h
      BY <1>1, <3>1 DEF Positive
    <3>3. Weight(on, req) = h * 1
      BY <2>1 DEF Weight, num_pseudo_ch, AllChannels
    <3>4. each = 2 /\ T = X
      BY <1>2, <2>1 DEF each
    <3> HIDE DEF h
    <3> QED
      BY <3>2, <3>3, <3>4
  <2>2. CASE on \in {"LOGIC", "PIM"} /\ req = "kGEMV"
    <3>1. T = X * (16 * NumRank)
      BY <1>2, <2>2 DEF AllBanksOf
    <3>2. Weight(on, req) = X * (IF on = "LOGIC" THEN 8 ELSE 32)
      BY <2>2 DEF Weight, num_pseudo_ch, AllBanks, AllChannels
    <3>3. X \in Nat /\ each = IF on = "PIM" THEN 1 ELSE 2 * NumRank
      BY <1>1, <2>2 DEF each, Positive
    <3> HIDE DEF X
    <3>4. CASE on = "PIM"
      BY <3>1, <3>2, <3>3, <3>4
    <3>5. CASE on = "LOGIC"
      <4>1. (2 * NumRank) * (X * 8) = X * (16 * NumRank)
        BY <1>1, <3>3
      <4> QED
        BY <3>1, <3>2, <3>3, <3>5, <4>1
    <3> QED
      BY <2>2, <3>4, <3>5
  <2> QED
    BY <2>1, <2>2
<1>12. counted * Weight(on, req) = T * n
  <2> DEFINE w == Weight(on, req)
  <2>1. w \in Nat /\ each * w = T
    BY <1>11
  <2> HIDE DEF w
  <2>2. (n * each) * w = (each * w) * n
    BY <1>4, <1>7, <2>1
  <2>3. counted * w = T * n
    BY <1>10, <2>1, <2>2
  <2> QED
    BY <2>3 DEF w
<1> QED
  BY <1>3, <1>12 DEF n, counted, starts, T

---------------------------------------------------------------------------
(* Two bundles have two places.                                          *)

\* What is left of an address of a lower field's range.
LEMMA LeftBelow ==
  ASSUME NEW a \in Nat, NEW m \in Positive, NEW h \in Nat, a < m * h
  PROVE  a \div m \in Nat /\ a \div m < h
<1> DEFINE q == a \div m
           r == a % m
<1>1. q \in Nat /\ r \in Nat /\ a = m * q + r
  BY Divided DEF Positive
<1>2. m \in Nat /\ m >= 1
  BY DEF Positive
<1> HIDE DEF q, r
<1>3. q < h
  <2> SUFFICES ASSUME q >= h PROVE FALSE
    BY <1>1
  <2> DEFINE y == q - h
  <2>1. y \in Nat /\ q = h + y
    BY <1>1
  <2> HIDE DEF y
  <2>2. m * q = m * h + m * y /\ m * y \in Nat
    BY <1>2, <2>1
  <2>3. m * h \in Nat
    BY <1>2
  <2> QED
    BY <1>1, <1>2, <2>2, <2>3
<1> QED
  BY <1>1, <1>3 DEF q

\* Two bundles that agree in cube and channel are the same number of channels apart.
LEMMA SameChannel ==
  ASSUME SpreadEvenly, NEW on, NEW a \in Nat, NEW b \in Nat,
         Place(on, a).channel = Place(on, b).channel, Place(on, a).pseudo = Place(on, b).pseudo,
         AfterChannel(a) = AfterChannel(b)
  PROVE  a = b
<1> DEFINE m == NumChannel
           c(x) == x % NumCube
           d(x) == AfterCube(x) % NumChannel
<1>1. \A x \in {a, b} : /\ c(x) \in Nat /\ d(x) \in Nat /\ d(x) < m
                        /\ m * c(x) + d(x) = 2 * Place(on, x).channel + Place(on, x).pseudo
  <2> TAKE x \in {a, b}
  <2>1. x \in Nat /\ AfterCube(x) \in Nat /\ NumCube \in Positive /\ NumChannel \in Positive
    BY LeftsType, MapSizes
  <2>2. c(x) \in Nat /\ d(x) \in Nat /\ d(x) < m
    BY <2>1, Remains
  <2> QED
    BY <2>1, <2>2, PlaceFields
<1>2. m * c(a) + d(a) = m * c(b) + d(b)
  BY <1>1
<1>3. m \in Positive
  BY MapSizes
<1> HIDE DEF m, c, d
<1>4. /\ c(a) \in Nat /\ d(a) \in 0 .. m - 1
      /\ c(b) \in Nat /\ d(b) \in 0 .. m - 1
  BY <1>1, <1>3 DEF Positive
<1>5. c(a) = c(b) /\ d(a) = d(b)
  <2> DEFINE n == m * c(a) + d(a)
  <2>1. n \in Nat /\ n = m * c(b) + d(b)
    BY <1>2, <1>3, <1>4 DEF Positive
  <2>2. n \div m = c(a) /\ n % m = d(a)
    <3>1. n = m * c(a) + d(a) /\ c(a) \in Int
      BY <1>4
    <3> HIDE DEF n
    <3> QED
      BY <1>3, <1>4, <2>1, <3>1, DividedIs
  <2>3. n \div m = c(b) /\ n % m = d(b)
    <3>1. c(b) \in Int
      BY <1>4
    <3> HIDE DEF n
    <3> QED
      BY <1>3, <1>4, <2>1, <3>1, DividedIs
  <2> QED
    BY <2>2, <2>3
<1>6. AfterCube(a) = AfterCube(b)
  <2>1. AfterCube(a) \in Nat /\ AfterCube(b) \in Nat /\ NumChannel \in Positive
    BY LeftsType, MapSizes
  <2>2. AfterCube(a) % NumChannel = AfterCube(b) % NumChannel
    BY <1>5 DEF d
  <2>3. AfterCube(a) \div NumChannel = AfterCube(b) \div NumChannel
    BY DEF AfterChannel
  <2> QED
    BY <2>1, <2>2, <2>3, SameParts
<1> QED
  <2>1. a % NumCube = b % NumCube
    BY <1>5 DEF c
  <2>2. a \div NumCube = b \div NumCube
    BY <1>6 DEF AfterCube
  <2>3. NumCube \in Positive
    BY MapSizes
  <2> QED
    BY <2>1, <2>2, <2>3, SameParts

\* No two bundles have the same place.
LEMMA PlainApart ==
  ASSUME SpreadEvenly, NEW on, on # "LOGIC", NEW a \in Nat, NEW b \in Nat,
         Place(on, a) = Place(on, b)
  PROVE  a = b
<1>1. /\ AfterChannel(a) % NumRank = AfterChannel(b) % NumRank
      /\ AfterRank(a) % NumBankgroup = AfterRank(b) % NumBankgroup
      /\ AfterGroup(a) % NumBank = AfterGroup(b) % NumBank
      /\ AfterBank(a) % NumCol = AfterBank(b) % NumCol
      /\ AfterBank(a) \div NumCol = AfterBank(b) \div NumCol
  <2>1. \A x \in {a, b} :
          /\ Place(on, x).rank = AfterChannel(x) % NumRank
          /\ Place(on, x).bankgroup = AfterRank(x) % NumBankgroup
          /\ Place(on, x).bank = AfterGroup(x) % NumBank
          /\ Place(on, x).col = AfterBank(x) % NumCol /\ Place(on, x).row = AfterBank(x) \div NumCol
    BY PlainPlace
  <2> QED
    BY <2>1
<1>2. /\ {AfterChannel(a), AfterRank(a), AfterGroup(a), AfterBank(a)} \subseteq Nat
      /\ {AfterChannel(b), AfterRank(b), AfterGroup(b), AfterBank(b)} \subseteq Nat
      /\ {NumRank, NumBankgroup, NumBank, NumCol} \subseteq Positive
  BY LeftsType, MapSizes
<1>3. AfterBank(a) = AfterBank(b)
  BY <1>1, <1>2, SameParts
<1>4. AfterGroup(a) = AfterGroup(b)
  BY <1>1, <1>2, <1>3, SameParts DEF AfterBank
<1>5. AfterRank(a) = AfterRank(b)
  BY <1>1, <1>2, <1>4, SameParts DEF AfterGroup
<1>6. AfterChannel(a) = AfterChannel(b)
  BY <1>1, <1>2, <1>5, SameParts DEF AfterRank
<1> QED
  BY <1>6, SameChannel

\* The bundles of the memory.  What LOGIC's map leaves of a larger address is dropped.
MemoryBundles == AllChannels * NumRank * NumBankgroup * NumBank * NumCol * NumRow

\* Within the memory, what the map of LOGIC leaves over is its rank.
LEMMA LogicRange ==
  ASSUME SpreadEvenly, NEW a \in Nat, a < MemoryBundles
  PROVE  LogicHigh(a) < NumRank
<1> DEFINE X == AllChannels
           L == NumCol
           W == NumRow
           R == NumRank
<1>1. /\ X \in Positive /\ L \in Positive /\ W \in Positive /\ R \in Positive
      /\ 2 \in Positive /\ 4 \in Positive
  BY ChannelsType, MapSizes DEF Positive
<1>2. MemoryBundles = X * R * 4 * 4 * L * W
  BY DEF MemoryBundles, SpreadEvenly
<1>3. /\ AfterChannel(a) = a \div X /\ LogicGroup(a) = AfterChannel(a) \div 4
      /\ LogicLow(a) = LogicGroup(a) \div 2 /\ LogicCol(a) = LogicLow(a) \div L
      /\ LogicRow(a) = LogicCol(a) \div W /\ LogicHigh(a) = LogicRow(a) \div 2
  BY ChannelsType DEF LogicGroup, LogicLow, LogicCol, LogicRow, LogicHigh, SpreadEvenly
<1> HIDE DEF X, L, W
<1> DEFINE M == X * 4 * 2 * L * W * 2
<1>4. X * 4 \in Positive /\ LogicGroup(a) = a \div (X * 4)
  BY <1>1, <1>3, NextField
<1>5. X * 4 * 2 \in Positive /\ LogicLow(a) = a \div (X * 4 * 2)
  BY <1>1, <1>3, <1>4, NextField
<1>6. X * 4 * 2 * L \in Positive /\ LogicCol(a) = a \div (X * 4 * 2 * L)
  BY <1>1, <1>3, <1>5, NextField
<1>7. X * 4 * 2 * L * W \in Positive /\ LogicRow(a) = a \div (X * 4 * 2 * L * W)
  BY <1>1, <1>3, <1>6, NextField
<1>8. M \in Positive /\ LogicHigh(a) = a \div M
  BY <1>1, <1>3, <1>7, NextField
<1> HIDE DEF R
<1>9. M * R = MemoryBundles
  <2>1. X \in Nat /\ L \in Nat /\ W \in Nat /\ R \in Nat
    BY <1>1 DEF Positive
  <2> DEFINE y == L * W
  <2>2. y \in Nat /\ X * 4 * 2 * L * W * 2 = 16 * (X * y) /\ X * R * 4 * 4 * L * W = 16 * ((X * R) * y)
    BY <2>1
  <2> HIDE DEF y
  <2>3. (16 * (X * y)) * R = 16 * ((X * R) * y)
    BY <2>1, <2>2
  <2>4. M = 16 * (X * y)
    BY <2>2
  <2> QED
    BY <1>2, <2>2, <2>3, <2>4
<1> HIDE DEF M
<1>10. a \div M < R
  <2>1. a < M * R /\ R \in Nat
    BY <1>1, <1>9 DEF Positive
  <2> QED
    BY <1>8, <2>1, LeftBelow
<1> QED
  BY <1>8, <1>10 DEF R

\* Two bundles of the memory have two places on the map of LOGIC.
LEMMA LogicApart ==
  ASSUME SpreadEvenly, NEW a \in Nat, NEW b \in Nat, a < MemoryBundles, b < MemoryBundles,
         Place("LOGIC", a) = Place("LOGIC", b)
  PROVE  a = b
<1>1. /\ AfterChannel(a) % NumBankgroup = AfterChannel(b) % NumBankgroup
      /\ 2 * (LogicRow(a) % 2) + (LogicGroup(a) % 2) = 2 * (LogicRow(b) % 2) + (LogicGroup(b) % 2)
      /\ LogicLow(a) % NumCol = LogicLow(b) % NumCol
      /\ LogicCol(a) % NumRow = LogicCol(b) % NumRow
      /\ LogicHigh(a) % NumRank = LogicHigh(b) % NumRank
  <2>1. \A x \in {a, b} :
          LET w == Place("LOGIC", x)
          IN /\ w.rank = LogicHigh(x) % NumRank /\ w.bankgroup = AfterChannel(x) % NumBankgroup
             /\ w.bank = 2 * (LogicRow(x) % 2) + (LogicGroup(x) % 2)
             /\ w.col = LogicLow(x) % NumCol /\ w.row = LogicCol(x) % NumRow
    BY LogicPlace
  <2> QED
    BY <2>1
<1>2. /\ {AfterChannel(a), LogicGroup(a), LogicLow(a), LogicCol(a), LogicRow(a), LogicHigh(a)}
           \subseteq Nat
      /\ {AfterChannel(b), LogicGroup(b), LogicLow(b), LogicCol(b), LogicRow(b), LogicHigh(b)}
           \subseteq Nat
      /\ {NumRank, NumBankgroup, NumCol, NumRow, 2} \subseteq Positive
  BY LeftsType, MapSizes
<1>3. LogicHigh(a) = LogicHigh(b)
  <2>1. \A x \in {a, b} : LogicHigh(x) % NumRank = LogicHigh(x)
    <3> TAKE x \in {a, b}
    <3> DEFINE h == LogicHigh(x)
               r == NumRank
    <3>1. h < r /\ h \in Nat /\ r \in Positive
      BY <1>2, LogicRange
    <3> HIDE DEF h, r
    <3>2. h \in 0 .. r - 1 /\ h = r * 0 + h /\ 0 \in Int
      BY <3>1 DEF Positive
    <3>3. h % r = h
      BY <3>1, <3>2, DividedIs
    <3> QED
      BY <3>3 DEF h, r
  <2> QED
    BY <1>1, <2>1
<1>4. LogicRow(a) % 2 = LogicRow(b) % 2 /\ LogicGroup(a) % 2 = LogicGroup(b) % 2
  <2>1. \A x \in {LogicRow(a), LogicRow(b), LogicGroup(a), LogicGroup(b)} : x % 2 \in {0, 1}
    BY <1>2
  <2> QED
    BY <1>1, <2>1
<1>5. LogicRow(a) = LogicRow(b)
  BY <1>2, <1>3, <1>4, SameParts DEF LogicHigh
<1>6. LogicCol(a) = LogicCol(b)
  BY <1>1, <1>2, <1>5, SameParts DEF LogicRow
<1>7. LogicLow(a) = LogicLow(b)
  BY <1>1, <1>2, <1>6, SameParts DEF LogicCol
<1>8. LogicGroup(a) = LogicGroup(b)
  BY <1>2, <1>4, <1>7, SameParts DEF LogicLow
<1>9. AfterChannel(a) = AfterChannel(b)
  BY <1>1, <1>2, <1>8, SameParts DEF LogicGroup
<1> QED
  BY <1>9, SameChannel

\* A one-to-one image has as many members.
LEMMA CountImage ==
  ASSUME NEW K, IsFiniteSet(K), NEW f, \A a, b \in K : f[a] = f[b] => a = b
  PROVE  Cardinality({ f[k] : k \in K }) = Cardinality(K)
<1> DEFINE T == { f[k] : k \in K }
           h == [k \in K |-> f[k]]
<1>1. h \in Bijection(K, T)
  <2>1. h \in [K -> T] /\ \A k \in K : h[k] = f[k]
    OBVIOUS
  <2>2. \A t \in T : \E k \in K : f[k] = t
    OBVIOUS
  <2> HIDE DEF h, T
  <2> QED
    BY <2>1, <2>2 DEF Bijection, Injection, Surjection, IsInjective
<1> HIDE DEF h, T
<1>2. ExistsBijection(K, T)
  BY <1>1 DEF ExistsBijection
<1>3. Cardinality(T) = Cardinality(K)
  BY <1>2, FS_Bijection
<1> QED
  BY <1>3 DEF T

---------------------------------------------------------------------------
(* The commands that the ideal model counts.                             *)

\* The multiples of c below n.
LEMMA CeilBelow ==
  ASSUME NEW n \in Nat, NEW c \in Positive
  PROVE  /\ CeilDiv(n, c) \in Nat
         /\ \A j \in Nat : c * j \in Nat /\ (c * j < n <=> j < CeilDiv(n, c))
<1> DEFINE x == n + c - 1
           q == x \div c
           r == x % c
<1>1. c \in Nat /\ c >= 1
  BY DEF Positive
<1>2. x \in Nat
  BY <1>1
<1> HIDE DEF x
<1>3. q \in Nat /\ r \in 0 .. c - 1 /\ x = c * q + r
  BY <1>2, Divided
<1> HIDE DEF q, r
<1>4. ASSUME NEW j \in Nat
      PROVE  c * j \in Nat /\ (c * j < n <=> j < q)
  <2>1. c * j \in Nat /\ c * q \in Nat
    BY <1>1, <1>3
  <2>2. n + c = c * q + r + 1 /\ r \in Nat /\ r < c
    BY <1>1, <1>3 DEF x
  <2>3. CASE j < q
    <3> DEFINE y == q - j - 1
    <3>1. y \in Nat /\ q = j + 1 + y
      BY <1>3, <2>3
    <3> HIDE DEF y
    <3>2. c * q = c * j + c + c * y /\ c * y \in Nat
      BY <1>1, <3>1
    <3> QED
      BY <1>1, <2>1, <2>2, <2>3, <3>2
  <2>4. CASE j >= q
    <3> DEFINE y == j - q
    <3>1. y \in Nat /\ j = q + y
      BY <1>3, <2>4
    <3> HIDE DEF y
    <3>2. c * j = c * q + c * y /\ c * y \in Nat
      BY <1>1, <1>3, <3>1
    <3> QED
      BY <1>1, <1>3, <2>1, <2>2, <2>4, <3>2
  <2> QED
    BY <1>3, <2>3, <2>4
<1>5. CeilDiv(n, c) = q
  BY DEF CeilDiv, q, x
<1> QED
  BY <1>3, <1>4, <1>5

\* The commands of the first channel are the multiples of the cubes whose quotient
\* leaves nothing or one.
LEMMA ChannelCommands ==
  ASSUME SpreadEvenly, NEW n \in Nat
  PROVE  LET K == { k \in 0 .. n - 1 : 0 + k \in FirstChannel }
             t == CeilDiv(n, NumCube)
             J == { j \in 0 .. t - 1 : j % NumChannel = 0 } \cup { j \in 0 .. t - 1 : j % NumChannel = 1 }
         IN IsFiniteSet(J) => IsFiniteSet(K) /\ Cardinality(K) = Cardinality(J)
<1> DEFINE c == NumCube
           m == NumChannel
           t == CeilDiv(n, c)
           K == { k \in 0 .. n - 1 : 0 + k \in FirstChannel }
           J == { j \in 0 .. t - 1 : j % m = 0 } \cup { j \in 0 .. t - 1 : j % m = 1 }
           f == [j \in J |-> c * j]
<1>1. c \in Positive
  BY MapSizes
<1>2. t \in Nat /\ \A j \in Nat : c * j \in Nat /\ (c * j < n <=> j < t)
  BY <1>1, CeilBelow
<1>3. \A k : k \in K <=> /\ k \in 0 .. n - 1 /\ k % c = 0
                         /\ ((k \div c) % m = 0 \/ (k \div c) % m = 1)
  BY DEF FirstChannel, AfterCube
<1>4. \A j : j \in J <=> j \in 0 .. t - 1 /\ (j % m = 0 \/ j % m = 1)
  OBVIOUS
<1> HIDE DEF c, m, t, K, J
<1>5. \A j \in Nat : (c * j) \div c = j /\ (c * j) % c = 0
  <2> TAKE j \in Nat
  <2> DEFINE n0 == c * j
  <2>1. n0 \in Nat /\ n0 = c * j + 0 /\ j \in Int /\ 0 \in 0 .. c - 1
    BY <1>1, <1>2 DEF Positive
  <2> HIDE DEF n0
  <2>2. n0 \div c = j /\ n0 % c = 0
    BY <1>1, <2>1, DividedIs
  <2> QED
    BY <2>2 DEF n0
<1>6. \A j \in J : f[j] \in K
  <2> SUFFICES ASSUME NEW j \in J PROVE c * j \in K
    OBVIOUS
  <2>1. j \in Nat /\ j < t /\ (j % m = 0 \/ j % m = 1)
    BY <1>2, <1>4
  <2>2. c * j \in 0 .. n - 1
    BY <1>2, <2>1
  <2> DEFINE k == c * j
  <2>3. k \div c = j /\ k % c = 0
    BY <1>5, <2>1
  <2> HIDE DEF k
  <2>4. k \in K
    BY <1>3, <2>1, <2>2, <2>3 DEF k
  <2> QED
    BY <2>4 DEF k
<1>7. \A i, j \in J : f[i] = f[j] => i = j
  <2> SUFFICES ASSUME NEW i \in J, NEW j \in J, c * i = c * j PROVE i = j
    OBVIOUS
  <2>1. i \in Nat /\ j \in Nat
    BY <1>2, <1>4
  <2>2. (c * i) \div c = i /\ (c * j) \div c = j
    BY <1>5, <2>1
  <2> QED
    BY <2>2
<1>8. \A k \in K : \E j \in J : f[j] = k
  <2> SUFFICES ASSUME NEW k \in K PROVE \E j \in J : c * j = k
    OBVIOUS
  <2> DEFINE j == k \div c
  <2>1. k \in Nat /\ k < n /\ k % c = 0 /\ (j % m = 0 \/ j % m = 1)
    BY <1>3
  <2>2. j \in Nat /\ k = c * j + (k % c)
    BY <1>1, <2>1, Divided
  <2> HIDE DEF j
  <2>3. k = c * j
    BY <1>2, <2>1, <2>2
  <2>4. j \in J
    BY <1>2, <1>4, <2>1, <2>2, <2>3
  <2> QED
    BY <2>3, <2>4
<1>9. f \in Bijection(J, K)
  <2>1. f = [j \in J |-> f[j]]
    OBVIOUS
  <2> HIDE DEF f
  <2> QED
    BY <1>6, <1>7, <1>8, <2>1 DEF Bijection, Injection, Surjection, IsInjective
<1>10. ExistsBijection(J, K)
  BY <1>9 DEF ExistsBijection
<1>11. IsFiniteSet(J) => IsFiniteSet(K) /\ Cardinality(K) = Cardinality(J)
  BY <1>10, FS_Bijection
<1> QED
  BY <1>11 DEF K, J, t, m, c

\* The ideal memory model counts the commands of a transfer, or one more.
LEMMA IdealCount ==
  ASSUME SpreadEvenly, NEW on, NEW req, req # "kGEMV", NEW size \in Nat
  PROVE  run_ideal(size) - Cardinality(Commands(on, req, size, 0)) \in {0, 1}
<1> DEFINE n == size \div Granul
           t == CeilDiv(n, NumCube)
           m == NumChannel
           K == { k \in 0 .. n - 1 : 0 + k \in FirstChannel }
           J(r) == { j \in 0 .. t - 1 : j % m = r }
           u == t \div m
           v == t % m
<1>1. n \in Nat
  BY MapSizes, Remains
<1>2. t \in Nat
  <2> HIDE DEF n
  <2> QED
    BY <1>1, MapSizes, CeilBelow
<1>3. m \in Positive /\ m \in Nat /\ m >= 2
  BY TwoChannels DEF Positive
<1>4. Commands(on, req, size, 0) = K
  BY PlainCommands
<1>5. IsFiniteSet(J(0) \cup J(1)) => Cardinality(K) = Cardinality(J(0) \cup J(1))
  <2> HIDE DEF n
  <2> QED
    BY <1>1, ChannelCommands
<1> HIDE DEF t
<1>6. u \in Nat /\ v \in 0 .. m - 1 /\ t = m * u + v
  BY <1>2, <1>3, Divided
<1>7. run_ideal(size) = IF size = 0 THEN 0
                        ELSE CeilDiv(t, m) + (IF v = 1 THEN u ELSE u + 1)
  BY DEF run_ideal, t
<1> HIDE DEF m, n, u, v
<1>8. 0 \in 0 .. m - 1 /\ 1 \in 0 .. m - 1
  BY <1>3
<1> DEFINE q(r) == (t + (m - 1 - r)) \div m
<1>9. \A r \in 0 .. m - 1 : IsFiniteSet(J(r)) /\ q(r) \in Nat /\ Cardinality(J(r)) = q(r)
  BY <1>2, <1>3, CountBelow
<1>10. J(0) \cap J(1) = {}
  OBVIOUS
<1> HIDE DEF J
<1>11. IsFiniteSet(J(0) \cup J(1)) /\ Cardinality(J(0) \cup J(1)) = q(0) + q(1)
  <2> HIDE DEF q
  <2>1. /\ IsFiniteSet(J(0)) /\ q(0) \in Nat /\ Cardinality(J(0)) = q(0)
        /\ IsFiniteSet(J(1)) /\ q(1) \in Nat /\ Cardinality(J(1)) = q(1)
    BY <1>8, <1>9
  <2>2. Cardinality(J(0) \cap J(1)) = 0
    BY <1>10, FS_EmptySet
  <2>3. /\ IsFiniteSet(J(0) \cup J(1))
        /\ Cardinality(J(0) \cup J(1)) = Cardinality(J(0)) + Cardinality(J(1)) - Cardinality(J(0) \cap J(1))
    BY <2>1, FS_Union
  <2> QED
    BY <2>1, <2>2, <2>3
<1>12. q(0) = CeilDiv(t, m)
  <2>1. t + (m - 1 - 0) = t + m - 1
    BY <1>2, <1>3
  <2> QED
    BY <2>1 DEF CeilDiv
<1>13. q(1) = IF v \in {0, 1} THEN u ELSE u + 1
  <2> DEFINE x == t + (m - 1 - 1)
             y == IF v \in {0, 1} THEN u ELSE u + 1
             z == IF v \in {0, 1} THEN v + m - 2 ELSE v - 2
  <2>1. x \in Nat /\ y \in Int /\ z \in 0 .. m - 1
    BY <1>2, <1>3, <1>6
  <2>2. x = m * y + z
    <3>1. CASE v \in {0, 1}
      BY <1>2, <1>3, <1>6, <3>1
    <3>2. CASE v \notin {0, 1}
      <4>1. y = u + 1 /\ z = v - 2
        BY <3>2
      <4> HIDE DEF y, z
      <4>2. m * y = m * u + m /\ m * u \in Nat
        BY <1>3, <1>6, <4>1
      <4> QED
        BY <1>2, <1>3, <1>6, <4>1, <4>2
    <3> QED
      BY <3>1, <3>2
  <2> HIDE DEF x, y, z
  <2>3. x \div m = y
    BY <1>3, <2>1, <2>2, DividedIs
  <2> QED
    BY <2>3 DEF x, y
<1>14. CASE size = 0
  <2>1. n = 0
    <3> DEFINE g == Granul
    <3>1. g \in Positive /\ 0 \in Nat /\ 0 = g * 0 + 0 /\ 0 \in Int /\ 0 \in 0 .. g - 1
      BY MapSizes DEF Positive
    <3> HIDE DEF g
    <3>2. 0 \div g = 0
      BY <3>1, DividedIs
    <3> QED
      BY <1>14, <3>2 DEF n, g
  <2>2. K = {}
    BY <2>1
  <2>3. Cardinality(K) = 0
    BY <2>2, FS_EmptySet
  <2> QED
    BY <1>4, <1>7, <1>14, <2>3
<1>15. CASE size # 0
  <2> DEFINE x == q(0)
             y == q(1)
  <2>1. Cardinality(K) = x + y
    BY <1>5, <1>11
  <2>2. x \in Nat /\ y \in Nat
    BY <1>8, <1>9
  <2>3. y = IF v \in {0, 1} THEN u ELSE u + 1
    BY <1>13
  <2>4. run_ideal(size) = x + (IF v = 1 THEN u ELSE u + 1)
    BY <1>7, <1>12, <1>15
  <2> HIDE DEF x, y, K
  <2> QED
    BY <1>3, <1>4, <1>6, <2>1, <2>2, <2>3, <2>4
<1> QED
  BY <1>14, <1>15

---------------------------------------------------------------------------
(* The GPU issues no GEMV.                                               *)

\* The GPU only reads and writes.
ReadWrite(moves) == \A j \in DOMAIN moves : moves[j].req # "kGEMV"
AllReadWrite(ps) == \E n : Phased(ps, n) /\ \A k \in 1 .. n : ReadWrite(ps[k].ram)

\* Phases that only read and write, one list after the other.
LEMMA ReadWriteJoin ==
  ASSUME NEW ps, AllReadWrite(ps), NEW qs, AllReadWrite(qs)
  PROVE  AllReadWrite(ps \o qs)
<1>1. PICK n : Phased(ps, n) /\ \A k \in 1 .. n : ReadWrite(ps[k].ram)
  BY DEF AllReadWrite
<1>2. PICK m : Phased(qs, m) /\ \A k \in 1 .. m : ReadWrite(qs[k].ram)
  BY DEF AllReadWrite
<1>3. Phased(ps \o qs, n + m) /\ Joining(ps \o qs, ps, n, qs, m)
  BY <1>1, <1>2, PhasedJoin
<1>4. n \in Nat /\ m \in Nat
  BY <1>1, <1>2 DEF Phased
<1>5. ASSUME NEW k \in 1 .. n + m PROVE ReadWrite((ps \o qs)[k].ram)
  <2>1. CASE k \in 1 .. n
    BY <1>1, <1>3, <2>1 DEF Joining
  <2>2. CASE k \notin 1 .. n
    <3>1. k - n \in 1 .. m /\ n + (k - n) = k
      BY <1>4, <2>2
    <3> QED BY <1>2, <1>3, <3>1 DEF Joining
  <2> QED BY <2>1, <2>2
<1> QED BY <1>3, <1>5 DEF AllReadWrite

\* One such phase, or none.
LEMMA ReadWriteOne ==
  ASSUME NEW phase, ReadWrite(phase.ram)
  PROVE  AllReadWrite(<< phase >>) /\ AllReadWrite(<< >>)
<1> DEFINE s == << phase >>
           t == << >>
<1>1. Phased(s, 1) /\ s[1] = phase /\ Phased(t, 0)
  BY DEF Phased
<1>2. \A k \in 1 .. 1 : k = 1
  OBVIOUS
<1>3. \A k \in 1 .. 0 : FALSE
  OBVIOUS
<1> HIDE DEF s, t
<1>4. AllReadWrite(s) /\ AllReadWrite(t)
  BY <1>1, <1>2, <1>3 DEF AllReadWrite
<1> QED BY <1>4 DEF s, t

\* As many of them as there are members.
LEMMA ReadWriteEach ==
  ASSUME NEW n \in Nat, NEW ps, ps = [k \in 1 .. n |-> ps[k]], \A k \in 1 .. n : ReadWrite(ps[k].ram)
  PROVE  AllReadWrite(ps)
BY DEF AllReadWrite, Phased

\* What the phases are made of.
LEMMA ReadWriteMoves ==
  /\ ReadWrite(<< >>)
  /\ \A p, a : ReadWrite(<< Read(p, a) >>)
  /\ \A p, a, b : ReadWrite(<< Read(p, a), Write(p, b) >>)
  /\ \A p, a, b, c : ReadWrite(<< Read(p, a), Read(p, b), Write(p, c) >>)
  /\ \A p, a, b, c, d : ReadWrite(<< Read(p, a), Read(p, b), Read(p, c), Write(p, d) >>)
  /\ \A p, a, b, c, d, e, f : ReadWrite(<< Read(p, a), Read(p, b), Read(p, c), Write(p, d),
                                       Read(p, e), Write(p, f) >>)
<1>1. \A p, a : Read(p, a).req = "kRead" /\ Write(p, a).req = "kWrite"
  BY DEF Read, Write
<1>2. ASSUME NEW x, NEW y, NEW z, NEW w, NEW u, NEW v,
             x.req # "kGEMV", y.req # "kGEMV", z.req # "kGEMV", w.req # "kGEMV", u.req # "kGEMV",
             v.req # "kGEMV"
      PROVE  /\ ReadWrite(<< >>) /\ ReadWrite(<< x >>) /\ ReadWrite(<< x, y >>) /\ ReadWrite(<< x, y, z >>)
             /\ ReadWrite(<< x, y, z, w >>) /\ ReadWrite(<< x, y, z, w, u, v >>)
  BY <1>2 DEF ReadWrite
<1>3. ReadWrite(<< >>)
  BY DEF ReadWrite
<1>4. \A p, a : ReadWrite(<< Read(p, a) >>)
  BY <1>1, <1>2
<1>5. \A p, a, b : ReadWrite(<< Read(p, a), Write(p, b) >>)
  BY <1>1, <1>2
<1>6. \A p, a, b, c : ReadWrite(<< Read(p, a), Read(p, b), Write(p, c) >>)
  BY <1>1, <1>2
<1>7. \A p, a, b, c, d : ReadWrite(<< Read(p, a), Read(p, b), Read(p, c), Write(p, d) >>)
  BY <1>1, <1>2
<1>8. \A p, a, b, c, d, e, f : ReadWrite(<< Read(p, a), Read(p, b), Read(p, c), Write(p, d),
                                        Read(p, e), Write(p, f) >>)
  BY <1>1, <1>2
<1> QED
  BY <1>3, <1>4, <1>5, <1>6, <1>7, <1>8

\* The transfers of a phase do not depend on what is charged, nor on the ideal ones.
LEMMA PhaseMoves ==
  ASSUME NEW i, NEW p, NEW f, NEW b, NEW moves, NEW other
  PROVE  /\ Phase(i, p, f, b, moves).ram = moves
         /\ [Phase(i, p, f, b, moves) EXCEPT !.charged = other].ram = moves
         /\ [Phase(i, p, f, b, moves) EXCEPT !.ideal = other].ram = moves
         /\ [Phase(i, p, f, b, moves) EXCEPT !.bytes = other].ram = moves
BY DEF Phase

\* A phase that is left out when it has nothing to do.
LEMMA PlainUnless ==
  ASSUME NEW shape, NEW phase, ReadWrite(phase.ram)
  PROVE  AllReadWrite(UnlessEmpty(shape, phase))
BY ReadWriteOne DEF UnlessEmpty

\* The GPU's functions of the layers without a batch.
LEMMA LayersPlain ==
  ASSUME NEW call, call.layer \in {"LINEAR", "BATCHED_LINEAR", "ACTIVATION"}, NEW i
  PROVE  AllReadWrite(LayerPhases(call, "GPU", i))
<1> DEFINE in == call.in.shape
           out == call.out.shape
           w == call.w
<1>1. CASE call.layer = "LINEAR"
  <2> DEFINE moves == << Read("GPU", Size(in)), Read("GPU", Size(w)), Write("GPU", in[1] * w[2]) >>
             phase == LinearPhase(i, "GPU", in, w)
  <2>1. LayerPhases(call, "GPU", i) = UnlessEmpty(in, phase)
    BY <1>1 DEF LayerPhases, ByProcessor, LinearExecutionGPU
  <2>2. WithWeight(Read("GPU", Size(w)), FromHost(Size(in), in[1] * w[2])) = moves
    <3> DEFINE x == Read("GPU", Size(in))
               y == Write("GPU", in[1] * w[2])
               z == Read("GPU", Size(w))
    <3>1. FromHost(Size(in), in[1] * w[2]) = << x, y >>
      BY DEF FromHost
    <3> HIDE DEF x, y, z
    <3>2. WithWeight(z, << x, y >>) = << x, z, y >>
      BY DEF WithWeight
    <3> QED
      BY <3>1, <3>2 DEF x, y, z
  <2>3. phase = Phase(i, "GPU", 2 * in[1] * in[2] * w[2],
                      i.precision * (in[1] * in[2] + in[2] * w[2] + in[1] * w[2]), moves)
    <3> HIDE DEF moves
    <3> QED
      BY <2>2 DEF LinearPhase, Product
  <2>4. ReadWrite(moves)
    BY ReadWriteMoves
  <2> HIDE DEF moves
  <2>5. phase.ram = moves
    BY <2>3, PhaseMoves
  <2> HIDE DEF phase
  <2> QED
    BY <2>1, <2>4, <2>5, PlainUnless
<1>2. CASE call.layer = "BATCHED_LINEAR"
  <2> DEFINE h == in[1]
             m == in[2]
             k == in[3]
             n == w[3]
             input == IF i.duplicated_input THEN m * k ELSE m * k * h
             moves(size) == << Read("GPU", size), Read("GPU", k * n * h), Write("GPU", m * n * h) >>
             phase == [Phase(i, "GPU", 2 * m * k * n * h,
                             i.precision * (input + k * n * h + m * n * h), moves(input))
                         EXCEPT !.ideal = moves(Size(in))]
  <2>1. LayerPhases(call, "GPU", i) = UnlessEmpty(in, phase)
    BY <1>2 DEF LayerPhases, ByProcessor, BatchedLinearExecutionGPU
  <2>2. ReadWrite(moves(input))
    BY ReadWriteMoves
  <2>3. phase.ram = moves(input)
    BY PhaseMoves
  <2> HIDE DEF phase, moves
  <2> QED
    BY <2>1, <2>2, <2>3, PlainUnless
<1>3. CASE call.layer = "ACTIVATION"
  <2> DEFINE moves == << Read("GPU", Size(out)), Read("GPU", Size(in)), Write("GPU", Size(out)) >>
             bytes == i.precision * (Size(out) + Size(in) + Size(out))
             phase == ActivationPhase(i, "GPU", in, out, GateInputOutput("GPU", in, out))
  <2>1. LayerPhases(call, "GPU", i) = UnlessEmpty(in, phase)
    BY <1>3 DEF LayerPhases, ByProcessor, ActivationExecutionGPU
  <2>2. phase = Phase(i, "GPU", 0, bytes, moves)
    BY DEF ActivationPhase, GateInputOutput
  <2>3. ReadWrite(moves)
    BY ReadWriteMoves
  <2> HIDE DEF moves
  <2>4. phase.ram = moves
    BY <2>2, PhaseMoves
  <2> HIDE DEF phase
  <2> QED
    BY <2>1, <2>3, <2>4, PlainUnless
<1> QED
  BY <1>1, <1>2, <1>3

\* The phases of the attention, each on its own.
LEMMA PlainSum ==
  ASSUME NEW i, NEW s
  PROVE  /\ ReadWrite(SumScoringGPU(i, s).ram) /\ ReadWrite(SumSoftmaxGPU(i, s).ram)
         /\ ReadWrite(SumContextGPU(i, s).ram)
<1>1. ReadWrite(SumScoringGPU(i, s).ram)
  BY ReadWriteMoves, PhaseMoves DEF SumScoringGPU
<1>2. ReadWrite(SumSoftmaxGPU(i, s).ram)
  BY ReadWriteMoves, PhaseMoves DEF SumSoftmaxGPU
<1>3. ReadWrite(SumContextGPU(i, s).ram)
  BY ReadWriteMoves, PhaseMoves DEF SumContextGPU
<1> QED
  BY <1>1, <1>2, <1>3

\* The prompt of latent attention on the GPU.
LEMMA PlainLatentSum ==
  ASSUME NEW i, NEW s
  PROVE  /\ ReadWrite(MLASumFlashGPU(i, s).ram) /\ ReadWrite(MLASumScoringGPU(i, s).ram)
         /\ ReadWrite(MLASumSoftmaxGPU(i, s).ram) /\ ReadWrite(MLASumContextGPU(i, s).ram)
<1>1. ReadWrite(MLASumFlashGPU(i, s).ram)
  BY ReadWriteMoves, PhaseMoves DEF MLASumFlashGPU, FlashAttention
<1>2. ReadWrite(MLASumScoringGPU(i, s).ram)
  <2> DEFINE k == i.hd + i.rope
             x == HeadProduct(i, "GPU", s.m, k, s.n)
             y == [x EXCEPT !.ideal[2] = Read("GPU", k * s.n * i.KVH)]
  <2>1. ReadWrite(x.ram)
    BY ReadWriteMoves, PhaseMoves DEF HeadProduct
  <2>2. MLASumScoringGPU(i, s) = y
    BY DEF MLASumScoringGPU, MLASumScoring
  <2>3. y.ram = x.ram
    BY DEF HeadProduct, Phase
  <2> QED
    BY <2>1, <2>2, <2>3
<1>3. ReadWrite(MLASumSoftmaxGPU(i, s).ram)
  BY ReadWriteMoves, PhaseMoves DEF MLASumSoftmaxGPU, Softmax
<1>4. ReadWrite(MLASumContextGPU(i, s).ram)
  <2> DEFINE a == Read("GPU", s.m * s.n * i.H)
             b == Read("GPU", s.n * i.hd * i.H)
             c == Write("GPU", s.m * i.hd * i.H)
             v == Read("GPU", s.n * i.hd * i.KVH)
             x == HeadProduct(i, "GPU", s.m, s.n, i.hd)
             y == [x EXCEPT !.ideal[2] = v, !.ram[2] = v]
  <2>1. x.ram = << a, b, c >> /\ "ram" \in DOMAIN x
    BY DEF HeadProduct, Phase
  <2>2. MLASumContextGPU(i, s) = y
    BY DEF MLASumContextGPU, MLASumContext
  <2>3. y.ram = [x.ram EXCEPT ![2] = v]
    BY DEF HeadProduct, Phase
  <2>4. ReadWrite(<< a, v, c >>)
    BY ReadWriteMoves
  <2> HIDE DEF a, b, c, v
  <2>5. [<< a, b, c >> EXCEPT ![2] = v] = << a, v, c >>
    OBVIOUS
  <2> HIDE DEF x, y
  <2> QED
    BY <2>1, <2>2, <2>3, <2>4, <2>5
<1> QED
  BY <1>1, <1>2, <1>3, <1>4

\* The prompt of absorbed latent attention on the GPU.
LEMMA PlainAbsorbedSum ==
  ASSUME NEW i, NEW s
  PROVE  /\ ReadWrite(AbsorbSumScoringGPU(i, s).ram) /\ ReadWrite(AbsorbSumRopeGPU(i, s).ram)
         /\ ReadWrite(AbsorbSumSoftmaxGPU(i, s).ram) /\ ReadWrite(AbsorbSumContextGPU(i, s).ram)
<1>1. \A m, k, n : ReadWrite(LatentProduct(i, "GPU", m, k, n).ram)
  BY ReadWriteMoves, PhaseMoves DEF LatentProduct
<1>2. ReadWrite(AbsorbSumSoftmaxGPU(i, s).ram)
  BY ReadWriteMoves, PhaseMoves DEF AbsorbSumSoftmaxGPU, Softmax
<1> QED
  BY <1>1, <1>2 DEF AbsorbSumScoringGPU, AbsorbSumRopeGPU, AbsorbSumContextGPU

\* The GPU's functions of the attention.
LEMMA SumsPlain ==
  ASSUME NEW layer \in SumLayer, NEW i, NEW seqs, Len(seqs) \in Nat
  PROVE  AllReadWrite(SumPhases(layer, "GPU", i, seqs))
<1> DEFINE n == Len(seqs)
<1>1. CASE layer = "ATTENTION_SUM"
  <2> DEFINE x == [k \in 1 .. n |-> SumScoringGPU(i, seqs[k])]
             y == [k \in 1 .. n |-> SumSoftmaxGPU(i, seqs[k])]
             z == [k \in 1 .. n |-> SumContextGPU(i, seqs[k])]
  <2>1. SumPhases(layer, "GPU", i, seqs) = x \o y \o z
    BY <1>1 DEF SumPhases, ByProcessor, AttentionSumExecutionGPU, EachSequence
  <2>2. AllReadWrite(x) /\ AllReadWrite(y) /\ AllReadWrite(z)
    <3>1. /\ \A k \in 1 .. n : ReadWrite(x[k].ram)
          /\ \A k \in 1 .. n : ReadWrite(y[k].ram)
          /\ \A k \in 1 .. n : ReadWrite(z[k].ram)
      BY PlainSum
    <3>2. x = [k \in 1 .. n |-> x[k]] /\ y = [k \in 1 .. n |-> y[k]] /\ z = [k \in 1 .. n |-> z[k]]
      OBVIOUS
    <3> HIDE DEF x, y, z
    <3> QED
      BY <3>1, <3>2, ReadWriteEach
  <2> HIDE DEF x, y, z
  <2> QED
    BY <2>1, <2>2, ReadWriteJoin
<1>2. CASE layer = "MLA_SUM"
  <2> DEFINE f == [k \in 1 .. n |-> MLASumFlashGPU(i, seqs[k])]
             x == [k \in 1 .. n |-> MLASumScoringGPU(i, seqs[k])]
             y == [k \in 1 .. n |-> MLASumSoftmaxGPU(i, seqs[k])]
             z == [k \in 1 .. n |-> MLASumContextGPU(i, seqs[k])]
  <2>1. SumPhases(layer, "GPU", i, seqs) = IF i.use_flash_attention THEN f ELSE x \o y \o z
    BY <1>2 DEF SumPhases, ByProcessor, MultiLatentAttentionSumExecutionGPU, EachSequence
  <2>2. AllReadWrite(f) /\ AllReadWrite(x) /\ AllReadWrite(y) /\ AllReadWrite(z)
    <3>1. /\ \A k \in 1 .. n : ReadWrite(f[k].ram)
          /\ \A k \in 1 .. n : ReadWrite(x[k].ram)
          /\ \A k \in 1 .. n : ReadWrite(y[k].ram)
          /\ \A k \in 1 .. n : ReadWrite(z[k].ram)
      BY PlainLatentSum
    <3>2. /\ f = [k \in 1 .. n |-> f[k]] /\ x = [k \in 1 .. n |-> x[k]]
          /\ y = [k \in 1 .. n |-> y[k]] /\ z = [k \in 1 .. n |-> z[k]]
      OBVIOUS
    <3> HIDE DEF f, x, y, z
    <3> QED
      BY <3>1, <3>2, ReadWriteEach
  <2> HIDE DEF f, x, y, z
  <2> QED
    BY <2>1, <2>2, ReadWriteJoin
<1>3. CASE layer = "ABSORBED_MLA_SUM"
  <2> DEFINE x == [k \in 1 .. n |-> AbsorbSumScoringGPU(i, seqs[k])]
             f == [k \in 1 .. n |-> AbsorbSumRopeGPU(i, seqs[k])]
             y == [k \in 1 .. n |-> AbsorbSumSoftmaxGPU(i, seqs[k])]
             z == [k \in 1 .. n |-> AbsorbSumContextGPU(i, seqs[k])]
  <2>1. SumPhases(layer, "GPU", i, seqs) = x \o f \o y \o z
    BY <1>3 DEF SumPhases, ByProcessor, AbsorbMLASumExecutionGPU, EachSequence
  <2>2. AllReadWrite(f) /\ AllReadWrite(x) /\ AllReadWrite(y) /\ AllReadWrite(z)
    <3>1. /\ \A k \in 1 .. n : ReadWrite(f[k].ram)
          /\ \A k \in 1 .. n : ReadWrite(x[k].ram)
          /\ \A k \in 1 .. n : ReadWrite(y[k].ram)
          /\ \A k \in 1 .. n : ReadWrite(z[k].ram)
      BY PlainAbsorbedSum
    <3>2. /\ f = [k \in 1 .. n |-> f[k]] /\ x = [k \in 1 .. n |-> x[k]]
          /\ y = [k \in 1 .. n |-> y[k]] /\ z = [k \in 1 .. n |-> z[k]]
      OBVIOUS
    <3> HIDE DEF f, x, y, z
    <3> QED
      BY <3>1, <3>2, ReadWriteEach
  <2> HIDE DEF f, x, y, z
  <2> QED
    BY <2>1, <2>2, ReadWriteJoin
<1> QED
  BY <1>1, <1>2, <1>3 DEF SumLayer

\* The decode steps of latent attention on the GPU.
LEMMA PlainLatentGen ==
  ASSUME NEW i, NEW gen
  PROVE  /\ ReadWrite(MLAGenFlashGPU(i, gen).ram) /\ ReadWrite(MLAGenScoringGPU(i, gen).ram)
         /\ \A s : ReadWrite(MLAGenSoftmaxGPU(i, s).ram)
         /\ ReadWrite(MLAGenContextGPU(i, gen).ram)
<1>1. ReadWrite(MLAGenFlashGPU(i, gen).ram)
  BY ReadWriteMoves DEF MLAGenFlashGPU, MLAGenFlash, Phase
<1>2. ReadWrite(MLAGenScoringGPU(i, gen).ram)
  BY ReadWriteMoves DEF MLAGenScoringGPU, MLAGenScoring, Phase
<1>3. ASSUME NEW s PROVE ReadWrite(MLAGenSoftmaxGPU(i, s).ram)
  BY ReadWriteMoves, PhaseMoves DEF MLAGenSoftmaxGPU, MLAGenSoftmax, SoftmaxOf
<1>4. ReadWrite(MLAGenContextGPU(i, gen).ram)
  BY ReadWriteMoves DEF MLAGenContextGPU, MLAGenContext, Phase
<1> QED
  BY <1>1, <1>2, <1>3, <1>4

\* The decode steps of absorbed latent attention on the GPU.
LEMMA PlainAbsorbedGen ==
  ASSUME NEW i, NEW gen
  PROVE  /\ ReadWrite(AbsorbGenFlashGPU(i, gen).ram) /\ ReadWrite(AbsorbGenScoringGPU(i, gen).ram)
         /\ ReadWrite(AbsorbGenRopeGPU(i, gen).ram)
         /\ \A s : ReadWrite(AbsorbGenSoftmaxGPU(i, s).ram)
         /\ ReadWrite(AbsorbGenContextGPU(i, gen).ram)
<1>1. ReadWrite(AbsorbGenFlashGPU(i, gen).ram)
  BY ReadWriteMoves DEF AbsorbGenFlashGPU, AbsorbGenFlash, Phase
<1>2. ReadWrite(AbsorbGenScoringGPU(i, gen).ram)
  BY ReadWriteMoves DEF AbsorbGenScoringGPU, LatentScoring, Phase
<1>3. ReadWrite(AbsorbGenRopeGPU(i, gen).ram)
  BY ReadWriteMoves DEF AbsorbGenRopeGPU, LatentScoring, Phase
<1>4. ASSUME NEW s PROVE ReadWrite(AbsorbGenSoftmaxGPU(i, s).ram)
  BY ReadWriteMoves, PhaseMoves DEF AbsorbGenSoftmaxGPU, SoftmaxOf
<1>5. ReadWrite(AbsorbGenContextGPU(i, gen).ram)
  <2> DEFINE moves == << Read("GPU", i.H * Context(gen)), Read("GPU", Context(gen) * i.rank),
                         Write("GPU", Len(gen) * i.rank * i.H) >>
             x == LatentScoring(i, gen, "GPU", i.rank)
             y == [x EXCEPT !.ram = moves, !.ideal = moves]
  <2>1. ReadWrite(moves)
    BY ReadWriteMoves
  <2>2. AbsorbGenContextGPU(i, gen) = y
    BY DEF AbsorbGenContextGPU, AbsorbGenContext
  <2>3. "ram" \in DOMAIN x /\ "ideal" \in DOMAIN x
    BY DEF LatentScoring, Phase
  <2> HIDE DEF moves, x
  <2>4. y.ram = moves
    BY <2>3
  <2> HIDE DEF y
  <2> QED
    BY <2>1, <2>2, <2>4
<1> QED
  BY <1>1, <1>2, <1>3, <1>4, <1>5

\* All the decode layers.
LEMMA GensPlain ==
  ASSUME NEW layer \in GenLayer, NEW i, NEW gen, Len(gen) \in Nat
  PROVE  AllReadWrite(GenPhases(layer, "GPU", i, gen))
<1> DEFINE n == Len(gen)
<1>1. CASE layer = "ATTENTION_GEN"
  <2>1. GenPhases(layer, "GPU", i, gen) = << GenScoringGPU(i, gen) >>
    BY <1>1 DEF GenPhases, ByProcessor, AttentionGenExecutionGPU
  <2>2. ReadWrite(GenScoringGPU(i, gen).ram)
    BY ReadWriteMoves DEF GenScoringGPU, Phase
  <2> QED
    BY <2>1, <2>2, ReadWriteOne
<1>2. CASE layer = "MLA_GEN"
  <2> DEFINE f == << MLAGenFlashGPU(i, gen) >>
             x == << MLAGenScoringGPU(i, gen) >>
             y == [k \in 1 .. n |-> MLAGenSoftmaxGPU(i, gen[k])]
             z == << MLAGenContextGPU(i, gen) >>
  <2>1. GenPhases(layer, "GPU", i, gen) = IF i.use_flash_mla THEN f ELSE x \o y \o z
    BY <1>2 DEF GenPhases, ByProcessor, MultiLatentAttentionGenExecutionGPU, EachSequence
  <2>2. AllReadWrite(f) /\ AllReadWrite(x) /\ AllReadWrite(z)
    BY PlainLatentGen, ReadWriteOne
  <2>3. AllReadWrite(y)
    <3>1. \A k \in 1 .. n : ReadWrite(y[k].ram)
      BY PlainLatentGen
    <3>2. y = [k \in 1 .. n |-> y[k]]
      OBVIOUS
    <3> HIDE DEF y
    <3> QED
      BY <3>1, <3>2, ReadWriteEach
  <2> HIDE DEF f, x, y, z
  <2> QED
    BY <2>1, <2>2, <2>3, ReadWriteJoin
<1>3. CASE layer = "ABSORBED_MLA_GEN"
  <2> DEFINE f == << AbsorbGenFlashGPU(i, gen) >>
             a == << AbsorbGenScoringGPU(i, gen) >>
             b == << AbsorbGenRopeGPU(i, gen) >>
             x == << AbsorbGenScoringGPU(i, gen), AbsorbGenRopeGPU(i, gen) >>
             y == [k \in 1 .. n |-> AbsorbGenSoftmaxGPU(i, gen[k])]
             z == << AbsorbGenContextGPU(i, gen) >>
  <2>1. GenPhases(layer, "GPU", i, gen) = IF i.use_flash_mla THEN f ELSE x \o y \o z
    BY <1>3 DEF GenPhases, ByProcessor, AbsorbMLAGenExecutionGPU, EachSequence
  <2>2. AllReadWrite(f) /\ AllReadWrite(a) /\ AllReadWrite(b) /\ AllReadWrite(z)
    BY PlainAbsorbedGen, ReadWriteOne
  <2>3. AllReadWrite(y)
    <3>1. \A k \in 1 .. n : ReadWrite(y[k].ram)
      BY PlainAbsorbedGen
    <3>2. y = [k \in 1 .. n |-> y[k]]
      OBVIOUS
    <3> HIDE DEF y
    <3> QED
      BY <3>1, <3>2, ReadWriteEach
  <2>4. x = a \o b
    OBVIOUS
  <2> HIDE DEF f, a, b, x, y, z
  <2>5. AllReadWrite(x)
    BY <2>2, <2>4, ReadWriteJoin
  <2> QED
    BY <2>1, <2>2, <2>3, <2>5, ReadWriteJoin
<1> QED
  BY <1>1, <1>2, <1>3 DEF GenLayer

\* The layers that have an execution function.
ExecutedLayers == SumLayer \cup GenLayer \cup {"LINEAR", "BATCHED_LINEAR", "ACTIVATION"}

\* Every layer, then, only reads and writes on the GPU.
LEMMA GPUPlain ==
  ASSUME NEW call, call.layer \in ExecutedLayers, NEW i, NEW batch \in Seq(Spans)
  PROVE  AllReadWrite(ExecutionPhases(call, "GPU", i, batch))
<1>1. AllReadWrite(<< >>)
  <2> DEFINE phase == [ram |-> << >>]
  <2>1. ReadWrite(phase.ram)
    BY DEF ReadWrite
  <2> HIDE DEF phase
  <2> QED
    BY <2>1, ReadWriteOne
<1>2. Len(get_sum(batch)) \in Nat /\ Len(get_gen(batch)) \in Nat
  BY AmongType DEF get_sum, get_gen
<1>3. CASE call.layer \in SumLayer
  <2>1. AllReadWrite(SumPhases(call.layer, "GPU", i, get_sum(batch)))
    BY <1>2, <1>3, SumsPlain
  <2>2. ExecutionPhases(call, "GPU", i, batch)
          = IF Tokens(get_sum(batch)) = 0 THEN << >>
            ELSE SumPhases(call.layer, "GPU", i, get_sum(batch))
    <3>1. call.layer \notin GenLayer
      BY <1>3 DEF SumLayer, GenLayer
    <3> QED
      BY <1>3, <3>1 DEF ExecutionPhases
  <2> QED
    BY <1>1, <2>1, <2>2, Zenon
<1>4. CASE call.layer \in GenLayer
  <2>1. AllReadWrite(GenPhases(call.layer, "GPU", i, get_gen(batch)))
    BY <1>2, <1>4, GensPlain
  <2>2. call.layer \notin SumLayer
    BY <1>4 DEF SumLayer, GenLayer
  <2> QED
    BY <1>1, <1>4, <2>1, <2>2 DEF ExecutionPhases
<1>5. CASE call.layer \in {"LINEAR", "BATCHED_LINEAR", "ACTIVATION"}
  <2>1. AllReadWrite(LayerPhases(call, "GPU", i))
    BY <1>5, LayersPlain
  <2>2. call.layer \notin SumLayer /\ call.layer \notin GenLayer
    BY <1>5 DEF SumLayer, GenLayer
  <2> QED
    BY <2>1, <2>2 DEF ExecutionPhases
<1> QED
  BY <1>3, <1>4, <1>5 DEF ExecutedLayers

---------------------------------------------------------------------------
(* The transfers of an attempt that the simulator has not seen.            *)

\* Joined, the transfers of phases that only read and write only read and write.
LEMMA JoinedPlain ==
  ASSUME NEW phases, Countable(phases)
  PROVE  LET moves == FlattenSeq([k \in DOMAIN phases |-> phases[k].ram])
         IN /\ \A j \in DOMAIN moves : moves[j] \in Move
            /\ AllReadWrite(phases) => \A j \in DOMAIN moves : moves[j].req # "kGEMV"
<1> DEFINE each == [k \in DOMAIN phases |-> phases[k].ram]
           moves == FlattenSeq(each)
<1>1. phases \in Seq(PhaseType)
  BY DEF Countable
<1>2. Len(phases) \in Nat /\ DOMAIN phases = 1 .. Len(phases)
      /\ \A k \in DOMAIN phases : phases[k] \in PhaseType
  BY <1>1, SeqDomain
<1>3. \A k \in DOMAIN phases : phases[k].ram \in Seq(Move)
  BY <1>2 DEF PhaseType
<1>4. each \in Seq(Seq(Move))
  <2>1. each \in [1 .. Len(phases) -> Seq(Move)]
    BY <1>2, <1>3
  <2> HIDE DEF each
  <2> QED
    BY <1>2, <2>1, SequenceOfFunction
<1>5. moves \in Seq(Move)
  <2> HIDE DEF each
  <2> QED
    BY <1>4, FlattenType
<1>6. \A j \in DOMAIN moves : moves[j] \in Move
  <2> HIDE DEF moves
  <2> QED
    BY <1>5, SeqDomain
<1>7. ASSUME AllReadWrite(phases) PROVE \A j \in DOMAIN moves : moves[j].req # "kGEMV"
  <2> DEFINE P == { m \in Move : m.req # "kGEMV" }
  <2>1. PICK n : Phased(phases, n) /\ \A k \in 1 .. n : ReadWrite(phases[k].ram)
    BY <1>7 DEF AllReadWrite
  <2>2. n \in Nat /\ DOMAIN phases = 1 .. n
    BY <2>1 DEF Phased
  <2>3. \A k \in DOMAIN phases : phases[k].ram \in Seq(P)
    <3> SUFFICES ASSUME NEW k \in DOMAIN phases PROVE phases[k].ram \in Seq(P)
      OBVIOUS
    <3> DEFINE r == phases[k].ram
    <3>1. r \in Seq(Move) /\ ReadWrite(r)
      BY <1>3, <2>1, <2>2
    <3> HIDE DEF r
    <3>2. Len(r) \in Nat /\ DOMAIN r = 1 .. Len(r) /\ \A j \in DOMAIN r : r[j] \in Move
      BY <3>1, SeqDomain
    <3>3. \A j \in 1 .. Len(r) : r[j] \in P
      BY <3>1, <3>2 DEF ReadWrite
    <3> HIDE DEF P
    <3>4. r \in Seq(P)
      BY <3>1, <3>3
    <3> QED
      BY <3>4 DEF r
  <2>4. each \in Seq(Seq(P))
    <3> HIDE DEF P
    <3>1. each \in [1 .. Len(phases) -> Seq(P)]
      BY <1>2, <2>3
    <3> HIDE DEF each
    <3> QED
      BY <1>2, <3>1, SequenceOfFunction
  <2>5. moves \in Seq(P)
    <3> HIDE DEF each, P
    <3> QED
      BY <2>4, FlattenType
  <2>6. \A j \in DOMAIN moves : moves[j] \in P
    <3> HIDE DEF moves, P
    <3> QED
      BY <2>5, SeqDomain
  <2> QED
    BY <2>6
<1> QED
  BY <1>6, <1>7

\* What is issued: reads, writes and, not by the GPU, GEMVs, of a number of bytes.
LEMMA IssuedType ==
  ASSUME PlaceInv, NEW move \in Issued
  PROVE  /\ move.on \in Processor /\ move.req \in {"kRead", "kWrite", "kGEMV"} /\ move.size \in Nat
         /\ move.on = "GPU" => move.req # "kGEMV"
<1> DEFINE p == Head(trial.left)
           a == CallOf(turn)
           i == [a.info EXCEPT !.cols = trial.cols]
           phases == Phases(a, p, i, work[turn].batch)
           moves == FlattenSeq([k \in DOMAIN phases |-> phases[k].ram])
<1>1. /\ system.use_ramulator /\ trial.step = "try" /\ trial.left # << >>
      /\ \E k \in DOMAIN moves :
           move = [on |-> p, req |-> moves[k].req, size |-> moves[k].size * i.precision]
  BY DEF Issued
<1>2. PICK k \in DOMAIN moves :
        move = [on |-> p, req |-> moves[k].req, size |-> moves[k].size * i.precision]
  BY <1>1
<1>3. /\ p \in Range(a.processors) /\ p \in Processor /\ i.precision \in Nat
      /\ Countable(phases)
  BY <1>1, Tried
<1>4. i \in Infos(a)
  BY <1>1, InfoTried DEF PlaceInv
<1>5. moves[k] \in Move
  <2> HIDE DEF phases
  <2> QED
    BY <1>2, <1>3, JoinedPlain
<1>6. ASSUME p = "GPU" PROVE moves[k].req # "kGEMV"
  <2>1. phases = ExecutionPhases(a, p, i, work[turn].batch)
    BY <1>1, <1>3, <1>4, TriedPhases
  <2>2. a.layer \in ExecutedLayers /\ work[turn].batch \in Seq(Spans)
    <3>1. PICK b : Pair(system, a, b)
      BY <1>1, TriedPair
    <3>2. a.layer # "none" /\ work[turn].batch \in Seq(Spans)
      BY <1>1, TriedPair
    <3>3. Computes(system, a, b)
      BY <3>1 DEF Pair
    <3> HIDE DEF a
    <3> QED
      BY <3>2, <3>3 DEF Computes, ExecutedLayers, SumLayer, GenLayer, AttentionLayers, DecodeLayers
  <2>3. AllReadWrite(phases)
    <3> HIDE DEF a, i
    <3> QED
      BY <1>6, <2>1, <2>2, GPUPlain
  <2> HIDE DEF phases
  <2> QED
    BY <1>2, <1>3, <2>3, JoinedPlain
<1> HIDE DEF moves, p, i
<1>7. moves[k].size \in Nat /\ moves[k].req \in {"kRead", "kWrite", "kGEMV"}
  BY <1>5 DEF Move
<1>8. moves[k].size * i.precision \in Nat
  BY <1>3, <1>7
<1> QED
  BY <1>2, <1>3, <1>6, <1>7, <1>8

---------------------------------------------------------------------------
(* The commands of every transfer stand for all of it.                   *)

\* A transfer of LOGIC is not larger than the memory, whose addresses its map wraps.
TransfersFit ==
  \A move \in Issued : move.on = "LOGIC" => move.size \div Granul <= MemoryBundles

\* The weight of PIM's GEMV is that of 32 banks, those of two ranks.
RanksWeighed ==
  \A move \in Issued : move.on = "PIM" /\ move.req = "kGEMV" => NumRank = 2

\* The commands of a transfer are bundles of it, each at a place of its own.
LEMMA CommandsApart ==
  ASSUME SpreadEvenly, NEW on \in Processor, NEW req, NEW size \in Nat,
         req = "kGEMV" => on # "GPU",
         on = "LOGIC" => size \div Granul <= MemoryBundles
  PROVE  LET K == Commands(on, req, size, 0)
             place(k) == getAddrVec(MemoryObject(0 * Granul, size), k, on)
         IN Cardinality({ place(k) : k \in K }) = Cardinality(K)
<1> DEFINE n == size \div Granul
           K == Commands(on, req, size, 0)
           place(k) == getAddrVec(MemoryObject(0 * Granul, size), k, on)
           f == [k \in K |-> place(k)]
<1>1. n \in Nat
  BY MapSizes, Remains
<1>2. K \subseteq 0 .. n - 1
  <2>1. CASE req = "kGEMV"
    <3>1. on \in {"LOGIC", "PIM"}
      BY <2>1 DEF Processor
    <3>2. K = { k \in 0 .. n - 1 : 0 + k \in FirstBanks(on) }
      BY <2>1, <3>1, KernelCommands
    <3> HIDE DEF K
    <3> QED
      BY <3>2
  <2>2. CASE req # "kGEMV"
    <3>1. K = { k \in 0 .. n - 1 : 0 + k \in FirstChannel }
      BY <2>2, PlainCommands
    <3> HIDE DEF K
    <3> QED
      BY <3>1
  <2> QED
    BY <2>1, <2>2
<1> HIDE DEF K, n
<1>3. IsFiniteSet(K)
  <2>1. IsFiniteSet(0 .. n - 1)
    <3> DEFINE b == n - 1
    <3>1. b \in Int /\ 0 \in Int
      BY <1>1
    <3> HIDE DEF b
    <3>2. IsFiniteSet(0 .. b)
      BY <3>1, FS_Interval
    <3> QED
      BY <3>2 DEF b
  <2> QED
    BY <1>2, <2>1, FS_Subset
<1>4. \A k \in K : k \in Nat /\ k < n /\ place(k) = Place(on, k)
  <2> TAKE k \in K
  <2>1. k \in Nat /\ k < n /\ 0 + k = k /\ 0 \in Nat
    BY <1>1, <1>2
  <2>2. place(k) = Place(on, 0 + k)
    BY <2>1, PlaceAt
  <2> QED
    BY <2>1, <2>2
<1>5. \A a, b \in K : place(a) = place(b) => a = b
  <2> SUFFICES ASSUME NEW a \in K, NEW b \in K, Place(on, a) = Place(on, b) PROVE a = b
    BY <1>4
  <2>1. a \in Nat /\ b \in Nat /\ a < n /\ b < n
    BY <1>4
  <2>2. CASE on = "LOGIC"
    <3>1. n <= MemoryBundles
      BY <2>2 DEF n
    <3>2. MemoryBundles \in Nat
      <4>1. {AllChannels, NumRank, NumBankgroup, NumBank, NumCol, NumRow} \subseteq Nat
        BY ChannelsType, MapSizes DEF Positive
      <4> QED
        BY <4>1 DEF MemoryBundles
    <3>3. a < MemoryBundles /\ b < MemoryBundles
      BY <1>1, <2>1, <3>1, <3>2
    <3> QED
      BY <2>1, <2>2, <3>3, LogicApart
  <2>3. CASE on # "LOGIC"
    BY <2>1, <2>3, PlainApart
  <2> QED
    BY <2>2, <2>3
<1> HIDE DEF place
<1>6. \A k \in K : f[k] = place(k)
  OBVIOUS
<1>7. { f[k] : k \in K } = { place(k) : k \in K }
  BY <1>6
<1>8. \A a, b \in K : f[a] = f[b] => a = b
  BY <1>5, <1>6
<1> HIDE DEF f
<1>9. Cardinality({ f[k] : k \in K }) = Cardinality(K)
  BY <1>3, <1>8, CountImage
<1>10. Cardinality({ place(k) : k \in K }) = Cardinality(K)
  BY <1>7, <1>9
<1> QED
  BY <1>10 DEF K, place

\* The property for one transfer that is issued.
LEMMA CommandsStep ==
  ASSUME SpreadEvenly, PlaceInv, TransfersFit, RanksWeighed
  PROVE  CommandsStandForAll
<1> SUFFICES ASSUME NEW move \in Issued
             PROVE  LET object(start) == MemoryObject(start * Granul, move.size)
                        commands(start) == GeneratePIMCommand(move.on, move.req, object(start))
                        place(k) == getAddrVec(object(0), k, move.on)
                        starts == 0 .. Interleaved(move.req) - 1
                        counted == MapThenSumSet(LAMBDA start : Cardinality(commands(start)), starts)
                    IN /\ Cardinality({ place(k) : k \in commands(0) }) = Cardinality(commands(0))
                       /\ (move.on = "GPU" \/ move.req = "kGEMV") =>
                            counted * Weight(move.on, move.req) = Cardinality(starts) * object(0).num_bundle
                       /\ move.req # "kGEMV" =>
                            run_ideal(move.size) - Cardinality(commands(0)) \in {0, 1}
  BY DEF CommandsStandForAll
<1> DEFINE on == move.on
           req == move.req
           size == move.size
           n == size \div Granul
           starts == 0 .. Interleaved(req) - 1
           counted == MapThenSumSet(LAMBDA start : Cardinality(Commands(on, req, size, start)), starts)
<1>1. /\ on \in Processor /\ req \in {"kRead", "kWrite", "kGEMV"} /\ size \in Nat
      /\ on = "GPU" => req # "kGEMV"
  BY IssuedType
<1>2. on = "LOGIC" => n <= MemoryBundles
  BY DEF TransfersFit
<1>3. Cardinality({ getAddrVec(MemoryObject(0 * Granul, size), k, on) : k \in Commands(on, req, size, 0) })
        = Cardinality(Commands(on, req, size, 0))
  <2> HIDE DEF on, req, size
  <2> QED
    BY <1>1, <1>2, CommandsApart DEF n
<1>4. (on = "GPU" \/ req = "kGEMV") => counted * Weight(on, req) = Cardinality(starts) * n
  <2>0. on = "PIM" /\ req = "kGEMV" => NumRank = 2
    BY DEF RanksWeighed
  <2> HIDE DEF on, req, size
  <2>1. ASSUME on = "GPU" \/ req = "kGEMV"
        PROVE  \/ on = "GPU" /\ req # "kGEMV"
               \/ on \in {"LOGIC", "PIM"} /\ req = "kGEMV"
    BY <1>1, <2>1 DEF Processor
  <2> QED
    BY <1>1, <2>0, <2>1, WeighsAll
<1>5. req # "kGEMV" => run_ideal(size) - Cardinality(Commands(on, req, size, 0)) \in {0, 1}
  <2> HIDE DEF on, req, size
  <2> QED
    BY <1>1, IdealCount
<1>6. MemoryObject(0 * Granul, size).num_bundle = n
  BY DEF MemoryObject
<1> QED
  BY <1>3, <1>4, <1>5, <1>6 DEF Commands

\* The commands of every transfer stand for all of it, whatever its size and the size
\* of the memory, as long as the memory is one that the weights are made for.
THEOREM CommandsHold ==
  SpreadEvenly => (Spec /\ []TransfersFit /\ []RanksWeighed => []CommandsStandForAll)
<1> SUFFICES ASSUME SpreadEvenly
             PROVE  Spec /\ []TransfersFit /\ []RanksWeighed => []CommandsStandForAll
  OBVIOUS
<1>1. Init => PlaceInv
  BY PlaceInit
<1>2. PlaceInv /\ [Next]_vars => PlaceInv'
  BY PlaceStep
<1>3. PlaceInv /\ TransfersFit /\ RanksWeighed => CommandsStandForAll
  BY CommandsStep
<1> QED
  BY <1>1, <1>2, <1>3, PTL DEF Spec
=============================================================================
