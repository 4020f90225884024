-------------------------- MODULE AttentionSumCost --------------------------
(***************************************************************************)
(* The execution functions of the attention of a prompt,                   *)
(* src/src/hardware/attention_sum_impl.cpp, one definition per phase.      *)
(*                                                                         *)
(* `i` is the LayerInfo with the precision and the second dimension (cols) *)
(* of the input tensor; a sequence s has s.m tokens to process and, with   *)
(* them, s.n tokens in its context (num_process_token and current_len +    *)
(* num_process_token).  Operands: Q is m x hd, K and V are n x hd, the     *)
(* scores are m x n, one of each per head.                                 *)
(***************************************************************************)
EXTENDS CostModel

MatMul(m, k, n, heads) == 2 * m * k * n * heads

(* Attention with the keys and values of each head.                        *)

SumScoringGPU(i, s) ==
  LET q == s.m * i.hd * i.H
      kv == i.hd * s.n * i.KVH
      score == s.m * s.n * i.H
  IN [Phase(i, "GPU", MatMul(s.m, i.hd, s.n, i.H), i.precision * Int32(q + kv + score),
            << Read("GPU", q), Read("GPU", kv), Write("GPU", score) >>)
        EXCEPT !.charged = << 1, 3 >>]

SumSoftmaxGPU(i, s) ==
  LET score == s.m * s.n * i.H
  IN [Phase(i, "GPU", 7 * score, 0, << Read("GPU", score), Write("GPU", score) >>)
        EXCEPT !.charged = << >>]

SumContextGPU(i, s) ==
  LET score == s.m * s.n * i.H
      kv == s.n * i.hd * i.KVH
      out == s.m * i.hd * i.H
  IN [Phase(i, "GPU", MatMul(s.m, s.n, i.hd, i.H), i.precision * Int32(score + kv + out),
            << Read("GPU", score), Read("GPU", kv), Write("GPU", out) >>)
        EXCEPT !.charged = << 3 >>]

AttentionSumExecutionGPU(i, sum) ==
  EachSequence(LAMBDA s : SumScoringGPU(i, s), sum)
  \o EachSequence(LAMBDA s : SumSoftmaxGPU(i, s), sum)
  \o EachSequence(LAMBDA s : SumContextGPU(i, s), sum)

\* The product of the dimensions is an int, the heads are multiplied as doubles.
IntMatMul(m, k, n, heads) == 2 * heads * Int32(m * k * n)

SumScoringLogic(i, s) ==
  LET q == s.m * i.hd * i.H
      kv == i.hd * s.n * i.KVH
  IN [Phase(i, "LOGIC", IntMatMul(s.m, i.hd, s.n, i.H), Int32((q + kv) * i.precision),
            << Read("LOGIC", q), GEMV("LOGIC", kv) >>)
        EXCEPT !.ideal = << Read("LOGIC", q), Read("LOGIC", kv) >>]

SumSoftmaxLogic(i, s) == ComputeOnly(i, "LOGIC", 7 * s.m * s.n * i.H)

SumContextLogic(i, s) ==
  LET kv == s.n * i.hd * i.KVH
  IN [Phase(i, "LOGIC", IntMatMul(s.m, s.n, i.hd, i.H), Int32(kv * i.precision),
            << GEMV("LOGIC", kv) >>)
        EXCEPT !.ideal = << Read("LOGIC", kv) >>]

AttentionSumExecutionLogic(i, sum) ==
  EachSequence(LAMBDA s : SumScoringLogic(i, s), sum)
  \o EachSequence(LAMBDA s : SumSoftmaxLogic(i, s), sum)
  \o EachSequence(LAMBDA s : SumContextLogic(i, s), sum)

\* Only the first dimension of the input is set: the second is what was left there.
\* mutant: the heads of the keys, not of the queries
KeyHeadsScoringPIM(i, s) ==
  Phase(i, "PIM", IntMatMul(s.m, i.hd, s.n, i.KVH),
        Int32((s.m * i.hd * i.H + i.hd * s.n * i.KVH) * i.precision),
        << GEMV("PIM", s.m * i.cols) >>)
SumScoringPIM(i, s) ==
  LET q == s.m * i.hd * i.H
      kv == i.hd * s.n * i.KVH
  IN [Phase(i, "PIM", IntMatMul(s.m, i.hd, s.n, i.H), Int32((q + kv) * i.precision),
            << GEMV("PIM", s.m * i.cols) >>)
        EXCEPT !.ideal = << Read("PIM", s.m * i.cols) >>]

SumSoftmaxPIM(i, s) == ComputeOnly(i, "PIM", 7 * s.m * s.n * i.H)

SumContextPIM(i, s) ==
  [Phase(i, "PIM", IntMatMul(s.m, s.n, i.hd, i.H), Int32(s.n * i.hd * i.KVH * i.precision),
         << GEMV("PIM", s.n * i.cols) >>)
     EXCEPT !.ideal = << Read("PIM", s.n * i.cols) >>]

AttentionSumExecutionPIM(i, sum) ==
  EachSequence(LAMBDA s : SumScoringPIM(i, s), sum)
  \o EachSequence(LAMBDA s : SumSoftmaxPIM(i, s), sum)
  \o EachSequence(LAMBDA s : SumContextPIM(i, s), sum)

\* The second dimension these functions leave in the input tensor.
ColsAfterSum(i, p) ==
  CASE p = "GPU" -> i.hd * i.H [] p = "LOGIC" -> i.hd * i.KVH [] p = "PIM" -> i.cols

(* Multi-head latent attention: keys are longer by the rope dimension.     *)
(* The three functions differ in the tiles of flash attention, in the name *)
(* of the processor, and in the precision: all take the GPU's rates, those *)
(* of LOGIC and PIM twice as many operations on elements of one byte.      *)

AtGPURates(i, phase) ==
  [phase EXCEPT !.compute = HostTime(i, phase.flops),
                !.memory = MemoryTime("GPU", phase.bytes)]

FlashAttention(i, s, p, block_r, block_c) ==
  LET k == i.hd + i.rope
      num_tile_r == CeilDiv(s.m, block_r)
      num_tile_c == CeilDiv(s.m, block_c)
      tiles == num_tile_r * num_tile_c
      query == block_r * k * tiles * i.H
      kv == block_c * (k + i.hd) * num_tile_c * i.H
      out == block_r * i.hd * tiles * i.H
      sums == 2 * block_r * tiles * i.H
  IN Phase(i, p, tiles * (MatMul(block_r, k, block_c, 1) + MatMul(block_r, i.hd, block_c, 1)) * i.H,
           i.precision * (query + kv + 2 * out + 2 * sums),
           << Read(p, query), Read(p, kv), Read(p, out), Write(p, out),
              Read(p, sums), Write(p, sums) >>)

Tile(i) == SharedMem \div (4 * (i.hd + i.rope) * i.precision)
MLASumFlashGPU(i, s) == FlashAttention(i, s, "GPU", Smaller(Tile(i), i.hd + i.rope), Tile(i))
MLASumFlashLogic(i, s) ==
  AtGPURates(i, FlashAttention(i, s, "LOGIC", Tile(i), i.hd + i.rope))
MLASumFlashPIM(i, s) ==
  AtGPURates(i, FlashAttention(i, s, "PIM", Tile(i), i.hd + i.rope))

\* A product of m x k by k x n for each head, with `kv` the operand that is cached.
HeadProduct(i, p, m, k, n) ==
  Phase(i, p, MatMul(m, k, n, i.H), i.precision * (m * k + k * n + m * n) * i.H,
        << Read(p, m * k * i.H), Read(p, k * n * i.H), Write(p, m * n * i.H) >>)

MLASumScoring(i, s, p) ==
  LET k == i.hd + i.rope
  IN [HeadProduct(i, p, s.m, k, s.n) EXCEPT !.ideal[2] = Read(p, k * s.n * i.KVH)]
MLASumScoringGPU(i, s) == MLASumScoring(i, s, "GPU")
MLASumScoringLogic(i, s) == AtGPURates(i, MLASumScoring(i, s, "LOGIC"))
MLASumScoringPIM(i, s) == AtGPURates(i, MLASumScoring(i, s, "PIM"))

Softmax(i, s, p) ==
  LET score == s.m * s.n * i.H
  IN Phase(i, p, 7 * score, i.precision * 2 * score, << Read(p, score), Write(p, score) >>)
MLASumSoftmaxGPU(i, s) == Softmax(i, s, "GPU")
MLASumSoftmaxLogic(i, s) == AtGPURates(i, Softmax(i, s, "LOGIC"))
MLASumSoftmaxPIM(i, s) == AtGPURates(i, Softmax(i, s, "PIM"))

MLASumContext(i, s, p) ==
  LET values == Read(p, s.n * i.hd * i.KVH)
  IN [HeadProduct(i, p, s.m, s.n, i.hd) EXCEPT !.ideal[2] = values, !.ram[2] = values]
MLASumContextGPU(i, s) == MLASumContext(i, s, "GPU")
MLASumContextLogic(i, s) == AtGPURates(i, MLASumContext(i, s, "LOGIC"))
MLASumContextPIM(i, s) == AtGPURates(i, MLASumContext(i, s, "PIM"))

MultiLatentAttentionSumExecutionGPU(i, sum) ==
  IF i.use_flash_attention THEN EachSequence(LAMBDA s : MLASumFlashGPU(i, s), sum)
  ELSE EachSequence(LAMBDA s : MLASumScoringGPU(i, s), sum)
       \o EachSequence(LAMBDA s : MLASumSoftmaxGPU(i, s), sum)
       \o EachSequence(LAMBDA s : MLASumContextGPU(i, s), sum)

MultiLatentAttentionSumExecutionLogic(i, sum) ==
  IF i.use_flash_attention THEN EachSequence(LAMBDA s : MLASumFlashLogic(i, s), sum)
  ELSE EachSequence(LAMBDA s : MLASumScoringLogic(i, s), sum)
       \o EachSequence(LAMBDA s : MLASumSoftmaxLogic(i, s), sum)
       \o EachSequence(LAMBDA s : MLASumContextLogic(i, s), sum)

MultiLatentAttentionSumExecutionPIM(i, sum) ==
  IF i.use_flash_attention THEN EachSequence(LAMBDA s : MLASumFlashPIM(i, s), sum)
  ELSE EachSequence(LAMBDA s : MLASumScoringPIM(i, s), sum)
       \o EachSequence(LAMBDA s : MLASumSoftmaxPIM(i, s), sum)
       \o EachSequence(LAMBDA s : MLASumContextPIM(i, s), sum)

(* Absorbed latent attention: one latent K and V for all heads, scored by  *)
(* its latent part (kv_lora_rank) and by its rope part.                    *)

\* m x k by k x n for each head, the second operand shared by the heads.
LatentProduct(i, p, m, k, n) ==
  Phase(i, p, MatMul(m, k, n, i.H), i.precision * (m * k * i.H + k * n + m * n * i.H),
        << Read(p, m * k * i.H), Read(p, k * n), Write(p, m * n * i.H) >>)

\* mutant: the scores are not written
UnwrittenScores(i, s) ==
  [LatentProduct(i, "GPU", s.m, i.rank, s.n) EXCEPT !.ideal = SubSeq(@, 1, 2)]
AbsorbSumScoringGPU(i, s) == LatentProduct(i, "GPU", s.m, i.rank, s.n)
AbsorbSumRopeGPU(i, s) == LatentProduct(i, "GPU", s.m, i.rope, s.n)
AbsorbSumSoftmaxGPU(i, s) == Softmax(i, s, "GPU")
AbsorbSumContextGPU(i, s) == LatentProduct(i, "GPU", s.m, s.n, i.rank)

\* The scores are not written, the latent K is read by a GEMV.
AbsorbSumScoringLogic(i, s) ==
  LET q == Read("LOGIC", s.m * i.rank * i.H)
      kv == i.rank * s.n
  IN [LatentProduct(i, "LOGIC", s.m, i.rank, s.n)
        EXCEPT !.ram = << q, GEMV("LOGIC", kv) >>, !.ideal = << q, Read("LOGIC", kv) >>,
               !.charged = << 1, 2 >>]

\* The time of the second transfer is dropped, that of the third added twice.
AbsorbSumRopeLogic(i, s) ==
  [LatentProduct(i, "LOGIC", s.m, i.rope, s.n) EXCEPT !.charged = << 1, 3, 3 >>]

AbsorbSumSoftmaxLogic(i, s) ==
  LET score == s.m * s.n * i.H
  IN [ComputeOnly(i, "LOGIC", 7 * score) EXCEPT !.bytes = 2 * score * i.precision]

AbsorbSumContextLogic(i, s) ==
  [LatentProduct(i, "LOGIC", s.m, s.n, i.rank) EXCEPT !.charged = << 3 >>]

\* One GEMV on a tensor of `rows` elements stands for all the transfers.
OneGEMV(phase, rows) ==
  [phase EXCEPT !.ram = << GEMV("PIM", rows) >>, !.ideal = << Read("PIM", rows) >>,
                !.charged = << 1 >>]

AbsorbSumScoringPIM(i, s) == OneGEMV(LatentProduct(i, "PIM", s.m, i.rank, s.n), s.m)
AbsorbSumRopePIM(i, s) == OneGEMV(LatentProduct(i, "PIM", s.m, i.rope, s.n), s.m)
AbsorbSumSoftmaxPIM(i, s) == ComputeOnly(i, "PIM", 7 * s.m * s.n * i.H)
AbsorbSumContextPIM(i, s) == OneGEMV(LatentProduct(i, "PIM", s.m, s.n, i.rank), s.n)

AbsorbMLASumExecutionGPU(i, sum) ==
  EachSequence(LAMBDA s : AbsorbSumScoringGPU(i, s), sum)
  \o EachSequence(LAMBDA s : AbsorbSumRopeGPU(i, s), sum)
  \o EachSequence(LAMBDA s : AbsorbSumSoftmaxGPU(i, s), sum)
  \o EachSequence(LAMBDA s : AbsorbSumContextGPU(i, s), sum)

AbsorbMLASumExecutionLogic(i, sum) ==
  EachSequence(LAMBDA s : AbsorbSumScoringLogic(i, s), sum)
  \o EachSequence(LAMBDA s : AbsorbSumRopeLogic(i, s), sum)
  \o EachSequence(LAMBDA s : AbsorbSumSoftmaxLogic(i, s), sum)
  \o EachSequence(LAMBDA s : AbsorbSumContextLogic(i, s), sum)

AbsorbMLASumExecutionPIM(i, sum) ==
  EachSequence(LAMBDA s : AbsorbSumScoringPIM(i, s), sum)
  \o EachSequence(LAMBDA s : AbsorbSumRopePIM(i, s), sum)
  \o EachSequence(LAMBDA s : AbsorbSumSoftmaxPIM(i, s), sum)
  \o EachSequence(LAMBDA s : AbsorbSumContextPIM(i, s), sum)
=============================================================================
