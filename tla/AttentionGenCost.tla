-------------------------- MODULE AttentionGenCost --------------------------
(***************************************************************************)
(* The execution functions of the attention of the decode steps,           *)
(* src/src/hardware/attention_gen_impl.cpp.  Here a phase covers the whole *)
(* batch: its flops and bytes are sums over the sequences, and one         *)
(* transfer stands for the caches of all of them.  LayerInfo and sequences *)
(* are those of AttentionSumCost; s.m is one in a decode step.             *)
(***************************************************************************)
EXTENDS CostModel

Context(gen) == OverSequences(LAMBDA s : s.n, gen)
RoundedContext(gen) == OverSequences(LAMBDA s : 4 * CeilDiv(s.n, 4), gen)
HeadFlops(i, gen, dim) == OverSequences(LAMBDA s : 2 * s.m * dim * s.n * i.H, gen)
GroupFlops(i, gen) ==
  OverSequences(LAMBDA s : 2 * s.m * i.hd * s.n * i.group * i.KVH, gen)
CacheBytes(i, gen) == i.precision * i.hd * i.KVH * Context(gen)

(* Attention with grouped heads.                                           *)

\* The GPU function has this phase alone, without softmax and context.
GenScoringGPU(i, gen) ==
  Phase(i, "GPU", GroupFlops(i, gen),
        i.precision * i.KVH * OverSequences(LAMBDA s : (s.m * i.hd * i.H) \div i.KVH + i.hd * s.n
                                                       + (s.m * s.n * i.H) \div i.KVH, gen),
        << Read("GPU", Context(gen) * i.hd * i.KVH) >>)

AttentionGenExecutionGPU(i, gen) == << GenScoringGPU(i, gen) >>

\* The cache of each sequence is padded to four rows.
GenProductLogic(i, gen) ==
  LET rows == RoundedContext(gen) * i.hd * i.KVH
  IN [Phase(i, "LOGIC", GroupFlops(i, gen), CacheBytes(i, gen), << GEMV("LOGIC", rows) >>)
        EXCEPT !.ideal = << Read("LOGIC", rows) >>]
GenScoringLogic(i, gen) == GenProductLogic(i, gen)
GenContextLogic(i, gen) == GenProductLogic(i, gen)

AttentionGenExecutionLogic(i, gen) == << GenScoringLogic(i, gen), GenContextLogic(i, gen) >>

\* In the near-bank model a product runs in the banks or is left to the GPU.
NearBankTime(i, gen, inPIM, latency, rowbuffer) ==
  IF inPIM
  THEN [compute |-> i.group * i.KVH * latency, memory |-> i.group * i.KVH * rowbuffer]
  ELSE [compute |-> HostTime(i, GroupFlops(i, gen)),
        memory  |-> MemoryTime("GPU", CacheBytes(i, gen))]

\* Without it the simulated time is scaled by the operations per byte so far.
GenProductPIM(i, gen, time, products) ==
  LET rows == RoundedContext(gen) * i.hd * i.KVH
      phase == [Phase(i, "PIM", GroupFlops(i, gen), CacheBytes(i, gen), << GEMV("PIM", rows) >>)
                  EXCEPT !.ideal = << Read("PIM", rows) >>]
  IN IF i.nearbank
     THEN [phase EXCEPT !.compute = time.compute, !.memory = time.memory, !.charged = << >>]
     ELSE [phase EXCEPT !.opb = << products * GroupFlops(i, gen), products * CacheBytes(i, gen) >>]

GenScoringPIM(i, gen) ==
  GenProductPIM(i, gen,
    NearBankTime(i, gen, NearBank.scoring,
                 OverSequences(LAMBDA s : computeGEMVLatency(i.precision, s.m, i.hd, s.n).latency, gen),
                 OverSequences(LAMBDA s : computeGEMVLatency(i.precision, s.m, i.hd, s.n).rowbuffer, gen)), 1)

\* Not counted in the flops; on near-bank units that have a softmax it takes no time.
GenSoftmaxPIM(i, gen) ==
  LET flops == OverSequences(LAMBDA s : 7 * s.m * s.n * i.H, gen)
  IN [ComputeOnly(i, "PIM", 0)
        EXCEPT !.compute = CASE ~i.nearbank -> ComputeTime("PIM", i.precision, flops)
                             [] i.nearbank /\ NearBank.softmax -> 0
                             [] OTHER -> HostTime(i, flops)]

GenContextPIM(i, gen) ==
  GenProductPIM(i, gen,
    NearBankTime(i, gen, NearBank.context,
                 OverSequences(LAMBDA s : computeGEMVLatency(i.precision, s.m, s.n, i.hd).latency, gen),
                 OverSequences(LAMBDA s : computeGEMVLatency(i.precision, s.m, s.n, i.hd).rowbuffer, gen)), 2)

AttentionGenExecutionPIM(i, gen) ==
  << GenScoringPIM(i, gen), GenSoftmaxPIM(i, gen), GenContextPIM(i, gen) >>

(* Multi-head latent attention: the three functions are the same but for   *)
(* the processor.                                                          *)

MLAGenFlash(i, gen, p) ==
  LET k == i.hd + i.rope
  IN Phase(i, p, HeadFlops(i, gen, k) + HeadFlops(i, gen, i.hd),
           i.precision * i.H * OverSequences(LAMBDA s : (s.m + s.n) * (k + i.hd), gen),
           << Read(p, Len(gen) * i.H * k), Read(p, Context(gen) * k * i.H),
              Read(p, Context(gen) * i.hd * i.H), Write(p, Len(gen) * i.H * i.hd) >>)
MLAGenFlashGPU(i, gen) == MLAGenFlash(i, gen, "GPU")
MLAGenFlashLogic(i, gen) == MLAGenFlash(i, gen, "LOGIC")
MLAGenFlashPIM(i, gen) == MLAGenFlash(i, gen, "PIM")

MLAGenScoring(i, gen, p) ==
  LET k == i.hd + i.rope
  IN Phase(i, p, HeadFlops(i, gen, k),
           i.precision * i.H * OverSequences(LAMBDA s : s.m * k + k * s.n + s.m * s.n, gen),
           << Read(p, Len(gen) * i.H * k), Read(p, Context(gen) * k * i.H),
              Write(p, i.H * Context(gen)) >>)
MLAGenScoringGPU(i, gen) == MLAGenScoring(i, gen, "GPU")
MLAGenScoringLogic(i, gen) == MLAGenScoring(i, gen, "LOGIC")
MLAGenScoringPIM(i, gen) == MLAGenScoring(i, gen, "PIM")

SoftmaxOf(i, s, p) ==
  LET score == s.m * s.n * i.H
  IN Phase(i, p, 7 * score, i.precision * 2 * score, << Read(p, score), Write(p, score) >>)

\* The transfers take time and are not counted in the bytes.
MLAGenSoftmax(i, s, p) == [SoftmaxOf(i, s, p) EXCEPT !.bytes = 0]
MLAGenSoftmaxGPU(i, s) == MLAGenSoftmax(i, s, "GPU")
MLAGenSoftmaxLogic(i, s) == MLAGenSoftmax(i, s, "LOGIC")
MLAGenSoftmaxPIM(i, s) == MLAGenSoftmax(i, s, "PIM")

MLAGenContext(i, gen, p) ==
  Phase(i, p, HeadFlops(i, gen, i.hd),
        i.precision * i.H * OverSequences(LAMBDA s : s.m * s.n + s.n * i.hd + s.m * i.hd, gen),
        << Read(p, i.H * Context(gen)), Read(p, Context(gen) * i.hd * i.H),
           Write(p, Len(gen) * i.H * i.hd) >>)
MLAGenContextGPU(i, gen) == MLAGenContext(i, gen, "GPU")
MLAGenContextLogic(i, gen) == MLAGenContext(i, gen, "LOGIC")
MLAGenContextPIM(i, gen) == MLAGenContext(i, gen, "PIM")

MultiLatentAttentionGenExecutionGPU(i, gen) ==
  IF i.use_flash_mla THEN << MLAGenFlashGPU(i, gen) >>
  ELSE << MLAGenScoringGPU(i, gen) >> \o EachSequence(LAMBDA s : MLAGenSoftmaxGPU(i, s), gen)
       \o << MLAGenContextGPU(i, gen) >>

MultiLatentAttentionGenExecutionLogic(i, gen) ==
  IF i.use_flash_mla THEN << MLAGenFlashLogic(i, gen) >>
  ELSE << MLAGenScoringLogic(i, gen) >> \o EachSequence(LAMBDA s : MLAGenSoftmaxLogic(i, s), gen)
       \o << MLAGenContextLogic(i, gen) >>

MultiLatentAttentionGenExecutionPIM(i, gen) ==
  IF i.use_flash_mla THEN << MLAGenFlashPIM(i, gen) >>
  ELSE << MLAGenScoringPIM(i, gen) >> \o EachSequence(LAMBDA s : MLAGenSoftmaxPIM(i, s), gen)
       \o << MLAGenContextPIM(i, gen) >>

(* Absorbed latent attention.                                              *)

AbsorbGenFlash(i, gen, p) ==
  LET k == i.rank + i.rope
  IN Phase(i, p, OverSequences(LAMBDA s : 2 * i.H * (k + i.rank) * s.n, gen),
           i.precision * OverSequences(LAMBDA s : i.H * k + s.n * k + i.H * i.rank, gen),
           << Read(p, Len(gen) * i.H * k), Read(p, Context(gen) * k),
              Write(p, Len(gen) * i.H * i.rank) >>)
AbsorbGenFlashGPU(i, gen) == AbsorbGenFlash(i, gen, "GPU")
AbsorbGenFlashLogic(i, gen) == AbsorbGenFlash(i, gen, "LOGIC")
AbsorbGenFlashPIM(i, gen) == AbsorbGenFlash(i, gen, "PIM")

\* m x dim by dim x n for each head, the latent cache shared by the heads.
LatentScoring(i, gen, p, dim) ==
  Phase(i, p, HeadFlops(i, gen, dim),
        i.precision * OverSequences(LAMBDA s : s.m * dim * i.H + dim * s.n + s.m * s.n * i.H, gen),
        << Read(p, Len(gen) * dim * i.H), Read(p, dim * Context(gen)),
           Write(p, i.H * Context(gen)) >>)
AbsorbGenScoringGPU(i, gen) == LatentScoring(i, gen, "GPU", i.rank)
AbsorbGenScoringLogic(i, gen) == LatentScoring(i, gen, "LOGIC", i.rank)
AbsorbGenScoringPIM(i, gen) == LatentScoring(i, gen, "PIM", i.rank)

\* The time of the last transfer replaces that of the others.
AbsorbGenRopeGPU(i, gen) == [LatentScoring(i, gen, "GPU", i.rope) EXCEPT !.charged = << 3 >>]
AbsorbGenRopeLogic(i, gen) == [LatentScoring(i, gen, "LOGIC", i.rope) EXCEPT !.charged = << 3 >>]
AbsorbGenRopePIM(i, gen) == [LatentScoring(i, gen, "PIM", i.rope) EXCEPT !.charged = << 3 >>]

AbsorbGenSoftmaxGPU(i, s) == SoftmaxOf(i, s, "GPU")
AbsorbGenSoftmaxLogic(i, s) == SoftmaxOf(i, s, "LOGIC")
AbsorbGenSoftmaxPIM(i, s) == SoftmaxOf(i, s, "PIM")

AbsorbGenContext(i, gen, p) ==
  [LatentScoring(i, gen, p, i.rank)
     EXCEPT !.ram = << Read(p, i.H * Context(gen)), Read(p, Context(gen) * i.rank),
                       Write(p, Len(gen) * i.rank * i.H) >>,
            !.ideal = << Read(p, i.H * Context(gen)), Read(p, Context(gen) * i.rank),
                         Write(p, Len(gen) * i.rank * i.H) >>]
AbsorbGenContextGPU(i, gen) == AbsorbGenContext(i, gen, "GPU")
AbsorbGenContextLogic(i, gen) == AbsorbGenContext(i, gen, "LOGIC")
AbsorbGenContextPIM(i, gen) == AbsorbGenContext(i, gen, "PIM")

AbsorbMLAGenExecutionGPU(i, gen) ==
  IF i.use_flash_mla THEN << AbsorbGenFlashGPU(i, gen) >>
  ELSE << AbsorbGenScoringGPU(i, gen), AbsorbGenRopeGPU(i, gen) >>
       \o EachSequence(LAMBDA s : AbsorbGenSoftmaxGPU(i, s), gen)
       \o << AbsorbGenContextGPU(i, gen) >>

AbsorbMLAGenExecutionLogic(i, gen) ==
  IF i.use_flash_mla THEN << AbsorbGenFlashLogic(i, gen) >>
  ELSE << AbsorbGenScoringLogic(i, gen), AbsorbGenRopeLogic(i, gen) >>
       \o EachSequence(LAMBDA s : AbsorbGenSoftmaxLogic(i, s), gen)
       \o << AbsorbGenContextLogic(i, gen) >>

AbsorbMLAGenExecutionPIM(i, gen) ==
  IF i.use_flash_mla THEN << AbsorbGenFlashPIM(i, gen) >>
  ELSE << AbsorbGenScoringPIM(i, gen), AbsorbGenRopePIM(i, gen) >>
       \o EachSequence(LAMBDA s : AbsorbGenSoftmaxPIM(i, s), gen)
       \o << AbsorbGenContextPIM(i, gen) >>
=============================================================================
