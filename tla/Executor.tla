------------------------------ MODULE Executor ------------------------------
(***************************************************************************)
(* The tables of the Executor's constructor: the execution function of     *)
(* each layer on each processor.  The phases of a call are all that its    *)
(* duration, its traffic and its transfers come from.                      *)
(***************************************************************************)
EXTENDS LayerGraph, AttentionSumCost, AttentionGenCost

ByProcessor(p, gpu, logic, pim) ==
  CASE p = "GPU" -> gpu [] p = "LOGIC" -> logic [] p = "PIM" -> pim

\* The functions return at once when there is nothing to process.
SumPhases(layer, p, i, sum) ==
  CASE layer = "ATTENTION_SUM" ->
         ByProcessor(p, AttentionSumExecutionGPU(i, sum),
                     AttentionSumExecutionLogic(i, sum), AttentionSumExecutionPIM(i, sum))
    [] layer = "MLA_SUM" ->
         ByProcessor(p, MultiLatentAttentionSumExecutionGPU(i, sum),
                     MultiLatentAttentionSumExecutionLogic(i, sum),
                     MultiLatentAttentionSumExecutionPIM(i, sum))
    [] layer = "ABSORBED_MLA_SUM" ->
         ByProcessor(p, AbsorbMLASumExecutionGPU(i, sum),
                     AbsorbMLASumExecutionLogic(i, sum), AbsorbMLASumExecutionPIM(i, sum))

GenPhases(layer, p, i, gen) ==
  CASE layer = "ATTENTION_GEN" ->
         ByProcessor(p, AttentionGenExecutionGPU(i, gen),
                     AttentionGenExecutionLogic(i, gen), AttentionGenExecutionPIM(i, gen))
    [] layer = "MLA_GEN" ->
         ByProcessor(p, MultiLatentAttentionGenExecutionGPU(i, gen),
                     MultiLatentAttentionGenExecutionLogic(i, gen),
                     MultiLatentAttentionGenExecutionPIM(i, gen))
    [] layer = "ABSORBED_MLA_GEN" ->
         ByProcessor(p, AbsorbMLAGenExecutionGPU(i, gen),
                     AbsorbMLAGenExecutionLogic(i, gen), AbsorbMLAGenExecutionPIM(i, gen))

LayerPhases(call, p, i) ==
  LET in == call.in.shape
      out == call.out.shape
  IN CASE call.layer = "LINEAR" ->
            ByProcessor(p, LinearExecutionGPU(i, in, call.w), LinearExecutionLogic(i, in, call.w),
                        LinearExecutionPIM(i, in, call.w))
       [] call.layer = "BATCHED_LINEAR" ->
            ByProcessor(p, BatchedLinearExecutionGPU(i, in, call.w),
                        BatchedLinearExecutionLogic(i, in, call.w),
                        BatchedLinearExecutionPIM(i, in, call.w))
       [] call.layer = "ACTIVATION" ->
            ByProcessor(p, ActivationExecutionGPU(i, in, out), ActivationExecutionLogic(i, in, out),
                        ActivationExecutionPIM(i, in, out))

SumLayer == {"ATTENTION_SUM", "MLA_SUM", "ABSORBED_MLA_SUM"}
GenLayer == {"ATTENTION_GEN", "MLA_GEN", "ABSORBED_MLA_GEN"}

\* The phases of a call on a processor, for the batch.
ExecutionPhases(call, p, i, batch) ==
  CASE call.layer \in SumLayer ->
         IF Tokens(get_sum(batch)) = 0 THEN << >>
         ELSE SumPhases(call.layer, p, i, get_sum(batch))
    [] call.layer \in GenLayer ->
         IF Tokens(get_gen(batch)) = 0 THEN << >>
         ELSE GenPhases(call.layer, p, i, get_gen(batch))
    [] OTHER -> LayerPhases(call, p, i)
=============================================================================
