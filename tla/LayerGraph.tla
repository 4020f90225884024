----------------------------- MODULE LayerGraph -----------------------------
(***************************************************************************)
(* The layers of src/src/module as the calls their forward functions make: *)
(* which execution each asks for, on tensors of which shapes, and which    *)
(* processors may run it.  A decoder is the sequence of its leaf calls.    *)
(*                                                                         *)
(* `c` is the system: its model_config (c.model), its optimizations and    *)
(* the processors.  `n` is the tensor parallel degree of a layer.  A batch *)
(* is the sequence of its requests: sum (still in its prompt), m tokens to *)
(* process and n in the context with them.                                 *)
(***************************************************************************)
EXTENDS LinearCost

\* `lane` is "none" unless the tensor is for parallel execution.
Tensor(shape) == [shape |-> shape, lane |-> "none", optimal |-> FALSE]
InLane(t, lane) == [t EXCEPT !.lane = lane]

get_sum(batch) == Among(batch, { s \in Range(batch) : s.sum })
get_gen(batch) == Among(batch, { s \in Range(batch) : ~s.sum })
Tokens(seqs) == OverSequences(LAMBDA s : s.m, seqs)

(* A call: what it executes ("none": nothing), its tensors, the processors *)
(* that may execute it, the flops and bytes it charges without executing,  *)
(* the ranks it waits for, whether the assertions of forward hold, and the *)
(* names of the modules it is in, the outermost first.                     *)

LayerInfo(c) ==
  [precision |-> c.model.precision_byte, hd |-> c.model.head_dim, H |-> 0, KVH |-> 0, group |-> 0,
   rope |-> c.model.qk_rope_head_dim, rank |-> c.model.kv_lora_rank, cols |-> 0,
   use_flash_attention |-> FALSE, use_flash_mla |-> FALSE, nearbank |-> c.nearbank,
   duplicated_input |-> FALSE]

Plain(c, t, out) ==
  [layer |-> "none", in |-> t, w |-> << >>, out |-> out, processors |-> << >>,
   info |-> LayerInfo(c), flops |-> 0, bytes |-> 0, waits |-> 1, fits |-> TRUE, path |-> << >>]

As(name, call) == [call EXCEPT !.path = << name >> \o @]
InModule(name, calls) == [k \in DOMAIN calls |-> As(name, calls[k])]

Execute(c, layer, t, w, out, processors) ==
  [Plain(c, t, out) EXCEPT !.layer = layer, !.w = w, !.processors = processors]

(* linear.cpp, activation.cpp: the lane of the input, else the processors  *)
(* of the system, of which only an expert's tensors try all.               *)

LaneProcessors(c, t) == IF t.lane = "high" THEN << c.high >> ELSE << c.low >>
SubbatchProcessors(c, t) ==
  CASE t.lane # "none"                             -> LaneProcessors(c, t)
    [] t.lane = "none" /\ c.hetero_subbatch        -> << c.high >>
    [] OTHER -> IF Len(c.processor_type) # 1 /\ ~t.optimal THEN << c.high >> ELSE c.processor_type

Linear(c, t, input_size, output_size) ==
  [Execute(c, "LINEAR", t, << input_size, output_size >>,
           [t EXCEPT !.shape = << t.shape[1], output_size >>], SubbatchProcessors(c, t))
     EXCEPT !.fits = (t.shape[2] = input_size)]

Activation(c, t) ==
  [Execute(c, "ACTIVATION", t, << >>,
           [t EXCEPT !.shape = << t.shape[1], t.shape[2] \div c.model.activation_factor >>],
           SubbatchProcessors(c, t))
     EXCEPT !.fits = (t.shape[2] % c.model.activation_factor = 0)]

\* t is one of the tensors of the vector, one for each head; hetero_subbatch is
\* not looked at.
HeadProcessors(c, t) == SubbatchProcessors([c EXCEPT !.hetero_subbatch = FALSE], t)

BatchedLinear(c, t, heads, input_size, output_size, duplicated) ==
  [Execute(c, "BATCHED_LINEAR", [t EXCEPT !.shape = << heads >> \o @],
           << heads, input_size, output_size >>,
           [t EXCEPT !.shape = << t.shape[1], output_size >>], HeadProcessors(c, t))
     EXCEPT !.fits = (t.shape[2] = input_size), !.info.duplicated_input = duplicated]

PlainLinear(c, t, heads, input_size, output_size) ==
  LET joined == [t EXCEPT !.shape = << t.shape[1], t.shape[2] * heads >>]
  IN [Linear(c, joined, input_size, output_size) EXCEPT !.processors = HeadProcessors(c, t)]

(* layernorm.cpp, rope.cpp, residual.cpp: time charged to the GPU at once. *)

Charge(c, t, flops, elements) ==
  IF Size(t.shape) = 0 THEN Plain(c, t, t)
  ELSE [Plain(c, t, t) EXCEPT !.flops = flops, !.bytes = elements * c.model.precision_byte]

LayerNorm(c, t, hidden_dim) ==
  [Charge(c, t, 4 * Size(t.shape), 2 * Size(t.shape) + t.shape[2])
     EXCEPT !.fits = (t.shape[2] = hidden_dim)]
Residual(c, t) == Charge(c, t, Size(t.shape), 3 * Size(t.shape))

\* std::max(length, 0) in the loop keeps the length of the last request.
MaxLen(batch) == IF batch = << >> THEN 0 ELSE batch[Len(batch)].n
SinCos(c, batch) == 2 * MaxLen(batch) * c.model.qk_rope_head_dim
RoPE(c, t, batch) == Charge(c, t, 6 * Size(t.shape), 2 * Size(t.shape) + SinCos(c, batch))
BatchedRoPE(c, t, heads, batch) ==
  Charge(c, t, 6 * heads * Size(t.shape), 2 * heads * Size(t.shape) + SinCos(c, batch))

(* parallel.cpp: a layer's share of the columns, rows or heads.            *)

ColumnParallelLinear(c, t, n, input_size, output_size) ==
  [Linear(c, t, input_size, output_size \div n) EXCEPT !.fits = @ /\ output_size % n = 0]
\* mutant: the columns are shared, the rows are not
SharedColumns(c, t, n, input_size, output_size) ==
  Linear(c, t, input_size, output_size \div n)
RowParallelLinear(c, t, n, input_size, output_size) ==
  [Linear(c, t, input_size \div n, output_size) EXCEPT !.fits = @ /\ output_size % n = 0]

BatchedColumnParallelLinear(c, t, n, input_size, output_size, duplicated) ==
  LET heads == c.model.num_heads
  IN [BatchedLinear(c, t, heads \div n, input_size, output_size \div heads, duplicated)
        EXCEPT !.fits = @ /\ output_size % n = 0]
BatchedRowParallelLinear(c, t, n, input_size, output_size) ==
  LET heads == c.model.num_heads
  IN [BatchedLinear(c, t, heads \div n, input_size \div heads, output_size, FALSE)
        EXCEPT !.fits = @ /\ input_size % n = 0]
PlainRowParallelLinear(c, t, n, input_size, output_size) ==
  [PlainLinear(c, t, c.model.num_heads \div n, input_size \div n, output_size)
     EXCEPT !.fits = @ /\ input_size % n = 0]

\* Waiting for the ranks of a layer, or for all; DeviceGraph has what it costs.
AllReduce(c, t, n) == [Plain(c, t, t) EXCEPT !.waits = n]
Sync(c, t) == AllReduce(c, t, c.num_total_device)

(* attention.cpp.                                                          *)

Heads(c, n) == c.model.num_heads \div n
KVHeads(c, n) == c.model.num_kv_heads \div n
HeadInfo(c, n) ==
  [LayerInfo(c) EXCEPT !.H = Heads(c, n), !.KVH = KVHeads(c, n)]

\* The prompt's and the decode steps' share of the tokens, in two lanes if they
\* are to run at the same time.
SplitLane(c, lane) == IF c.parallel_execution THEN lane ELSE "none"
AttentionSplit(c, t) == Plain(c, t, Tensor(t.shape))
SumTensor(c, batch, columns) ==
  InLane(Tensor(<< Tokens(get_sum(batch)), columns >>), SplitLane(c, "high"))
GenTensor(c, batch, columns) ==
  InLane(Tensor(<< Tokens(get_gen(batch)), columns >>), SplitLane(c, "low"))

HeadOutput(c, t, n, lane) ==
  [shape |-> << t.shape[1], Heads(c, n) * c.model.head_dim >>, lane |-> lane, optimal |-> FALSE]

SelfAttentionSum(c, t, n) ==
  [Execute(c, "ATTENTION_SUM", t, << >>, HeadOutput(c, t, n, t.lane),
           IF t.lane = "none" THEN c.processor_type ELSE << c.high >>)
     EXCEPT !.info = [HeadInfo(c, n) EXCEPT !.cols = t.shape[2]]]
SelfAttentionGen(c, t, n) ==
  [Execute(c, "ATTENTION_GEN", t, << >>, HeadOutput(c, t, n, t.lane),
           IF t.lane = "none" THEN c.processor_type ELSE << c.low >>)
     EXCEPT !.info = [HeadInfo(c, n) EXCEPT !.group = Heads(c, n) \div KVHeads(c, n)]]

\* Latent attention never compares processors: it runs on one, and with several
\* its output is marked as if it ran in a lane.
Forced(c, t) == t.lane # "none" \/ Len(c.processor_type) # 1
HighIfForced(c, t) == IF Forced(c, t) THEN "high" ELSE "none"
ForcedProcessors(c, t) == IF Forced(c, t) THEN << c.high >> ELSE c.processor_type

\* mutant: every rank has all heads
AllHeads(c, t, n) ==
  [Execute(c, "MLA_SUM", t, << >>, InLane(t, HighIfForced(c, t)), ForcedProcessors(c, t))
     EXCEPT !.info = [HeadInfo(c, 1) EXCEPT !.use_flash_attention = c.use_flash_attention]]
MultiLatentAttentionSum(c, t, n) ==
  [Execute(c, "MLA_SUM", t, << >>, InLane(t, HighIfForced(c, t)), ForcedProcessors(c, t))
     EXCEPT !.info = [HeadInfo(c, n) EXCEPT !.use_flash_attention = c.use_flash_attention]]
MultiLatentAttentionGen(c, t, n) ==
  [Execute(c, "MLA_GEN", t, << >>,
           HeadOutput(c, t, n, IF t.lane # "none" THEN "low" ELSE HighIfForced(c, t)),
           IF t.lane # "none" THEN << c.low >> ELSE ForcedProcessors(c, t))
     EXCEPT !.info = [HeadInfo(c, n) EXCEPT !.use_flash_mla = c.use_flash_mla]]
AbsorbMLASum(c, t, n) ==
  [Execute(c, "ABSORBED_MLA_SUM", t, << >>, InLane(t, HighIfForced(c, t)), ForcedProcessors(c, t))
     EXCEPT !.info = HeadInfo(c, n)]
AbsorbMLAGen(c, t, n) ==
  [Execute(c, "ABSORBED_MLA_GEN", t, << >>, InLane(t, HighIfForced(c, t)), ForcedProcessors(c, t))
     EXCEPT !.info = [HeadInfo(c, n) EXCEPT !.use_flash_mla = c.use_flash_mla]]

\* Its input is a vector of tensors, in no lane.
AttentionMerge(c, sum, gen, batch, columns) ==
  [Plain(c, InLane(sum.out, "none"), Tensor(<< Tokens(batch), columns >>))
     EXCEPT !.fits = (/\ sum.out.shape[1] = Tokens(get_sum(batch))
                      /\ gen.out.shape[1] = Tokens(get_gen(batch)))]
AbsorbMerge(c, t, batch) ==
  Plain(c, t, Tensor(<< Tokens(batch), c.model.kv_lora_rank >>))

\* parallel.cpp: split, the two attentions, merge.
SelfAttentionParallel(c, t, n, batch) ==
  LET columns == (Heads(c, n) + 2 * KVHeads(c, n)) * c.model.head_dim
      sum == SelfAttentionSum(c, SumTensor(c, batch, columns), n)
      gen == SelfAttentionGen(c, GenTensor(c, batch, columns), n)
      merge == AttentionMerge(c, sum, gen, batch, Heads(c, n) * c.model.head_dim)
  IN << As("AttentionSplit", AttentionSplit(c, t)), As("AttentionSum", sum),
        As("AttentionGen", gen),
        As("AttentionMerge", [merge EXCEPT !.fits = (/\ @ /\ c.model.num_heads % n = 0
                                                     /\ c.model.num_kv_heads % n = 0)]) >>

MultiLatentAttentionParallel(c, t, n, batch) ==
  LET columns == Heads(c, n) * (2 * (c.model.head_dim + c.model.qk_rope_head_dim)
                                + c.model.head_dim)
      sum == MultiLatentAttentionSum(c, SumTensor(c, batch, columns), n)
      gen == MultiLatentAttentionGen(c, GenTensor(c, batch, columns), n)
      merge == AttentionMerge(c, sum, gen, batch, Heads(c, n) * c.model.head_dim)
  IN << As("AttentionSplit", AttentionSplit(c, t)), As("AttentionSum", sum),
        As("AttentionGen", gen),
        As("AttentionMerge", [merge EXCEPT !.fits = @ /\ c.model.num_heads % n = 0]) >>

AbsorbMLAParallel(c, t, n, batch) ==
  << As("AttentionSplit", AttentionSplit(c, t)),
     As("AttentionSum", AbsorbMLASum(c, SumTensor(c, batch, c.model.kv_lora_rank), n)),
     As("AttentionGen", AbsorbMLAGen(c, GenTensor(c, batch, c.model.kv_lora_rank), n)),
     As("AttentionMerge",
        [AbsorbMerge(c, t, batch) EXCEPT !.fits = (c.model.num_heads % n = 0)]) >>

(* layer.cpp.                                                              *)

\* The call that consumes the output of the last one of `calls`.
Output(calls) == calls[Len(calls)].out

Attention(c, t, n, batch) ==
  LET attn_qkv_proj == ColumnParallelLinear(c, t, n, c.model.hidden_dim,
                         c.model.head_dim * (c.model.num_heads + 2 * c.model.num_kv_heads))
      self_attention == SelfAttentionParallel(c, attn_qkv_proj.out, n, batch)
      attn_o_proj == RowParallelLinear(c, Output(self_attention), n,
                       c.model.head_dim * c.model.num_heads, c.model.hidden_dim)
  IN << As("attn_qkv_proj", attn_qkv_proj) >> \o InModule("self_attention", self_attention)
     \o << As("attn_o_proj", attn_o_proj), As("all_reduce", AllReduce(c, attn_o_proj.out, n)) >>

\* The latent projections, the same on every rank, and their norms.
LatentDown(c, t, batch) ==
  LET q_down == Linear(c, t, c.model.hidden_dim, c.model.q_lora_rank)
      kv_down == Linear(c, t, c.model.hidden_dim, c.model.kv_lora_rank)
      kr == Linear(c, t, c.model.hidden_dim, c.model.qk_rope_head_dim)
  IN << As("attn_q_down_proj", q_down), As("attn_kv_down_proj", kv_down), As("attn_kr_proj", kr),
        As("k_rope", RoPE(c, kr.out, batch)),
        As("latent_q_layer_norm", LayerNorm(c, q_down.out, c.model.q_lora_rank)),
        As("latent_kv_layer_norm", LayerNorm(c, kv_down.out, c.model.kv_lora_rank)) >>

AbsorbedAttention(c, t, n, batch) ==
  LET down == LatentDown(c, t, batch)
      latent_q == down[5].out
      q_up == BatchedColumnParallelLinear(c, latent_q, n, c.model.q_lora_rank,
                c.model.num_heads * c.model.qk_nope_head_dim, TRUE)
      qr == BatchedColumnParallelLinear(c, latent_q, n, c.model.q_lora_rank,
              c.model.num_heads * c.model.qk_rope_head_dim, TRUE)
      tr_k_up == BatchedRowParallelLinear(c, q_up.out, n,
                   c.model.head_dim * c.model.num_heads, c.model.kv_lora_rank)
      absorbed == AbsorbMLAParallel(c, tr_k_up.out, n, batch)
      v_up == BatchedColumnParallelLinear(c, Output(absorbed), n, c.model.kv_lora_rank,
                c.model.num_heads * c.model.head_dim, FALSE)
      o_proj == PlainRowParallelLinear(c, v_up.out, n,
                  c.model.num_heads * c.model.qk_nope_head_dim, c.model.hidden_dim)
  IN down \o << As("attn_q_up_proj", q_up), As("attn_qr_proj", qr),
                As("q_rope", BatchedRoPE(c, qr.out, Heads(c, n), batch)),
                As("attn_tr_k_up_proj", tr_k_up) >>
     \o InModule("attn_mla_absorbed", absorbed)
     \o << As("attn_v_up_proj", v_up), As("attn_o_proj", o_proj),
           As("all_reduce", AllReduce(c, o_proj.out, n)) >>

\* With compressed_kv the keys and values of the whole context are restored.
CompressedKVRestore(c, t, batch) ==
  LET gen == get_gen(batch)
      rows == Tokens(get_sum(batch)) + OverSequences(LAMBDA s : s.n - s.m, gen) + Len(gen)
  IN Plain(c, t, IF c.model.compressed_kv THEN Tensor(<< rows, c.model.kv_lora_rank >>)
                 ELSE Tensor(t.shape))

BaselineAttention(c, t, n, batch) ==
  LET down == LatentDown(c, t, batch)
      latent_q == down[5].out
      restore == CompressedKVRestore(c, down[6].out, batch)
      q_up == ColumnParallelLinear(c, latent_q, n, c.model.q_lora_rank,
                c.model.num_heads * c.model.qk_nope_head_dim)
      qr == ColumnParallelLinear(c, latent_q, n, c.model.q_lora_rank,
              c.model.num_heads * c.model.qk_rope_head_dim)
      kv_up == ColumnParallelLinear(c, restore.out, n, c.model.kv_lora_rank,
                 c.model.num_heads * 2 * c.model.head_dim)
      attention == MultiLatentAttentionParallel(c, q_up.out, n, batch)
      o_proj == RowParallelLinear(c, Output(attention), n,
                  c.model.head_dim * c.model.num_heads, c.model.hidden_dim)
  IN down \o << As("c_kv_restore", restore), As("attn_q_up_proj", q_up), As("attn_qr_proj", qr),
                As("attn_kv_up_proj", kv_up) >>
     \o InModule("multi_latent_attention", attention)
     \o << As("attn_o_proj", o_proj), As("all_reduce", AllReduce(c, o_proj.out, n)) >>

MultiLatentAttention(c, t, n, batch) ==
  IF c.model.use_absorb THEN AbsorbedAttention(c, t, n, batch)
  ELSE BaselineAttention(c, t, n, batch)

FeedForward2Way(c, t, n, intermediate_dim) ==
  LET up == ColumnParallelLinear(c, t, n, c.model.hidden_dim,
                                 intermediate_dim * c.model.activation_factor)
      act_fn == Activation(c, up.out)
  IN << up, act_fn, RowParallelLinear(c, act_fn.out, n, intermediate_dim, c.model.hidden_dim) >>

\* use_dp: the weights are whole on every device.
FeedForward3Way(c, t, n, intermediate_dim, use_dp) ==
  LET share == IF use_dp THEN 1 ELSE n
      gate == ColumnParallelLinear(c, t, share, c.model.hidden_dim,
                                   intermediate_dim * c.model.activation_factor)
      up == ColumnParallelLinear(c, t, share, c.model.hidden_dim, intermediate_dim)
  IN << gate, Activation(c, gate.out), up,
        RowParallelLinear(c, up.out, share, intermediate_dim, c.model.hidden_dim) >>

FeedForward(c, t, n, intermediate_dim, use_dp) ==
  IF c.model.ffn_way = 2 THEN FeedForward2Way(c, t, n, intermediate_dim)
  ELSE FeedForward3Way(c, t, n, intermediate_dim, use_dp)

(* decoder.cpp, expert.cpp.                                                *)

AttentionOf(c, t, batch) ==
  InModule("attention", IF c.model.qk_rope_head_dim = 0 THEN Attention(c, t, c.ne_tp_dg, batch)
                        ELSE MultiLatentAttention(c, t, c.ne_tp_dg, batch))

Decoder(c, batch) ==
  LET t == Tensor(<< Tokens(batch), c.model.hidden_dim >>)
      feedforward == FeedForward(c, t, c.ne_tp_dg, c.model.intermediate_dim, FALSE)
  IN << As("input_layer_norm", LayerNorm(c, t, c.model.hidden_dim)) >> \o AttentionOf(c, t, batch)
     \o << As("residual_1", Residual(c, t)),
           As("post_attn_layer_norm", LayerNorm(c, t, c.model.hidden_dim)) >>
     \o InModule("feedforward", feedforward)
     \o << As("all_reduce", AllReduce(c, Output(feedforward), c.ne_tp_dg)),
           As("residual_1", Residual(c, t)) >>

\* Route::forward: the lane of an expert's input, or all processors to choose from.
ExpertInput(c, rows, isHigh) ==
  LET t == Tensor(<< rows, c.model.hidden_dim >>)
  IN CASE c.hetero_subbatch -> InLane(t, "low")
       [] ~c.hetero_subbatch /\ c.parallel_execution -> InLane(t, IF isHigh THEN "high" ELSE "low")
       [] ~c.hetero_subbatch /\ ~c.parallel_execution /\ c.use_low_unit_moe_only -> InLane(t, "low")
       [] OTHER -> [t EXCEPT !.optimal = TRUE]

\* The tokens of each expert of the device are given: the gate's choice.  What
\* scatters and gathers them is in Experts and DeviceGraph, and takes no time here:
\* of the synchronisations in a row, one is kept.
ExpertFFN(c, t, rows, high) ==
  LET expert(e) == FeedForward(c, ExpertInput(c, rows[e], e \in high), c.e_tp_dg,
                               c.model.expert_intermediate_dim, FALSE)
      shared == FeedForward(c, t, c.ne_tp_dg, c.model.expert_intermediate_dim, TRUE)
      gate_fn == ColumnParallelLinear(c, t, 1, c.model.hidden_dim, c.model.num_routed_expert)
      moe_route == Plain(c, t, t)
  IN << As("sync_0", Sync(c, t)), As("gate_fn", gate_fn), As("sync_for_moe_scatter", Sync(c, t)),
        As("moe_route", moe_route) >>
     \o FlattenSeq([e \in 1 .. Len(rows) |-> InModule("expert_FFN", expert(e))])
     \o << As("sync_2", Sync(c, t)) >>
     \o FlattenSeq([e \in 1 .. c.model.num_shared_expert |-> InModule("shared_expert_FFN", shared)])
     \o << As("sync_6", Sync(c, t)) >>

MoEDecoder(c, batch, rows, high) ==
  LET t == Tensor(<< Tokens(batch), c.model.hidden_dim >>)
      norm == LayerNorm(c, t, c.model.hidden_dim)
  IN << As("input_layer_norm", norm) >> \o AttentionOf(c, t, batch)
     \o << As("residual_1", norm), As("post_attn_layer_norm", norm) >>
     \o InModule("expertFFN", ExpertFFN(c, t, rows, high)) \o << As("residual_2", norm) >>

(* llm.cpp: the calls of a device with work w (its batch and the tokens of *)
(* its experts, none with dense decoders).                                 *)

Graph(c, w) ==
  IF w.routed = << >> THEN Decoder(c, w.batch) ELSE MoEDecoder(c, w.batch, w.routed, w.high)
=============================================================================
