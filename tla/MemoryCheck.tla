----------------------------- MODULE MemoryCheck ----------------------------
(***************************************************************************)
(* Cluster::checkMemorySize: what the weights, the activations and the     *)
(* caches of a device need, and the batch size it leaves to the scheduler  *)
(* when that is more than the memory has.                                  *)
(*                                                                         *)
(* A machine c is a model and a system: the fields of ModelConfig and of   *)
(* SystemConfig under their names, max_batch_size of the driver, and the   *)
(* sums act and weight that Module::get_size finds in the tensors of a     *)
(* device.                                                                 *)
(***************************************************************************)
EXTENDS Integers

CONSTANT IntLimit   \* one more than the largest int

ASSUME MemoryAssumption == IntLimit \in Nat \ {0}

\* A product or a sum of ints; the other terms are computed in double.
Int32(n) == ((n + IntLimit) % (2 * IntLimit)) - IntLimit

dp_degree(c) == c.num_total_device \div c.ne_tp_dg
batch_size_per_dp(c) == c.max_batch_size \div dp_degree(c)
total_len(c) == c.input_len + c.output_len

---------------------------------------------------------------------------
(* The activations of one layer (the four formulas of activation_size).    *)

\* The rows of an activation: a token of each request, or its prompt.
Rows(c) == batch_size_per_dp(c) * (IF c.decode_mode THEN 1 ELSE c.input_len)
ScoreLen(c) == IF c.decode_mode THEN total_len(c) ELSE c.input_len

\* The input and output of the layer, and what the down projections leave.
Latents(c) ==
  Int32(Rows(c) * (2 * c.hidden_dim + c.q_lora_rank + c.kv_lora_rank + c.qk_rope_head_dim))

\* The query of all heads with its rope and the table of angles.
Query(c) == (Rows(c) * (3 * c.qk_rope_head_dim + c.head_dim) * c.num_heads) \div c.ne_tp_dg

Score(c) ==
  IF c.decode_mode THEN (Rows(c) * 2 * c.num_heads * ScoreLen(c)) \div c.ne_tp_dg
  ELSE 2 * (Int32(Rows(c) * c.num_heads * ScoreLen(c)) \div c.ne_tp_dg)

Context(c) == Int32(Rows(c) * c.num_heads * c.head_dim) \div c.ne_tp_dg

\* Between the latents and the heads: the transposed key projection and the context
\* when projections are absorbed, else the keys and values, of the whole context
\* when a compressed cache is restored in a decode step.
Restored(c) ==
  IF c.use_absorb THEN 2 * (Int32(Rows(c) * c.num_heads * c.kv_lora_rank) \div c.ne_tp_dg)
  ELSE (Rows(c) * 2 * (IF c.decode_mode /\ c.compressed_kv THEN total_len(c) ELSE 1)
          * c.head_dim * c.num_heads) \div c.ne_tp_dg

ExpertsPerDevice(c) ==
  (c.num_routed_expert * c.e_tp_dg) \div c.num_total_device + c.num_shared_expert
ExpertRows(c) ==
  (IF c.expert_freq = 0 THEN 0 ELSE (c.max_batch_size * c.top_k) \div c.num_routed_expert)
    * (IF c.decode_mode THEN 1 ELSE c.input_len)
ExpertActivations(c) ==
  ExpertsPerDevice(c) * (3 * Int32(ExpertRows(c) * c.expert_intermediate_dim)
                           + Int32(ExpertRows(c) * c.hidden_dim))

activation_size(c) ==
  (Latents(c) + Query(c) + Restored(c) + Score(c) + Context(c) + ExpertActivations(c))
    * c.precision_byte

---------------------------------------------------------------------------
(* The caches that the attention modules create.                           *)

\* Of one token of a request, on one device: compressed and shared by the heads
\* (AbsorbMLAGen always, CompressedKVRestore if compressed_kv), or the keys and
\* values of its heads.
CacheOfToken(c) ==
  c.num_layers * c.precision_byte
    * IF c.qk_rope_head_dim # 0 /\ (c.use_absorb \/ c.compressed_kv)
      THEN c.kv_lora_rank + c.qk_rope_head_dim
      ELSE 2 * (c.num_kv_heads \div c.ne_tp_dg) * c.head_dim

cache(c) == batch_size_per_dp(c) * total_len(c) * CacheOfToken(c)

---------------------------------------------------------------------------
(* checkMemorySize.                                                        *)

\* The activations that are counted: one layer at a time.
Activations(c) == IF c.q_lora_rank = 0 THEN c.act \div c.num_layers ELSE activation_size(c)

out_of_memory(c) == Activations(c) + c.weight + cache(c) > c.memory_capacity

\* mutant: the cache of one layer
OneLayerPerSeq(c) ==
  total_len(c) * c.precision_byte
    * IF c.qk_rope_head_dim # 0 /\ c.compressed_kv
      THEN c.kv_lora_rank + c.qk_rope_head_dim
      ELSE (2 * c.head_dim * c.num_kv_heads) \div c.ne_tp_dg
kv_cache_size_per_seq(c) ==
  total_len(c) * c.num_layers * c.precision_byte
    * IF c.qk_rope_head_dim # 0 /\ c.compressed_kv
      THEN c.kv_lora_rank + c.qk_rope_head_dim
      ELSE (2 * c.head_dim * c.num_kv_heads) \div c.ne_tp_dg

avail_capacity(c) == c.memory_capacity - Activations(c) - c.weight
max_batch_size(c) == (avail_capacity(c) \div kv_cache_size_per_seq(c)) * dp_degree(c)

Capped(c) == out_of_memory(c) /\ ~c.exit_out_of_memory /\ c.mem_cap_limit

\* total_batch_size and batch_size_per_dp of the scheduler after the check.
total_batch_size(c) == IF Capped(c) THEN max_batch_size(c) - 1 ELSE c.max_batch_size

\* The program goes on: it neither fails for its weights nor exits.
Starts(c) ==
  /\ out_of_memory(c) => ~c.exit_out_of_memory
  /\ Capped(c) => avail_capacity(c) >= 0
=============================================================================
