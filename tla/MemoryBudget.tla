---------------------------- MODULE MemoryBudget ----------------------------
(***************************************************************************)
(* The scheduler with the batch size that Cluster::checkMemorySize leaves  *)
(* it.  One behaviour of the scheduler stands for every machine for which  *)
(* the check arrives at the TotalBatch of the configuration.               *)
(***************************************************************************)
EXTENDS Scheduler, MemoryCheck

CONSTANT Machines   \* models and systems, with the memory of a device

Divisor == {"num_layers", "ne_tp_dg", "num_total_device"}
Amount ==
  {"hidden_dim", "head_dim", "num_heads", "num_kv_heads", "e_tp_dg", "num_routed_expert",
   "input_len", "output_len", "precision_byte", "q_lora_rank", "kv_lora_rank",
   "qk_rope_head_dim", "expert_intermediate_dim", "num_shared_expert", "expert_freq", "top_k",
   "act", "weight", "max_batch_size", "memory_capacity"}
Switch == {"exit_out_of_memory", "mem_cap_limit", "decode_mode", "use_absorb", "compressed_kv"}

Machine(c) ==
  /\ \A field \in Divisor : c[field] \in Nat \ {0}
  /\ \A field \in Amount : c[field] \in Nat
  /\ \A field \in Switch : c[field] \in BOOLEAN
  /\ c.expert_freq = 0 \/ c.num_routed_expert > 0

\* Without a limit (mem_cap_limit), or with requests longer than those it is checked
\* for, nothing keeps a batch within the memory.  A cache that is compressed because
\* projections are absorbed, not by compressed_kv, is counted by the heads: they need
\* no less.
Checked(c) ==
  /\ c.mem_cap_limit /\ Starts(c)
  /\ Capped(c) => kv_cache_size_per_seq(c) > 0
  /\ \A len \in Lengths : TotalLen(len) <= total_len(c)
  /\ c.qk_rope_head_dim # 0 /\ c.use_absorb /\ ~c.compressed_kv =>
       c.kv_lora_rank + c.qk_rope_head_dim
         <= 2 * (c.num_kv_heads \div c.ne_tp_dg) * c.head_dim

ASSUME MachinesAssumption ==
  \A c \in Machines :
    /\ Machine(c) /\ Checked(c)
    /\ dp_degree(c) = DPDegree /\ total_batch_size(c) = TotalBatch

\* While an iteration runs, a batch does not outgrow the memory of its devices, on
\* any machine with mem_cap_limit: the weights, the activations it was checked for and
\* the caches of its requests with the tokens that the iteration adds, in whatever
\* order the requests are admitted and finish.
CachedTokens(b) ==
  SumFunctionOnSet([s \in running_queue[b] |-> seq[s].current_len + seq[s].num_process_token],
                   running_queue[b])
FitsMemory ==
  pc = "step" =>
    \A c \in Machines : \A b \in Batches :
      c.weight + Activations(c) + CacheOfToken(c) * CachedTokens(b) <= c.memory_capacity
=============================================================================
