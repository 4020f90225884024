------------------------------ MODULE MCMemory ------------------------------
(***************************************************************************)
(* The scheduler with the batch sizes that the memory check leaves it: one *)
(* run stands for every machine below for which the check arrives at the   *)
(* TotalBatch of the configuration.                                        *)
(***************************************************************************)
EXTENDS MCScheduler, MemoryBudget

\* Requests that leave little of the length they are checked for unused.
Prompts == { <<3, 1>> }

\* A small model, with plain attention, with latent attention, and absorbed.
Small ==
  [hidden_dim |-> 4, head_dim |-> 2, num_heads |-> 2, num_kv_heads |-> 2, num_layers |-> 3,
   expert_intermediate_dim |-> 2, num_routed_expert |-> 4, num_shared_expert |-> 1,
   expert_freq |-> 1, top_k |-> 2, q_lora_rank |-> 0, kv_lora_rank |-> 0,
   qk_rope_head_dim |-> 0, use_absorb |-> FALSE, compressed_kv |-> FALSE,
   precision_byte |-> 2, ne_tp_dg |-> 2, e_tp_dg |-> 1, act |-> 120, weight |-> 400,
   num_total_device |-> 2 * DPDegree, input_len |-> 3, output_len |-> 1,
   exit_out_of_memory |-> FALSE, mem_cap_limit |-> TRUE, decode_mode |-> DecodeMode]
Latent == [Small EXCEPT !.q_lora_rank = 3, !.kv_lora_rank = 3, !.qk_rope_head_dim = 1]
Models ==
  { Small, [Small EXCEPT !.num_kv_heads = 4, !.num_heads = 4, !.head_dim = 1, !.expert_freq = 0],
    Latent, [Latent EXCEPT !.compressed_kv = TRUE],
    [Latent EXCEPT !.use_absorb = TRUE, !.compressed_kv = TRUE] }

With(model, batch, capacity) ==
  [field \in DOMAIN model \cup {"max_batch_size", "memory_capacity"} |->
     CASE field = "max_batch_size"  -> batch
       [] field = "memory_capacity" -> capacity
       [] OTHER                     -> model[field]]

\* The machines that run with TotalBatch: configured so, or cut down to it, with
\* memory left over or none to spare.
MCMachines ==
  { c \in { With(model, batch, capacity) :
              model \in Models, batch \in {3, 6, 8}, capacity \in 500 .. 3000 } :
      Starts(c) /\ total_batch_size(c) = TotalBatch }

ASSUME InstanceAssumption ==
  \A model \in Models :
    \E c \in MCMachines : Capped(c) /\ c = With(model, c.max_batch_size, c.memory_capacity)
=============================================================================
