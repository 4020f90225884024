-------------------------- MODULE DecoderExecution --------------------------
(***************************************************************************)
(* Execution with the graphs of LayerGraph, the execution functions of     *)
(* Executor and the DRAM map of DramMap: the devices running the decoders  *)
(* that the program builds.                                                *)
(***************************************************************************)
EXTENDS Execution, Executor, DramMap

Positive == Nat \ {0}

\* A model_config: at least one head for each head of keys and values, a positive
\* size of everything the model has, and no latent dimension without the others.
\* The heads of latent attention have keys and values of their own, and their
\* latent part has the dimension of the values.
Model(m) ==
  /\ {m.hidden_dim, m.head_dim, m.num_heads, m.num_kv_heads, m.intermediate_dim,
      m.expert_intermediate_dim, m.activation_factor, m.precision_byte} \subseteq Positive
  /\ {m.num_routed_expert, m.num_shared_expert, m.qk_rope_head_dim, m.qk_nope_head_dim} \subseteq Nat
  /\ m.num_kv_heads <= m.num_heads
  /\ {m.use_absorb, m.compressed_kv} \subseteq BOOLEAN
  /\ IF m.qk_rope_head_dim = 0 THEN m.qk_nope_head_dim = 0
     ELSE /\ {m.q_lora_rank, m.kv_lora_rank} \subseteq Positive
          /\ m.qk_nope_head_dim = m.head_dim /\ m.num_kv_heads = m.num_heads

\* The degrees of tensor parallelism divide what the layers divide (the assertions
\* of parallel.cpp).
Shardable(m, ne_tp_dg, e_tp_dg) ==
  /\ {ne_tp_dg, e_tp_dg} \subseteq Positive
  /\ m.num_heads % ne_tp_dg = 0 /\ m.num_kv_heads % ne_tp_dg = 0
  /\ m.hidden_dim % ne_tp_dg = 0 /\ m.intermediate_dim % ne_tp_dg = 0
  /\ m.hidden_dim % e_tp_dg = 0 /\ m.expert_intermediate_dim % e_tp_dg = 0
  /\ m.ffn_way = 2 /\ m.num_shared_expert > 0 => m.expert_intermediate_dim % ne_tp_dg = 0

SystemType(c) ==
  /\ Model(c.model) /\ Shardable(c.model, c.ne_tp_dg, c.e_tp_dg)
  /\ c.processor_type \in Seq(Processor) /\ c.processor_type # << >>
  /\ {c.high, c.low} \subseteq Processor
  /\ {c.parallel_execution, c.hetero_subbatch, c.use_low_unit_moe_only, c.use_ramulator,
      c.use_flash_mla, c.use_flash_attention, c.nearbank} \subseteq BOOLEAN
  /\ DOMAIN c = {"model", "processor_type", "high", "low", "parallel_execution",
                 "hetero_subbatch", "use_low_unit_moe_only", "use_ramulator", "use_flash_mla",
                 "use_flash_attention", "nearbank", "ne_tp_dg", "e_tp_dg", "num_total_device",
                 "moe"}

\* The scheduler gives all decode steps of a batch a token, or none of them
\* (setMetadata), and only a model with experts routes tokens to them.
RequestType == [sum : BOOLEAN, m : Nat, n : Nat]
WorkType(c, w) ==
  /\ w.batch \in Seq(RequestType)
  /\ \E m \in {0, 1} : \A k \in DOMAIN w.batch : ~w.batch[k].sum => w.batch[k].m = m
  /\ w.routed \in Seq(Nat)
  /\ w.routed # << >> => c.model.num_routed_expert > 0

ASSUME SystemsAssumption ==
  \A c \in Systems :
    /\ SystemType(c)
    /\ \A works \in Works(c) : \A d \in Devices : WorkType(c, works[d])

\* The LayerInfo of a call, and what an execution on other processors leaves of it.
Infos(call) == {call.info} \cup { [call.info EXCEPT !.cols = cols] : cols \in Columns(call) }

\* The graphs and the phases are those of the code, for every batch and every system
\* that a property looks at.
ASSUME CodeAssumption ==
  \A c \in Systems : \A works \in Works(c) : \A d \in Devices : \A s \in {c, Unsharded(c)} :
    /\ Calls(s, works[d]) = Graph(s, works[d])
    /\ \A k \in DOMAIN Graph(s, works[d]) : \A p \in Processor :
         LET call == Graph(s, works[d])[k]
             batch == works[d].batch
         IN call.layer # "none" =>
              \A seqs \in {batch, Started(batch), Shorter(batch)} : \A i \in Infos(call) :
                Phases(call, p, i, seqs) = ExecutionPhases(call, p, i, seqs)

\* The product of the rows, the columns and the inner dimension of a prompt's
\* attention, which LOGIC and PIM compute as an int, is one; MultiLatentAttention
\* computes it as a double.
ASSUME IntsFit ==
  \A c \in Systems : \A works \in Works(c) : \A d \in Devices :
    LET batch == works[d].batch
    IN \A k \in DOMAIN batch :
         batch[k].sum /\ c.model.qk_rope_head_dim = 0
           => batch[k].m * batch[k].n * c.model.head_dim < IntLimit

\* A tile of flash attention has room for a row of a head.
ASSUME TilesAssumption ==
  \A c \in Systems :
    c.use_flash_attention =>
      4 * (c.model.head_dim + c.model.qk_rope_head_dim) * c.model.precision_byte <= SharedMem

---------------------------------------------------------------------------
(* The transfers that the next attempt on a processor finds in no cache    *)
(* and hands to the DRAM simulator (issueRamulator).                       *)

Issued ==
  IF ~system.use_ramulator \/ trial.step # "try" \/ trial.left = << >> THEN {}
  ELSE LET p == Head(trial.left)
           i == [CallOf(turn).info EXCEPT !.cols = trial.cols]
           phases == Phases(CallOf(turn), p, i, work[turn].batch)
           moves == FlattenSeq([k \in DOMAIN phases |-> phases[k].ram])
       IN { [on |-> p, req |-> moves[k].req, size |-> moves[k].size * i.precision] :
              k \in { j \in DOMAIN moves :
                        CacheKey(KeyLayer(CallOf(turn)), moves[j], moves[j].size * i.precision)
                          \notin DOMAIN execution_time_cache } }

\* The commands of a transfer stand for all of it: no two of them access the same
\* place; weighed as the energy weighs them they account, over all the addresses a
\* tensor may have, for every bundle once (LOGIC and PIM weigh plain reads and
\* writes twice); and the count of the ideal memory model is the kernel's, or one
\* more where the channels divide the bundles.  The weights are the code's own:
\* power.h gives a MAC of PIM 32 banks, the documents another number.
Interleaved(req) ==
  NumCube * NumChannel * (IF req = "kGEMV" THEN NumRank * NumBankgroup * NumBank ELSE 1)
CommandsStandForAll ==
  \A move \in Issued :
    LET object(start) == MemoryObject(start * Granul, move.size)
        commands(start) == GeneratePIMCommand(move.on, move.req, object(start))
        place(k) == getAddrVec(object(0), k, move.on)
        starts == 0 .. Interleaved(move.req) - 1
        counted == MapThenSumSet(LAMBDA start : Cardinality(commands(start)), starts)
    IN /\ Cardinality({ place(k) : k \in commands(0) }) = Cardinality(commands(0))
       /\ move.on = "GPU" \/ move.req = "kGEMV" =>
            counted * Weight(move.on, move.req) = Cardinality(starts) * object(0).num_bundle
       /\ move.req # "kGEMV" =>
            run_ideal(move.size) - Cardinality(commands(0)) \in {0, 1}
=============================================================================
