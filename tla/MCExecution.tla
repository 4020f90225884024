---------------------------- MODULE MCExecution ----------------------------
(***************************************************************************)
(* Execution on four devices: the systems that eval/test.cpp can configure  *)
(* for small models of each kind of attention and feed-forward, and a few  *)
(* batches.                                                                *)
(***************************************************************************)
EXTENDS DecoderExecution

\* A higher processor computes faster and reads slower.
MCFlopTime == [p \in Processor |-> CASE p = "GPU" -> 1 [] p = "LOGIC" -> 4 [] p = "PIM" -> 16]
MCByteTime == [p \in Processor |-> CASE p = "GPU" -> 12 [] p = "LOGIC" -> 4 [] p = "PIM" -> 1]
MCNearBank == [banks |-> 4, rowbuffer |-> 8, fill |-> 24, pe |-> 2, quant |-> TRUE,
               dequant |-> FALSE, scoring |-> TRUE, softmax |-> FALSE, context |-> FALSE]

\* logic_x and pim_x of the boards of hardware_config.h.
MCBandwidthX == [LOGIC |-> 4, PIM |-> 16]

\* The simulated time depends on the state the DRAM was left in.
MCRamulator(clock, p, req, bytes) ==
  bytes * MCByteTime[p] + (IF req = "kGEMV" THEN 2 ELSE 1) + (clock % 3)

---------------------------------------------------------------------------
(* Models: grouped heads, latent attention, absorbed latent attention.     *)

Grouped ==
  [hidden_dim |-> 4, head_dim |-> 2, num_heads |-> 4, num_kv_heads |-> 2, q_lora_rank |-> 0,
   kv_lora_rank |-> 0, qk_nope_head_dim |-> 0, qk_rope_head_dim |-> 0, intermediate_dim |-> 4,
   expert_intermediate_dim |-> 2, activation_factor |-> 2, num_routed_expert |-> 4,
   num_shared_expert |-> 1, ffn_way |-> 3, precision_byte |-> 2, use_absorb |-> FALSE,
   compressed_kv |-> FALSE]
Latent ==
  [Grouped EXCEPT !.num_heads = 2, !.q_lora_rank = 4, !.kv_lora_rank = 4,
                  !.qk_nope_head_dim = 2, !.qk_rope_head_dim = 1]
Absorbed == [Latent EXCEPT !.use_absorb = TRUE, !.compressed_kv = TRUE]
TwoWay(model) == [model EXCEPT !.ffn_way = 2, !.activation_factor = 1, !.precision_byte = 1]

(* Hardware.                                                               *)

On(processors, model, tp, moe) ==
  [model |-> model, processor_type |-> processors, high |-> processors[1],
   low |-> processors[Len(processors)], parallel_execution |-> FALSE, hetero_subbatch |-> FALSE,
   use_low_unit_moe_only |-> FALSE, use_ramulator |-> FALSE, use_flash_mla |-> FALSE,
   use_flash_attention |-> FALSE, nearbank |-> FALSE, ne_tp_dg |-> tp, e_tp_dg |-> 1,
   num_total_device |-> 4, moe |-> moe]

G == << "GPU" >>
L == << "LOGIC" >>
GL == << "GPU", "LOGIC" >>
GP == << "GPU", "PIM" >>

MCSystems ==
  LET Simulated(c) == [c EXCEPT !.use_ramulator = TRUE]
      Parallel(c) == [c EXCEPT !.parallel_execution = TRUE]
      Flash(c) == [c EXCEPT !.use_flash_attention = TRUE, !.use_flash_mla = TRUE]
      LowMoE(c) == [c EXCEPT !.use_low_unit_moe_only = TRUE]
      Hetero(c) == [c EXCEPT !.hetero_subbatch = TRUE]
      NearBanks(c) == [c EXCEPT !.nearbank = TRUE]
      ShardedExperts(c) == [c EXCEPT !.e_tp_dg = 2]
      Compressed(model) == [model EXCEPT !.compressed_kv = TRUE]
  IN { \* grouped heads
       On(G, Grouped, 2, FALSE), Simulated(On(L, TwoWay(Grouped), 1, FALSE)),
       On(GL, TwoWay(Grouped), 2, TRUE), Simulated(On(GL, Grouped, 1, TRUE)),
       Parallel(On(GL, Grouped, 2, TRUE)), Parallel(On(G, TwoWay(Grouped), 1, FALSE)),
       Simulated(ShardedExperts(On(GP, Grouped, 2, TRUE))), On(GP, TwoWay(Grouped), 1, TRUE),
       NearBanks(On(GP, Grouped, 1, FALSE)), NearBanks(Parallel(On(GP, TwoWay(Grouped), 2, TRUE))),
       \* latent attention
       On(G, Latent, 2, FALSE), Flash(On(L, Latent, 1, FALSE)),
       Simulated(Flash(On(G, Latent, 2, FALSE))), Simulated(On(L, Latent, 2, TRUE)),
       Simulated(Parallel(On(GP, Compressed(Latent), 1, TRUE))),
       Flash(Parallel(On(GP, TwoWay(Latent), 2, FALSE))),
       Hetero(On(GL, Compressed(Latent), 1, TRUE)), LowMoE(On(GL, TwoWay(Latent), 2, TRUE)),
       \* absorbed latent attention
       On(G, Absorbed, 2, FALSE), Simulated(Flash(On(G, Absorbed, 1, TRUE))),
       Simulated(On(L, Absorbed, 2, FALSE)), Flash(On(L, TwoWay(Absorbed), 1, FALSE)),
       On(GL, Absorbed, 2, TRUE), Simulated(Parallel(On(GP, Absorbed, 2, FALSE))),
       Flash(Parallel(On(GL, Absorbed, 1, TRUE))), LowMoE(On(GP, TwoWay(Absorbed), 1, TRUE)) }

---------------------------------------------------------------------------
(* Batches: prompts, one of them in chunks; decode steps; both, as in a    *)
(* disaggregated system; nothing for a rank.                               *)

Request(sum, m, n) == [sum |-> sum, m |-> m, n |-> n]
Prefill == << Request(TRUE, 3, 3), Request(FALSE, 0, 6), Request(TRUE, 2, 4) >>
Decode == << Request(FALSE, 1, 3), Request(FALSE, 1, 6) >>
Both == << Request(TRUE, 2, 2), Request(FALSE, 1, 5) >>

MCWork(batch, routed, high) == [batch |-> batch, routed |-> routed, high |-> high]

\* With experts, device d has those of its group: two of them where the devices of
\* a group share their experts.
MCWorks(c) ==
  LET routed(d, rows) ==
        CASE ~c.moe           -> << >>
          [] c.moe /\ c.e_tp_dg = 1 -> << rows[d + 1] >>
          [] OTHER            -> SubSeq(rows, 2 * (d \div 2) + 1, 2 * (d \div 2) + 2)
      works(batches, rows) ==
        [d \in 0 .. 3 |-> MCWork(batches[d + 1], routed(d, rows),
                                 { e \in DOMAIN routed(d, rows) : rows[e] > 1 })]
  IN IF c.ne_tp_dg = 2
     THEN { works(<< Prefill, Prefill, Decode, Decode >>, << 4, 1, 2, 2 >>),
            works(<< Both, Both, Both, Both >>, << 0, 3, 4, 1 >>),
            works(<< Decode, Decode, << >>, << >> >>, << 1, 1, 0, 2 >>) }
     ELSE { works(<< Prefill, Decode, Prefill, Both >>, << 5, 2, 5, 0 >>),
            works(<< Both, Prefill, << >>, Prefill >>, << 3, 5, 0, 5 >>) }

---------------------------------------------------------------------------
\* The systems whose GEMVs go to a simulated memory that computes.
SimulatedPIM == { c \in MCSystems : c.use_ramulator /\ "PIM" \in Range(c.processor_type) }

\* docs/PIM_COMMAND_TIMING.md says of ALL-RD, the command a MAC becomes, that it reads
\* from 8 banks at once; and docs/PIM_ARCHITECTURE.md that with bandwidth_x 16 every
\* bundle gives a MAC.  By either, the MACs that a GEMV sends, in each of the pseudo
\* channels, read every bundle of its operand.
MACsReachAll ==
  \A move \in Issued :
    move.on = "PIM" /\ move.req = "kGEMV" =>
      LET operand(start) == MemoryObject(start * Granul, move.size)
          starts == 0 .. Interleaved(move.req) - 1
          MACs(start) == Cardinality(GeneratePIMCommand(move.on, move.req, operand(start)))
      IN 8 * num_pseudo_ch(move.on) * MapThenSumSet(MACs, starts)
           >= Cardinality(starts) * operand(0).num_bundle
=============================================================================
