------------------------------ MODULE TimeBoard ------------------------------
(***************************************************************************)
(* The tree of time stamps of a device and the break-down that the cluster *)
(* reports from it.  A board is the sequence of its leaf stamps, each with *)
(* the path of module names above it (the last one its own), the device    *)
(* time at its push and at its pop, and the DRAM commands between them.    *)
(* An inner stamp is the span of the leaves below it.                      *)
(***************************************************************************)
EXTENDS Integers, Sequences, FiniteSetsExt

\* std::string::find: the module names that contain a name.
Containing(name) ==
  CASE name = "all_reduce"  -> {name, "moe_all_reduce_for_e_tp", "moe_all_reduce_for_gather"}
    [] name = "moe_scatter" -> {name, "sync_for_moe_scatter"}
    [] name = "moe_gather"  -> {name, "sync_for_moe_gather"}
    [] OTHER                -> {name}

\* The stamp found above a leaf, << >> if there is none: the search does not look
\* below a stamp that it has found.
FoundAbove(stamp, name) ==
  LET hits == { i \in DOMAIN stamp.path : stamp.path[i] \in Containing(name) }
  IN IF hits = {} THEN << >> ELSE SubSeq(stamp.path, 1, Min(hits))

\* The spans of the stamps found, as their first and last leaf.
find_stamp(stamps, name) ==
  LET above == [k \in DOMAIN stamps |-> FoundAbove(stamps[k], name)]
      first == { k \in DOMAIN stamps :
                   above[k] # << >> /\ (k > 1 => above[k - 1] # above[k]) }
      last(k) == Max({ j \in k .. Len(stamps) : \A i \in k .. j : above[i] = above[k] })
  IN { << k, last(k) >> : k \in first }

get_duration(stamps, span) == stamps[span[2]].end - stamps[span[1]].start
getDramEnergy(stamps, span) ==
  MapThenSumSet(LAMBDA k : stamps[k].commands, span[1] .. span[2])

TimeOf(stamps, names) ==
  MapThenSumSet(LAMBDA name :
    MapThenSumSet(LAMBDA span : get_duration(stamps, span), find_stamp(stamps, name)), names)
EnergyOf(stamps, names) ==
  MapThenSumSet(LAMBDA name :
    MapThenSumSet(LAMBDA span : getDramEnergy(stamps, span), find_stamp(stamps, name)), names)

---------------------------------------------------------------------------
(* Cluster::setTimeBreakDown: which names make which category.             *)

\* mutant: a projection is in no category
RopeKeyForgotten(model) ==
  IF model.qk_nope_head_dim = 0 THEN {"attn_qkv_proj"}
  ELSE {"attn_q_down_proj", "attn_kv_down_proj", "attn_q_up_proj", "attn_qr_proj",
        "attn_kv_up_proj", "attn_tr_k_up_proj", "attn_v_up_proj"}
Projections(model) ==
  IF model.qk_nope_head_dim = 0 THEN {"attn_qkv_proj"}
  ELSE {"attn_q_down_proj", "attn_kv_down_proj", "attn_kr_proj", "attn_q_up_proj",
        "attn_qr_proj", "attn_kv_up_proj", "attn_tr_k_up_proj", "attn_v_up_proj"}

Attentions == {"AttentionSum", "AttentionGen"}
Comm == {"all_reduce", "moe_scatter", "moe_gather"}
CommInExpertFFN ==
  {"moe_scatter", "moe_all_reduce_for_e_tp", "moe_all_reduce_for_gather", "moe_gather"}
RoPEs == {"k_rope", "q_rope"}
LayerNorms(model) ==
  {"input_layer_norm", "post_attn_layer_norm"}
  \cup IF model.qk_nope_head_dim = 0 THEN {} ELSE {"latent_q_layer_norm", "latent_kv_layer_norm"}
Residuals == {"residual_1", "residual_2"}

\* The times are those of device 0.
TimeBreakDown(model, stamps) ==
  [projections   |-> TimeOf(stamps, Projections(model)),
   attention     |-> TimeOf(stamps, Attentions),
   o_proj        |-> TimeOf(stamps, {"attn_o_proj"}),
   ffn           |-> TimeOf(stamps, {"feedforward"}),
   expert_ffn    |-> TimeOf(stamps, {"expertFFN"}) - TimeOf(stamps, CommInExpertFFN),
   communication |-> TimeOf(stamps, Comm),
   rope          |-> TimeOf(stamps, RoPEs),
   layernorm     |-> TimeOf(stamps, LayerNorms(model)),
   residual      |-> TimeOf(stamps, Residuals)]

\* So is the energy, times the number of devices, but for the experts: theirs is
\* added over the devices.  The latent projections count as attention.
EnergyBreakDown(model, boards, num_total_device) ==
  LET latent == model.qk_nope_head_dim # 0
      attn == Attentions \cup IF latent THEN Projections(model) ELSE {}
      fc == {"attn_o_proj", "feedforward"} \cup IF latent THEN {} ELSE Projections(model)
  IN [FC   |-> EnergyOf(boards[0], fc) * num_total_device,
      Attn |-> EnergyOf(boards[0], attn) * num_total_device,
      MoE  |-> MapThenSumSet(LAMBDA d : EnergyOf(boards[d], {"expertFFN"}), DOMAIN boards)]
=============================================================================
