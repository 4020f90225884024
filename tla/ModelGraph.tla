----------------------------- MODULE ModelGraph -----------------------------
(***************************************************************************)
(* The module graphs that the decoders of src/src/module build: the nodes  *)
(* of DeviceGraph in the order of the calls.  Modules with no effect on    *)
(* synchronisation (normalisation, projections, rope) are folded into      *)
(* the "attention" and "expert" leaves next to them.                       *)
(***************************************************************************)
EXTENDS Integers, Sequences, SequencesExt

CONSTANTS
  Ranks,     \* num_total_device
  NeTp,      \* ne_tp_dg: tensor parallel degree outside the experts
  ETp,       \* e_tp_dg: tensor parallel degree of an expert
  Experts    \* num_expert_per_device

Input(l) == << l, "post_attn_layer_norm" >>

Blank(l) ==
  [pop |-> FALSE, exec |-> FALSE, group |-> 0, vec |-> FALSE, in |-> << 0, "input" >>,
   out |-> << 0, "input" >>, work |-> "none", expert |-> 0, layer |-> l]

\* Module::operator(): push, the calls made by forward, pop.
Call(node, calls) == << node >> \o calls \o << [node EXCEPT !.pop = TRUE] >>

\* A module that executes, alone or together with the `group` ranks around it.
Leaf(l, in, name, work, group) ==
  Call([Blank(l) EXCEPT !.exec = TRUE, !.in = in, !.out = << l, name >>,
                        !.work = work, !.group = group], << >>)

\* One that takes and returns vectors of tensors.
VecLeaf(l, in, name, work) ==
  Call([Blank(l) EXCEPT !.exec = TRUE, !.vec = TRUE, !.in = in, !.out = << l, name >>,
                        !.work = work], << >>)

Container(l, in, calls) == Call([Blank(l) EXCEPT !.in = in], calls)

\* Sync: Sync__Set joins the lanes and gives the device a tensor of its own,
\* Sync__ waits for that tensor of every rank.
Sync(l, name) ==
  Container(l, Input(l), Leaf(l, Input(l), name, "set", 0)
                         \o Leaf(l, << l, name >>, "sync__", "none", Ranks))

\* An expert and the work it contains, on the lane Route chose for its input.
Expert(l, e) ==
  LET node == [Blank(l) EXCEPT !.in = << l, "moe_route" >>, !.out = << l, "expert" >>,
                               !.expert = e]
  IN Call(node, Call([node EXCEPT !.exec = TRUE, !.work = "expert"], << >>))

ExpertFFN(l) ==
  Container(l, Input(l),
    Sync(l, "sync_0")
    \o Leaf(l, Input(l), "gate_fn", "none", 0)
    \o Leaf(l, Input(l), "gate_update", "gate", 0)
    \o Leaf(l, << l, "gate_update" >>, "moe_scatter", "scatter", Ranks)
    \o Sync(l, "sync_for_moe_scatter")
    \o VecLeaf(l, << l, "moe_scatter" >>, "moe_route", "route")
    \o FlattenSeq([e \in 1 .. Experts |-> Expert(l, e)])
    \o Sync(l, "sync_2")
    \o Leaf(l, Input(l), "all_reduce_for_e_tp", "reduce", ETp)
    \o Sync(l, "sync_3")
    \o VecLeaf(l, << l, "expert" >>, "moe_gather", "gather")
    \o Sync(l, "sync_for_moe_gather")
    \o Leaf(l, Input(l), "all_reduce_for_gather", "reduce", NeTp)
    \o Sync(l, "sync_5")
    \o Leaf(l, Input(l), "shared_expert_FFN", "expert", 0)
    \o Sync(l, "sync_6"))

Attention(l) ==
  Leaf(l, << 0, "Embedding_layer" >>, "attention", "attention", 0)
  \o Leaf(l, << l, "attention" >>, "all_reduce_attention", "reduce", NeTp)
  \o Leaf(l, << l, "all_reduce_attention" >>, "post_attn_layer_norm", "none", 0)

MoEDecoder(l) == Attention(l) \o ExpertFFN(l)

Decoder(l) ==
  Attention(l)
  \o Leaf(l, Input(l), "feedforward", "expert", 0)
  \o Leaf(l, << l, "feedforward" >>, "all_reduce", "reduce", NeTp)

\* LLM::forward: every decoder is given the output of the embedding.
LLM(decoders) ==
  Leaf(0, << 0, "input" >>, "Embedding_layer", "none", 0) \o FlattenSeq(decoders)
=============================================================================
