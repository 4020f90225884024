------------------------------ MODULE Experts ------------------------------
(***************************************************************************)
(* The tokens of a mixture-of-experts layer: the gate counts how many go   *)
(* to each expert (src/src/scheduler/sequence.cpp, src/src/module/         *)
(* route.cpp), MoEScatter and MoEGather turn the counts into traffic       *)
(* between the devices (src/src/module/communication.cpp), and Route       *)
(* splits the experts of a device between its high and its low processor.  *)
(*                                                                         *)
(* The devices meet before each of these four stages (how is the subject   *)
(* of DeviceGraph); here a stage waits for that, and the devices do it in  *)
(* any order.                                                              *)
(***************************************************************************)
EXTENDS Integers, Sequences, FiniteSets, FiniteSetsExt, Functions

CONSTANTS
  NumNode, NumDevice,   \* nodes, and devices in each
  NeTp,        \* ne_tp_dg: devices that share the tokens of a batch
  ETp,         \* e_tp_dg: devices that share an expert
  NumExpert,   \* num_routed_expert
  TopK,        \* top_k: experts of a token
  MoELayers,   \* layers with experts in the model
  NumLayer,    \* num_layers / expert_freq: layers in a trace
  Lin, Lout,   \* prompt and output length of the requests
  SumRows,     \* the trace of a request: the choices for its prompt, layer by layer
  GenRows,     \* and for its output, token by token
  Selections,  \* the choices the random samplers make
  MaxChunk,    \* MODEL BOUND: tokens of a batch in one iteration
  Units,       \* the systems: "hetero", "parallel", "low", "optimal"
  HighOpB, LowOpB, LogicX   \* high_opb, logic_op_b / 0.75 and logic_x

TotalDevice == NumNode * NumDevice
Devices == 0 .. TotalDevice - 1
Batches == 0 .. TotalDevice \div NeTp - 1
Experts == 0 .. NumExpert - 1

\* What the assertions of ExpertFFN and getIdxHigh ask, and the shape of a trace.
ASSUME ExpertsAssumption ==
  /\ {NumNode, NumDevice, NeTp, ETp, NumExpert, TopK, NumLayer, MoELayers} \subseteq Nat \ {0}
  /\ {Lin, Lout, MaxChunk} \subseteq Nat \ {0}
  /\ TotalDevice % NeTp = 0 /\ TotalDevice % ETp = 0
  /\ NumExpert \div (TotalDevice \div ETp) <= 4 \/ NumExpert \div (TotalDevice \div ETp) % 4 = 0
  /\ NumExpert % NeTp = 0 /\ NumExpert % ETp = 0 /\ TotalDevice \div ETp <= NumExpert
  /\ Units \subseteq {"hetero", "parallel", "low", "optimal"}
  /\ Selections \subseteq kSubset(TopK, Experts)
  /\ {SumRows, GenRows} \subseteq Seq(kSubset(TopK, Experts))
  /\ Len(SumRows) = Lin * NumLayer /\ Len(GenRows) >= Lout * NumLayer
  /\ {HighOpB, LowOpB, LogicX} \subseteq Nat \ {0}

VARIABLES
  listed,      \* get_expert_from_list of the requests
  unit,        \* the system, one of Units
  current_len, num_process_token,   \* of the request of each batch
  at,          \* stages each device has done: four per layer with experts
  cur_layer,   \* of each batch
  num_token_in_expert, local_num_token_in_expert,   \* of each batch
  traffic,     \* of each device: what its last MoEScatter and MoEGather moved
  lane         \* of each device: the processor Route chose for each expert

vars == << listed, unit, current_len, num_process_token, at, cur_layer,
           num_token_in_expert, local_num_token_in_expert, traffic, lane >>

TokensIn(count, experts) == SumFunctionOnSet(count, experts)
NoCount == [e \in Experts |-> 0]
Tally(choices) ==   \* of a function from tokens to the experts of each
  [e \in Experts |-> Cardinality({ t \in DOMAIN choices : e \in choices[t] })]

NoTransfer == [sent_intra |-> 0, sent_inter |-> 0, recv_intra |-> 0, recv_inter |-> 0,
               charged |-> FALSE]

\* setMetadata: the tokens a request may be given.
Shares(len) ==
  IF len < Lin THEN 0 .. Min({MaxChunk, Lin - len})
  ELSE 0 .. Min({1, Lin + Lout - 1 - len})

Init ==
  /\ listed \in BOOLEAN
  /\ unit \in Units
  /\ current_len = [b \in Batches |-> 0]
  /\ num_process_token \in [Batches -> Shares(0)]
  /\ at = [d \in Devices |-> 0]
  /\ cur_layer = [b \in Batches |-> 0]
  /\ num_token_in_expert = [b \in Batches |-> NoCount]
  /\ local_num_token_in_expert = [b \in Batches |-> NoCount]
  /\ traffic = [d \in Devices |-> [scatter |-> NoTransfer, gather |-> NoTransfer]]
  /\ lane = [d \in Devices |-> [e \in Experts |-> "none"]]

---------------------------------------------------------------------------
(* The devices meet before each stage (Sync, and the dependencies of       *)
(* moe_scatter).                                                           *)

Anyone(d) == TRUE   \* mutant
Met(d) == \A e \in Devices : at[e] >= at[d]

Stage(d, n) == at[d] < 4 * MoELayers /\ at[d] % 4 = n /\ Met(d)
Done(d) == at' = [at EXCEPT ![d] = @ + 1]

(* The gate.                                                               *)

\* readSequences: the trace as expert_list, row token * NumLayer + layer.  The
\* file has the prompt layer by layer and the output token by token.
ListedLayerMajor(row) ==   \* mutant: the prompt is not transposed
  IF row < Lin * NumLayer THEN SumRows[row + 1] ELSE GenRows[row - Lin * NumLayer + 1]
expert_list(row) ==
  IF row < Lin * NumLayer
  THEN SumRows[(row % NumLayer) * Lin + row \div NumLayer + 1]
  ELSE GenRows[row - Lin * NumLayer + 1]

Tokens(b) == current_len[b] .. current_len[b] + num_process_token[b] - 1

\* update_expert: the counts it may find for the tokens of a batch.
update_expert(b) ==
  IF listed
  THEN { Tally([t \in Tokens(b) |-> expert_list(t * NumLayer + cur_layer[b])]) }
  ELSE { Tally(choices) : choices \in [Tokens(b) -> Selections] }

CountsOf(update) ==
  { count \in [Batches -> UNION { update[b] : b \in Batches }] :
      \A b \in Batches : count[b] \in update[b] }

\* aggregate_expert: every batch keeps its own counts aside and gets the sum.
LocalAfter(count, sum) == [b \in Batches |-> sum]   \* mutant: copied after the sum is stored
LocalOf(count, sum) == count
AggregateOf(count) == [e \in Experts |-> SumFunction([b \in Batches |-> count[b][e]])]

NoWrap(layer) == layer + 1   \* mutant
NextLayer(layer) == (layer + 1) % NumLayer

aggregate_expert ==
  \E count \in CountsOf([b \in Batches |-> update_expert(b)]) :
    /\ local_num_token_in_expert' = LocalOf(count, AggregateOf(count))
    /\ num_token_in_expert' = [b \in Batches |-> AggregateOf(count)]
    /\ cur_layer' = [b \in Batches |-> NextLayer(cur_layer[b])]

\* The first rank does it for all.
GateUpdate(d) ==
  /\ Stage(d, 0)
  /\ IF d = 0 THEN aggregate_expert
     ELSE UNCHANGED << num_token_in_expert, local_num_token_in_expert, cur_layer >>
  /\ Done(d)
  /\ UNCHANGED << listed, unit, current_len, num_process_token, traffic, lane >>

(* Communication.                                                          *)

BatchOf(d) == d \div NeTp
NodeOf(d) == d \div NumDevice
NodeOfPeer(d) == d \div 8
NonExpertGroup(d) == { e \in Devices : e \div NeTp = d \div NeTp }
ExpertGroup(d) == { e \in Devices : e \div ETp = d \div ETp }

RankExperts(d) ==   \* mutant: the offset of a group is that of one device
  LET offset == (NumExpert \div TotalDevice) * (d \div ETp)
  IN offset .. offset + (NumExpert \div TotalDevice) * ETp - 1
\* The experts of a device, as the communication computes them.
CommExperts(d) ==
  LET offset == (NumExpert \div TotalDevice) * (d \div ETp) * ETp
  IN offset .. offset + (NumExpert \div TotalDevice) * ETp - 1

OtherDevices(d, group) == Devices \ {d}   \* mutant: tokens go to the device's own group
Peers(d, group) == Devices \ group

\* Tokens of this batch at the experts of other devices: the part on its node, or
\* the rest.
OwnTokens(d, group, near) ==
  SumFunction([p \in { p \in Peers(d, group) : (NodeOfPeer(p) = NodeOf(d)) = near } |->
                 TokensIn(local_num_token_in_expert[BatchOf(d)], CommExperts(p))])

\* Tokens of other batches at the experts of this device.
OtherBatches(d) == Batches \ {BatchOf(d)}
OthersTokens(d, near) ==
  SumFunction([b \in { b \in OtherBatches(d) : (NodeOf(b * NeTp) = NodeOf(d)) = near } |->
                 TokensIn(local_num_token_in_expert[b], CommExperts(d))])

\* The amounts, before they are divided by the tensor parallel degrees; the time they
\* take, the longer of sending and receiving, is added to the clock unless one of
\* them is nothing.
Transfer(sent_intra, sent_inter, recv_intra, recv_inter) ==
  [sent_intra |-> sent_intra, sent_inter |-> sent_inter,
   recv_intra |-> recv_intra, recv_inter |-> recv_inter,
   charged |-> sent_intra + sent_inter # 0 /\ recv_intra + recv_inter # 0]

MoEScatter(d) ==
  /\ Stage(d, 1)
  /\ traffic' = [traffic EXCEPT ![d].scatter =
       Transfer(OwnTokens(d, NonExpertGroup(d), TRUE), OwnTokens(d, NonExpertGroup(d), FALSE),
                OthersTokens(d, TRUE), OthersTokens(d, FALSE))]
  /\ Done(d)
  /\ UNCHANGED << listed, unit, current_len, num_process_token, cur_layer,
                  num_token_in_expert, local_num_token_in_expert, lane >>

MoEGather(d) ==
  /\ Stage(d, 3)
  /\ traffic' = [traffic EXCEPT ![d].gather =
       Transfer(OthersTokens(d, TRUE), OthersTokens(d, FALSE),
                OwnTokens(d, ExpertGroup(d), TRUE), OwnTokens(d, ExpertGroup(d), FALSE))]
  /\ Done(d)
  /\ UNCHANGED << listed, unit, current_len, num_process_token, cur_layer,
                  num_token_in_expert, local_num_token_in_expert, lane >>

(* Route.                                                                  *)

\* num_expert_per_device and expert_offset of ExpertFFN.
RoutedExperts(d) ==
  LET perDevice == NumExpert \div (TotalDevice \div ETp)
      offset == perDevice * (d \div ETp)
  IN offset .. offset + perDevice - 1

\* The times of an expert with n tokens, in units of 1 / (HighOpB * LowOpB * LogicX).
HighTime(n) == Max({HighOpB, n}) * LowOpB * LogicX
LowTime(n)  == Max({LowOpB, n}) * HighOpB

\* The groups getIdxHigh moves together: single experts, or quarters of the list.
GroupSize(size) == IF size <= 4 THEN 1 ELSE size \div 4
Groups(experts) ==
  LET size == GroupSize(Cardinality(experts)) IN
  { { e \in experts : (e - Min(experts)) \div size = q } :
      q \in 0 .. Cardinality(experts) \div size - 1 }

\* A group with the tokens of its experts.
Weighted(count, groups) == { [group |-> g, tokens |-> TokensIn(count, g)] : g \in groups }

LighterFirst(a, b) ==   \* mutant: sorted in ascending order
  a.tokens < b.tokens \/ (a.tokens = b.tokens /\ Min(a.group) < Min(b.group))
\* cmp_vec.  std::sort is an insertion sort on so few groups: it keeps the order of
\* equal ones.
Before(a, b) ==
  a.tokens > b.tokens \/ (a.tokens = b.tokens /\ Min(a.group) < Min(b.group))
Sorted(count, groups) ==
  LET weighted == Weighted(count, groups)
      nth(n) == CHOOSE a \in weighted : Cardinality({ b \in weighted : Before(b, a) }) = n - 1
  IN [n \in 1 .. Cardinality(groups) |-> nth(n).group]

\* The time of both processors when the first n groups of order go to the high one.
SplitTimes(count, order) ==
  [n \in 0 .. Len(order) |->
     Max({ SumFunction([e \in UNION { order[i] : i \in 1 .. n } |-> HighTime(count[e])]),
           SumFunction([e \in UNION { order[i] : i \in n + 1 .. Len(order) } |->
                          LowTime(count[e])]) })]

\* The loop stops at the first group that does not shorten the time.
Taken(time) ==
  Max({ n \in DOMAIN time : \A i \in 1 .. n : time[i] < time[i - 1] })

getIdxHigh(count, experts) ==
  LET order == Sorted(count, Groups(experts))
  IN UNION { order[i] : i \in 1 .. Taken(SplitTimes(count, order)) }

Route(d) ==
  /\ Stage(d, 2)
  /\ LET high == getIdxHigh(num_token_in_expert[BatchOf(d)], RoutedExperts(d)) IN
     lane' = [lane EXCEPT ![d] = [e \in Experts |->
                CASE unit = "parallel" -> IF e \in high THEN "high" ELSE "low"
                  [] unit = "optimal"  -> "optimal"
                  [] OTHER             -> "low"]]
  /\ Done(d)
  /\ UNCHANGED << listed, unit, current_len, num_process_token, cur_layer,
                  num_token_in_expert, local_num_token_in_expert, traffic >>

\* Sequence::update, and the next request in the place of one that ends.
Updated(b) ==
  LET len == current_len[b] + num_process_token[b]
  IN IF len = Lin + Lout - 1 THEN 0 ELSE len

\* The batches of the next Cluster::run: counts and cur_layer stay.
NextIteration ==
  /\ \A d \in Devices : at[d] = 4 * MoELayers
  /\ at' = [d \in Devices |-> 0]
  /\ current_len' = [b \in Batches |-> Updated(b)]
  /\ num_process_token' \in
       { share \in [Batches -> 0 .. MaxChunk] :
           /\ \A b \in Batches : share[b] \in Shares(current_len'[b])
           /\ \E b \in Batches : share[b] > 0 }
  /\ UNCHANGED << listed, unit, cur_layer, num_token_in_expert, local_num_token_in_expert,
                  traffic, lane >>

Next ==
  \/ \E d \in Devices : GateUpdate(d) \/ MoEScatter(d) \/ Route(d) \/ MoEGather(d)
  \/ NextIteration

Spec == Init /\ [][Next]_vars

---------------------------------------------------------------------------
(* Properties.                                                             *)

Transfers ==
  [sent_intra : Nat, sent_inter : Nat, recv_intra : Nat, recv_inter : Nat, charged : BOOLEAN]

\* The variables have their types; a batch never gets more tokens than its request
\* has left, and its layer counter stays below the layers of a trace.
TypeOK ==
  /\ listed \in BOOLEAN /\ unit \in Units
  /\ current_len \in [Batches -> 0 .. Lin + Lout - 2]
  /\ \A b \in Batches : num_process_token[b] \in Shares(current_len[b])
  /\ at \in [Devices -> 0 .. 4 * MoELayers]
  /\ cur_layer \in [Batches -> 0 .. NumLayer - 1]
  /\ num_token_in_expert \in [Batches -> [Experts -> Nat]]
  /\ local_num_token_in_expert \in [Batches -> [Experts -> Nat]]
  /\ traffic \in [Devices -> [scatter : Transfers, gather : Transfers]]
  /\ lane \in [Devices -> [Experts -> {"none", "high", "low", "optimal"}]]

AllPast(n) == \A d \in Devices : at[d] % 4 > n /\ at[d] \div 4 = at[0] \div 4

\* The choice the trace file records for a token in a layer.
Recorded(token, layer) ==
  IF token < Lin THEN SumRows[layer * Lin + token + 1]
  ELSE GenRows[(token - Lin) * NumLayer + layer + 1]

\* From the gate of a layer to that of the next, every batch knows the same totals,
\* the sums of the batches' own counts, and these choose TopK experts for each token
\* of the iteration (the assertion of aggregate_expert, for each batch).  With a trace
\* they are those the file records for these tokens in this layer, in every
\* iteration: the batch's own layer counter, which is never reset, stays that of the
\* layers executed.
TraceFollowed ==
  at[0] % 4 # 0 =>
    \A b \in Batches :
      /\ num_token_in_expert[b] = AggregateOf(local_num_token_in_expert)
      /\ TokensIn(local_num_token_in_expert[b], Experts) = TopK * num_process_token[b]
      /\ listed => local_num_token_in_expert[b]
                     = Tally([t \in Tokens(b) |-> Recorded(t, at[0] \div 4)])

Scattered(d) == traffic[d].scatter
Received(d) == Scattered(d).recv_intra + Scattered(d).recv_inter

\* What the scatter brings to a device and what its own batch has for its experts are
\* the tokens its experts compute: the communication and ExpertFFN divide the experts
\* among the devices in the same way.  They do only when every device has the same
\* number of experts; the assertions of ExpertFFN do not ask for that.
WorkArrives ==
  AllPast(1) /\ NumExpert % TotalDevice = 0 =>
    \A d \in Devices :
      Received(d) + TokensIn(local_num_token_in_expert[BatchOf(d)], RoutedExperts(d))
        = TokensIn(num_token_in_expert[BatchOf(d)], RoutedExperts(d))

\* What the devices send in a scatter is what they receive: a receiver counts one of
\* the NeTp devices that hold a batch, and each of those sends its share.
SentReceived ==
  AllPast(1) =>
    SumFunction([d \in Devices |-> Scattered(d).sent_intra + Scattered(d).sent_inter])
      = NeTp * SumFunction([d \in Devices |-> Received(d)])

\* The same on each network: a token counted as sent within a node is received
\* within a node.
NodeTraffic ==
  AllPast(1) =>
    SumFunction([d \in Devices |-> Scattered(d).sent_intra])
      = NeTp * SumFunction([d \in Devices |-> Scattered(d).recv_intra])

\* The gather of a layer returns what its scatter brought, and a device that paid for
\* the one pays for the other, whatever the other devices did between: the counts
\* are still those of the layer.
RoundTrip ==
  [][\A d \in Devices :
       at[d] % 4 = 3 /\ at'[d] # at[d] =>
         /\ traffic'[d].gather.sent_intra = Scattered(d).recv_intra
         /\ traffic'[d].gather.sent_inter = Scattered(d).recv_inter
         /\ NeTp = ETp => /\ traffic'[d].gather.recv_intra = Scattered(d).sent_intra
                          /\ traffic'[d].gather.recv_inter = Scattered(d).sent_inter
                          /\ traffic'[d].gather.charged = Scattered(d).charged]_vars

HighOf(d) == { e \in Experts : lane[d][e] = "high" }

\* Stopping at the first group that does not help misses nothing: the experts on the
\* high processor are groups of this device, none lighter than one that stays, and no
\* other number of groups, taken by weight, makes both processors finish earlier.
SplitOptimal ==
  [][\A d \in Devices :
       LET count == num_token_in_expert[BatchOf(d)]
           groups == Groups(RoutedExperts(d))
           moved == { g \in groups : g \subseteq HighOf(d)' }
           time == SplitTimes(count, Sorted(count, groups))
       IN
       unit = "parallel" /\ at'[d] % 4 = 3 /\ at'[d] # at[d] =>
         /\ HighOf(d)' = UNION moved
         /\ \A g \in moved, h \in groups \ moved : TokensIn(count, g) >= TokensIn(count, h)
         /\ \A n \in DOMAIN time : time[Cardinality(moved)] <= time[n]]_vars
=============================================================================
