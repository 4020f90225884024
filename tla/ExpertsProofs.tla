--------------------------- MODULE ExpertsProofs ---------------------------
(***************************************************************************)
(* Proofs about Experts: the counts a device reads are those of the layer, *)
(* and what is sent, received and computed agrees, for every number of     *)
(* devices, experts and layers and every choice of experts.                *)
(***************************************************************************)
EXTENDS Experts, FiniteSetFacts

---------------------------------------------------------------------------
(* Arithmetic.                                                             *)

\* Quotient and remainder.
LEMMA Quotient ==
  ASSUME NEW n \in Nat, NEW m \in Nat \ {0}
  PROVE  /\ n \div m \in Nat /\ n % m \in 0 .. m - 1
         /\ n = m * (n \div m) + (n % m)
<1> DEFINE d == n \div m
           r == n % m
<1>1. d \in Int /\ r \in 0 .. m - 1 /\ n = m * d + r
  OBVIOUS
<1> HIDE DEF d, r
<1>2. d >= 0
  <2> SUFFICES ASSUME d <= -1 PROVE FALSE
    BY <1>1
  <2>1. m * d <= -m
    BY <1>1
  <2> QED BY <1>1, <2>1
<1> QED BY <1>1, <1>2 DEF d, r

\* They are known from what they make up.
LEMMA QuotientIs ==
  ASSUME NEW m \in Nat \ {0}, NEW q \in Nat, NEW r \in 0 .. m - 1
  PROVE  (m * q + r) \div m = q /\ (m * q + r) % m = r
<1> DEFINE n == m * q + r
           k == n \div m
<1>1. n \in Nat
  <2>1. m * q \in Nat
    OBVIOUS
  <2> QED BY <2>1
<1>2. k \in Nat /\ n % m \in 0 .. m - 1 /\ n = m * k + (n % m)
  BY <1>1, Quotient
<1> HIDE DEF n, k
<1>3. \A a, b \in Nat : a < b => m * a + m <= m * b
  <2> SUFFICES ASSUME NEW a \in Nat, NEW b \in Nat, a < b PROVE m * a + m <= m * b
    OBVIOUS
  <2>1. b = (a + 1) + (b - (a + 1)) /\ b - (a + 1) \in Nat
    OBVIOUS
  <2>2. m * b = m * (a + 1) + m * (b - (a + 1))
    BY <2>1
  <2>3. m * (b - (a + 1)) \in Nat /\ m * (a + 1) = m * a + m
    BY <2>1
  <2>4. m * a \in Nat /\ m * b \in Nat
    OBVIOUS
  <2> QED BY <2>2, <2>3, <2>4
<1>4. m * k \in Nat /\ m * q \in Nat
  BY <1>2
<1>5. ~ k < q
  <2>1. k < q => m * k + m <= m * q
    BY <1>2, <1>3
  <2> QED BY <1>2, <1>4, <2>1 DEF n
<1>6. ~ q < k
  <2>1. q < k => m * q + m <= m * k
    BY <1>2, <1>3
  <2> QED BY <1>2, <1>4, <2>1 DEF n
<1>7. k = q
  BY <1>2, <1>5, <1>6
<1> QED BY <1>2, <1>4, <1>7 DEF n, k
\* Devices in groups of k, a divisor of their number: the group of a device is a
\* whole one.
LEMMA WholeGroup ==
  ASSUME NEW k \in Nat \ {0}, NEW n \in Nat \ {0}, n % k = 0, NEW d \in 0 .. n - 1
  PROVE  /\ d \div k \in 0 .. (n \div k) - 1
         /\ k * (d \div k) \in Nat /\ k * (d \div k) + k <= n
         /\ n = k * (n \div k) /\ n \div k \in Nat \ {0}
<1> DEFINE q == d \div k
           w == n \div k
<1>0. d \in Nat /\ n \in Nat
  OBVIOUS
<1>1. q \in Nat /\ d % k \in 0 .. k - 1 /\ d = k * q + (d % k)
  BY <1>0, Quotient
<1>2. w \in Nat /\ n = k * w
  BY Quotient
<1> HIDE DEF q, w
<1>3. k * q \in Nat /\ k * w \in Nat
  BY <1>1, <1>2
<1>4. q < w
  <2> SUFFICES ASSUME w <= q PROVE FALSE
    BY <1>1, <1>2
  <2>1. PICK r \in Nat : q = w + r
    <3>1. q - w \in Nat /\ q = w + (q - w)
      BY <1>1, <1>2
    <3> QED BY <3>1
  <2>2. k * (w + r) = k * w + k * r /\ k * r \in Nat
    BY <1>2
  <2>3. d >= n
    BY <1>1, <1>2, <1>3, <2>1, <2>2
  <2> QED BY <2>3
<1>5. k * q + k <= k * w
  <2>1. w = (q + 1) + (w - (q + 1)) /\ w - (q + 1) \in Nat
    BY <1>1, <1>2, <1>4
  <2>2. k * w = k * (q + 1) + k * (w - (q + 1)) /\ k * (w - (q + 1)) \in Nat
    BY <1>1, <2>1
  <2>3. k * (q + 1) = k * q + k
    BY <1>1
  <2> QED BY <1>3, <2>2, <2>3
<1> QED BY <1>1, <1>2, <1>3, <1>4, <1>5 DEF q, w

---------------------------------------------------------------------------
(* The system.                                                             *)

LEMMA SystemSize ==
  /\ TotalDevice \in Nat \ {0} /\ 4 * MoELayers \in Nat
  /\ 0 \in Devices
  /\ IsFiniteSet(Devices) /\ IsFiniteSet(Batches) /\ IsFiniteSet(Experts)
  /\ TotalDevice \div NeTp \in Nat \ {0}
  /\ \A d \in Devices : BatchOf(d) \in Batches
<1>1. NumNode \in Nat \ {0} /\ NumDevice \in Nat \ {0} /\ NeTp \in Nat \ {0}
      /\ MoELayers \in Nat \ {0} /\ NumExpert \in Nat \ {0}
  BY ExpertsAssumption
<1>2. TotalDevice \in Nat \ {0}
  <2>1. NumNode * NumDevice \in Nat
    BY <1>1
  <2>2. NumNode * NumDevice # 0
    BY <1>1
  <2> QED BY <2>1, <2>2 DEF TotalDevice
<1>3. TotalDevice % NeTp = 0
  BY ExpertsAssumption
<1>4. 0 \in Devices
  BY <1>2 DEF Devices
<1>5. TotalDevice \div NeTp \in Nat \ {0}
  BY <1>1, <1>2, <1>3, <1>4, WholeGroup DEF Devices
<1>6. \A d \in Devices : BatchOf(d) \in Batches
  BY <1>1, <1>2, <1>3, WholeGroup DEF Devices, Batches, BatchOf
<1>7. IsFiniteSet(Devices) /\ IsFiniteSet(Batches) /\ IsFiniteSet(Experts)
  <2>1. TotalDevice - 1 \in Int /\ (TotalDevice \div NeTp) - 1 \in Int /\ NumExpert - 1 \in Int
    BY <1>1, <1>2, <1>5
  <2> QED BY <2>1, FS_Interval DEF Devices, Batches, Experts
<1> QED BY <1>1, <1>2, <1>4, <1>5, <1>6, <1>7

\* The experts of a device are experts, in the communication and in ExpertFFN.
LEMMA DeviceExperts ==
  \A d \in Devices : CommExperts(d) \subseteq Experts /\ RoutedExperts(d) \subseteq Experts
<1> SUFFICES ASSUME NEW d \in Devices
             PROVE  CommExperts(d) \subseteq Experts /\ RoutedExperts(d) \subseteq Experts
  OBVIOUS
<1>1. /\ TotalDevice \in Nat \ {0} /\ ETp \in Nat \ {0} /\ NumExpert \in Nat \ {0}
      /\ TotalDevice % ETp = 0 /\ d \in 0 .. TotalDevice - 1
  BY SystemSize, ExpertsAssumption DEF Devices
<1> DEFINE group == d \div ETp
           groups == TotalDevice \div ETp
           each == NumExpert \div TotalDevice
           perDevice == NumExpert \div groups
<1>2. /\ group \in 0 .. groups - 1 /\ groups \in Nat \ {0}
      /\ ETp * group \in Nat /\ ETp * group + ETp <= TotalDevice
  BY <1>1, WholeGroup
<1>3. /\ each \in Nat /\ NumExpert % TotalDevice \in 0 .. TotalDevice - 1
      /\ NumExpert = TotalDevice * each + (NumExpert % TotalDevice)
  <2>1. NumExpert \in Nat
    BY <1>1
  <2> QED BY <1>1, <2>1, Quotient
<1> HIDE DEF groups
<1>4. /\ perDevice \in Nat /\ NumExpert % groups \in 0 .. groups - 1
      /\ NumExpert = groups * perDevice + (NumExpert % groups)
  <2>1. NumExpert \in Nat
    BY <1>1
  <2> QED BY <1>2, <2>1, Quotient
<1>5. CommExperts(d) = each * group * ETp .. each * group * ETp + each * ETp - 1
  BY DEF CommExperts
<1>6. RoutedExperts(d) = perDevice * group .. perDevice * group + perDevice - 1
  BY DEF RoutedExperts, groups
<1> HIDE DEF group, each, perDevice
<1>7. \A a, b, m \in Nat : a <= b => m * a <= m * b
  <2> SUFFICES ASSUME NEW a \in Nat, NEW b \in Nat, NEW m \in Nat, a <= b
               PROVE  m * a <= m * b
    OBVIOUS
  <2>1. b - a \in Nat /\ b = a + (b - a)
    OBVIOUS
  <2>2. m * b = m * a + m * (b - a) /\ m * (b - a) \in Nat /\ m * a \in Nat
    BY <2>1
  <2> QED BY <2>2
<1>8. CommExperts(d) \subseteq Experts
  <2>1. each * group * ETp = each * (ETp * group)
    BY <1>1, <1>2, <1>3
  <2>2. each * (ETp * group) + each * ETp = each * (ETp * group + ETp)
    BY <1>1, <1>2, <1>3
  <2>3. each * (ETp * group + ETp) <= each * TotalDevice
    BY <1>1, <1>2, <1>3, <1>7
  <2>4. each * TotalDevice = TotalDevice * each /\ TotalDevice * each \in Nat
        /\ each * (ETp * group) \in Nat /\ each * ETp \in Nat
    BY <1>1, <1>2, <1>3
  <2>5. TotalDevice * each <= NumExpert
    BY <1>1, <1>3, <2>4
  <2> QED BY <1>1, <1>5, <2>1, <2>2, <2>3, <2>4, <2>5 DEF Experts
<1>9. RoutedExperts(d) \subseteq Experts
  <2>1. perDevice * group + perDevice = perDevice * (group + 1) /\ perDevice * group \in Nat
    BY <1>2, <1>4
  <2>2. perDevice * (group + 1) <= perDevice * groups
    BY <1>2, <1>4, <1>7
  <2>3. perDevice * groups = groups * perDevice /\ groups * perDevice \in Nat
    BY <1>2, <1>4
  <2>4. groups * perDevice <= NumExpert
    BY <1>1, <1>4, <2>3
  <2> QED BY <1>1, <1>4, <1>6, <2>1, <2>2, <2>3, <2>4 DEF Experts
<1> QED BY <1>8, <1>9
---------------------------------------------------------------------------
(* Types.                                                                  *)

LEMMA TokensInType ==
  ASSUME NEW count \in [Experts -> Nat], NEW experts \in SUBSET Experts
  PROVE  TokensIn(count, experts) \in Nat
<1>1. /\ IsFiniteSet(experts)
      /\ \A e \in experts : count[e] \in Int
      /\ \A e \in experts : count[e] \in Nat
  BY SystemSize, FS_Subset
<1> QED BY <1>1, SumType DEF TokensIn

\* A sum over a set, written as the sum of a function.
LEMMA SumOfFunction ==
  ASSUME NEW S, IsFiniteSet(S), NEW f, DOMAIN f = S, \A x \in S : f[x] \in Nat
  PROVE  SumFunction(f) = SumFunctionOnSet(f, S) /\ SumFunction(f) \in Nat
<1>1. \A x \in S : f[x] \in Int
  OBVIOUS
<1>2. SumFunctionOnSet(f, S) \in Nat
  BY <1>1, SumType
<1> QED BY <1>2 DEF SumFunction

LEMMA OwnTokensType ==
  ASSUME local_num_token_in_expert \in [Batches -> [Experts -> Nat]],
         NEW d \in Devices, NEW group, NEW near
  PROVE  OwnTokens(d, group, near) \in Nat
<1> DEFINE P == { p \in Peers(d, group) : (NodeOfPeer(p) = NodeOf(d)) = near }
           f == [p \in P |-> TokensIn(local_num_token_in_expert[BatchOf(d)], CommExperts(p))]
<1>1. P \subseteq Devices /\ IsFiniteSet(P)
  BY SystemSize, FS_Subset DEF Peers
<1>2. \A p \in P : f[p] \in Nat
  <2> SUFFICES ASSUME NEW p \in P
               PROVE  TokensIn(local_num_token_in_expert[BatchOf(d)], CommExperts(p)) \in Nat
    OBVIOUS
  <2>1. local_num_token_in_expert[BatchOf(d)] \in [Experts -> Nat]
    BY SystemSize
  <2>2. CommExperts(p) \in SUBSET Experts
    BY <1>1, DeviceExperts
  <2> QED BY <2>1, <2>2, TokensInType
<1>3. DOMAIN f = P /\ OwnTokens(d, group, near) = SumFunction(f)
  BY DEF OwnTokens
<1> HIDE DEF P, f
<1> QED BY <1>1, <1>2, <1>3, SumOfFunction

LEMMA OthersTokensType ==
  ASSUME local_num_token_in_expert \in [Batches -> [Experts -> Nat]],
         NEW d \in Devices, NEW near
  PROVE  OthersTokens(d, near) \in Nat
<1> DEFINE P == { b \in OtherBatches(d) : (NodeOf(b * NeTp) = NodeOf(d)) = near }
           f == [b \in P |-> TokensIn(local_num_token_in_expert[b], CommExperts(d))]
<1>1. P \subseteq Batches /\ IsFiniteSet(P)
  BY SystemSize, FS_Subset DEF OtherBatches
<1>2. \A b \in P : f[b] \in Nat
  <2> SUFFICES ASSUME NEW b \in P
               PROVE  TokensIn(local_num_token_in_expert[b], CommExperts(d)) \in Nat
    OBVIOUS
  <2>1. local_num_token_in_expert[b] \in [Experts -> Nat]
    BY <1>1
  <2>2. CommExperts(d) \in SUBSET Experts
    BY DeviceExperts
  <2> QED BY <2>1, <2>2, TokensInType
<1>3. DOMAIN f = P /\ OthersTokens(d, near) = SumFunction(f)
  BY DEF OthersTokens
<1> HIDE DEF P, f
<1> QED BY <1>1, <1>2, <1>3, SumOfFunction

\* What a batch is given fits what its request has left.
LEMMA SharesFit ==
  ASSUME NEW len \in 0 .. Lin + Lout - 2, NEW n \in Shares(len)
  PROVE  n \in Nat /\ len + n <= Lin + Lout - 1
<1>1. Lin \in Nat \ {0} /\ Lout \in Nat \ {0} /\ MaxChunk \in Nat \ {0}
  BY ExpertsAssumption
<1>2. \A a, b \in Int : Min({a, b}) \in {a, b} /\ Min({a, b}) <= b
  <2> SUFFICES ASSUME NEW a \in Int, NEW b \in Int
               PROVE  Min({a, b}) \in {a, b} /\ Min({a, b}) <= b
    OBVIOUS
  <2>1. \E x \in {a, b} : \A y \in {a, b} : x <= y
    BY a <= b \/ b <= a
  <2>2. Min({a, b}) \in {a, b} /\ \A y \in {a, b} : Min({a, b}) <= y
    BY <2>1 DEF Min
  <2> QED BY <2>2
<1>3. CASE len < Lin
  <2>1. n \in 0 .. Min({MaxChunk, Lin - len})
    BY <1>3 DEF Shares
  <2>2. Lin - len \in Int /\ MaxChunk \in Int /\ len \in Int
    BY <1>1
  <2>3. Min({MaxChunk, Lin - len}) \in {MaxChunk, Lin - len} /\ Min({MaxChunk, Lin - len}) <= Lin - len
    BY <1>2, <2>2
  <2>4. Min({MaxChunk, Lin - len}) \in Int
    BY <2>2, <2>3
  <2> QED BY <1>1, <2>1, <2>2, <2>3, <2>4
<1>4. CASE ~(len < Lin)
  <2>1. n \in 0 .. Min({1, Lin + Lout - 1 - len})
    BY <1>4 DEF Shares
  <2>2. Lin + Lout - 1 - len \in Int /\ len \in Int
    BY <1>1
  <2>3. Min({1, Lin + Lout - 1 - len}) \in {1, Lin + Lout - 1 - len}
        /\ Min({1, Lin + Lout - 1 - len}) <= Lin + Lout - 1 - len
    BY <1>2, <2>2
  <2>4. Min({1, Lin + Lout - 1 - len}) \in Int
    BY <2>2, <2>3
  <2> QED BY <1>1, <2>1, <2>2, <2>3, <2>4
<1> QED BY <1>3, <1>4

\* A tally is a count for every expert.
LEMMA TallyType ==
  ASSUME NEW choices, IsFiniteSet(DOMAIN choices)
  PROVE  Tally(choices) \in [Experts -> Nat]
<1>1. \A e \in Experts : Cardinality({ t \in DOMAIN choices : e \in choices[t] }) \in Nat
  BY FS_Subset, FS_CardinalityType
<1> QED BY <1>1 DEF Tally

LEMMA TokensFinite ==
  ASSUME TypeOK, NEW b \in Batches
  PROVE  IsFiniteSet(Tokens(b)) /\ Cardinality(Tokens(b)) = num_process_token[b]
<1>1. current_len[b] \in 0 .. Lin + Lout - 2 /\ num_process_token[b] \in Shares(current_len[b])
  BY DEF TypeOK
<1>2. Lin \in Nat /\ Lout \in Nat
  BY ExpertsAssumption
<1>3. current_len[b] \in Nat /\ num_process_token[b] \in Nat
  BY <1>1, <1>2, SharesFit
<1> DEFINE first == current_len[b]
           last == current_len[b] + num_process_token[b] - 1
<1>4. first \in Int /\ last \in Int /\ last - first + 1 = num_process_token[b]
  BY <1>3
<1>5. Tokens(b) = first .. last
  BY DEF Tokens
<1> HIDE DEF first, last
<1>6. IsFiniteSet(first .. last)
      /\ Cardinality(first .. last) = IF first > last THEN 0 ELSE last - first + 1
  BY <1>4, FS_Interval
<1> QED BY <1>3, <1>4, <1>5, <1>6

LEMMA UpdateType ==
  ASSUME TypeOK, NEW b \in Batches
  PROVE  update_expert(b) \subseteq [Experts -> Nat]
<1>1. CASE listed
  <2> DEFINE choices == [t \in Tokens(b) |-> expert_list(t * NumLayer + cur_layer[b])]
  <2>1. Tally(choices) \in [Experts -> Nat]
    <3>1. IsFiniteSet(DOMAIN choices)
      BY TokensFinite
    <3> HIDE DEF choices
    <3> QED BY <3>1, TallyType
  <2> QED BY <1>1, <2>1 DEF update_expert
<1>2. CASE ~listed
  <2>1. ASSUME NEW choices \in [Tokens(b) -> Selections]
        PROVE  Tally(choices) \in [Experts -> Nat]
    <3>1. IsFiniteSet(DOMAIN choices)
      BY TokensFinite
    <3> QED BY <3>1, TallyType
  <2> QED BY <1>2, <2>1 DEF update_expert
<1> QED BY <1>1, <1>2

LEMMA AggregateType ==
  ASSUME NEW count \in [Batches -> [Experts -> Nat]]
  PROVE  /\ AggregateOf(count) \in [Experts -> Nat]
         /\ \A e \in Experts :
              AggregateOf(count)[e] = SumFunctionOnSet([b \in Batches |-> count[b][e]], Batches)
<1>1. ASSUME NEW e \in Experts
      PROVE  /\ SumFunction([b \in Batches |-> count[b][e]]) \in Nat
             /\ SumFunction([b \in Batches |-> count[b][e]])
                  = SumFunctionOnSet([b \in Batches |-> count[b][e]], Batches)
  <2> DEFINE f == [b \in Batches |-> count[b][e]]
  <2>1. DOMAIN f = Batches /\ \A b \in Batches : f[b] \in Nat
    OBVIOUS
  <2> HIDE DEF f
  <2>2. SumFunction(f) \in Nat /\ SumFunction(f) = SumFunctionOnSet(f, Batches)
    BY <2>1, SystemSize, SumOfFunction
  <2> QED BY <2>2 DEF f
<1> QED BY <1>1 DEF AggregateOf
LEMMA TypeInit == Init => TypeOK
<1> SUFFICES ASSUME Init PROVE TypeOK
  OBVIOUS
<1>1. Lin \in Nat \ {0} /\ Lout \in Nat \ {0} /\ NumLayer \in Nat \ {0} /\ MoELayers \in Nat \ {0}
  BY ExpertsAssumption
<1>2. NoCount \in [Experts -> Nat]
  BY DEF NoCount
<1>3. NoTransfer \in Transfers
  BY DEF NoTransfer, Transfers
<1>4. listed \in BOOLEAN /\ unit \in Units
  BY DEF Init
<1>5. current_len \in [Batches -> 0 .. Lin + Lout - 2]
  BY <1>1 DEF Init
<1>6. \A b \in Batches : num_process_token[b] \in Shares(current_len[b])
  BY DEF Init
<1>7. at \in [Devices -> 0 .. 4 * MoELayers]
  BY <1>1 DEF Init
<1>8. cur_layer \in [Batches -> 0 .. NumLayer - 1]
  BY <1>1 DEF Init
<1>9. /\ num_token_in_expert \in [Batches -> [Experts -> Nat]]
      /\ local_num_token_in_expert \in [Batches -> [Experts -> Nat]]
  BY <1>2 DEF Init
<1>10. traffic \in [Devices -> [scatter : Transfers, gather : Transfers]]
  BY <1>3 DEF Init
<1>11. lane \in [Devices -> [Experts -> {"none", "high", "low", "optimal"}]]
  BY DEF Init
<1> QED BY <1>4, <1>5, <1>6, <1>7, <1>8, <1>9, <1>10, <1>11 DEF TypeOK

\* What a device does next is a stage, and it meets the others for it.
LEMMA StageStep ==
  ASSUME TypeOK, NEW d \in Devices, NEW n, Stage(d, n), Done(d)
  PROVE  /\ at' \in [Devices -> 0 .. 4 * MoELayers]
         /\ at[d] \in Nat /\ at[d] < 4 * MoELayers /\ at[d] % 4 = n
         /\ at'[d] = at[d] + 1
         /\ \A e \in Devices \ {d} : at'[e] = at[e]
         /\ \A e \in Devices : at[d] <= at[e]
<1>1. at \in [Devices -> 0 .. 4 * MoELayers] /\ 4 * MoELayers \in Nat
  BY SystemSize DEF TypeOK
<1>2. at' = [at EXCEPT ![d] = at[d] + 1]
  BY DEF Done
<1>3. at[d] < 4 * MoELayers /\ at[d] % 4 = n /\ \A e \in Devices : at[e] >= at[d]
  BY DEF Stage, Met
<1>4. at[d] \in Nat /\ at[d] + 1 \in 0 .. 4 * MoELayers
  BY <1>1, <1>3
<1>5. at' \in [Devices -> 0 .. 4 * MoELayers]
  BY <1>1, <1>2, <1>4
<1>6. at'[d] = at[d] + 1 /\ \A e \in Devices \ {d} : at'[e] = at[e]
  BY <1>1, <1>2
<1>7. \A e \in Devices : at[d] <= at[e]
  BY <1>1, <1>3
<1> QED BY <1>3, <1>4, <1>5, <1>6, <1>7

LEMMA TransferType ==
  ASSUME NEW a \in Nat, NEW b \in Nat, NEW c \in Nat, NEW e \in Nat
  PROVE  Transfer(a, b, c, e) \in Transfers
BY DEF Transfer, Transfers

LEMMA TypeStep == TypeOK /\ [Next]_vars => TypeOK'
<1> SUFFICES ASSUME TypeOK, [Next]_vars PROVE TypeOK'
  OBVIOUS
<1>0. /\ listed \in BOOLEAN /\ unit \in Units
      /\ current_len \in [Batches -> 0 .. Lin + Lout - 2]
      /\ \A b \in Batches : num_process_token[b] \in Shares(current_len[b])
      /\ at \in [Devices -> 0 .. 4 * MoELayers]
      /\ cur_layer \in [Batches -> 0 .. NumLayer - 1]
      /\ num_token_in_expert \in [Batches -> [Experts -> Nat]]
      /\ local_num_token_in_expert \in [Batches -> [Experts -> Nat]]
      /\ traffic \in [Devices -> [scatter : Transfers, gather : Transfers]]
      /\ lane \in [Devices -> [Experts -> {"none", "high", "low", "optimal"}]]
  BY DEF TypeOK
<1>1. ASSUME NEW d \in Devices, GateUpdate(d) PROVE TypeOK'
  <2>1. at' \in [Devices -> 0 .. 4 * MoELayers]
    BY <1>1, StageStep DEF GateUpdate
  <2>2. UNCHANGED << listed, unit, current_len, num_process_token, traffic, lane >>
    BY <1>1 DEF GateUpdate
  <2>3. /\ cur_layer' \in [Batches -> 0 .. NumLayer - 1]
        /\ num_token_in_expert' \in [Batches -> [Experts -> Nat]]
        /\ local_num_token_in_expert' \in [Batches -> [Experts -> Nat]]
    <3>1. CASE d # 0
      BY <1>0, <1>1, <3>1 DEF GateUpdate
    <3>2. CASE d = 0
      <4>1. aggregate_expert
        BY <1>1, <3>2 DEF GateUpdate
      <4>2. PICK count \in CountsOf([b \in Batches |-> update_expert(b)]) :
              /\ local_num_token_in_expert' = LocalOf(count, AggregateOf(count))
              /\ num_token_in_expert' = [b \in Batches |-> AggregateOf(count)]
              /\ cur_layer' = [b \in Batches |-> NextLayer(cur_layer[b])]
        BY <4>1 DEF aggregate_expert
      <4>3. count \in [Batches -> [Experts -> Nat]]
        <5>1. /\ count \in [Batches -> UNION { update_expert(b) : b \in Batches }]
              /\ \A b \in Batches : count[b] \in update_expert(b)
          BY <4>2 DEF CountsOf
        <5>2. \A b \in Batches : count[b] \in [Experts -> Nat]
          BY <5>1, UpdateType
        <5> QED BY <5>1, <5>2
      <4>4. AggregateOf(count) \in [Experts -> Nat]
        BY <4>3, AggregateType
      <4>5. \A b \in Batches : NextLayer(cur_layer[b]) \in 0 .. NumLayer - 1
        <5> SUFFICES ASSUME NEW b \in Batches
                     PROVE  NextLayer(cur_layer[b]) \in 0 .. NumLayer - 1
          OBVIOUS
        <5>0. NumLayer \in Nat \ {0} /\ cur_layer[b] \in 0 .. NumLayer - 1
          BY <1>0, ExpertsAssumption
        <5>1. NumLayer \in Nat \ {0} /\ cur_layer[b] + 1 \in Nat
          BY <5>0
        <5> QED BY <5>1, Quotient DEF NextLayer
      <4> QED BY <4>2, <4>3, <4>4, <4>5 DEF LocalOf
    <3> QED BY <3>1, <3>2
  <2> QED BY <1>0, <2>1, <2>2, <2>3 DEF TypeOK
<1>2. ASSUME NEW d \in Devices, MoEScatter(d) PROVE TypeOK'
  <2>1. at' \in [Devices -> 0 .. 4 * MoELayers]
    BY <1>2, StageStep DEF MoEScatter
  <2>2. UNCHANGED << listed, unit, current_len, num_process_token, cur_layer,
                     num_token_in_expert, local_num_token_in_expert, lane >>
    BY <1>2 DEF MoEScatter
  <2>3. PICK x \in Transfers : traffic' = [traffic EXCEPT ![d].scatter = x]
    <3>1. /\ OwnTokens(d, NonExpertGroup(d), TRUE) \in Nat
          /\ OwnTokens(d, NonExpertGroup(d), FALSE) \in Nat
          /\ OthersTokens(d, TRUE) \in Nat /\ OthersTokens(d, FALSE) \in Nat
      BY <1>0, OwnTokensType, OthersTokensType
    <3> QED BY <1>2, <3>1, TransferType DEF MoEScatter
  <2>4. traffic' \in [Devices -> [scatter : Transfers, gather : Transfers]]
    BY <1>0, <2>3
  <2> QED BY <1>0, <2>1, <2>2, <2>4 DEF TypeOK
<1>3. ASSUME NEW d \in Devices, Route(d) PROVE TypeOK'
  <2>1. at' \in [Devices -> 0 .. 4 * MoELayers]
    BY <1>3, StageStep DEF Route
  <2>2. UNCHANGED << listed, unit, current_len, num_process_token, cur_layer,
                     num_token_in_expert, local_num_token_in_expert, traffic >>
    BY <1>3 DEF Route
  <2>3. PICK x \in [Experts -> {"none", "high", "low", "optimal"}] :
          lane' = [lane EXCEPT ![d] = x]
    <3> DEFINE high == getIdxHigh(num_token_in_expert[BatchOf(d)], RoutedExperts(d))
               x == [e \in Experts |->
                       CASE unit = "parallel" -> IF e \in high THEN "high" ELSE "low"
                         [] unit = "optimal"  -> "optimal"
                         [] OTHER             -> "low"]
    <3>1. lane' = [lane EXCEPT ![d] = x]
      BY <1>3 DEF Route
    <3> HIDE DEF high
    <3>2. x \in [Experts -> {"none", "high", "low", "optimal"}]
      <4> SUFFICES ASSUME NEW e \in Experts
                   PROVE  (CASE unit = "parallel" -> IF e \in high THEN "high" ELSE "low"
                             [] unit = "optimal"  -> "optimal"
                             [] OTHER             -> "low") \in {"none", "high", "low", "optimal"}
        OBVIOUS
      <4>1. CASE unit = "parallel"
        BY <4>1
      <4>2. CASE unit = "optimal"
        BY <4>2
      <4>3. CASE unit # "parallel" /\ unit # "optimal"
        BY <4>3
      <4> QED BY <4>1, <4>2, <4>3
    <3> HIDE DEF x
    <3> QED BY <3>1, <3>2
  <2>4. lane' \in [Devices -> [Experts -> {"none", "high", "low", "optimal"}]]
    BY <1>0, <2>3
  <2> QED BY <1>0, <2>1, <2>2, <2>4 DEF TypeOK
<1>4. ASSUME NEW d \in Devices, MoEGather(d) PROVE TypeOK'
  <2>1. at' \in [Devices -> 0 .. 4 * MoELayers]
    BY <1>4, StageStep DEF MoEGather
  <2>2. UNCHANGED << listed, unit, current_len, num_process_token, cur_layer,
                     num_token_in_expert, local_num_token_in_expert, lane >>
    BY <1>4 DEF MoEGather
  <2>3. PICK x \in Transfers : traffic' = [traffic EXCEPT ![d].gather = x]
    <3>1. /\ OwnTokens(d, ExpertGroup(d), TRUE) \in Nat
          /\ OwnTokens(d, ExpertGroup(d), FALSE) \in Nat
          /\ OthersTokens(d, TRUE) \in Nat /\ OthersTokens(d, FALSE) \in Nat
      BY <1>0, OwnTokensType, OthersTokensType
    <3> QED BY <1>4, <3>1, TransferType DEF MoEGather
  <2>4. traffic' \in [Devices -> [scatter : Transfers, gather : Transfers]]
    BY <1>0, <2>3
  <2> QED BY <1>0, <2>1, <2>2, <2>4 DEF TypeOK
<1>5. ASSUME NextIteration PROVE TypeOK'
  <2>1. at' \in [Devices -> 0 .. 4 * MoELayers]
    BY <1>5, SystemSize DEF NextIteration
  <2>2. UNCHANGED << listed, unit, cur_layer, num_token_in_expert, local_num_token_in_expert,
                     traffic, lane >>
    BY <1>5 DEF NextIteration
  <2>3. current_len' \in [Batches -> 0 .. Lin + Lout - 2]
    <3>1. \A b \in Batches : Updated(b) \in 0 .. Lin + Lout - 2
      <4> SUFFICES ASSUME NEW b \in Batches PROVE Updated(b) \in 0 .. Lin + Lout - 2
        OBVIOUS
      <4>1. /\ current_len[b] \in 0 .. Lin + Lout - 2
            /\ num_process_token[b] \in Shares(current_len[b])
        BY <1>0
      <4>2. num_process_token[b] \in Nat
            /\ current_len[b] + num_process_token[b] <= Lin + Lout - 1
        BY <4>1, SharesFit
      <4>3. Lin \in Nat \ {0} /\ Lout \in Nat \ {0}
        BY ExpertsAssumption
      <4> QED BY <4>1, <4>2, <4>3 DEF Updated
    <3> QED BY <1>5, <3>1 DEF NextIteration
  <2>4. \A b \in Batches : num_process_token'[b] \in Shares(current_len'[b])
    BY <1>5 DEF NextIteration
  <2> QED BY <1>0, <2>1, <2>2, <2>3, <2>4 DEF TypeOK, Shares
<1>6. CASE UNCHANGED vars
  BY <1>0, <1>6 DEF TypeOK, vars, Shares
<1> QED BY <1>1, <1>2, <1>3, <1>4, <1>5, <1>6 DEF Next

\* Type correctness: every variable keeps its type, no batch gets more tokens than its
\* request has left, and the layer counter stays below the layers of a trace.
THEOREM ExpertTypeCorrect == Spec => []TypeOK
<1>1. Init => TypeOK
  BY TypeInit
<1>2. TypeOK /\ [Next]_vars => TypeOK'
  BY TypeStep
<1> QED BY <1>1, <1>2, PTL DEF Spec
---------------------------------------------------------------------------
(* What the gate counts.                                                   *)

\* The row of the list that a token looks up in a layer holds the choice the trace
\* file records for them, TopK experts.
LEMMA ListedRow ==
  ASSUME NEW t \in 0 .. Lin + Lout - 2, NEW layer \in 0 .. NumLayer - 1
  PROVE  /\ expert_list(t * NumLayer + layer) = Recorded(t, layer)
         /\ Recorded(t, layer) \in kSubset(TopK, Experts)
<1>1. /\ Lin \in Nat \ {0} /\ Lout \in Nat \ {0} /\ NumLayer \in Nat \ {0}
      /\ Len(SumRows) = Lin * NumLayer /\ Len(GenRows) >= Lout * NumLayer
      /\ SumRows \in Seq(kSubset(TopK, Experts)) /\ GenRows \in Seq(kSubset(TopK, Experts))
  BY ExpertsAssumption
<1>2. t \in Nat /\ layer \in Nat /\ layer < NumLayer /\ t <= Lin + Lout - 2
  BY <1>1
<1>3. \A a, b \in Nat : a < b => a * NumLayer + NumLayer <= b * NumLayer
  <2> SUFFICES ASSUME NEW a \in Nat, NEW b \in Nat, a < b
               PROVE  a * NumLayer + NumLayer <= b * NumLayer
    OBVIOUS
  <2>1. b - (a + 1) \in Nat /\ b = (a + 1) + (b - (a + 1))
    OBVIOUS
  <2>2. b * NumLayer = (a + 1) * NumLayer + (b - (a + 1)) * NumLayer
    BY <1>1, <2>1
  <2>3. (a + 1) * NumLayer = a * NumLayer + NumLayer /\ (b - (a + 1)) * NumLayer \in Nat
        /\ a * NumLayer \in Nat
    BY <1>1, <2>1
  <2> QED BY <1>1, <2>2, <2>3
<1> DEFINE row == t * NumLayer + layer
<1>4. t * NumLayer = NumLayer * t /\ t * NumLayer \in Nat /\ Lin * NumLayer \in Nat
  BY <1>1, <1>2
<1>5. row \in Nat
  BY <1>2, <1>4
<1>6. row \div NumLayer = t /\ row % NumLayer = layer
  BY <1>1, <1>2, <1>4, QuotientIs
<1>7. CASE t < Lin
  <2>1. row < Lin * NumLayer
    BY <1>1, <1>2, <1>3, <1>4, <1>7
  <2>2. expert_list(row) = SumRows[layer * Lin + t + 1]
    BY <1>6, <2>1 DEF expert_list
  <2>3. layer * Lin + t + 1 \in 1 .. Lin * NumLayer
    <3>2. layer * Lin + Lin <= NumLayer * Lin
      <4>1. NumLayer - (layer + 1) \in Nat /\ NumLayer = (layer + 1) + (NumLayer - (layer + 1))
        BY <1>1, <1>2
      <4>2. NumLayer * Lin = (layer + 1) * Lin + (NumLayer - (layer + 1)) * Lin
        BY <1>1, <1>2, <4>1
      <4>3. (layer + 1) * Lin = layer * Lin + Lin /\ (NumLayer - (layer + 1)) * Lin \in Nat
            /\ layer * Lin \in Nat
        BY <1>1, <1>2, <4>1
      <4> QED BY <1>1, <4>2, <4>3
    <3>3. NumLayer * Lin = Lin * NumLayer /\ layer * Lin \in Nat
      BY <1>1, <1>2
    <3> QED BY <1>1, <1>2, <1>4, <1>7, <3>2, <3>3
  <2>4. SumRows[layer * Lin + t + 1] \in kSubset(TopK, Experts)
    BY <1>1, <2>3
  <2>5. Recorded(t, layer) = SumRows[layer * Lin + t + 1]
    BY <1>7 DEF Recorded
  <2> QED BY <2>2, <2>4, <2>5
<1>8. CASE ~(t < Lin)
  <2>1. ~(row < Lin * NumLayer)
    <3>1. Lin = t \/ Lin < t
      BY <1>1, <1>2, <1>8
    <3>2. Lin * NumLayer <= t * NumLayer
      BY <1>1, <1>2, <1>3, <1>4, <3>1
    <3> QED BY <1>2, <1>4, <3>2
  <2>2. row - Lin * NumLayer = (t - Lin) * NumLayer + layer
    BY <1>1, <1>2
  <2>3. expert_list(row) = GenRows[(t - Lin) * NumLayer + layer + 1]
    <3>1. expert_list(row) = GenRows[row - Lin * NumLayer + 1]
      BY <2>1 DEF expert_list
    <3> HIDE DEF row
    <3> QED BY <2>2, <3>1
  <2>4. (t - Lin) * NumLayer + layer + 1 \in 1 .. Len(GenRows)
    <3>1. t - Lin \in Nat /\ t - Lin < Lout
      BY <1>1, <1>2, <1>8
    <3>2. (t - Lin) * NumLayer + NumLayer <= Lout * NumLayer
      BY <1>1, <1>3, <3>1
    <3>3. (t - Lin) * NumLayer \in Nat /\ Lout * NumLayer \in Nat /\ Len(GenRows) \in Nat
      BY <1>1, <3>1
    <3> QED BY <1>1, <1>2, <3>2, <3>3
  <2>5. GenRows[(t - Lin) * NumLayer + layer + 1] \in kSubset(TopK, Experts)
    BY <1>1, <2>4
  <2>6. Recorded(t, layer) = GenRows[(t - Lin) * NumLayer + layer + 1]
    BY <1>8 DEF Recorded
  <2> QED BY <2>3, <2>5, <2>6
<1> QED BY <1>7, <1>8

\* Counting a set is adding one for each of its elements.
LEMMA SumOfMembers ==
  ASSUME NEW S, IsFiniteSet(S), NEW A \in SUBSET S,
         NEW h, \A x \in S : h[x] = IF x \in A THEN 1 ELSE 0
  PROVE  SumFunctionOnSet(h, S) = Cardinality(A)
<1> DEFINE one == [x \in S |-> 1]
<1>1. /\ IsFiniteSet(A) /\ 1 \in Int /\ Cardinality(A) \in Nat
      /\ \A x \in A : one[x] = 1
      /\ \A x \in A : one[x] \in Int
      /\ \A x \in S : h[x] = IF x \in A THEN one[x] ELSE 0
  BY FS_Subset, FS_CardinalityType
<1> HIDE DEF one
<1>2. SumFunctionOnSet(h, S) = SumFunctionOnSet(one, A)
  BY <1>1, SumOver
<1>3. SumFunctionOnSet(one, A) = Cardinality(A) * 1
  BY <1>1, SumConstant
<1> QED BY <1>1, <1>2, <1>3

\* Whatever the tokens choose, the counts of all experts add up to TopK for each token.
LEMMA TallySum ==
  ASSUME NEW T, IsFiniteSet(T), NEW choices, DOMAIN choices = T,
         \A t \in T : choices[t] \in kSubset(TopK, Experts)
  PROVE  TokensIn(Tally(choices), Experts) = TopK * Cardinality(T)
<1> DEFINE chosen == [t \in T |-> [e \in Experts |-> IF e \in choices[t] THEN 1 ELSE 0]]
           row == [t \in T |-> SumFunctionOnSet(chosen[t], Experts)]
           column == [e \in Experts |-> SumFunctionOnSet([t \in T |-> chosen[t][e]], T)]
<1>1. TopK \in Nat /\ IsFiniteSet(Experts) /\ Cardinality(T) \in Nat
  BY ExpertsAssumption, SystemSize, FS_CardinalityType
<1>2. \A t \in T : \A e \in Experts : chosen[t][e] \in Int
  OBVIOUS
<1>3. \A t \in T : row[t] = TopK
  <2> SUFFICES ASSUME NEW t \in T PROVE SumFunctionOnSet(chosen[t], Experts) = TopK
    OBVIOUS
  <2>1. choices[t] \in SUBSET Experts /\ Cardinality(choices[t]) = TopK
    BY DEF kSubset
  <2>2. \A e \in Experts : chosen[t][e] = IF e \in choices[t] THEN 1 ELSE 0
    OBVIOUS
  <2> HIDE DEF chosen
  <2> QED BY <1>1, <2>1, <2>2, SumOfMembers
<1>4. column = Tally(choices)
  <2>1. ASSUME NEW e \in Experts
        PROVE  SumFunctionOnSet([t \in T |-> chosen[t][e]], T)
                 = Cardinality({ t \in DOMAIN choices : e \in choices[t] })
    <3> DEFINE A == { t \in T : e \in choices[t] }
               h == [t \in T |-> chosen[t][e]]
    <3>1. A \in SUBSET T /\ \A t \in T : h[t] = IF t \in A THEN 1 ELSE 0
      OBVIOUS
    <3> HIDE DEF h, A, chosen
    <3>2. SumFunctionOnSet(h, T) = Cardinality(A)
      BY <3>1, SumOfMembers
    <3> QED BY <3>2 DEF h, A
  <2> HIDE DEF chosen
  <2> QED BY <2>1 DEF Tally
<1>5. SumFunctionOnSet(row, T) = SumFunctionOnSet(column, Experts)
  <2> HIDE DEF chosen
  <2> QED BY <1>1, <1>2, SumExchange
<1> HIDE DEF chosen, row, column
<1>6. SumFunctionOnSet(row, T) = Cardinality(T) * TopK
  <2>1. TopK \in Int
    BY <1>1
  <2> QED BY <1>3, <2>1, SumConstant
<1> QED BY <1>1, <1>4, <1>5, <1>6 DEF TokensIn
---------------------------------------------------------------------------
(* The devices stay together, and the counts with the layer.               *)

\* Because each waits for the others before a stage, no device is more than one ahead.
Close == \A d, e \in Devices : at[d] <= at[e] + 1

\* What the scatter of a device moves, by the counts as they are.
ScatterOf(d) ==
  Transfer(OwnTokens(d, NonExpertGroup(d), TRUE), OwnTokens(d, NonExpertGroup(d), FALSE),
           OthersTokens(d, TRUE), OthersTokens(d, FALSE))

\* From its scatter to its gather a device would scatter the same again.
ScatterKept == \A d \in Devices : at[d] % 4 \in {2, 3} => traffic[d].scatter = ScatterOf(d)

\* The part of TraceFollowed that does not need a trace.
Aggregated ==
  at[0] % 4 # 0 =>
    \A b \in Batches :
      /\ num_token_in_expert[b] = AggregateOf(local_num_token_in_expert)
      /\ TokensIn(local_num_token_in_expert[b], Experts) = TopK * num_process_token[b]

CountInv == TypeOK /\ Close /\ ScatterKept /\ Aggregated

\* The next layer of each batch is that of the next gate.
OwnLayer == \A b \in Batches : cur_layer[b] = ((at[0] + 3) \div 4) % NumLayer

Traced ==
  at[0] % 4 # 0 =>
    \A b \in Batches :
      listed => local_num_token_in_expert[b]
                  = Tally([t \in Tokens(b) |-> Recorded(t, at[0] \div 4)])

TraceInv == CountInv /\ OwnLayer /\ Traced

\* One stage keeps the devices together.
LEMMA CloseStep ==
  ASSUME TypeOK, Close, NEW d \in Devices, NEW n, Stage(d, n), Done(d)
  PROVE  Close'
<1>1. /\ at' \in [Devices -> 0 .. 4 * MoELayers]
      /\ at[d] \in Nat /\ at'[d] = at[d] + 1
      /\ \A e \in Devices \ {d} : at'[e] = at[e]
      /\ \A e \in Devices : at[d] <= at[e]
  BY StageStep
<1>2. at \in [Devices -> 0 .. 4 * MoELayers] /\ 4 * MoELayers \in Nat
  BY SystemSize DEF TypeOK
<1>3. \A e \in Devices : at[e] \in Nat
  BY <1>2
<1> SUFFICES ASSUME NEW e \in Devices, NEW f \in Devices PROVE at'[e] <= at'[f] + 1
  BY DEF Close
<1>4. at[e] <= at[f] + 1 /\ at[d] <= at[e] /\ at[d] <= at[f] /\ at[e] <= at[d] + 1
  BY <1>1 DEF Close
<1>5. at'[f] >= at[f]
  BY <1>1, <1>3
<1>6. CASE e = d
  BY <1>1, <1>3, <1>4, <1>5, <1>6
<1>7. CASE e # d
  BY <1>1, <1>3, <1>4, <1>5, <1>7
<1> QED BY <1>6, <1>7

\* When rank 0 is at the gate, no device is between its scatter and its gather.
LEMMA GateAlone ==
  ASSUME TypeOK, Close, Stage(0, 0), NEW e \in Devices
  PROVE  at[e] % 4 \in {0, 1}
<1>1. at \in [Devices -> 0 .. 4 * MoELayers] /\ 4 * MoELayers \in Nat /\ 0 \in Devices
  BY SystemSize DEF TypeOK
<1>2. at[0] % 4 = 0 /\ at[e] >= at[0]
  BY DEF Stage, Met
<1>3. at[e] <= at[0] + 1
  BY <1>1 DEF Close
<1>4. at[e] \in Nat /\ at[0] \in Nat
  BY <1>1
<1> QED BY <1>2, <1>3, <1>4

\* What the gate counts for a batch: TopK experts for each token, and with a trace
\* those it records for the layer of the batch.
LEMMA UpdateCounts ==
  ASSUME TypeOK, NEW b \in Batches, NEW count \in update_expert(b)
  PROVE  /\ TokensIn(count, Experts) = TopK * num_process_token[b]
         /\ listed => count = Tally([t \in Tokens(b) |-> Recorded(t, cur_layer[b])])
<1>1. IsFiniteSet(Tokens(b)) /\ Cardinality(Tokens(b)) = num_process_token[b]
  BY TokensFinite
<1>2. CASE listed
  <2> DEFINE choices == [t \in Tokens(b) |-> expert_list(t * NumLayer + cur_layer[b])]
  <2>1. count = Tally(choices)
    BY <1>2 DEF update_expert
  <2>2. ASSUME NEW t \in Tokens(b)
        PROVE  /\ choices[t] = Recorded(t, cur_layer[b])
               /\ Recorded(t, cur_layer[b]) \in kSubset(TopK, Experts)
    <3>1. /\ current_len[b] \in 0 .. Lin + Lout - 2
          /\ num_process_token[b] \in Shares(current_len[b])
          /\ cur_layer[b] \in 0 .. NumLayer - 1
      BY DEF TypeOK
    <3>2. num_process_token[b] \in Nat /\ current_len[b] + num_process_token[b] <= Lin + Lout - 1
      BY <3>1, SharesFit
    <3>3. Lin \in Nat /\ Lout \in Nat
      BY ExpertsAssumption
    <3>4. t \in 0 .. Lin + Lout - 2
      BY <3>1, <3>2, <3>3 DEF Tokens
    <3> QED BY <3>1, <3>4, ListedRow
  <2>3. choices = [t \in Tokens(b) |-> Recorded(t, cur_layer[b])]
    BY <2>2
  <2>4. DOMAIN choices = Tokens(b) /\ \A t \in Tokens(b) : choices[t] \in kSubset(TopK, Experts)
    BY <2>2
  <2> HIDE DEF choices
  <2>5. TokensIn(Tally(choices), Experts) = TopK * Cardinality(Tokens(b))
    BY <1>1, <2>4, TallySum
  <2> QED BY <1>1, <2>1, <2>3, <2>5
<1>3. CASE ~listed
  <2>1. PICK choices \in [Tokens(b) -> Selections] : count = Tally(choices)
    BY <1>3 DEF update_expert
  <2>2. \A t \in Tokens(b) : choices[t] \in kSubset(TopK, Experts)
    BY <2>1, ExpertsAssumption
  <2>3. DOMAIN choices = Tokens(b)
    BY <2>1
  <2>4. TokensIn(Tally(choices), Experts) = TopK * Cardinality(Tokens(b))
    BY <1>1, <2>2, <2>3, TallySum
  <2> QED BY <1>1, <1>3, <2>1, <2>4
<1> QED BY <1>2, <1>3

LEMMA CountInit == Init => CountInv
<1> SUFFICES ASSUME Init PROVE CountInv
  OBVIOUS
<1>1. TypeOK
  BY TypeInit
<1>2. \A d \in Devices : at[d] = 0
  BY DEF Init
<1>3. at[0] = 0
  BY <1>2, SystemSize
<1>4. Close
  BY <1>2 DEF Close
<1>5. ScatterKept
  BY <1>2 DEF ScatterKept
<1>6. Aggregated
  BY <1>3 DEF Aggregated
<1> QED BY <1>1, <1>4, <1>5, <1>6 DEF CountInv

LEMMA CountStep == CountInv /\ [Next]_vars => CountInv'
<1> SUFFICES ASSUME CountInv, [Next]_vars PROVE CountInv'
  OBVIOUS
<1>0. /\ TypeOK /\ Close /\ ScatterKept /\ Aggregated /\ TypeOK'
      /\ 0 \in Devices /\ 4 * MoELayers \in Nat
      /\ at \in [Devices -> 0 .. 4 * MoELayers]
      /\ traffic \in [Devices -> [scatter : Transfers, gather : Transfers]]
  BY TypeStep, SystemSize DEF CountInv, TypeOK
<1>a. ASSUME UNCHANGED local_num_token_in_expert, NEW d \in Devices
      PROVE  ScatterOf(d)' = ScatterOf(d)
  BY <1>a DEF ScatterOf, OwnTokens, OthersTokens
<1>b. ASSUME UNCHANGED << num_token_in_expert, local_num_token_in_expert, num_process_token >>,
             at'[0] % 4 # 0 => at[0] % 4 # 0
      PROVE  Aggregated'
  BY <1>0, <1>b DEF Aggregated, AggregateOf, TokensIn
<1>1. ASSUME NEW d \in Devices, GateUpdate(d) PROVE CountInv'
  <2>1. Stage(d, 0) /\ Done(d)
    BY <1>1 DEF GateUpdate
  <2>2. /\ at[d] \in Nat /\ at[d] % 4 = 0 /\ at'[d] = at[d] + 1
        /\ \A e \in Devices \ {d} : at'[e] = at[e]
    BY <1>0, <2>1, StageStep
  <2>3. Close'
    BY <1>0, <2>1, CloseStep
  <2>4. UNCHANGED << num_process_token, traffic >>
    BY <1>1 DEF GateUpdate
  <2>5. at'[d] % 4 = 1
    BY <2>2
  <2>6. CASE d # 0
    <3>1. UNCHANGED << num_token_in_expert, local_num_token_in_expert >>
      BY <1>1, <2>6 DEF GateUpdate
    <3>2. Aggregated'
      BY <1>0, <1>b, <2>2, <2>4, <2>6, <3>1
    <3>3. ScatterKept'
      <4> SUFFICES ASSUME NEW e \in Devices, at'[e] % 4 \in {2, 3}
                   PROVE  traffic'[e].scatter = ScatterOf(e)'
        BY DEF ScatterKept
      <4>1. e # d
        BY <2>5
      <4> QED BY <1>0, <1>a, <2>2, <2>4, <3>1, <4>1 DEF ScatterKept
    <3> QED BY <1>0, <2>3, <3>2, <3>3 DEF CountInv
  <2>7. CASE d = 0
    <3>1. ScatterKept'
      <4> SUFFICES ASSUME NEW e \in Devices PROVE at'[e] % 4 \notin {2, 3}
        BY DEF ScatterKept
      <4>1. at[e] % 4 \in {0, 1}
        BY <1>0, <2>1, <2>7, GateAlone
      <4>2. CASE e = 0
        BY <2>5, <2>7, <4>2
      <4>3. CASE e # 0
        BY <2>2, <2>7, <4>1, <4>3
      <4> QED BY <4>2, <4>3
    <3>2. PICK count \in CountsOf([b \in Batches |-> update_expert(b)]) :
            /\ local_num_token_in_expert' = LocalOf(count, AggregateOf(count))
            /\ num_token_in_expert' = [b \in Batches |-> AggregateOf(count)]
      BY <1>1, <2>7 DEF GateUpdate, aggregate_expert
    <3>3. \A b \in Batches : count[b] \in update_expert(b)
      BY <3>2 DEF CountsOf
    <3>4. local_num_token_in_expert' = count
      BY <3>2 DEF LocalOf
    <3>5. \A b \in Batches : TokensIn(count[b], Experts) = TopK * num_process_token[b]
      BY <1>0, <3>3, UpdateCounts
    <3>6. AggregateOf(local_num_token_in_expert') = AggregateOf(count)
      BY <3>4
    <3>7. ASSUME NEW b \in Batches
          PROVE  /\ num_token_in_expert'[b] = AggregateOf(local_num_token_in_expert')
                 /\ TokensIn(local_num_token_in_expert'[b], Experts) = TopK * num_process_token'[b]
      BY <2>4, <3>2, <3>4, <3>5, <3>6
    <3>8. Aggregated'
      BY <3>7 DEF Aggregated
    <3> QED BY <1>0, <2>3, <3>1, <3>8 DEF CountInv
  <2> QED BY <2>6, <2>7
<1>2. ASSUME NEW d \in Devices, MoEScatter(d) PROVE CountInv'
  <2>1. Stage(d, 1) /\ Done(d)
    BY <1>2 DEF MoEScatter
  <2>2. /\ at[d] \in Nat /\ at[d] % 4 = 1 /\ at'[d] = at[d] + 1
        /\ \A e \in Devices \ {d} : at'[e] = at[e]
    BY <1>0, <2>1, StageStep
  <2>3. Close'
    BY <1>0, <2>1, CloseStep
  <2>4. UNCHANGED << num_token_in_expert, local_num_token_in_expert, num_process_token >>
    BY <1>2 DEF MoEScatter
  <2>5. Aggregated'
    BY <1>0, <1>b, <2>2, <2>4
  <2>6. traffic' = [traffic EXCEPT ![d].scatter = ScatterOf(d)]
    BY <1>2 DEF MoEScatter, ScatterOf
  <2>7. ScatterKept'
    <3> SUFFICES ASSUME NEW e \in Devices, at'[e] % 4 \in {2, 3}
                 PROVE  traffic'[e].scatter = ScatterOf(e)
      BY <1>a, <2>4 DEF ScatterKept
    <3>1. CASE e = d
      BY <1>0, <2>6, <3>1
    <3>2. CASE e # d
      <4>1. traffic'[e] = traffic[e] /\ at'[e] = at[e]
        BY <1>0, <2>2, <2>6, <3>2
      <4> QED BY <1>0, <4>1 DEF ScatterKept
    <3> QED BY <3>1, <3>2
  <2> QED BY <1>0, <2>3, <2>5, <2>7 DEF CountInv
<1>3. ASSUME NEW d \in Devices, Route(d) PROVE CountInv'
  <2>1. Stage(d, 2) /\ Done(d)
    BY <1>3 DEF Route
  <2>2. /\ at[d] \in Nat /\ at[d] % 4 = 2 /\ at'[d] = at[d] + 1
        /\ \A e \in Devices \ {d} : at'[e] = at[e]
    BY <1>0, <2>1, StageStep
  <2>3. Close'
    BY <1>0, <2>1, CloseStep
  <2>4. UNCHANGED << num_token_in_expert, local_num_token_in_expert, num_process_token, traffic >>
    BY <1>3 DEF Route
  <2>5. Aggregated'
    BY <1>0, <1>b, <2>2, <2>4
  <2>6. ScatterKept'
    <3> SUFFICES ASSUME NEW e \in Devices, at'[e] % 4 \in {2, 3}
                 PROVE  traffic[e].scatter = ScatterOf(e)
      BY <1>a, <2>4 DEF ScatterKept
    <3>1. at[e] % 4 \in {2, 3}
      BY <2>2
    <3> QED BY <1>0, <3>1 DEF ScatterKept
  <2> QED BY <1>0, <2>3, <2>5, <2>6 DEF CountInv
<1>4. ASSUME NEW d \in Devices, MoEGather(d) PROVE CountInv'
  <2>1. Stage(d, 3) /\ Done(d)
    BY <1>4 DEF MoEGather
  <2>2. /\ at[d] \in Nat /\ at[d] % 4 = 3 /\ at'[d] = at[d] + 1
        /\ \A e \in Devices \ {d} : at'[e] = at[e]
    BY <1>0, <2>1, StageStep
  <2>3. Close'
    BY <1>0, <2>1, CloseStep
  <2>4. UNCHANGED << num_token_in_expert, local_num_token_in_expert, num_process_token >>
    BY <1>4 DEF MoEGather
  <2>5. Aggregated'
    BY <1>0, <1>b, <2>2, <2>4
  <2>6. \A e \in Devices \ {d} : traffic'[e] = traffic[e]
    BY <1>0, <1>4 DEF MoEGather
  <2>7. ScatterKept'
    <3> SUFFICES ASSUME NEW e \in Devices, at'[e] % 4 \in {2, 3}
                 PROVE  traffic'[e].scatter = ScatterOf(e)
      BY <1>a, <2>4 DEF ScatterKept
    <3>1. e # d
      BY <2>2
    <3> QED BY <1>0, <2>2, <2>6, <3>1 DEF ScatterKept
  <2> QED BY <1>0, <2>3, <2>5, <2>7 DEF CountInv
<1>5. ASSUME NextIteration PROVE CountInv'
  <2>1. \A d \in Devices : at'[d] = 0
    BY <1>5 DEF NextIteration
  <2>2. at'[0] = 0
    BY <1>0, <2>1
  <2>3. Close'
    BY <2>1 DEF Close
  <2>4. ScatterKept'
    BY <2>1 DEF ScatterKept
  <2>5. Aggregated'
    BY <2>2 DEF Aggregated
  <2> QED BY <1>0, <2>3, <2>4, <2>5 DEF CountInv
<1>6. CASE UNCHANGED vars
  <2>1. UNCHANGED << at, traffic, num_token_in_expert, local_num_token_in_expert,
                     num_process_token >>
    BY <1>6 DEF vars
  <2>2. Close'
    BY <1>0, <2>1 DEF Close
  <2>3. Aggregated'
    BY <1>0, <1>b, <2>1
  <2>4. ScatterKept'
    BY <1>0, <1>a, <2>1 DEF ScatterKept
  <2> QED BY <1>0, <2>2, <2>3, <2>4 DEF CountInv
<1> QED BY <1>1, <1>2, <1>3, <1>4, <1>5, <1>6 DEF Next
\* A transfer and its return.
LEMMA TransferBack ==
  ASSUME NEW a, NEW b, NEW c, NEW e
  PROVE  /\ Transfer(a, b, c, e).recv_intra = Transfer(c, e, a, b).sent_intra
         /\ Transfer(a, b, c, e).recv_inter = Transfer(c, e, a, b).sent_inter
         /\ Transfer(a, b, c, e).charged = Transfer(c, e, a, b).charged
<1>1. /\ Transfer(a, b, c, e).recv_intra = c /\ Transfer(c, e, a, b).sent_intra = c
      /\ Transfer(a, b, c, e).recv_inter = e /\ Transfer(c, e, a, b).sent_inter = e
  BY DEF Transfer
<1>2. /\ Transfer(a, b, c, e).charged = (a + b # 0 /\ c + e # 0)
      /\ Transfer(c, e, a, b).charged = (c + e # 0 /\ a + b # 0)
  BY DEF Transfer
<1>3. (a + b # 0 /\ c + e # 0) = (c + e # 0 /\ a + b # 0)
  OBVIOUS
<1> QED BY <1>1, <1>2, <1>3

\* The gather of a layer returns what its scatter brought: between the two no device
\* passes a gate, so that both are computed from the same counts.
THEOREM RoundTripHolds == Spec => RoundTrip
<1> DEFINE Back(d) ==
      at[d] % 4 = 3 /\ at'[d] # at[d] =>
        /\ traffic'[d].gather.sent_intra = Scattered(d).recv_intra
        /\ traffic'[d].gather.sent_inter = Scattered(d).recv_inter
        /\ NeTp = ETp => /\ traffic'[d].gather.recv_intra = Scattered(d).sent_intra
                         /\ traffic'[d].gather.recv_inter = Scattered(d).sent_inter
                         /\ traffic'[d].gather.charged = Scattered(d).charged
<1>1. CountInv /\ [Next]_vars => [\A d \in Devices : Back(d)]_vars
  <2> SUFFICES ASSUME CountInv, Next, NEW d \in Devices, at[d] % 4 = 3, at'[d] # at[d]
               PROVE  Back(d)
    OBVIOUS
  <2>0. /\ TypeOK /\ ScatterKept
        /\ at \in [Devices -> 0 .. 4 * MoELayers] /\ 4 * MoELayers \in Nat
        /\ traffic \in [Devices -> [scatter : Transfers, gather : Transfers]]
    BY SystemSize DEF CountInv, TypeOK
  <2>1. MoEGather(d)
    <3>1. ASSUME NEW e \in Devices, NEW n \in {0, 1, 2}, Stage(e, n), Done(e) PROVE FALSE
      <4>1. at[e] % 4 = n /\ \A f \in Devices \ {e} : at'[f] = at[f]
        BY <2>0, <3>1, StageStep
      <4> QED BY <4>1
    <3>2. ASSUME NEW e \in Devices, MoEGather(e) PROVE e = d
      <4>1. \A f \in Devices \ {e} : at'[f] = at[f]
        BY <2>0, <3>2, StageStep DEF MoEGather
      <4> QED BY <4>1
    <3>3. ~ NextIteration
      <4>1. NextIteration => at[d] = 4 * MoELayers
        BY DEF NextIteration
      <4>2. MoELayers \in Nat => (4 * MoELayers) % 4 = 0
        OBVIOUS
      <4> QED BY <4>1, <4>2, ExpertsAssumption
    <3>4. \A e \in Devices : ~ GateUpdate(e) /\ ~ MoEScatter(e) /\ ~ Route(e)
      BY <3>1 DEF GateUpdate, MoEScatter, Route
    <3> QED BY <3>2, <3>3, <3>4 DEF Next
  <2>2. traffic[d].scatter = ScatterOf(d)
    BY <2>0 DEF ScatterKept
  <2>3. traffic'[d].gather =
          Transfer(OthersTokens(d, TRUE), OthersTokens(d, FALSE),
                   OwnTokens(d, ExpertGroup(d), TRUE), OwnTokens(d, ExpertGroup(d), FALSE))
    BY <2>0, <2>1 DEF MoEGather
  <2>4. NeTp = ETp => NonExpertGroup(d) = ExpertGroup(d)
    BY DEF NonExpertGroup, ExpertGroup
  <2>5. NeTp = ETp =>
          ScatterOf(d) =
            Transfer(OwnTokens(d, ExpertGroup(d), TRUE), OwnTokens(d, ExpertGroup(d), FALSE),
                     OthersTokens(d, TRUE), OthersTokens(d, FALSE))
    BY <2>4 DEF ScatterOf
  <2>6. /\ traffic'[d].gather.sent_intra = Scattered(d).recv_intra
        /\ traffic'[d].gather.sent_inter = Scattered(d).recv_inter
    BY <2>2, <2>3 DEF Scattered, ScatterOf, Transfer
  <2>7. ASSUME NeTp = ETp
        PROVE  /\ traffic'[d].gather.recv_intra = Scattered(d).sent_intra
               /\ traffic'[d].gather.recv_inter = Scattered(d).sent_inter
               /\ traffic'[d].gather.charged = Scattered(d).charged
    <3> DEFINE a == OthersTokens(d, TRUE)
               b == OthersTokens(d, FALSE)
               c == OwnTokens(d, ExpertGroup(d), TRUE)
               e == OwnTokens(d, ExpertGroup(d), FALSE)
               gather == traffic'[d].gather
    <3>1. gather = Transfer(a, b, c, e) /\ Scattered(d) = Transfer(c, e, a, b)
      BY <2>2, <2>3, <2>5, <2>7 DEF Scattered
    <3> HIDE DEF a, b, c, e, gather
    <3>2. /\ gather.recv_intra = Scattered(d).sent_intra
          /\ gather.recv_inter = Scattered(d).sent_inter
          /\ gather.charged = Scattered(d).charged
      BY <3>1, TransferBack
    <3> QED BY <3>2 DEF gather
  <2> QED BY <2>6, <2>7
<1>2. Init => CountInv
  BY CountInit
<1>3. CountInv /\ [Next]_vars => CountInv'
  BY CountStep
<1>4. RoundTrip <=> [][\A d \in Devices : Back(d)]_vars
  BY DEF RoundTrip
<1> QED BY <1>1, <1>2, <1>3, <1>4, PTL DEF Spec

---------------------------------------------------------------------------
(* The counts are those of the trace.                                      *)

\* The trace has a row for each layer with experts.
EveryLayerTraced == MoELayers = NumLayer

LEMMA TraceInit == Init => TraceInv
<1> SUFFICES ASSUME Init PROVE TraceInv
  OBVIOUS
<1>1. at[0] = 0
  BY SystemSize DEF Init
<1>2. NumLayer \in Nat \ {0}
  BY ExpertsAssumption
<1>3. 3 \div 4 = 0 /\ 0 % NumLayer = 0
  BY <1>2
<1>4. OwnLayer
  BY <1>1, <1>3 DEF OwnLayer, Init
<1>5. Traced
  BY <1>1 DEF Traced
<1> QED BY <1>4, <1>5, CountInit DEF TraceInv

\* A layer counter goes round with the layers executed.
LEMMA LayerRound ==
  ASSUME NEW k \in Nat
  PROVE  NextLayer(k % NumLayer) = (k + 1) % NumLayer
<1>1. NumLayer \in Nat \ {0}
  BY ExpertsAssumption
<1> DEFINE q == k \div NumLayer
           r == k % NumLayer
<1>2. q \in Nat /\ r \in 0 .. NumLayer - 1 /\ k = NumLayer * q + r
  BY <1>1, Quotient
<1> HIDE DEF q, r
<1>3. NumLayer * q \in Nat
  BY <1>1, <1>2
<1>4. CASE r + 1 < NumLayer
  <2>1. r + 1 \in 0 .. NumLayer - 1 /\ k + 1 = NumLayer * q + (r + 1)
    BY <1>1, <1>2, <1>3, <1>4
  <2>2. (k + 1) % NumLayer = r + 1
    BY <1>1, <1>2, <2>1, QuotientIs
  <2>3. r + 1 = NumLayer * 0 + (r + 1)
    BY <1>1, <1>2
  <2>4. (r + 1) % NumLayer = r + 1
    <3>1. 0 \in Nat
      OBVIOUS
    <3> QED BY <1>1, <2>1, <2>3, <3>1, QuotientIs
  <2> QED BY <2>2, <2>4 DEF NextLayer, r
<1>5. CASE ~(r + 1 < NumLayer)
  <2>1. r + 1 = NumLayer /\ NumLayer * (q + 1) = NumLayer * q + NumLayer
    BY <1>1, <1>2, <1>5
  <2>2. k + 1 = NumLayer * (q + 1) + 0 /\ r + 1 = NumLayer * 1 + 0
    BY <1>1, <1>2, <1>3, <2>1
  <2>3. 0 \in 0 .. NumLayer - 1 /\ q + 1 \in Nat /\ 1 \in Nat
    BY <1>1, <1>2
  <2>4. (k + 1) % NumLayer = 0
    BY <1>1, <2>2, <2>3, QuotientIs
  <2>5. (r + 1) % NumLayer = 0
    BY <1>1, <2>2, <2>3, QuotientIs
  <2> QED BY <2>4, <2>5 DEF NextLayer, r
<1> QED BY <1>4, <1>5

LEMMA TraceStep == EveryLayerTraced /\ TraceInv /\ [Next]_vars => TraceInv'
<1> SUFFICES ASSUME EveryLayerTraced, TraceInv, [Next]_vars PROVE TraceInv'
  OBVIOUS
<1>0. /\ CountInv /\ OwnLayer /\ Traced /\ CountInv' /\ TypeOK /\ 0 \in Devices
      /\ at \in [Devices -> 0 .. 4 * MoELayers] /\ 4 * MoELayers \in Nat
      /\ cur_layer \in [Batches -> 0 .. NumLayer - 1]
      /\ MoELayers \in Nat \ {0} /\ NumLayer \in Nat \ {0} /\ MoELayers = NumLayer
  BY CountStep, SystemSize, ExpertsAssumption DEF TraceInv, CountInv, TypeOK, EveryLayerTraced
<1>00. at[0] \in Nat
  BY <1>0
\* A step that leaves the counts, and the layer of rank 0, is no concern.
<1>a. ASSUME UNCHANGED << listed, current_len, num_process_token, cur_layer,
                          local_num_token_in_expert >>,
             \/ at'[0] = at[0]
             \/ at[0] % 4 # 0 /\ at'[0] = at[0] + 1
      PROVE  TraceInv'
  <2>1. (at'[0] + 3) \div 4 = (at[0] + 3) \div 4
    BY <1>00, <1>a
  <2>2. at'[0] % 4 # 0 => at[0] % 4 # 0 /\ at'[0] \div 4 = at[0] \div 4
    BY <1>00, <1>a
  <2>3. OwnLayer'
    BY <1>0, <1>a, <2>1 DEF OwnLayer
  <2>4. ASSUME at'[0] % 4 # 0, NEW b \in Batches, listed
        PROVE  local_num_token_in_expert[b]
                 = Tally([t \in Tokens(b) |-> Recorded(t, at'[0] \div 4)])
    BY <1>0, <2>2, <2>4 DEF Traced
  <2>5. Tokens(0)' = Tokens(0) /\ \A b \in Batches : Tokens(b)' = Tokens(b)
    BY <1>a DEF Tokens
  <2>6. Traced'
    <3> SUFFICES ASSUME at'[0] % 4 # 0, NEW b \in Batches, listed'
                 PROVE  local_num_token_in_expert'[b]
                          = Tally([t \in Tokens(b)' |-> Recorded(t, at'[0] \div 4)])
      BY DEF Traced
    <3> QED BY <1>a, <2>4, <2>5
  <2> QED BY <1>0, <2>3, <2>6 DEF TraceInv
<1>b. ASSUME NEW d \in Devices, NEW n, Stage(d, n), Done(d)
      PROVE  /\ d # 0 => at'[0] = at[0]
             /\ d = 0 => at[0] % 4 = n /\ at'[0] = at[0] + 1 /\ at[0] < 4 * MoELayers
  BY <1>0, <1>b, StageStep
<1>1. ASSUME NEW d \in Devices, GateUpdate(d) PROVE TraceInv'
  <2>1. Stage(d, 0) /\ Done(d)
        /\ UNCHANGED << listed, unit, current_len, num_process_token, traffic, lane >>
    BY <1>1 DEF GateUpdate
  <2>2. CASE d # 0
    <3>1. UNCHANGED << num_token_in_expert, local_num_token_in_expert, cur_layer >>
      BY <1>1, <2>2 DEF GateUpdate
    <3> QED BY <1>a, <1>b, <2>1, <2>2, <3>1
  <2>3. CASE d = 0
    <3>1. at[0] % 4 = 0 /\ at'[0] = at[0] + 1 /\ at[0] < 4 * MoELayers
      BY <1>b, <2>1, <2>3
    <3>2. PICK count \in CountsOf([b \in Batches |-> update_expert(b)]) :
            /\ local_num_token_in_expert' = LocalOf(count, AggregateOf(count))
            /\ cur_layer' = [b \in Batches |-> NextLayer(cur_layer[b])]
      BY <1>1, <2>3 DEF GateUpdate, aggregate_expert
    <3> DEFINE k == at[0] \div 4
    <3>3. /\ k \in Nat /\ k < NumLayer
          /\ (at[0] + 3) \div 4 = k /\ (at'[0] + 3) \div 4 = k + 1 /\ at'[0] \div 4 = k
      BY <1>0, <1>00, <3>1
    <3> HIDE DEF k
    <3>4. k % NumLayer = k
      <4>1. k = NumLayer * 0 + k /\ k \in 0 .. NumLayer - 1 /\ 0 \in Nat
        BY <1>0, <3>3
      <4> QED BY <1>0, <4>1, QuotientIs
    <3>5. \A b \in Batches : cur_layer[b] = k % NumLayer /\ cur_layer[b] = k
      BY <1>0, <3>3, <3>4 DEF OwnLayer
    <3>6. \A b \in Batches : cur_layer'[b] = (k + 1) % NumLayer
      BY <3>2, <3>3, <3>5, LayerRound
    <3>7. OwnLayer'
      BY <3>3, <3>6 DEF OwnLayer
    <3>8. \A b \in Batches : count[b] \in update_expert(b)
      BY <3>2 DEF CountsOf
    <3>9. ASSUME NEW b \in Batches, listed
          PROVE  count[b] = Tally([t \in Tokens(b) |-> Recorded(t, k)])
      <4>1. count[b] = Tally([t \in Tokens(b) |-> Recorded(t, cur_layer[b])])
        BY <1>0, <3>8, <3>9, UpdateCounts
      <4> QED BY <3>5, <4>1
    <3>10. \A b \in Batches : Tokens(b)' = Tokens(b)
      BY <2>1 DEF Tokens
    <3>11. Traced'
      <4> SUFFICES ASSUME NEW b \in Batches, listed'
                   PROVE  local_num_token_in_expert'[b]
                            = Tally([t \in Tokens(b)' |-> Recorded(t, at'[0] \div 4)])
        BY DEF Traced
      <4>1. local_num_token_in_expert'[b] = count[b] /\ listed
        BY <2>1, <3>2 DEF LocalOf
      <4> QED BY <3>3, <3>9, <3>10, <4>1
    <3> QED BY <1>0, <3>7, <3>11 DEF TraceInv
  <2> QED BY <2>2, <2>3
<1>2. ASSUME NEW d \in Devices, MoEScatter(d) PROVE TraceInv'
  <2>1. Stage(d, 1) /\ Done(d)
        /\ UNCHANGED << listed, current_len, num_process_token, cur_layer,
                        local_num_token_in_expert >>
    BY <1>2 DEF MoEScatter
  <2> QED BY <1>a, <1>b, <2>1
<1>3. ASSUME NEW d \in Devices, Route(d) PROVE TraceInv'
  <2>1. Stage(d, 2) /\ Done(d)
        /\ UNCHANGED << listed, current_len, num_process_token, cur_layer,
                        local_num_token_in_expert >>
    BY <1>3 DEF Route
  <2> QED BY <1>a, <1>b, <2>1
<1>4. ASSUME NEW d \in Devices, MoEGather(d) PROVE TraceInv'
  <2>1. Stage(d, 3) /\ Done(d)
        /\ UNCHANGED << listed, current_len, num_process_token, cur_layer,
                        local_num_token_in_expert >>
    BY <1>4 DEF MoEGather
  <2> QED BY <1>a, <1>b, <2>1
<1>5. ASSUME NextIteration PROVE TraceInv'
  <2>1. at[0] = 4 * MoELayers /\ at'[0] = 0 /\ cur_layer' = cur_layer
    BY <1>0, <1>5 DEF NextIteration
  <2>2. (at[0] + 3) \div 4 = NumLayer /\ (at'[0] + 3) \div 4 = 0 /\ at'[0] % 4 = 0
    BY <1>0, <2>1
  <2>3. NumLayer % NumLayer = 0 /\ 0 % NumLayer = 0
    <3>1. NumLayer = NumLayer * 1 + 0 /\ 0 = NumLayer * 0 + 0
          /\ 0 \in 0 .. NumLayer - 1 /\ 1 \in Nat /\ 0 \in Nat
      BY <1>0
    <3> QED BY <1>0, <3>1, QuotientIs
  <2>4. OwnLayer'
    BY <1>0, <2>1, <2>2, <2>3 DEF OwnLayer
  <2>5. Traced'
    BY <2>2 DEF Traced
  <2> QED BY <1>0, <2>4, <2>5 DEF TraceInv
<1>6. CASE UNCHANGED vars
  BY <1>a, <1>6 DEF vars
<1> QED BY <1>1, <1>2, <1>3, <1>4, <1>5, <1>6 DEF Next

\* From the gate of a layer to that of the next every batch knows the same totals, sums
\* of counts that give each token TopK experts, and with a trace they are the recorded
\* ones, in every iteration, if the trace has a row for each layer with experts.
THEOREM TraceFollowedHolds == EveryLayerTraced => (Spec => []TraceFollowed)
<1> SUFFICES ASSUME EveryLayerTraced PROVE Spec => []TraceFollowed
  OBVIOUS
<1>1. Init => TraceInv
  BY TraceInit
<1>2. TraceInv /\ [Next]_vars => TraceInv'
  BY TraceStep
<1>3. TraceInv => TraceFollowed
  BY DEF TraceInv, CountInv, Aggregated, Traced, TraceFollowed
<1> QED BY <1>1, <1>2, <1>3, PTL DEF Spec
---------------------------------------------------------------------------
(* What is sent, received and computed.                                    *)

\* The batch's tokens at the experts of a device.
AtExperts(b, p) == TokensIn(local_num_token_in_expert[b], CommExperts(p))

LEMMA AtExpertsType ==
  ASSUME local_num_token_in_expert \in [Batches -> [Experts -> Nat]],
         NEW b \in Batches, NEW p \in Devices
  PROVE  AtExperts(b, p) \in Nat
<1>1. local_num_token_in_expert[b] \in [Experts -> Nat] /\ CommExperts(p) \in SUBSET Experts
  BY DeviceExperts
<1> QED BY <1>1, TokensInType DEF AtExperts

\* A sum taken in two parts, by a condition.
LEMMA SumByCondition ==
  ASSUME NEW S, IsFiniteSet(S), NEW g, \A x \in S : g[x] \in Nat,
         NEW A \in SUBSET S
  PROVE  SumFunction([x \in A |-> g[x]]) + SumFunction([x \in S \ A |-> g[x]])
           = SumFunctionOnSet(g, S)
<1> DEFINE B == S \ A
           f == [x \in A |-> g[x]]
           h == [x \in B |-> g[x]]
<1>1. /\ IsFiniteSet(A) /\ IsFiniteSet(B) /\ A \cap B = {} /\ A \cup B = S
      /\ DOMAIN f = A /\ DOMAIN h = B
      /\ \A x \in A : f[x] \in Nat
      /\ \A x \in B : h[x] \in Nat
      /\ \A x \in A : g[x] \in Int
      /\ \A x \in B : g[x] \in Int
      /\ \A x \in A : f[x] = g[x]
      /\ \A x \in B : h[x] = g[x]
  BY FS_Subset, FS_Difference
<1> HIDE DEF B, f, h
<1>2. SumFunction(f) = SumFunctionOnSet(f, A)
  BY <1>1, SumOfFunction
<1>3. SumFunction(h) = SumFunctionOnSet(h, B)
  BY <1>1, SumOfFunction
<1>4. SumFunctionOnSet(f, A) = SumFunctionOnSet(g, A)
  BY <1>1, SumEqual
<1>5. SumFunctionOnSet(h, B) = SumFunctionOnSet(g, B)
  BY <1>1, SumEqual
<1>6. SumFunctionOnSet(g, A \cup B) = SumFunctionOnSet(g, A) + SumFunctionOnSet(g, B)
  BY <1>1, SumUnion
<1>7. SumFunction(f) + SumFunction(h) = SumFunctionOnSet(g, S)
  BY <1>1, <1>2, <1>3, <1>4, <1>5, <1>6
<1> QED BY <1>7 DEF f, h, B

\* What a device receives on both networks: the tokens of all other batches.
LEMMA OthersSum ==
  ASSUME local_num_token_in_expert \in [Batches -> [Experts -> Nat]], NEW d \in Devices
  PROVE  OthersTokens(d, TRUE) + OthersTokens(d, FALSE)
           = SumFunctionOnSet([b \in Batches |-> AtExperts(b, d)], Batches \ {BatchOf(d)})
<1> DEFINE S == Batches \ {BatchOf(d)}
           g == [b \in Batches |-> AtExperts(b, d)]
           near(b) == NodeOf(b * NeTp) = NodeOf(d)
           A == { b \in S : near(b) }
<1>1. IsFiniteSet(S) /\ A \in SUBSET S
  BY SystemSize, FS_Subset
<1>2. \A b \in S : g[b] \in Nat
  BY AtExpertsType
<1>3. /\ { b \in S : near(b) = TRUE } = A
      /\ { b \in S : near(b) = FALSE } = S \ A
  OBVIOUS
<1>4. /\ OthersTokens(d, TRUE)
           = SumFunction([b \in { b \in S : near(b) = TRUE } |-> AtExperts(b, d)])
      /\ OthersTokens(d, FALSE)
           = SumFunction([b \in { b \in S : near(b) = FALSE } |-> AtExperts(b, d)])
  BY DEF OthersTokens, OtherBatches, AtExperts
<1>5. /\ [b \in A |-> AtExperts(b, d)] = [b \in A |-> g[b]]
      /\ [b \in S \ A |-> AtExperts(b, d)] = [b \in S \ A |-> g[b]]
  OBVIOUS
<1> HIDE DEF S, A, g, near
<1>6. SumFunction([b \in A |-> g[b]]) + SumFunction([b \in S \ A |-> g[b]])
        = SumFunctionOnSet(g, S)
  BY <1>1, <1>2, SumByCondition
<1>7. /\ OthersTokens(d, TRUE) = SumFunction([b \in A |-> g[b]])
      /\ OthersTokens(d, FALSE) = SumFunction([b \in S \ A |-> g[b]])
  BY <1>3, <1>4, <1>5
<1> QED BY <1>6, <1>7 DEF S, g

\* What a device sends on both networks: the tokens of its batch at the experts of the
\* devices outside a group.
LEMMA OwnSum ==
  ASSUME local_num_token_in_expert \in [Batches -> [Experts -> Nat]], NEW d \in Devices,
         NEW group
  PROVE  OwnTokens(d, group, TRUE) + OwnTokens(d, group, FALSE)
           = SumFunctionOnSet([p \in Devices |-> AtExperts(BatchOf(d), p)], Devices \ group)
<1> DEFINE S == Devices \ group
           g == [p \in Devices |-> AtExperts(BatchOf(d), p)]
           near(p) == NodeOfPeer(p) = NodeOf(d)
           A == { p \in S : near(p) }
<1>1. IsFiniteSet(S) /\ A \in SUBSET S
  BY SystemSize, FS_Subset
<1>2. \A p \in S : g[p] \in Nat
  BY SystemSize, AtExpertsType
<1>3. /\ { p \in S : near(p) = TRUE } = A
      /\ { p \in S : near(p) = FALSE } = S \ A
  OBVIOUS
<1>4. /\ OwnTokens(d, group, TRUE)
           = SumFunction([p \in { p \in S : near(p) = TRUE } |-> AtExperts(BatchOf(d), p)])
      /\ OwnTokens(d, group, FALSE)
           = SumFunction([p \in { p \in S : near(p) = FALSE } |-> AtExperts(BatchOf(d), p)])
  BY DEF OwnTokens, Peers, AtExperts
<1>5. /\ [p \in A |-> AtExperts(BatchOf(d), p)] = [p \in A |-> g[p]]
      /\ [p \in S \ A |-> AtExperts(BatchOf(d), p)] = [p \in S \ A |-> g[p]]
  OBVIOUS
<1> HIDE DEF S, A, g, near
<1>6. SumFunction([p \in A |-> g[p]]) + SumFunction([p \in S \ A |-> g[p]])
        = SumFunctionOnSet(g, S)
  BY <1>1, <1>2, SumByCondition
<1>7. /\ OwnTokens(d, group, TRUE) = SumFunction([p \in A |-> g[p]])
      /\ OwnTokens(d, group, FALSE) = SumFunction([p \in S \ A |-> g[p]])
  BY <1>3, <1>4, <1>5
<1> QED BY <1>6, <1>7 DEF S, g

\* When every device has as many experts, the communication and ExpertFFN agree on
\* which they are.
LEMMA SameExperts ==
  ASSUME NumExpert % TotalDevice = 0, NEW d \in Devices
  PROVE  CommExperts(d) = RoutedExperts(d)
<1>1. /\ TotalDevice \in Nat \ {0} /\ ETp \in Nat \ {0} /\ NumExpert \in Nat
      /\ TotalDevice % ETp = 0 /\ d \in 0 .. TotalDevice - 1
  BY SystemSize, ExpertsAssumption DEF Devices
<1> DEFINE group == d \div ETp
           groups == TotalDevice \div ETp
           each == NumExpert \div TotalDevice
<1>2. group \in 0 .. groups - 1 /\ groups \in Nat \ {0} /\ TotalDevice = ETp * groups
  BY <1>1, WholeGroup
<1>3. each \in Nat /\ NumExpert = TotalDevice * each
  BY <1>1, Quotient
<1> HIDE DEF each, groups
<1>4. NumExpert = groups * (each * ETp) + 0 /\ each * ETp \in Nat /\ 0 \in 0 .. groups - 1
  <2>1. TotalDevice * each = groups * (each * ETp)
    BY <1>1, <1>2, <1>3
  <2>2. groups * (each * ETp) \in Nat /\ each * ETp \in Nat
    BY <1>1, <1>2, <1>3
  <2> QED BY <1>2, <1>3, <2>1, <2>2
<1>5. NumExpert \div groups = each * ETp
  BY <1>2, <1>4, QuotientIs
<1>6. group \in Nat
  BY <1>2
<1> HIDE DEF group
<1>7. (each * ETp) * group = each * group * ETp
  BY <1>1, <1>3, <1>6
<1>8. CommExperts(d) = each * group * ETp .. each * group * ETp + each * ETp - 1
  BY DEF CommExperts, each, group
<1>9. RoutedExperts(d) = (each * ETp) * group .. (each * ETp) * group + (each * ETp) - 1
  BY <1>5 DEF RoutedExperts, groups, group
<1> QED BY <1>7, <1>8, <1>9

\* What the scatter brings to a device, with its own batch, are the tokens its experts
\* compute, when every device has as many experts.
THEOREM WorkArrivesHolds == Spec => []WorkArrives
<1>1. CountInv => WorkArrives
  <2> SUFFICES ASSUME CountInv, AllPast(1), NumExpert % TotalDevice = 0, NEW d \in Devices
               PROVE  Received(d) + TokensIn(local_num_token_in_expert[BatchOf(d)], RoutedExperts(d))
                        = TokensIn(num_token_in_expert[BatchOf(d)], RoutedExperts(d))
    BY DEF WorkArrives
  <2> DEFINE b0 == BatchOf(d)
             X == CommExperts(d)
             g == [b \in Batches |-> AtExperts(b, d)]
             own == [b \in Batches |-> [e \in X |-> local_num_token_in_expert[b][e]]]
  <2>1. /\ local_num_token_in_expert \in [Batches -> [Experts -> Nat]] /\ b0 \in Batches
        /\ 0 \in Devices /\ IsFiniteSet(Batches) /\ at \in [Devices -> 0 .. 4 * MoELayers]
        /\ 4 * MoELayers \in Nat
    BY SystemSize DEF CountInv, TypeOK
  <2>2. at[d] % 4 \in {2, 3} /\ at[0] % 4 # 0
    <3>1. at[d] \in Nat /\ at[0] \in Nat /\ at[d] % 4 > 1 /\ at[0] % 4 > 1
      BY <2>1 DEF AllPast
    <3> QED BY <3>1
  <2>3. Scattered(d) = ScatterOf(d) /\ num_token_in_expert[b0] = AggregateOf(local_num_token_in_expert)
    BY <2>1, <2>2 DEF CountInv, ScatterKept, Aggregated, Scattered
  <2>4. Received(d) = OthersTokens(d, TRUE) + OthersTokens(d, FALSE)
    BY <2>3 DEF Received, ScatterOf, Transfer
  <2>5. Received(d) = SumFunctionOnSet(g, Batches \ {b0})
    BY <2>1, <2>4, OthersSum
  <2>6. X = RoutedExperts(d) /\ X \in SUBSET Experts /\ IsFiniteSet(X)
    BY SameExperts, DeviceExperts, SystemSize, FS_Subset
  <2>7. \A b \in Batches : g[b] \in Int
    BY <2>1, AtExpertsType
  <2>8. g[b0] = TokensIn(local_num_token_in_expert[b0], X)
    BY <2>1 DEF AtExperts
  <2>9. \A b \in Batches : \A e \in X : own[b][e] \in Int
    BY <2>1, <2>6
  <2>10. \A b \in Batches : SumFunctionOnSet(own[b], X) = g[b]
    <3> SUFFICES ASSUME NEW b \in Batches PROVE SumFunctionOnSet(own[b], X) = g[b]
      OBVIOUS
    <3> DEFINE count == local_num_token_in_expert[b]
    <3>1. /\ \A e \in X : count[e] \in Int
          /\ \A e \in X : own[b][e] = count[e]
          /\ g[b] = SumFunctionOnSet(count, X)
      BY <2>1, <2>6 DEF AtExperts, TokensIn
    <3> HIDE DEF own, X, g, count
    <3> QED BY <2>6, <3>1, SumEqual
  <2>11. \A e \in X : SumFunctionOnSet([b \in Batches |-> own[b][e]], Batches)
                        = AggregateOf(local_num_token_in_expert)[e]
    <3> SUFFICES ASSUME NEW e \in X
                 PROVE  SumFunctionOnSet([b \in Batches |-> own[b][e]], Batches)
                          = AggregateOf(local_num_token_in_expert)[e]
      OBVIOUS
    <3>1. [b \in Batches |-> own[b][e]] = [b \in Batches |-> local_num_token_in_expert[b][e]]
      OBVIOUS
    <3>2. e \in Experts
      BY <2>6
    <3> HIDE DEF own, X
    <3> QED BY <2>1, <3>1, <3>2, AggregateType
  <2> DEFINE total == AggregateOf(local_num_token_in_expert)
             column == [e \in X |-> SumFunctionOnSet([b \in Batches |-> own[b][e]], Batches)]
  <2>12. \A e \in X : total[e] \in Int
    <3>1. total \in [Experts -> Nat]
      BY <2>1, AggregateType
    <3> HIDE DEF total, X
    <3> QED BY <2>6, <3>1
  <2>13. SumFunctionOnSet(column, X) = SumFunctionOnSet(total, X)
    <3>1. \A e \in X : column[e] = total[e]
      BY <2>11
    <3> HIDE DEF column, total, X
    <3> QED BY <2>6, <2>12, <3>1, SumEqual
  <2>14. SumFunctionOnSet([b \in Batches |-> SumFunctionOnSet(own[b], X)], Batches)
           = SumFunctionOnSet(column, X)
    <3>1. IsFiniteSet(Batches) /\ IsFiniteSet(X)
      BY <2>1, <2>6
    <3> HIDE DEF own, X
    <3>2. SumFunctionOnSet([b \in Batches |-> SumFunctionOnSet(own[b], X)], Batches)
            = SumFunctionOnSet([e \in X |-> SumFunctionOnSet([b \in Batches |-> own[b][e]], Batches)], X)
      BY <2>9, <3>1, SumExchange
    <3> QED BY <3>2
  <2>15. [b \in Batches |-> SumFunctionOnSet(own[b], X)] = g
    <3>1. g = [b \in Batches |-> g[b]]
      OBVIOUS
    <3> HIDE DEF own, g, X
    <3> QED BY <2>10, <3>1
  <2> HIDE DEF b0, X, g, own, total, column
  <2>16. SumFunctionOnSet(g, Batches) = g[b0] + SumFunctionOnSet(g, Batches \ {b0})
    BY <2>1, <2>7, SumRemove
  <2>17. TokensIn(num_token_in_expert[b0], X) = SumFunctionOnSet(g, Batches)
    BY <2>3, <2>13, <2>14, <2>15 DEF total, TokensIn
  <2>18. g[b0] \in Int /\ SumFunctionOnSet(g, Batches \ {b0}) \in Int
    <3>1. IsFiniteSet(Batches \ {b0}) /\ \A b \in Batches \ {b0} : g[b] \in Int
      BY <2>1, <2>7, FS_Subset
    <3>2. SumFunctionOnSet(g, Batches \ {b0}) \in Int
      BY <3>1, SumType
    <3> QED BY <2>1, <2>7, <3>2
  <2>19. Received(d) + TokensIn(local_num_token_in_expert[b0], X) = TokensIn(num_token_in_expert[b0], X)
    BY <2>5, <2>8, <2>16, <2>17, <2>18
  <2> QED BY <2>6, <2>19 DEF b0
<1>2. Init => CountInv
  BY CountInit
<1>3. CountInv /\ [Next]_vars => CountInv'
  BY CountStep
<1> QED BY <1>1, <1>2, <1>3, PTL DEF Spec
\* Every batch is held by NeTp devices.
LEMMA BatchDevices ==
  ASSUME NEW b \in Batches
  PROVE  Cardinality({ d \in Devices : BatchOf(d) = b }) = NeTp
<1>1. /\ TotalDevice \in Nat \ {0} /\ NeTp \in Nat \ {0} /\ TotalDevice % NeTp = 0
      /\ TotalDevice \div NeTp \in Nat \ {0} /\ b \in 0 .. (TotalDevice \div NeTp) - 1
  BY SystemSize, ExpertsAssumption DEF Batches
<1> DEFINE first == NeTp * b
<1>2. TotalDevice \in Nat /\ TotalDevice = NeTp * (TotalDevice \div NeTp)
  BY <1>1, Quotient
<1>3. first \in Nat /\ first + NeTp <= TotalDevice
  <2> DEFINE w == TotalDevice \div NeTp
  <2>1. w \in Nat /\ b \in Nat /\ w - (b + 1) \in Nat /\ w = (b + 1) + (w - (b + 1))
    BY <1>1
  <2> HIDE DEF w
  <2>2. NeTp * w = NeTp * (b + 1) + NeTp * (w - (b + 1))
    BY <1>1, <2>1
  <2>3. NeTp * (b + 1) = NeTp * b + NeTp /\ NeTp * (w - (b + 1)) \in Nat /\ NeTp * b \in Nat
    BY <1>1, <2>1
  <2> QED BY <1>1, <1>2, <2>2, <2>3 DEF w
<1>4. ASSUME NEW d \in Devices
      PROVE  BatchOf(d) = b <=> d \in first .. first + NeTp - 1
  <2>1. d \in Nat
    BY <1>1 DEF Devices
  <2>2. d \div NeTp \in Nat /\ d % NeTp \in 0 .. NeTp - 1
        /\ d = NeTp * (d \div NeTp) + (d % NeTp)
    BY <1>1, <2>1, Quotient
  <2>3. CASE BatchOf(d) = b
    <3>1. d = first + (d % NeTp)
      BY <2>2, <2>3 DEF BatchOf
    <3> HIDE DEF first
    <3>2. d \in first .. first + NeTp - 1
      BY <1>1, <1>3, <2>1, <2>2, <3>1
    <3> QED BY <2>3, <3>2
  <2>4. CASE d \in first .. first + NeTp - 1
    <3>1. d - first \in 0 .. NeTp - 1 /\ d = first + (d - first)
      BY <1>1, <1>3, <2>1, <2>4
    <3>2. b \in Nat
      BY <1>1
    <3>3. (NeTp * b + (d - first)) \div NeTp = b
      <4> HIDE DEF first
      <4> QED BY <1>1, <3>1, <3>2, QuotientIs
    <3> QED BY <2>4, <3>1, <3>3 DEF BatchOf
  <2> QED BY <2>3, <2>4
<1>5. first .. first + NeTp - 1 \subseteq Devices
  BY <1>1, <1>3 DEF Devices
<1>6. { d \in Devices : BatchOf(d) = b } = first .. first + NeTp - 1
  <2> HIDE DEF first
  <2> QED BY <1>4, <1>5
<1> DEFINE last == first + NeTp - 1
<1>7. first \in Int /\ last \in Int /\ ~(first > last) /\ last - first + 1 = NeTp
  BY <1>1, <1>3
<1> HIDE DEF first, last
<1>8. Cardinality(first .. last) = NeTp
  BY <1>7, FS_Interval
<1> QED BY <1>6, <1>8 DEF last

\* What the devices send in a scatter is NeTp times what they receive.
THEOREM SentReceivedHolds == Spec => []SentReceived
<1>1. CountInv => SentReceived
  <2> SUFFICES ASSUME CountInv, AllPast(1)
               PROVE  SumFunction([d \in Devices |-> Scattered(d).sent_intra + Scattered(d).sent_inter])
                        = NeTp * SumFunction([d \in Devices |-> Received(d)])
    BY DEF SentReceived
  <2>1. /\ local_num_token_in_expert \in [Batches -> [Experts -> Nat]]
        /\ at \in [Devices -> 0 .. 4 * MoELayers] /\ 4 * MoELayers \in Nat
        /\ \A d \in Devices : BatchOf(d) \in Batches
    BY SystemSize DEF CountInv, TypeOK
  <2>2. ASSUME NEW d \in Devices PROVE Scattered(d) = ScatterOf(d)
    <3>1. at[d] \in Nat /\ at[d] % 4 > 1
      BY <2>1 DEF AllPast
    <3>2. at[d] % 4 \in {2, 3}
      BY <3>1
    <3> QED BY <3>2 DEF CountInv, ScatterKept, Scattered
  \* Tokens of batch b at the experts of device p, if b is not the batch of p.
  <2> DEFINE moved == [b \in Batches |-> [p \in Devices |-> IF BatchOf(p) # b THEN AtExperts(b, p) ELSE 0]]
             leaving == [b \in Batches |-> SumFunctionOnSet(moved[b], Devices)]
             coming == [p \in Devices |-> SumFunctionOnSet([b \in Batches |-> moved[b][p]], Batches)]
             sent == [d \in Devices |-> Scattered(d).sent_intra + Scattered(d).sent_inter]
             received == [d \in Devices |-> Received(d)]
             class == [d \in Devices |-> BatchOf(d)]
  <2>3. \A b \in Batches : \A p \in Devices : moved[b][p] \in Nat
    BY <2>1, AtExpertsType
  <2>4. \A b \in Batches : \A p \in Devices : moved[b][p] \in Int
    BY <2>3
  <2>5. ASSUME NEW d \in Devices PROVE sent[d] = leaving[class[d]]
    <3> DEFINE b == BatchOf(d)
               g == [p \in Devices |-> AtExperts(b, p)]
               A == Devices \ NonExpertGroup(d)
               row == moved[b]
    <3>1. sent[d] = OwnTokens(d, NonExpertGroup(d), TRUE) + OwnTokens(d, NonExpertGroup(d), FALSE)
      <4>1. Scattered(d) = ScatterOf(d)
        BY <2>2
      <4>2. Scattered(d).sent_intra + Scattered(d).sent_inter
              = OwnTokens(d, NonExpertGroup(d), TRUE) + OwnTokens(d, NonExpertGroup(d), FALSE)
        BY <4>1 DEF ScatterOf, Transfer
      <4> QED BY <4>2
    <3>2. sent[d] = SumFunctionOnSet(g, A)
      BY <2>1, <3>1, OwnSum
    <3>3. /\ A \in SUBSET Devices
          /\ \A p \in A : g[p] \in Int
          /\ \A p \in Devices : row[p] = IF p \in A THEN g[p] ELSE 0
      BY <2>1, AtExpertsType DEF NonExpertGroup, BatchOf
    <3>4. leaving[class[d]] = SumFunctionOnSet(row, Devices)
      BY <2>1
    <3> HIDE DEF A, g, row, sent, leaving
    <3>5. SumFunctionOnSet(row, Devices) = SumFunctionOnSet(g, A)
      BY <3>3, SystemSize, SumOver
    <3> QED BY <3>2, <3>4, <3>5
  <2>6. ASSUME NEW p \in Devices PROVE received[p] = coming[p]
    <3> DEFINE g == [b \in Batches |-> AtExperts(b, p)]
               A == Batches \ {BatchOf(p)}
               column == [b \in Batches |-> moved[b][p]]
    <3>1. received[p] = OthersTokens(p, TRUE) + OthersTokens(p, FALSE)
      <4>1. Scattered(p) = ScatterOf(p)
        BY <2>2
      <4>2. Received(p) = OthersTokens(p, TRUE) + OthersTokens(p, FALSE)
        BY <4>1 DEF Received, ScatterOf, Transfer
      <4> QED BY <4>2
    <3>2. received[p] = SumFunctionOnSet(g, A)
      BY <2>1, <3>1, OthersSum
    <3>3. /\ A \in SUBSET Batches
          /\ \A b \in A : g[b] \in Int
          /\ \A b \in Batches : column[b] = IF b \in A THEN g[b] ELSE 0
      BY <2>1, AtExpertsType
    <3>4. coming[p] = SumFunctionOnSet(column, Batches)
      OBVIOUS
    <3> HIDE DEF A, g, column, received, coming
    <3>5. SumFunctionOnSet(column, Batches) = SumFunctionOnSet(g, A)
      BY <3>3, SystemSize, SumOver
    <3> QED BY <3>2, <3>4, <3>5
  <2>7. \A b \in Batches : leaving[b] \in Nat
    <3> SUFFICES ASSUME NEW b \in Batches PROVE SumFunctionOnSet(moved[b], Devices) \in Nat
      OBVIOUS
    <3>1. (\A p \in Devices : moved[b][p] \in Nat) /\ (\A p \in Devices : moved[b][p] \in Int)
      BY <2>3, <2>4
    <3> HIDE DEF moved
    <3> QED BY <3>1, SystemSize, SumType
  <2>8. SumFunctionOnSet(leaving, Batches) = SumFunctionOnSet(coming, Devices)
    <3>1. IsFiniteSet(Batches) /\ IsFiniteSet(Devices)
      BY SystemSize
    <3> HIDE DEF moved
    <3>2. SumFunctionOnSet([b \in Batches |-> SumFunctionOnSet(moved[b], Devices)], Batches)
            = SumFunctionOnSet([p \in Devices |-> SumFunctionOnSet([b \in Batches |-> moved[b][p]], Batches)], Devices)
      BY <2>4, <3>1, SumExchange
    <3> QED BY <3>2
  <2>9. /\ class \in [Devices -> Batches]
        /\ \A b \in Batches : Cardinality({ d \in Devices : class[d] = b }) = NeTp
    <3>1. class \in [Devices -> Batches]
      BY <2>1
    <3>2. ASSUME NEW b \in Batches
          PROVE  Cardinality({ d \in Devices : class[d] = b }) = NeTp
      <4>1. { d \in Devices : class[d] = b } = { d \in Devices : BatchOf(d) = b }
        OBVIOUS
      <4> HIDE DEF class
      <4> QED BY <4>1, BatchDevices
    <3> QED BY <3>1, <3>2
  <2>10. DOMAIN sent = Devices /\ DOMAIN received = Devices
         /\ sent = [d \in Devices |-> sent[d]]
    OBVIOUS
  <2>11. NeTp \in Int /\ IsFiniteSet(Devices) /\ IsFiniteSet(Batches)
    BY SystemSize, ExpertsAssumption
  <2> HIDE DEF moved, leaving, coming, sent, received, class
  <2>12. \A b \in Batches : leaving[b] \in Int
    BY <2>7
  <2>13. SumFunctionOnSet([d \in Devices |-> leaving[class[d]]], Devices)
           = NeTp * SumFunctionOnSet(leaving, Batches)
    BY <2>9, <2>11, <2>12, SumFibers
  <2>14. sent = [d \in Devices |-> leaving[class[d]]]
    BY <2>5, <2>10
  <2>15. \A d \in Devices : sent[d] \in Nat
    BY <2>5, <2>7, <2>9
  <2>16. \A p \in Devices : coming[p] \in Int /\ received[p] \in Nat
    <3>1. ASSUME NEW p \in Devices PROVE coming[p] \in Nat
      <4> DEFINE column == [b \in Batches |-> moved[b][p]]
      <4>1. (\A b \in Batches : column[b] \in Nat) /\ (\A b \in Batches : column[b] \in Int)
        BY <2>3, <2>4
      <4>2. coming[p] = SumFunctionOnSet(column, Batches)
        BY DEF coming
      <4> HIDE DEF column
      <4> QED BY <2>11, <4>1, <4>2, SumType
    <3> QED BY <2>6, <3>1
  <2>17. SumFunctionOnSet(received, Devices) = SumFunctionOnSet(coming, Devices)
    <3>1. \A p \in Devices : coming[p] \in Int
      BY <2>16
    <3> QED BY <2>6, <2>11, <3>1, SumEqual
  <2>18. SumFunction(sent) = SumFunctionOnSet(sent, Devices)
    BY <2>10, <2>11, <2>15, SumOfFunction
  <2>19. SumFunction(received) = SumFunctionOnSet(received, Devices)
    BY <2>10, <2>11, <2>16, SumOfFunction
  <2>20. SumFunction(sent) = NeTp * SumFunction(received)
    BY <2>8, <2>13, <2>14, <2>17, <2>18, <2>19
  <2> QED BY <2>20 DEF sent, received
<1>2. Init => CountInv
  BY CountInit
<1>3. CountInv /\ [Next]_vars => CountInv'
  BY CountStep
<1> QED BY <1>1, <1>2, <1>3, PTL DEF Spec
---------------------------------------------------------------------------
(* The split between the processors.                                       *)

\* The groups of a device: some of its experts each, and no expert in two.
Partition(groups) ==
  /\ IsFiniteSet(groups)
  /\ \A g \in groups : g # {} /\ g \subseteq Experts
  /\ \A g, h \in groups : g # h => g \cap h = {}

LEMMA DeviceGroups ==
  ASSUME NEW d \in Devices
  PROVE  Partition(Groups(RoutedExperts(d)))
<1> DEFINE experts == RoutedExperts(d)
           groups == TotalDevice \div ETp
           each == NumExpert \div groups
           offset == each * (d \div ETp)
           size == GroupSize(Cardinality(experts))
           group(q) == { e \in experts : (e - Min(experts)) \div size = q }
           G == Groups(experts)
<1>1. /\ TotalDevice \in Nat \ {0} /\ ETp \in Nat \ {0} /\ NumExpert \in Nat \ {0}
      /\ TotalDevice % ETp = 0 /\ d \in 0 .. TotalDevice - 1 /\ groups <= NumExpert
      /\ experts \subseteq Experts
  BY SystemSize, DeviceExperts, ExpertsAssumption DEF Devices
<1>2. d \div ETp \in 0 .. groups - 1 /\ groups \in Nat \ {0}
  BY <1>1, WholeGroup
<1> HIDE DEF groups
<1>3. each \in Nat \ {0} /\ offset \in Nat
  <2>1. NumExpert \in Nat
    BY <1>1
  <2>2. /\ each \in Nat /\ NumExpert % groups \in 0 .. groups - 1
        /\ NumExpert = groups * each + (NumExpert % groups)
    BY <1>2, <2>1, Quotient
  <2>3. each # 0
    BY <1>1, <1>2, <2>2
  <2> HIDE DEF each
  <2> QED BY <1>2, <2>2, <2>3
<1>4. experts = offset .. offset + each - 1
  BY DEF RoutedExperts, groups
<1> HIDE DEF each, offset, experts
<1>5. IsFiniteSet(experts) /\ Cardinality(experts) = each
  <2> DEFINE last == offset + each - 1
  <2>1. offset \in Int /\ last \in Int /\ ~(offset > last) /\ last - offset + 1 = each
    BY <1>3
  <2> HIDE DEF last
  <2>2. IsFiniteSet(offset .. last) /\ Cardinality(offset .. last) = each
    BY <2>1, FS_Interval
  <2> QED BY <1>4, <2>2 DEF last
<1>6. Min(experts) = offset
  <2>1. experts # {} /\ experts \subseteq Int /\ offset \in experts /\ \A e \in experts : offset <= e
    BY <1>3, <1>4
  <2>2. Min(experts) \in experts /\ \A e \in experts : Min(experts) <= e
    BY <1>5, <2>1, MinElement
  <2>3. Min(experts) <= offset /\ offset <= Min(experts) /\ Min(experts) \in Int
    BY <2>1, <2>2
  <2> QED BY <1>3, <2>3
<1>7. size \in Nat \ {0}
  <2>1. size = IF each <= 4 THEN 1 ELSE each \div 4
    BY <1>5 DEF GroupSize
  <2> QED BY <1>3, <2>1
<1>8. G = { group(q) : q \in 0 .. (each \div size) - 1 }
  BY <1>5 DEF Groups
<1> HIDE DEF size
<1>9. ASSUME NEW q \in 0 .. (each \div size) - 1 PROVE offset + size * q \in group(q)
  <2>1. /\ each \div size \in Nat /\ each % size \in 0 .. size - 1
        /\ each = size * (each \div size) + (each % size)
    BY <1>3, <1>7, Quotient
  <2>2. q \in Nat /\ (each \div size) - (q + 1) \in Nat
        /\ each \div size = (q + 1) + ((each \div size) - (q + 1))
    BY <2>1
  <2>3. size * (each \div size) = size * (q + 1) + size * ((each \div size) - (q + 1))
    BY <1>7, <2>2
  <2>4. size * (q + 1) = size * q + size /\ size * q \in Nat
        /\ size * ((each \div size) - (q + 1)) \in Nat
    BY <1>7, <2>2
  <2> DEFINE rest == size * ((each \div size) - (q + 1))
             first == size * q
  <2>5. each = first + size + rest + (each % size) /\ first \in Nat /\ rest \in Nat
    BY <2>1, <2>3, <2>4
  <2>6. first < each
    <3> HIDE DEF first, rest
    <3> QED BY <1>3, <1>7, <2>1, <2>5
  <2>7. offset + first \in experts /\ (offset + first) - Min(experts) = first
    <3> HIDE DEF first
    <3> QED BY <1>3, <1>4, <1>6, <2>5, <2>6
  <2>8. first \div size = q
    <3>1. 0 \in 0 .. size - 1 /\ first = size * q + 0
      BY <1>7, <2>4
    <3> HIDE DEF first
    <3> QED BY <1>7, <2>2, <3>1, QuotientIs
  <2> HIDE DEF first
  <2> QED BY <2>7, <2>8 DEF first
<1>10. IsFiniteSet(G)
  <2>1. G \in SUBSET SUBSET Experts
    BY <1>1, <1>8
  <2>2. IsFiniteSet(SUBSET Experts)
    BY SystemSize, FS_SUBSET
  <2> HIDE DEF G
  <2> QED BY <2>1, <2>2, FS_Subset
<1>11. \A g \in G : g # {} /\ g \subseteq Experts
  BY <1>1, <1>8, <1>9
<1>12. \A g, h \in G : g # h => g \cap h = {}
  BY <1>8
<1> QED BY <1>10, <1>11, <1>12 DEF Partition, experts
\* The groups in their order: each has one place, the heavier before the lighter.
LEMMA SortedOrder ==
  ASSUME NEW count \in [Experts -> Nat], NEW groups, Partition(groups)
  PROVE  LET order == Sorted(count, groups)
             n == Cardinality(groups)
         IN  /\ n \in Nat /\ order \in [1 .. n -> groups] /\ Len(order) = n
             /\ \A g \in groups : \E i \in 1 .. n : order[i] = g
             /\ \A i, j \in 1 .. n : i < j => /\ order[i] # order[j]
                                              /\ TokensIn(count, order[i]) >= TokensIn(count, order[j])
<1> DEFINE order == Sorted(count, groups)
           n == Cardinality(groups)
           entry == [g \in groups |-> [group |-> g, tokens |-> TokensIn(count, g)]]
           W == Weighted(count, groups)
           R == { p \in W \X W : Before(p[1], p[2]) }
           place == [a \in W |-> Cardinality({ b \in W : << b, a >> \in R })]
<1>1. IsFiniteSet(groups) /\ n \in Nat
  BY FS_CardinalityType DEF Partition
<1>2. \A g \in groups : Min(g) \in g /\ Min(g) \in Int /\ TokensIn(count, g) \in Nat
  <2> SUFFICES ASSUME NEW g \in groups
               PROVE  Min(g) \in g /\ Min(g) \in Int /\ TokensIn(count, g) \in Nat
    OBVIOUS
  <2>1. g # {} /\ g \in SUBSET Experts
    BY DEF Partition
  <2>2. IsFiniteSet(g)
    BY <2>1, SystemSize, FS_Subset
  <2>4. g \subseteq Int
    BY <2>1, ExpertsAssumption DEF Experts
  <2>3. Min(g) \in g
    BY <2>1, <2>2, <2>4, MinElement
  <2> QED BY <2>1, <2>3, <2>4, TokensInType
<1>3. \A g, h \in groups : g # h => Min(g) # Min(h)
  BY <1>2 DEF Partition
<1>4. /\ entry \in [groups -> W]
      /\ \A a \in W : \E g \in groups : a = entry[g]
      /\ \A g \in groups : entry[g].group = g /\ entry[g].tokens = TokensIn(count, g)
  BY DEF Weighted
<1> HIDE DEF entry, W
<1>5. \A a \in W : a.group \in groups /\ a = entry[a.group] /\ a.tokens = TokensIn(count, a.group)
                   /\ a.tokens \in Nat /\ Min(a.group) \in Int
  BY <1>2, <1>4
<1>6. IsFiniteSet(W) /\ Cardinality(W) = n
  <2>1. \A g, h \in groups : entry[g] = entry[h] => g = h
    BY <1>4
  <2>2. entry \in Bijection(groups, W)
    BY <1>4, <2>1 DEF Bijection, Injection, Surjection, IsInjective
  <2>3. ExistsBijection(groups, W)
    BY <2>2 DEF ExistsBijection
  <2> QED BY <1>1, <2>3, FS_Bijection
<1>7. \A a, b \in W : << a, b >> \in R <=> Before(a, b)
  OBVIOUS
<1>8. \A a \in W : << a, a >> \notin R
  BY <1>5, <1>7 DEF Before
<1>9. \A a, b, c \in W : << a, b >> \in R /\ << b, c >> \in R => << a, c >> \in R
  <2> HIDE DEF R
  <2> SUFFICES ASSUME NEW a \in W, NEW b \in W, NEW c \in W, Before(a, b), Before(b, c)
               PROVE  Before(a, c)
    BY <1>7
  <2>1. /\ a.tokens \in Nat /\ b.tokens \in Nat /\ c.tokens \in Nat
        /\ Min(a.group) \in Int /\ Min(b.group) \in Int /\ Min(c.group) \in Int
    BY <1>5
  <2> QED BY <2>1 DEF Before
<1>10. \A a, b \in W : a # b => << a, b >> \in R \/ << b, a >> \in R
  <2> HIDE DEF R
  <2> SUFFICES ASSUME NEW a \in W, NEW b \in W, a # b PROVE Before(a, b) \/ Before(b, a)
    BY <1>7
  <2>1. /\ a.tokens \in Nat /\ b.tokens \in Nat
        /\ Min(a.group) \in Int /\ Min(b.group) \in Int
    BY <1>5
  <2>2. a.group # b.group
    BY <1>5
  <2>3. Min(a.group) # Min(b.group)
    BY <1>3, <1>5, <2>2
  <2> QED BY <2>1, <2>3 DEF Before
<1>11. /\ \A a \in W : place[a] \in 0 .. n - 1
       /\ \A a, b \in W : << a, b >> \in R <=> place[a] < place[b]
       /\ \A k \in 0 .. n - 1 : \E a \in W : place[a] = k
  <2> HIDE DEF R, n
  <2>1. /\ \A a \in W : place[a] \in 0 .. Cardinality(W) - 1
        /\ \A a, b \in W : << a, b >> \in R <=> place[a] < place[b]
        /\ \A k \in 0 .. Cardinality(W) - 1 : \E a \in W : place[a] = k
    BY <1>6, <1>8, <1>9, <1>10, Ranking
  <2> HIDE DEF place
  <2> QED BY <1>6, <2>1
<1>12. \A a \in W : place[a] = Cardinality({ b \in W : Before(b, a) })
  <2> SUFFICES ASSUME NEW a \in W
               PROVE  Cardinality({ b \in W : << b, a >> \in R }) = Cardinality({ b \in W : Before(b, a) })
    OBVIOUS
  <2>1. { b \in W : << b, a >> \in R } = { b \in W : Before(b, a) }
    BY <1>7
  <2> QED BY <2>1
<1> DEFINE nth(i) == CHOOSE a \in W : Cardinality({ b \in W : Before(b, a) }) = i - 1
<1>13. order = [i \in 1 .. n |-> nth(i).group]
  BY DEF Sorted, W
<1> HIDE DEF place, R, n, order
<1>14. \A i \in 1 .. n : nth(i) \in W /\ place[nth(i)] = i - 1
  <2> SUFFICES ASSUME NEW i \in 1 .. n PROVE nth(i) \in W /\ place[nth(i)] = i - 1
    OBVIOUS
  <2>1. i - 1 \in 0 .. n - 1
    BY <1>1
  <2>2. \E a \in W : Cardinality({ b \in W : Before(b, a) }) = i - 1
    BY <1>11, <1>12, <2>1
  <2>3. nth(i) \in W /\ Cardinality({ b \in W : Before(b, nth(i)) }) = i - 1
    BY <2>2
  <2> HIDE DEF nth
  <2> QED BY <1>12, <2>3
<1> HIDE DEF nth
<1>15. order \in [1 .. n -> groups] /\ Len(order) = n
  <2>1. order \in [1 .. n -> groups]
    BY <1>5, <1>13, <1>14
  <2>2. Len(order) = n
    BY <1>1, <1>13
  <2> QED BY <2>1, <2>2
<1>16. \A a, b \in W : place[a] = place[b] => a = b
  <2> SUFFICES ASSUME NEW a \in W, NEW b \in W, place[a] = place[b], a # b PROVE FALSE
    OBVIOUS
  <2>1. place[a] < place[b] \/ place[b] < place[a]
    BY <1>10, <1>11
  <2>2. place[a] \in 0 .. n - 1 /\ place[b] \in 0 .. n - 1
    BY <1>11
  <2> QED BY <1>1, <2>1, <2>2
<1>17. \A g \in groups : \E i \in 1 .. n : order[i] = g
  <2> SUFFICES ASSUME NEW g \in groups PROVE \E i \in 1 .. n : order[i] = g
    OBVIOUS
  <2>1. entry[g] \in W /\ place[entry[g]] \in 0 .. n - 1
    BY <1>4, <1>11
  <2>2. place[entry[g]] + 1 \in 1 .. n /\ (place[entry[g]] + 1) - 1 = place[entry[g]]
    BY <1>1, <2>1
  <2>3. nth(place[entry[g]] + 1) = entry[g]
    BY <1>14, <1>16, <2>1, <2>2
  <2>4. order[place[entry[g]] + 1] = g
    BY <1>4, <1>13, <2>2, <2>3
  <2> QED BY <2>2, <2>4
<1>18. ASSUME NEW i \in 1 .. n, NEW j \in 1 .. n, i < j
       PROVE  order[i] # order[j] /\ TokensIn(count, order[i]) >= TokensIn(count, order[j])
  <2>1. place[nth(i)] < place[nth(j)]
    BY <1>1, <1>14, <1>18
  <2>2. Before(nth(i), nth(j))
    BY <1>7, <1>11, <1>14, <2>1
  <2>3. nth(i) \in W /\ nth(j) \in W /\ order[i] = nth(i).group /\ order[j] = nth(j).group
    BY <1>13, <1>14
  <2>4. nth(i).tokens >= nth(j).tokens
    BY <1>5, <2>2, <2>3 DEF Before
  <2>5. nth(i) # nth(j)
    BY <1>8, <1>7, <2>2, <2>3
  <2> QED BY <1>5, <2>3, <2>4, <2>5
<1> QED BY <1>1, <1>15, <1>17, <1>18 DEF order, n
\* Where the times first stop falling they never fall below again: then the loop ends
\* at the least of them.
LEMMA BestSplit ==
  ASSUME NEW n \in Nat, NEW time \in [0 .. n -> Int],
         \A i, j \in 0 .. n : i < j /\ time[i] <= time[i + 1] => time[i] <= time[j]
  PROVE  Taken(time) \in 0 .. n /\ \A m \in 0 .. n : time[Taken(time)] <= time[m]
<1> DEFINE falling == { k \in 0 .. n : \A i \in 1 .. k : time[i] < time[i - 1] }
           T == Taken(time)
<1>1. falling \subseteq 0 .. n /\ falling \subseteq Int /\ 0 \in falling
  OBVIOUS
<1>2. IsFiniteSet(falling)
  <2>1. IsFiniteSet(0 .. n)
    BY FS_Interval
  <2> HIDE DEF falling
  <2> QED BY <1>1, <2>1, FS_Subset
<1>3. T = Max(falling)
  BY DEF Taken
<1>4. T \in falling /\ \A k \in falling : k <= T
  <2> HIDE DEF falling, T
  <2> QED BY <1>1, <1>2, <1>3, MaxElement
<1>5. T \in 0 .. n /\ \A i \in 1 .. T : time[i] < time[i - 1]
  <2> HIDE DEF T
  <2> QED BY <1>4
<1> HIDE DEF T
<1>6. ASSUME NEW m \in 0 .. n, m > T PROVE time[T] <= time[m]
  <2>1. T + 1 \in 0 .. n /\ T + 1 \notin falling
    <3>1. T + 1 \in 0 .. n /\ ~ (T + 1 <= T)
      BY <1>5, <1>6
    <3> HIDE DEF falling
    <3> QED BY <1>4, <3>1
  <2>2. PICK i \in 1 .. T + 1 : ~ (time[i] < time[i - 1])
    BY <2>1
  <2>3. i = T + 1
    BY <1>5, <2>2
  <2>4. time[T] <= time[T + 1]
    <3>1. time[T] \in Int /\ time[T + 1] \in Int /\ i - 1 = T
      BY <1>5, <2>1, <2>3
    <3>2. ~ (time[T + 1] < time[T])
      BY <2>2, <2>3, <3>1
    <3> QED BY <3>1, <3>2
  <2> QED BY <1>5, <1>6, <2>4
<1>7. ASSUME NEW m \in 0 .. n, m <= T PROVE time[T] <= time[m]
  <2> DEFINE S == 0 .. T
             f == [i \in S |-> 0 - time[i]]
  <2>1. S # {} /\ \A i \in S : f[i] \in Int
    <3>1. 0 \in S /\ S \subseteq 0 .. n
      BY <1>5
    <3>2. \A i \in S : time[i] \in Int
      BY <3>1
    <3> QED BY <3>1, <3>2
  <2>2. IsFiniteSet(S)
    BY <1>5, FS_Interval
  <2>3. PICK x \in S : \A y \in S : f[y] <= f[x]
    <3> HIDE DEF S, f
    <3> QED BY <2>1, <2>2, GreatestValue
  <2>4. \A y \in S : time[x] <= time[y]
    <3> SUFFICES ASSUME NEW y \in S PROVE time[x] <= time[y]
      OBVIOUS
    <3>1. time[x] \in Int /\ time[y] \in Int /\ 0 - time[y] <= 0 - time[x]
      BY <1>5, <2>3
    <3> QED BY <3>1
  <2>5. x = T
    <3> SUFFICES ASSUME x # T PROVE FALSE
      OBVIOUS
    <3>1. x + 1 \in 1 .. T /\ x + 1 \in S /\ (x + 1) - 1 = x
      BY <1>5
    <3>2. time[x + 1] < time[x] /\ time[x] <= time[x + 1]
      BY <1>5, <2>4, <3>1
    <3>3. time[x] \in Int /\ time[x + 1] \in Int
      BY <1>5, <3>1
    <3> QED BY <3>2, <3>3
  <2>6. m \in S
    BY <1>5, <1>7
  <2> QED BY <2>4, <2>5, <2>6
<1>8. \A m \in 0 .. n : m > T \/ m <= T
  BY <1>5
<1> QED BY <1>5, <1>6, <1>7, <1>8 DEF T

\* The greater of two.
LEMMA MaxOfTwo ==
  ASSUME NEW a \in Int, NEW b \in Int
  PROVE  Max({a, b}) = IF a >= b THEN a ELSE b
<1>1. CASE a >= b
  <2>1. {a, b} \subseteq Int /\ a \in {a, b} /\ \A x \in {a, b} : x <= a
    BY <1>1
  <2>2. Max({a, b}) = a
    BY <2>1, MaxIs
  <2> QED BY <1>1, <2>2
<1>2. CASE ~ (a >= b)
  <2>1. {a, b} \subseteq Int /\ b \in {a, b} /\ \A x \in {a, b} : x <= b
    BY <1>2
  <2>2. Max({a, b}) = b
    BY <2>1, MaxIs
  <2> QED BY <1>2, <2>2
<1> QED BY <1>1, <1>2

\* An expert takes time on either processor.
LEMMA ExpertTimes ==
  ASSUME NEW t \in Nat
  PROVE  HighTime(t) \in Nat \ {0} /\ LowTime(t) \in Nat \ {0}
<1>1. /\ HighOpB \in Nat \ {0} /\ LowOpB \in Nat \ {0} /\ LogicX \in Nat \ {0}
  BY ExpertsAssumption
<1>2. Max({HighOpB, t}) \in Nat \ {0} /\ Max({LowOpB, t}) \in Nat \ {0}
  BY <1>1, MaxOfTwo
<1>3. \A a, b \in Nat \ {0} : a * b \in Nat \ {0}
  OBVIOUS
<1>4. Max({HighOpB, t}) * LowOpB \in Nat \ {0} /\ Max({LowOpB, t}) * HighOpB \in Nat \ {0}
  BY <1>1, <1>2, <1>3
<1>5. (Max({HighOpB, t}) * LowOpB) * LogicX \in Nat \ {0}
  BY <1>1, <1>3, <1>4
<1> QED BY <1>4, <1>5 DEF HighTime, LowTime
\* The times of the two processors: as more groups go to the high one its own time never
\* falls and that of the low one falls.  So the longer of them, once it does not fall,
\* never falls below where it was.
LEMMA SplitValley ==
  ASSUME NEW count \in [Experts -> Nat], NEW groups, Partition(groups)
  PROVE  LET n == Cardinality(groups)
             time == SplitTimes(count, Sorted(count, groups))
         IN  /\ n \in Nat /\ time \in [0 .. n -> Int]
             /\ \A i, j \in 0 .. n : i < j /\ time[i] <= time[i + 1] => time[i] <= time[j]
<1> DEFINE n == Cardinality(groups)
           order == Sorted(count, groups)
           time == SplitTimes(count, order)
           first(i) == UNION { order[k] : k \in 1 .. i }
           rest(i) == UNION { order[k] : k \in i + 1 .. n }
           high == [e \in Experts |-> HighTime(count[e])]
           low == [e \in Experts |-> LowTime(count[e])]
           H(i) == SumFunctionOnSet(high, first(i))
           L(i) == SumFunctionOnSet(low, rest(i))
<1>1. /\ n \in Nat /\ order \in [1 .. n -> groups] /\ Len(order) = n
      /\ \A i, j \in 1 .. n : i < j => order[i] # order[j]
  BY SortedOrder
<1>2. time = [i \in 0 .. n |->
                Max({ SumFunction([e \in first(i) |-> HighTime(count[e])]),
                      SumFunction([e \in rest(i) |-> LowTime(count[e])]) })]
  BY <1>1 DEF SplitTimes
<1> HIDE DEF n, order, time
<1>3. /\ \A k \in 1 .. n : order[k] # {} /\ order[k] \subseteq Experts
      /\ \A i, j \in 1 .. n : i < j => order[i] \cap order[j] = {}
  BY <1>1 DEF Partition
<1>4. \A e \in Experts : high[e] \in Nat \ {0} /\ low[e] \in Nat \ {0}
  BY ExpertTimes
<1>5. IsFiniteSet(Experts)
  BY SystemSize
<1>6. ASSUME NEW i \in 0 .. n
      PROVE  /\ first(i) \in SUBSET Experts /\ rest(i) \in SUBSET Experts
             /\ IsFiniteSet(first(i)) /\ IsFiniteSet(rest(i))
  <2>1. first(i) \in SUBSET Experts /\ rest(i) \in SUBSET Experts
    BY <1>1, <1>3
  <2> HIDE DEF first, rest
  <2> QED BY <1>5, <2>1, FS_Subset
<1> HIDE DEF first, rest
<1>7. ASSUME NEW i \in 0 .. n
      PROVE  /\ H(i) \in Nat /\ L(i) \in Nat
             /\ time[i] = Max({H(i), L(i)})
  <2> DEFINE f == [e \in first(i) |-> HighTime(count[e])]
             g == [e \in rest(i) |-> LowTime(count[e])]
  <2>1. /\ first(i) \subseteq Experts /\ rest(i) \subseteq Experts
        /\ IsFiniteSet(first(i)) /\ IsFiniteSet(rest(i))
    BY <1>6
  <2>2. /\ \A e \in first(i) : high[e] \in Int
        /\ \A e \in first(i) : high[e] \in Nat
        /\ \A e \in rest(i) : low[e] \in Int
        /\ \A e \in rest(i) : low[e] \in Nat
        /\ \A e \in first(i) : f[e] = high[e]
        /\ \A e \in rest(i) : g[e] = low[e]
        /\ \A e \in first(i) : f[e] \in Nat
        /\ \A e \in rest(i) : g[e] \in Nat
        /\ DOMAIN f = first(i) /\ DOMAIN g = rest(i)
    <3>1. /\ \A e \in first(i) : high[e] \in Nat /\ f[e] = high[e]
          /\ \A e \in rest(i) : low[e] \in Nat /\ g[e] = low[e]
      BY <1>4, <2>1
    <3>2. DOMAIN f = first(i) /\ DOMAIN g = rest(i)
      OBVIOUS
    <3> HIDE DEF f, g, high, low
    <3> QED BY <3>1, <3>2
  <2>3. time[i] = Max({SumFunction(f), SumFunction(g)})
    BY <1>2
  <2> HIDE DEF f, g, high, low
  <2>4. SumFunction(f) = SumFunctionOnSet(f, first(i))
    BY <2>1, <2>2, SumOfFunction
  <2>5. SumFunction(g) = SumFunctionOnSet(g, rest(i))
    BY <2>1, <2>2, SumOfFunction
  <2>6. SumFunctionOnSet(f, first(i)) = H(i)
    BY <2>1, <2>2, SumEqual
  <2>7. SumFunctionOnSet(g, rest(i)) = L(i)
    BY <2>1, <2>2, SumEqual
  <2>8. H(i) \in Nat
    BY <2>1, <2>2, SumType
  <2>9. L(i) \in Nat
    BY <2>1, <2>2, SumType
  <2> QED BY <2>3, <2>4, <2>5, <2>6, <2>7, <2>8, <2>9
<1>8. ASSUME NEW i \in 0 .. n, NEW j \in 0 .. n, i <= j PROVE H(i) <= H(j)
  <2>1. first(i) \in SUBSET first(j)
    <3>1. 1 .. i \subseteq 1 .. j
      BY <1>1, <1>8
    <3> QED BY <3>1 DEF first
  <2>2. IsFiniteSet(first(j)) /\ \A e \in first(j) : high[e] \in Nat
    <3>1. first(j) \subseteq Experts /\ IsFiniteSet(first(j))
      BY <1>6
    <3> HIDE DEF high
    <3> QED BY <1>4, <3>1
  <2> HIDE DEF high
  <2> QED BY <2>1, <2>2, SumPart
<1>9. ASSUME NEW i \in 0 .. n, i < n PROVE L(i + 1) < L(i)
  <2> DEFINE A == order[i + 1]
             B == rest(i + 1)
  <2>1. i + 1 \in 1 .. n /\ i + 1 \in 0 .. n
    BY <1>1, <1>9
  <2>2. A # {} /\ A \subseteq Experts /\ B \subseteq Experts /\ IsFiniteSet(B)
    BY <1>3, <1>6, <2>1
  <2>3. rest(i) = B \cup A
    <3>1. \A k : k \in i + 1 .. n <=> k = i + 1 \/ k \in (i + 1) + 1 .. n
      BY <1>1, <2>1
    <3> QED BY <3>1 DEF rest
  <2>4. B \cap A = {}
    <3> SUFFICES ASSUME NEW e \in A, e \in B PROVE FALSE
      OBVIOUS
    <3>1. PICK k \in (i + 1) + 1 .. n : e \in order[k]
      BY DEF rest
    <3>2. k \in 1 .. n /\ i + 1 < k
      BY <1>1, <2>1
    <3> QED BY <1>3, <2>1, <3>1, <3>2
  <2>5. IsFiniteSet(A)
    BY <1>5, <2>2, FS_Subset
  <2>6. PICK e : e \in A
    BY <2>2
  <2>7. /\ \A x \in A : low[x] \in Int
        /\ \A x \in A : low[x] \in Nat
        /\ \A x \in B : low[x] \in Int
        /\ \A x \in B : low[x] \in Nat
        /\ low[e] \in Nat \ {0} /\ low[e] \in Int
    <3>1. A \subseteq Experts /\ B \subseteq Experts /\ e \in Experts
      BY <2>2, <2>6
    <3> HIDE DEF low, A, B
    <3> QED BY <1>4, <3>1
  <2> HIDE DEF A, B, low
  <2>8. SumFunctionOnSet(low, B \cup A) = SumFunctionOnSet(low, B) + SumFunctionOnSet(low, A)
    BY <2>2, <2>4, <2>5, <2>7, SumUnion
  <2>9. {e} \in SUBSET A /\ SumFunctionOnSet(low, {e}) = low[e]
    BY <2>6, <2>7, SumSingle
  <2>10. SumFunctionOnSet(low, {e}) <= SumFunctionOnSet(low, A)
    BY <2>5, <2>7, <2>9, SumPart
  <2>11. SumFunctionOnSet(low, A) \in Nat /\ SumFunctionOnSet(low, B) \in Nat
    BY <2>2, <2>5, <2>7, SumType
  <2>12. SumFunctionOnSet(low, B) < SumFunctionOnSet(low, B \cup A)
    BY <2>7, <2>8, <2>9, <2>10, <2>11
  <2> QED BY <2>3, <2>12 DEF B
<1> HIDE DEF H, L
<1>10. \A i \in 0 .. n : /\ time[i] \in Int /\ H(i) \in Nat /\ L(i) \in Nat
                         /\ time[i] = IF H(i) >= L(i) THEN H(i) ELSE L(i)
  <2> SUFFICES ASSUME NEW i \in 0 .. n
               PROVE  /\ time[i] \in Int /\ H(i) \in Nat /\ L(i) \in Nat
                      /\ time[i] = IF H(i) >= L(i) THEN H(i) ELSE L(i)
    OBVIOUS
  <2>1. H(i) \in Nat /\ L(i) \in Nat /\ time[i] = Max({H(i), L(i)})
    BY <1>7
  <2>2. H(i) \in Int /\ L(i) \in Int
    BY <2>1
  <2>3. Max({H(i), L(i)}) = IF H(i) >= L(i) THEN H(i) ELSE L(i)
    BY <2>2, MaxOfTwo
  <2> QED BY <2>1, <2>2, <2>3
<1>11. time \in [0 .. n -> Int]
  <2>1. time = [i \in 0 .. n |-> time[i]]
    BY <1>2
  <2> QED BY <1>10, <2>1
<1>12. ASSUME NEW i \in 0 .. n, NEW j \in 0 .. n, i < j, time[i] <= time[i + 1]
       PROVE  time[i] <= time[j]
  <2>1. i + 1 \in 0 .. n /\ i < n /\ i + 1 <= j
    BY <1>1, <1>12
  <2>2. L(i + 1) < L(i) /\ H(i + 1) <= H(j)
    BY <1>8, <1>9, <2>1
  <2>3. /\ time[i] = IF H(i) >= L(i) THEN H(i) ELSE L(i)
        /\ time[i + 1] = IF H(i + 1) >= L(i + 1) THEN H(i + 1) ELSE L(i + 1)
        /\ time[j] = IF H(j) >= L(j) THEN H(j) ELSE L(j)
        /\ H(i) \in Nat /\ L(i) \in Nat /\ H(i + 1) \in Nat /\ L(i + 1) \in Nat
        /\ H(j) \in Nat /\ L(j) \in Nat
    BY <1>10, <2>1
  <2> QED BY <1>12, <2>2, <2>3
<1> QED BY <1>1, <1>11, <1>12 DEF n, time, order
\* The experts of the first n groups, and the groups among some experts.
FirstOf(order, n) == UNION { order[i] : i \in 1 .. n }
Inside(groups, experts) == { g \in groups : g \subseteq experts }

\* The groups within the union of the first T of them are these T.
LEMMA FirstGroups ==
  ASSUME NEW count \in [Experts -> Nat], NEW groups, Partition(groups),
         NEW T \in 0 .. Cardinality(groups)
  PROVE  LET order == Sorted(count, groups)
             high == FirstOf(order, T)
             moved == Inside(groups, high)
         IN  /\ high = UNION moved /\ Cardinality(moved) = T
             /\ \A g \in moved, h \in groups \ moved : TokensIn(count, g) >= TokensIn(count, h)
<1> DEFINE n == Cardinality(groups)
           order == Sorted(count, groups)
           high == UNION { order[i] : i \in 1 .. T }
           moved == { g \in groups : g \subseteq high }
<1>1. /\ n \in Nat /\ order \in [1 .. n -> groups]
      /\ \A g \in groups : \E i \in 1 .. n : order[i] = g
      /\ \A i, j \in 1 .. n : i < j => /\ order[i] # order[j]
                                       /\ TokensIn(count, order[i]) >= TokensIn(count, order[j])
  BY SortedOrder
<1>2. T \in Nat /\ T <= n /\ \A i \in 1 .. T : i \in 1 .. n
  BY <1>1
<1> HIDE DEF n, order
<1>3. \A i, j \in 1 .. n : order[i] = order[j] => i = j
  <2> SUFFICES ASSUME NEW i \in 1 .. n, NEW j \in 1 .. n, order[i] = order[j], i # j PROVE FALSE
    OBVIOUS
  <2>1. i < j \/ j < i
    OBVIOUS
  <2> QED BY <1>1, <2>1
<1>4. ASSUME NEW i \in 1 .. n, order[i] \in moved PROVE i \in 1 .. T
  <2>1. order[i] \in groups /\ order[i] # {} /\ order[i] \subseteq high
    BY <1>1, <1>4 DEF Partition
  <2>2. PICK e \in order[i] : \E k \in 1 .. T : e \in order[k]
    BY <2>1
  <2>3. PICK k \in 1 .. T : e \in order[k]
    BY <2>2
  <2>4. k \in 1 .. n /\ order[k] \in groups
    BY <1>1, <1>2
  <2>5. order[i] = order[k]
    BY <2>1, <2>3, <2>4 DEF Partition
  <2>6. i = k
    BY <1>3, <2>4, <2>5
  <2> QED BY <2>6
<1>5. \A i \in 1 .. T : order[i] \in moved
  BY <1>1, <1>2
<1> HIDE DEF moved
<1>6. \A g \in moved : g \in groups /\ \E i \in 1 .. T : order[i] = g
  <2> SUFFICES ASSUME NEW g \in moved PROVE g \in groups /\ \E i \in 1 .. T : order[i] = g
    OBVIOUS
  <2>1. g \in groups
    BY DEF moved
  <2>2. PICK i \in 1 .. n : order[i] = g
    BY <1>1, <2>1
  <2>3. i \in 1 .. T
    BY <1>4, <2>2
  <2> QED BY <2>1, <2>2, <2>3
<1>7. high = UNION moved
  BY <1>5, <1>6
<1>8. Cardinality(moved) = T
  <2> DEFINE f == [i \in 1 .. T |-> order[i]]
  <2>1. f \in [1 .. T -> moved] /\ \A g \in moved : \E i \in 1 .. T : f[i] = g
    BY <1>5, <1>6
  <2>2. \A i, j \in 1 .. T : f[i] = f[j] => i = j
    BY <1>2, <1>3
  <2>3. f \in Bijection(1 .. T, moved)
    BY <2>1, <2>2 DEF Bijection, Injection, Surjection, IsInjective
  <2>4. ExistsBijection(1 .. T, moved)
    BY <2>3 DEF ExistsBijection
  <2>5. IsFiniteSet(1 .. T) /\ Cardinality(1 .. T) = T
    <3>1. 1 \in Int /\ T \in Int
      BY <1>2
    <3>2. IsFiniteSet(1 .. T) /\ Cardinality(1 .. T) = IF 1 > T THEN 0 ELSE T - 1 + 1
      BY <3>1, FS_Interval
    <3> QED BY <1>2, <3>2
  <2> QED BY <2>4, <2>5, FS_Bijection
<1>9. ASSUME NEW g \in moved, NEW h \in groups \ moved PROVE TokensIn(count, g) >= TokensIn(count, h)
  <2>1. PICK i \in 1 .. T : order[i] = g
    BY <1>6
  <2>2. PICK j \in 1 .. n : order[j] = h
    BY <1>1
  <2>3. ~ (j \in 1 .. T)
    BY <1>5, <2>2
  <2>4. i \in 1 .. n /\ i < j
    BY <1>2, <2>3
  <2> QED BY <1>1, <2>1, <2>2, <2>4
<1> QED BY <1>7, <1>8, <1>9 DEF moved, order, FirstOf, Inside

\* What Route gives to the high processor of a device: the groups it should.
LEMMA BestGroups ==
  ASSUME NEW count \in [Experts -> Nat], NEW d \in Devices
  PROVE  LET groups == Groups(RoutedExperts(d))
             high == getIdxHigh(count, RoutedExperts(d))
             moved == Inside(groups, high)
             time == SplitTimes(count, Sorted(count, groups))
         IN  /\ high \subseteq Experts /\ high = UNION moved
             /\ \A g \in moved, h \in groups \ moved : TokensIn(count, g) >= TokensIn(count, h)
             /\ \A n \in DOMAIN time : time[Cardinality(moved)] <= time[n]
<1> DEFINE groups == Groups(RoutedExperts(d))
           order == Sorted(count, groups)
           time == SplitTimes(count, order)
           n == Cardinality(groups)
           T == Taken(time)
           high == FirstOf(order, T)
           moved == Inside(groups, high)
<1>1. getIdxHigh(count, RoutedExperts(d)) = high
  BY DEF getIdxHigh, FirstOf
<1> HIDE DEF groups
<1>2. Partition(groups)
  BY DeviceGroups DEF groups
<1>3. /\ n \in Nat /\ time \in [0 .. n -> Int]
      /\ \A i, j \in 0 .. n : i < j /\ time[i] <= time[i + 1] => time[i] <= time[j]
  BY <1>2, SplitValley
<1> HIDE DEF time, n
<1>4. T \in 0 .. n /\ \A m \in 0 .. n : time[T] <= time[m]
  BY <1>3, BestSplit
<1> HIDE DEF T
<1>5. T \in 0 .. Cardinality(groups)
  BY <1>4 DEF n
<1>6. /\ high = UNION moved /\ Cardinality(moved) = T
      /\ \A g \in moved, h \in groups \ moved : TokensIn(count, g) >= TokensIn(count, h)
  BY <1>2, <1>5, FirstGroups
<1> HIDE DEF order, high
<1>10. moved = Inside(groups, high)
  OBVIOUS
<1>7. high \subseteq Experts
  <2>1. \A g \in moved : g \subseteq Experts
    BY <1>2 DEF Partition, Inside
  <2> HIDE DEF moved
  <2> QED BY <1>6, <2>1
<1>8. DOMAIN time = 0 .. n
  BY <1>3
<1>9. \A m \in DOMAIN time : time[Cardinality(moved)] <= time[m]
  BY <1>4, <1>6, <1>8
<1> HIDE DEF moved
<1>11. /\ getIdxHigh(count, RoutedExperts(d)) = high
       /\ moved = Inside(groups, high)
       /\ time = SplitTimes(count, Sorted(count, groups))
       /\ groups = Groups(RoutedExperts(d))
  BY <1>1, <1>10 DEF groups, time, order
<1> QED BY <1>6, <1>7, <1>9, <1>11
\* Stopping at the first group that does not shorten the time misses nothing: in every
\* step of Route the groups on the high processor are no lighter than those that stay,
\* and no other number of groups, taken by weight, finishes earlier.
THEOREM SplitOptimalHolds == Spec => SplitOptimal
<1> DEFINE Split(d) ==
      LET count == num_token_in_expert[BatchOf(d)]
          groups == Groups(RoutedExperts(d))
          moved == { g \in groups : g \subseteq HighOf(d)' }
          time == SplitTimes(count, Sorted(count, groups))
      IN
      unit = "parallel" /\ at'[d] % 4 = 3 /\ at'[d] # at[d] =>
        /\ HighOf(d)' = UNION moved
        /\ \A g \in moved, h \in groups \ moved : TokensIn(count, g) >= TokensIn(count, h)
        /\ \A n \in DOMAIN time : time[Cardinality(moved)] <= time[n]
<1>1. TypeOK /\ [Next]_vars => [\A d \in Devices : Split(d)]_vars
  <2> SUFFICES ASSUME TypeOK, Next, NEW d \in Devices,
                      unit = "parallel", at'[d] % 4 = 3, at'[d] # at[d]
               PROVE  Split(d)
    OBVIOUS
  <2>1. Route(d)
    <3>1. ASSUME NEW e \in Devices, NEW n \in {0, 1, 3}, Stage(e, n), Done(e) PROVE FALSE
      <4>1. /\ at[e] \in Nat /\ at[e] % 4 = n /\ at'[e] = at[e] + 1
            /\ \A f \in Devices \ {e} : at'[f] = at[f]
        BY <3>1, StageStep
      <4>2. e = d
        BY <4>1
      <4>3. at[d] \in Nat /\ (at[d] + 1) % 4 = 3 /\ at[d] % 4 = n
        BY <4>1, <4>2
      <4> QED BY <4>3
    <3>2. ASSUME NEW e \in Devices, Route(e) PROVE e = d
      <4>1. \A f \in Devices \ {e} : at'[f] = at[f]
        BY <3>2, StageStep DEF Route
      <4> QED BY <4>1
    <3>3. ~ NextIteration
      <4>1. NextIteration => at'[d] = 0
        BY DEF NextIteration
      <4> QED BY <4>1
    <3>4. \A e \in Devices : ~ GateUpdate(e) /\ ~ MoEScatter(e) /\ ~ MoEGather(e)
      BY <3>1 DEF GateUpdate, MoEScatter, MoEGather
    <3> QED BY <3>2, <3>3, <3>4 DEF Next
  <2> DEFINE count == num_token_in_expert[BatchOf(d)]
             high == getIdxHigh(count, RoutedExperts(d))
  <2>2. count \in [Experts -> Nat]
    BY SystemSize DEF TypeOK
  <2>3. lane' = [lane EXCEPT ![d] = [e \in Experts |-> IF e \in high THEN "high" ELSE "low"]]
    BY <2>1 DEF Route
  <2>4. lane \in [Devices -> [Experts -> {"none", "high", "low", "optimal"}]]
    BY DEF TypeOK
  <2> HIDE DEF count
  <2>5. high \subseteq Experts
    BY <2>2, BestGroups
  <2> HIDE DEF high
  <2>6. HighOf(d)' = high
    <3>1. \A e \in Experts : lane'[d][e] = IF e \in high THEN "high" ELSE "low"
      BY <2>3, <2>4
    <3>2. HighOf(d)' = { e \in Experts : lane'[d][e] = "high" }
      BY DEF HighOf, Experts
    <3> QED BY <2>5, <3>1, <3>2
  <2> QED BY <2>2, <2>6, BestGroups DEF count, high, Inside
<1>2. Spec => []TypeOK
  BY ExpertTypeCorrect
<1>3. SplitOptimal <=> [][\A d \in Devices : Split(d)]_vars
  BY DEF SplitOptimal
<1> QED BY <1>1, <1>2, <1>3, PTL DEF Spec
=============================================================================
