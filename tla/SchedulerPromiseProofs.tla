-------------------------- MODULE SchedulerPromiseProofs --------------------------
(***************************************************************************)
(* What the scheduler promises: its batches fit the memory that            *)
(* Cluster::checkMemorySize counted, for every machine, and it implements  *)
(* RequestLifeCycle, for every configuration that leaves requests          *)
(* something to do.                                                        *)
(***************************************************************************)
EXTENDS SchedulerLifeCycle, MemoryBudget, SchedulerProofs

---------------------------------------------------------------------------
(* What the check leaves.                                                  *)

\* An integer division rounds down.
LEMMA QuotientBounds ==
  ASSUME NEW n \in Int, NEW m \in Nat \ {0}
  PROVE  n \div m \in Int /\ m * (n \div m) <= n /\ n < m * (n \div m) + m
         /\ (n \in Nat => n \div m \in Nat)
<1> DEFINE q == n \div m
           r == n % m
<1>1. q \in Int /\ r \in 0 .. m - 1 /\ n = m * q + r
  OBVIOUS
<1> HIDE DEF q, r
<1>2. n \in Nat => q \in Nat
  <2> SUFFICES ASSUME n \in Nat, q <= -1 PROVE FALSE
    BY <1>1
  <2>1. m * q <= -m
    BY <1>1
  <2> QED BY <1>1, <2>1
<1>3. m * q \in Int
  BY <1>1
<1> QED BY <1>1, <1>2, <1>3 DEF q

LEMMA WrappedType ==
  ASSUME NEW n \in Int
  PROVE  Int32(n) \in Int
<1>1. IntLimit \in Nat \ {0} /\ n + IntLimit \in Int /\ 2 * IntLimit \in Nat \ {0}
  BY MemoryAssumption
<1>2. (n + IntLimit) % (2 * IntLimit) \in Int
  BY <1>1
<1> QED BY <1>1, <1>2 DEF Int32

\* A machine by its fields.
LEMMA Fields ==
  ASSUME NEW c, Machine(c)
  PROVE  /\ {c.num_layers, c.ne_tp_dg, c.num_total_device} \subseteq Nat \ {0}
         /\ {c.hidden_dim, c.head_dim, c.num_heads, c.num_kv_heads, c.e_tp_dg,
             c.num_routed_expert, c.input_len, c.output_len, c.precision_byte, c.q_lora_rank,
             c.kv_lora_rank, c.qk_rope_head_dim, c.expert_intermediate_dim,
             c.num_shared_expert, c.expert_freq, c.top_k, c.act, c.weight, c.max_batch_size,
             c.memory_capacity} \subseteq Nat
         /\ {c.exit_out_of_memory, c.mem_cap_limit, c.decode_mode, c.use_absorb,
             c.compressed_kv} \subseteq BOOLEAN
         /\ c.expert_freq = 0 \/ c.num_routed_expert > 0
BY DEF Machine, Divisor, Amount, Switch
LEMMA RowsType ==
  ASSUME NEW c, Machine(c), dp_degree(c) \in Nat \ {0}
  PROVE  /\ batch_size_per_dp(c) \in Nat /\ total_len(c) \in Nat
         /\ Rows(c) \in Nat /\ ScoreLen(c) \in Nat /\ ExpertRows(c) \in Nat
         /\ ExpertsPerDevice(c) \in Nat
<1>1. /\ {c.max_batch_size, c.input_len, c.output_len, c.top_k, c.num_routed_expert, c.e_tp_dg,
          c.num_shared_expert, c.expert_freq} \subseteq Nat
      /\ c.num_total_device \in Nat \ {0}
      /\ c.expert_freq = 0 \/ c.num_routed_expert > 0
  BY Fields
<1>2. batch_size_per_dp(c) \in Nat
  BY <1>1, QuotientBounds DEF batch_size_per_dp
<1>3. total_len(c) \in Nat
  BY <1>1 DEF total_len
<1>4. Rows(c) \in Nat
  BY <1>1, <1>2 DEF Rows
<1>5. ScoreLen(c) \in Nat
  BY <1>1, <1>3 DEF ScoreLen
<1>6. ExpertRows(c) \in Nat
  <2> DEFINE n == c.max_batch_size * c.top_k
             rows == IF c.expert_freq = 0 THEN 0 ELSE n \div c.num_routed_expert
  <2>1. n \in Nat
    BY <1>1
  <2> HIDE DEF n
  <2>2. rows \in Nat
    BY <1>1, <2>1, QuotientBounds
  <2> HIDE DEF rows
  <2>3. rows * (IF c.decode_mode THEN 1 ELSE c.input_len) \in Nat
    BY <1>1, <2>2
  <2> QED BY <2>3 DEF ExpertRows, rows, n
<1>7. ExpertsPerDevice(c) \in Nat
  <2> DEFINE n == c.num_routed_expert * c.e_tp_dg
             share == n \div c.num_total_device
  <2>1. n \in Nat
    BY <1>1
  <2> HIDE DEF n
  <2>2. share \in Nat
    BY <1>1, <2>1, QuotientBounds
  <2> HIDE DEF share
  <2>3. share + c.num_shared_expert \in Nat
    BY <1>1, <2>2
  <2> QED BY <2>3 DEF ExpertsPerDevice, share, n
<1> QED BY <1>2, <1>3, <1>4, <1>5, <1>6, <1>7

\* The activations that are counted are a number, whatever overflows.
LEMMA ActivationsType ==
  ASSUME NEW c, Machine(c), dp_degree(c) \in Nat \ {0}
  PROVE  Activations(c) \in Int
<1>1. /\ {c.hidden_dim, c.head_dim, c.num_heads, c.precision_byte, c.q_lora_rank, c.kv_lora_rank,
          c.qk_rope_head_dim, c.expert_intermediate_dim, c.act} \subseteq Nat
      /\ {c.num_layers, c.ne_tp_dg} \subseteq Nat \ {0}
  BY Fields
<1>2. /\ Rows(c) \in Nat /\ ScoreLen(c) \in Nat /\ ExpertRows(c) \in Nat
      /\ ExpertsPerDevice(c) \in Nat /\ total_len(c) \in Nat
  BY RowsType
<1>3. c.act \div c.num_layers \in Int
  BY <1>1, QuotientBounds
<1>4. Latents(c) \in Int
  <2> DEFINE n == Rows(c) * (2 * c.hidden_dim + c.q_lora_rank + c.kv_lora_rank + c.qk_rope_head_dim)
  <2>1. n \in Int
    BY <1>1, <1>2
  <2> HIDE DEF n
  <2> QED BY <2>1, WrappedType DEF Latents, n
<1>5. Query(c) \in Int
  <2> DEFINE n == Rows(c) * (3 * c.qk_rope_head_dim + c.head_dim) * c.num_heads
  <2>1. n \in Int
    BY <1>1, <1>2
  <2> HIDE DEF n
  <2>2. n \div c.ne_tp_dg \in Int
    BY <1>1, <2>1, QuotientBounds
  <2> QED BY <2>2 DEF Query, n
<1>6. ASSUME NEW n \in Int
      PROVE  Int32(n) \div c.ne_tp_dg \in Int /\ n \div c.ne_tp_dg \in Int
  <2>1. Int32(n) \in Int
    BY WrappedType
  <2> QED BY <1>1, <2>1, QuotientBounds
<1>7. Score(c) \in Int
  <2> DEFINE n == Rows(c) * 2 * c.num_heads * ScoreLen(c)
             m == Rows(c) * c.num_heads * ScoreLen(c)
  <2>1. n \in Int /\ m \in Int
    BY <1>1, <1>2
  <2> HIDE DEF n, m
  <2>2. n \div c.ne_tp_dg \in Int /\ 2 * (Int32(m) \div c.ne_tp_dg) \in Int
    BY <1>6, <2>1
  <2> QED BY <2>2 DEF Score, n, m
<1>8. Context(c) \in Int
  <2> DEFINE n == Rows(c) * c.num_heads * c.head_dim
  <2>1. n \in Int
    BY <1>1, <1>2
  <2> HIDE DEF n
  <2> QED BY <1>6, <2>1 DEF Context, n
<1>9. Restored(c) \in Int
  <2> DEFINE len == IF c.decode_mode /\ c.compressed_kv THEN total_len(c) ELSE 1
             n == Rows(c) * c.num_heads * c.kv_lora_rank
             m == Rows(c) * 2 * len * c.head_dim * c.num_heads
  <2>1. len \in Nat
    BY <1>2
  <2> HIDE DEF len
  <2>2. n \in Int /\ m \in Int
    BY <1>1, <1>2, <2>1
  <2> HIDE DEF n, m
  <2>3. 2 * (Int32(n) \div c.ne_tp_dg) \in Int /\ m \div c.ne_tp_dg \in Int
    BY <1>6, <2>2
  <2> QED BY <2>3 DEF Restored, n, m, len
<1>10. ExpertActivations(c) \in Int
  <2> DEFINE n == ExpertRows(c) * c.expert_intermediate_dim
             m == ExpertRows(c) * c.hidden_dim
  <2>1. n \in Int /\ m \in Int
    BY <1>1, <1>2
  <2> HIDE DEF n, m
  <2>2. Int32(n) \in Int /\ Int32(m) \in Int
    BY <2>1, WrappedType
  <2>3. ExpertsPerDevice(c) * (3 * Int32(n) + Int32(m)) \in Int
    BY <1>2, <2>2
  <2> QED BY <2>3 DEF ExpertActivations, n, m
<1>11. activation_size(c) \in Int
  BY <1>1, <1>4, <1>5, <1>7, <1>8, <1>9, <1>10 DEF activation_size
<1> QED BY <1>3, <1>11 DEF Activations
\* The heads that a rank has need no more than its share of all of them.
LEMMA HeadsShare ==
  ASSUME NEW heads \in Nat, NEW size \in Nat, NEW n \in Nat \ {0}
  PROVE  /\ 2 * (heads \div n) * size \in Nat
         /\ (2 * size * heads) \div n \in Nat
         /\ 2 * (heads \div n) * size <= (2 * size * heads) \div n
<1> DEFINE a == heads \div n
           all == 2 * size * heads
           q == all \div n
           mine == 2 * a * size
<1>1. a \in Nat /\ n * a <= heads
  BY QuotientBounds
<1>2. all \in Nat
  OBVIOUS
<1> HIDE DEF a
<1>3. mine \in Nat /\ n * mine <= all
  <2>1. PICK r \in Nat : heads = n * a + r
    <3>1. heads - n * a \in Nat /\ heads = n * a + (heads - n * a)
      BY <1>1
    <3> QED BY <3>1
  <2>2. 2 * size * (n * a + r) = 2 * size * (n * a) + 2 * size * r
    BY <1>1, <2>1
  <2>3. 2 * size * (n * a) = n * mine
    BY <1>1
  <2>4. 2 * size * r \in Nat /\ mine \in Nat /\ n * mine \in Nat
    BY <1>1
  <2> QED BY <2>1, <2>2, <2>3, <2>4
<1> HIDE DEF all, mine
<1>4. q \in Nat /\ all < n * q + n
  BY <1>2, QuotientBounds
<1> HIDE DEF q
<1>5. mine <= q
  <2> SUFFICES ASSUME mine >= q + 1 PROVE FALSE
    BY <1>3, <1>4
  <2>1. PICK r \in Nat : mine = (q + 1) + r
    <3>1. mine - (q + 1) \in Nat /\ mine = (q + 1) + (mine - (q + 1))
      BY <1>3, <1>4
    <3> QED BY <3>1
  <2>2. n * ((q + 1) + r) = (n * q + n) + n * r /\ n * r \in Nat
    BY <1>4
  <2>3. n * q \in Nat /\ n * mine \in Nat
    BY <1>3, <1>4
  <2> QED BY <1>2, <1>3, <1>4, <2>1, <2>2, <2>3
<1> QED BY <1>3, <1>4, <1>5 DEF a, all, mine, q

\* What is reserved for a request covers the caches of all its tokens.
LEMMA CacheCovered ==
  ASSUME NEW c, Machine(c), Checked(c)
  PROVE  /\ CacheOfToken(c) \in Nat /\ kv_cache_size_per_seq(c) \in Nat
         /\ total_len(c) \in Nat
         /\ CacheOfToken(c) * total_len(c) <= kv_cache_size_per_seq(c)
<1> DEFINE latent == c.kv_lora_rank + c.qk_rope_head_dim
           mine == 2 * (c.num_kv_heads \div c.ne_tp_dg) * c.head_dim
           share == (2 * c.head_dim * c.num_kv_heads) \div c.ne_tp_dg
           layers == c.num_layers * c.precision_byte
           held == IF c.qk_rope_head_dim # 0 /\ (c.use_absorb \/ c.compressed_kv)
                   THEN latent ELSE mine
           counted == IF c.qk_rope_head_dim # 0 /\ c.compressed_kv THEN latent ELSE share
<1>1. /\ {c.head_dim, c.num_kv_heads, c.precision_byte, c.kv_lora_rank, c.qk_rope_head_dim,
          c.input_len, c.output_len} \subseteq Nat
      /\ {c.num_layers, c.ne_tp_dg} \subseteq Nat \ {0}
      /\ {c.use_absorb, c.compressed_kv} \subseteq BOOLEAN
  BY Fields
<1>2. mine \in Nat /\ share \in Nat /\ mine <= share
  BY <1>1, HeadsShare
<1>3. c.qk_rope_head_dim # 0 /\ c.use_absorb /\ ~c.compressed_kv => latent <= mine
  BY DEF Checked
<1>4. latent \in Nat /\ layers \in Nat /\ total_len(c) \in Nat
  BY <1>1 DEF total_len
<1>5. /\ CacheOfToken(c) = layers * held
      /\ kv_cache_size_per_seq(c) = total_len(c) * c.num_layers * c.precision_byte * counted
  BY DEF CacheOfToken, kv_cache_size_per_seq
<1>6. total_len(c) * c.num_layers * c.precision_byte = total_len(c) * layers
  BY <1>1, <1>4
<1> HIDE DEF latent, mine, share, layers
<1>7. held \in Nat /\ counted \in Nat /\ held <= counted
  BY <1>1, <1>2, <1>3, <1>4
<1> HIDE DEF held, counted
<1>8. layers * held \in Nat /\ total_len(c) * layers \in Nat
      /\ (total_len(c) * layers) * counted \in Nat
  BY <1>4, <1>7
<1>9. (layers * held) * total_len(c) <= (total_len(c) * layers) * counted
  <2>1. PICK r \in Nat : counted = held + r
    <3>1. counted - held \in Nat /\ counted = held + (counted - held)
      BY <1>7
    <3> QED BY <3>1
  <2> DEFINE p == total_len(c) * layers
  <2>2. p \in Nat
    BY <1>4
  <2>3. (layers * held) * total_len(c) = p * held
    BY <1>4, <1>7
  <2> HIDE DEF p
  <2>4. p * (held + r) = p * held + p * r /\ p * r \in Nat /\ p * held \in Nat
    BY <1>7, <2>2
  <2> QED BY <2>1, <2>3, <2>4 DEF p
<1> QED BY <1>4, <1>5, <1>6, <1>8, <1>9

\* A batch of batch_size_per_dp requests of the longest length fits.
LEMMA FullBatchFits ==
  ASSUME NEW c \in Machines
  PROVE  /\ PerBatch \in Nat /\ total_len(c) \in Nat /\ CacheOfToken(c) \in Nat
         /\ c.weight \in Nat /\ c.memory_capacity \in Nat /\ Activations(c) \in Int
         /\ c.weight + Activations(c) + CacheOfToken(c) * (PerBatch * total_len(c))
              <= c.memory_capacity
<1>1. /\ Machine(c) /\ Checked(c)
      /\ dp_degree(c) = DPDegree /\ total_batch_size(c) = TotalBatch
  BY MachinesAssumption
<1>2. DPDegree \in Nat \ {0} /\ TotalBatch \in Nat
  BY ConfigAssumption
<1>3. PerBatch \in Nat
  BY <1>2, QuotientBounds DEF PerBatch
<1>4. /\ c.weight \in Nat /\ c.memory_capacity \in Nat /\ c.max_batch_size \in Nat
      /\ {c.exit_out_of_memory, c.mem_cap_limit} \subseteq BOOLEAN
  BY <1>1, Fields
<1>5. Activations(c) \in Int
  BY <1>1, <1>2, ActivationsType
<1>6. /\ CacheOfToken(c) \in Nat /\ kv_cache_size_per_seq(c) \in Nat
      /\ total_len(c) \in Nat
      /\ CacheOfToken(c) * total_len(c) <= kv_cache_size_per_seq(c)
  BY <1>1, CacheCovered
<1>7. CASE ~Capped(c)
  <2>1. TotalBatch = c.max_batch_size
    BY <1>1, <1>7 DEF total_batch_size
  <2>2. ~out_of_memory(c)
    BY <1>1, <1>4, <1>7 DEF Checked, Starts, Capped
  <2>3. cache(c) = PerBatch * total_len(c) * CacheOfToken(c)
    BY <1>1, <2>1 DEF cache, batch_size_per_dp, PerBatch
  <2>4. PerBatch * total_len(c) * CacheOfToken(c) = CacheOfToken(c) * (PerBatch * total_len(c))
    BY <1>3, <1>6
  <2>5. CacheOfToken(c) * (PerBatch * total_len(c)) \in Nat
    BY <1>3, <1>6
  <2> QED BY <1>3, <1>4, <1>5, <1>6, <2>2, <2>3, <2>4, <2>5 DEF out_of_memory
<1>8. CASE Capped(c)
  <2> DEFINE seqs == kv_cache_size_per_seq(c)
             q == avail_capacity(c) \div seqs
  <2>1. avail_capacity(c) \in Nat /\ seqs \in Nat \ {0}
    <3>1. avail_capacity(c) >= 0 /\ seqs > 0
      BY <1>1, <1>8 DEF Checked, Starts
    <3> QED BY <1>4, <1>5, <1>6, <3>1 DEF avail_capacity
  <2>2. q \in Nat /\ seqs * q <= avail_capacity(c)
    BY <2>1, QuotientBounds
  <2>3. TotalBatch = q * DPDegree - 1
    BY <1>1, <1>8 DEF total_batch_size, max_batch_size
  <2> HIDE DEF q
  <2>4. PerBatch <= q
    <3> SUFFICES ASSUME PerBatch >= q + 1 PROVE FALSE
      BY <1>3, <2>2
    <3>1. DPDegree * PerBatch <= TotalBatch
      BY <1>2, QuotientBounds DEF PerBatch
    <3>2. PICK r \in Nat : PerBatch = q + r
      <4>1. PerBatch - q \in Nat /\ PerBatch = q + (PerBatch - q)
        BY <1>3, <2>2
      <4> QED BY <4>1
    <3>3. DPDegree * (q + r) = q * DPDegree + DPDegree * r /\ DPDegree * r \in Nat
      BY <1>2, <2>2
    <3>4. q * DPDegree \in Nat
      BY <1>2, <2>2
    <3> QED BY <1>2, <2>3, <3>1, <3>2, <3>3, <3>4
  <2>5. CacheOfToken(c) * (PerBatch * total_len(c)) <= seqs * q
    <3> DEFINE t == CacheOfToken(c) * total_len(c)
    <3>1. t \in Nat /\ t <= seqs
      BY <1>6
    <3>2. CacheOfToken(c) * (PerBatch * total_len(c)) = t * PerBatch
      BY <1>3, <1>6
    <3> HIDE DEF t, seqs
    <3>3. seqs \in Nat
      BY <2>1
    <3>4. PICK r \in Nat : q = PerBatch + r
      <4>1. q - PerBatch \in Nat /\ q = PerBatch + (q - PerBatch)
        BY <1>3, <2>2, <2>4
      <4> QED BY <4>1
    <3>5. PICK u \in Nat : seqs = t + u
      <4>1. seqs - t \in Nat /\ seqs = t + (seqs - t)
        BY <3>1, <3>3
      <4> QED BY <4>1
    <3>6. seqs * (PerBatch + r) = seqs * PerBatch + seqs * r
      BY <1>3, <3>3
    <3>7. (t + u) * PerBatch = t * PerBatch + u * PerBatch
      BY <1>3, <3>1
    <3>8. /\ seqs * r \in Nat /\ u * PerBatch \in Nat /\ t * PerBatch \in Nat
          /\ seqs * PerBatch \in Nat
      BY <1>3, <3>1, <3>3
    <3>9. seqs * q = t * PerBatch + u * PerBatch + seqs * r
      BY <3>4, <3>5, <3>6, <3>7, <3>8
    <3> QED BY <3>2, <3>8, <3>9
  <2>6. CacheOfToken(c) * (PerBatch * total_len(c)) \in Nat /\ seqs * q \in Nat
    BY <1>3, <1>6, <2>2
  <2> HIDE DEF seqs
  <2> QED BY <1>3, <1>4, <1>5, <1>6, <2>1, <2>2, <2>5, <2>6 DEF avail_capacity
<1> QED BY <1>7, <1>8
---------------------------------------------------------------------------
(* What the scheduler admits.                                              *)

\* A request that waits or runs is as long as the lengths it was created with.
BudgetInv ==
  /\ LenInv /\ WorkInv
  /\ \A s \in SeqIds : Running(s) \/ Waiting(s) =>
       \E len \in Lengths : seq[s].total_len = TotalLen(len)

LEMMA BudgetInit == Init => BudgetInv
<1> SUFFICES ASSUME Init PROVE BudgetInv
  OBVIOUS
<1>1. \A s \in SeqIds : ~Running(s) /\ ~Waiting(s)
  BY DEF Init, Running, Waiting
<1> QED BY <1>1, LenInit, WorkInit DEF BudgetInv

LEMMA BudgetStep == WorkLeft /\ BudgetInv /\ [Next]_vars => BudgetInv'
<1> SUFFICES ASSUME WorkLeft, BudgetInv, [Next]_vars PROVE BudgetInv'
  OBVIOUS
<1>0. LenInv /\ WorkInv /\ LenInv' /\ WorkInv'
  BY LenStep, WorkStep DEF BudgetInv
<1> SUFFICES ASSUME NEW s \in SeqIds, Running(s)' \/ Waiting(s)'
             PROVE  \E len \in Lengths : seq'[s].total_len = TotalLen(len)
  BY <1>0 DEF BudgetInv
<1>1. Running(s) \/ Waiting(s) => \E len \in Lengths : seq[s].total_len = TotalLen(len)
  BY DEF BudgetInv
<1>2. CASE FillSequenceQueue
  <2>1. CASE \E len \in Lengths, k \in Int : seq'[s] = NewRequest(len, k)
    BY <2>1, NewRequestLens
  <2>2. CASE seq'[s] = seq[s] /\ (Running(s)' <=> Running(s)) /\ (Waiting(s)' <=> Waiting(s))
    BY <1>1, <2>2
  <2> QED BY <1>0, <1>2, <2>1, <2>2, FillEffect DEF LenInv
<1>3. CASE Admit
  <2>1. SameLens(seq'[s], seq[s]) /\ (Running(s) \/ Waiting(s))
    BY <1>0, <1>3, AdmitStep
  <2> QED BY <1>1, <2>1 DEF SameLens
<1>4. CASE SetMetadata
  <2>1. (Running(s)' <=> Running(s)) /\ (Waiting(s)' <=> Waiting(s))
    BY <1>4 DEF SetMetadata, Running, Waiting
  <2>2. seq'[s].total_len = seq[s].total_len
    <3> DEFINE n == Tokens(BatchOf(s), s)
    <3>1. seq'[s] = seq[s] \/ seq'[s] = [seq[s] EXCEPT !.num_process_token = n]
      BY <1>4 DEF SetMetadata
    <3>2. seq[s] \in Request
      BY <1>0 DEF LenInv, PlaceInv, TypeInv, TypeOK
    <3> HIDE DEF n
    <3> QED BY <3>1, <3>2 DEF Request
  <2> QED BY <1>1, <2>1, <2>2
<1>5. CASE WarmStep \/ GenStep \/ SumStep
  <2>1. PICK who \in SUBSET AllRunning, time \in Nat :
          /\ running_queue' = Popped(who, time)
          /\ UNCHANGED << count_id, sequence_queue >>
          /\ \A t \in SeqIds :
               SameLens(seq'[t], IF t \in who THEN Update(seq[t], time) ELSE seq[t])
    BY <1>0, <1>5, EndEffect
  <2>2. Running(s) \/ Waiting(s)
    BY <2>1 DEF Running, Waiting, Popped
  <2>3. seq'[s].total_len = seq[s].total_len
    <3>1. seq[s] \in Request
      BY <1>0 DEF LenInv, PlaceInv, TypeInv, TypeOK
    <3>2. Update(seq[s], time).total_len = seq[s].total_len
      BY <3>1 DEF Update, Request
    <3> QED BY <2>1, <3>2 DEF SameLens
  <2> QED BY <1>1, <2>2, <2>3
<1>6. CASE Untouched
  BY <1>1, <1>6, UntouchedStep
<1> QED BY <1>2, <1>3, <1>4, <1>5, <1>6, StepCases

\* The tokens that a batch keeps and adds are those of batch_size_per_dp requests at
\* most, none of them longer than the lengths the check has counted.
LEMMA CachedBound ==
  ASSUME BudgetInv, NEW b \in Batches, NEW limit \in Nat,
         \A len \in Lengths : TotalLen(len) <= limit
  PROVE  CachedTokens(b) \in Nat /\ CachedTokens(b) <= PerBatch * limit
<1> DEFINE batch == running_queue[b]
           held == [s \in batch |-> seq[s].current_len + seq[s].num_process_token]
<1>1. /\ batch \in SUBSET SeqIds /\ IsFiniteSet(batch)
      /\ seq \in [SeqIds -> Request]
  <2>1. running_queue \in [Batches -> SUBSET SeqIds] /\ seq \in [SeqIds -> Request]
    BY DEF BudgetInv, LenInv, PlaceInv, TypeInv, TypeOK
  <2>2. batch \in SUBSET SeqIds
    BY <2>1
  <2> QED BY <2>1, <2>2, IdsFinite, FS_Subset
<1>2. ASSUME NEW s \in batch
      PROVE  held[s] \in Nat /\ held[s] <= limit
  <2>1. s \in SeqIds /\ Running(s) /\ seq[s] \in Request
    BY <1>1 DEF Running
  <2>2. seq[s].current_len + seq[s].num_process_token <= seq[s].total_len
    BY <2>1 DEF BudgetInv, LenInv, Fits
  <2>3. PICK len \in Lengths : seq[s].total_len = TotalLen(len)
    BY <2>1 DEF BudgetInv
  <2>4. TotalLen(len) <= limit
    OBVIOUS
  <2>5. /\ seq[s].current_len \in Nat /\ seq[s].num_process_token \in Nat
        /\ seq[s].total_len \in Nat
    BY <2>1 DEF Request
  <2> QED BY <2>2, <2>3, <2>4, <2>5
<1>3. Cardinality(batch) \in Nat /\ PerBatch \in Nat /\ Cardinality(batch) <= PerBatch
  <2>1. PerBatch \in Nat
    BY ConfigAssumption DEF PerBatch
  <2> QED BY <1>1, <2>1, FS_CardinalityType DEF BudgetInv, WorkInv
<1> HIDE DEF batch, held
<1>4. SumFunctionOnSet(held, batch) \in Nat
  BY <1>1, <1>2, SumType
<1>5. SumFunctionOnSet(held, batch) <= Cardinality(batch) * limit
  <2>1. \A s \in batch : held[s] \in Int /\ held[s] <= limit
    BY <1>2
  <2> QED BY <1>1, <2>1, SumBound
<1>6. Cardinality(batch) * limit <= PerBatch * limit
  <2>1. PICK r \in Nat : PerBatch = Cardinality(batch) + r
    <3>1. PerBatch - Cardinality(batch) \in Nat
          /\ PerBatch = Cardinality(batch) + (PerBatch - Cardinality(batch))
      BY <1>3
    <3> QED BY <3>1
  <2>2. (Cardinality(batch) + r) * limit = Cardinality(batch) * limit + r * limit
    BY <1>3
  <2>3. r * limit \in Nat /\ Cardinality(batch) * limit \in Nat
    BY <1>3
  <2> QED BY <2>1, <2>2, <2>3
<1>7. Cardinality(batch) * limit \in Int /\ PerBatch * limit \in Int
  BY <1>3
<1>8. SumFunctionOnSet(held, batch) <= PerBatch * limit
  BY <1>4, <1>5, <1>6, <1>7
<1> QED BY <1>4, <1>8 DEF CachedTokens, held, batch

\* No batch outgrows the memory, for every machine, every cut of the batch size and
\* every mix of requests within the lengths that were checked.
THEOREM FitsMemoryHolds == WorkLeft => (Spec => []FitsMemory)
<1>1. BudgetInv => FitsMemory
  <2> SUFFICES ASSUME BudgetInv, NEW c \in Machines, NEW b \in Batches
               PROVE  c.weight + Activations(c) + CacheOfToken(c) * CachedTokens(b)
                        <= c.memory_capacity
    BY DEF FitsMemory
  <2>1. /\ PerBatch \in Nat /\ total_len(c) \in Nat /\ CacheOfToken(c) \in Nat
        /\ c.weight \in Nat /\ c.memory_capacity \in Nat /\ Activations(c) \in Int
        /\ c.weight + Activations(c) + CacheOfToken(c) * (PerBatch * total_len(c))
             <= c.memory_capacity
    BY FullBatchFits
  <2>2. \A len \in Lengths : TotalLen(len) <= total_len(c)
    BY MachinesAssumption DEF Checked
  <2>3. CachedTokens(b) \in Nat /\ CachedTokens(b) <= PerBatch * total_len(c)
    BY <2>1, <2>2, CachedBound
  <2> DEFINE full == PerBatch * total_len(c)
  <2>4. full \in Nat
    BY <2>1
  <2> HIDE DEF full
  <2>5. PICK r \in Nat : full = CachedTokens(b) + r
    <3>1. full - CachedTokens(b) \in Nat /\ full = CachedTokens(b) + (full - CachedTokens(b))
      BY <2>3, <2>4 DEF full
    <3> QED BY <3>1
  <2>6. CacheOfToken(c) * (CachedTokens(b) + r)
          = CacheOfToken(c) * CachedTokens(b) + CacheOfToken(c) * r
    BY <2>1, <2>3
  <2>7. CacheOfToken(c) * r \in Nat /\ CacheOfToken(c) * CachedTokens(b) \in Nat
    BY <2>1, <2>3
  <2>8. CacheOfToken(c) * full = CacheOfToken(c) * CachedTokens(b) + CacheOfToken(c) * r
    BY <2>5, <2>6
  <2> QED BY <2>1, <2>7, <2>8 DEF full
<1>2. CASE WorkLeft
  <2>1. BudgetInv /\ [Next]_vars => BudgetInv'
    BY <1>2, BudgetStep
  <2> QED BY <1>1, <2>1, BudgetInit, PTL DEF Spec
<1> QED BY <1>2

---------------------------------------------------------------------------
(* Invariants that only the refinement needs.                              *)

\* The configuration starts every request before the end of its prompt, or none.
LEMMA PromptCases ==
  StartsInPrompt \/ \A len \in Lengths : StartLen(len) = len[1]
<1>1. \A len \in Lengths : len[1] \in Nat \ {0}
  BY LengthType
<1>2. CASE RealData
  BY <1>1, <1>2 DEF StartsInPrompt, StartLen
<1>3. CASE ~RealData /\ DecodeMode /\ ~PrefillMode
  BY <1>3 DEF StartLen
<1>4. CASE ~RealData /\ ~(DecodeMode /\ ~PrefillMode)
  <2>1. ReuseTenths \in 0 .. 10
    BY ConfigAssumption
  <2>2. \A len \in Lengths : StartLen(len) = (len[1] * ReuseTenths) \div 10
    BY <1>4 DEF StartLen
  <2>3. CASE ReuseTenths = 10
    <3>1. \A n \in Nat : (n * 10) \div 10 = n
      OBVIOUS
    <3> QED BY <1>1, <2>2, <2>3, <3>1
  <2>4. CASE ReuseTenths # 10
    <3> SUFFICES ASSUME NEW len \in Lengths PROVE StartLen(len) < len[1]
      BY DEF StartsInPrompt
    <3> DEFINE n == len[1]
               p == n * ReuseTenths
    <3>1. n \in Nat \ {0} /\ ReuseTenths <= 9 /\ ReuseTenths \in Nat
      BY <1>1, <2>1, <2>4
    <3>2. p \in Nat /\ p <= n * 9
      BY <3>1
    <3> HIDE DEF p, n
    <3>3. p \div 10 < n
      BY <3>1, <3>2
    <3> QED BY <2>2, <3>3 DEF n, p
  <2> QED BY <2>3, <2>4
<1> QED BY <1>2, <1>3, <1>4

\* A generating request has at most one token at a time.
SingleTokens ==
  /\ TypeInv
  /\ \A s \in SeqIds : ~IsSum(s) => seq[s].num_process_token <= 1

LEMMA SingleInit == Init => SingleTokens
<1> SUFFICES ASSUME Init PROVE SingleTokens
  OBVIOUS
<1>1. \A s \in SeqIds : seq[s].num_process_token = 0
  BY DEF Init, NoRequest
<1> QED BY <1>1, TypeInit DEF SingleTokens

LEMMA SingleStep == SingleTokens /\ [Next]_vars => SingleTokens'
<1> SUFFICES ASSUME SingleTokens, [Next]_vars PROVE SingleTokens'
  OBVIOUS
<1>0. TypeInv /\ TypeInv'
  BY TypeStep DEF SingleTokens
<1> SUFFICES ASSUME NEW s \in SeqIds
             PROVE  ~(seq'[s].current_len < seq'[s].input_len)
                      => seq'[s].num_process_token <= 1
  BY <1>0 DEF SingleTokens, IsSum
<1>1. ~(seq[s].current_len < seq[s].input_len) => seq[s].num_process_token <= 1
  BY DEF SingleTokens, IsSum
<1>2. CASE FillSequenceQueue
  <2>1. CASE \E len \in Lengths, k \in Int : seq'[s] = NewRequest(len, k)
    <3>1. seq'[s].num_process_token = 0
      BY <2>1, NewRequestFields
    <3> QED BY <3>1
  <2> QED BY <1>0, <1>1, <1>2, <2>1, FillNew
<1>3. CASE Admit
  BY <1>0, <1>1, <1>3, AdmitDelay DEF SameButDelay
<1>4. CASE SetMetadata
  <2>1. /\ SameButTokens(seq[s], seq'[s])
        /\ seq'[s].num_process_token = IF Running(s) THEN Tokens(BatchOf(s), s)
                                       ELSE seq[s].num_process_token
    BY <1>0, <1>4, MetadataOnly
  <2>2. ~IsSum(s) => \/ Tokens(BatchOf(s), s) = 1
                     \/ Tokens(BatchOf(s), s) = seq[s].num_process_token
    BY DEF Tokens
  <2> QED BY <1>1, <2>1, <2>2 DEF SameButTokens, IsSum
<1>5. CASE WarmStep \/ GenStep \/ SumStep
  <2>1. PICK who \in SUBSET AllRunning, time \in Nat, reports \in BOOLEAN :
          Iteration(who, time, reports)
    BY <1>0, <1>5, EndIterates
  <2>2. seq'[s] = seq[s] \/ seq'[s].num_process_token = 0
    BY <2>1 DEF Iteration, Served
  <2> QED BY <1>1, <2>2
<1>6. CASE Untouched
  BY <1>1, <1>6 DEF Untouched
<1> QED BY <1>2, <1>3, <1>4, <1>5, <1>6, StepCases

\* Without prompts to prefill, the prefill machine stands still, every iteration has
\* a token for every running request, and no first token is recorded.
NoPromptInv ==
  /\ LenInv /\ TimeInv
  /\ sum_machine_time = 0
  /\ \A s \in SeqIds : Running(s) \/ Waiting(s) => ~IsSum(s) /\ ~seq[s].record
  /\ pc = "step" => \A s \in SeqIds : Running(s) => seq[s].num_process_token = 1

LEMMA NoPromptInit == Init => NoPromptInv
<1> SUFFICES ASSUME Init PROVE NoPromptInv
  OBVIOUS
<1>1. \A s \in SeqIds : ~Running(s) /\ ~Waiting(s)
  BY DEF Init, Running, Waiting
<1>2. sum_machine_time = 0 /\ pc # "step"
  BY DEF Init
<1> QED BY <1>1, <1>2, LenInit, TimeInit DEF NoPromptInv

LEMMA NoPromptStep ==
  ASSUME WorkLeft, \A len \in Lengths : StartLen(len) = len[1]
  PROVE  NoPromptInv /\ [Next]_vars => NoPromptInv'
<1> SUFFICES ASSUME NoPromptInv, [Next]_vars PROVE NoPromptInv'
  OBVIOUS
<1>0. LenInv /\ LenInv' /\ TimeInv /\ TimeInv' /\ PlaceInv /\ TypeInv /\ TypeInv'
  BY LenStep, TimeStep DEF NoPromptInv, LenInv, PlaceInv
<1> DEFINE Gen(r) == ~(r.current_len < r.input_len) /\ ~r.record
<1> SUFFICES /\ sum_machine_time' = 0
             /\ \A s \in SeqIds :
                  /\ Running(s)' \/ Waiting(s)' => Gen(seq'[s])
                  /\ pc' = "step" /\ Running(s)' => seq'[s].num_process_token = 1
  BY <1>0 DEF NoPromptInv, IsSum
<1>1. \A s \in SeqIds : /\ Running(s) \/ Waiting(s) => Gen(seq[s])
                        /\ pc = "step" /\ Running(s) => seq[s].num_process_token = 1
  BY DEF NoPromptInv, IsSum
<1>2. /\ seq \in [SeqIds -> Request] /\ running_queue \in [Batches -> SUBSET SeqIds]
      /\ total_time \in Nat /\ sum_machine_time = 0
  BY <1>0 DEF NoPromptInv, TypeInv, TypeOK
<1>3. ~hasSumSeq
  BY <1>1, <1>2 DEF hasSumSeq, Running, IsSum
<1>4. CASE FillSequenceQueue
  <2>1. sum_machine_time' = sum_machine_time /\ pc' # "step"
    BY <1>4 DEF FillSequenceQueue
  <2>2. ASSUME NEW s \in SeqIds
        PROVE  Running(s)' \/ Waiting(s)' => Gen(seq'[s])
    <3>1. CASE \E len \in Lengths, k \in Int : seq'[s] = NewRequest(len, k)
      <4>1. PICK len \in Lengths : /\ seq'[s].input_len = len[1]
                                   /\ seq'[s].current_len = StartLen(len)
                                   /\ seq'[s].record = FALSE
        BY <3>1, NewFields
      <4>2. seq'[s].current_len = len[1] /\ len[1] \in Nat
        BY <4>1, LengthType
      <4> QED BY <4>1, <4>2
    <3>2. CASE /\ seq'[s] = seq[s]
               /\ Running(s)' <=> Running(s)
               /\ Waiting(s)' <=> Waiting(s)
      BY <1>1, <3>2
    <3> QED BY <1>0, <1>4, <3>1, <3>2, FillEffect
  <2> QED BY <1>2, <2>1, <2>2
<1>5. CASE Admit
  <2>1. sum_machine_time' = sum_machine_time /\ pc' # "step"
    BY <1>5 DEF Admit
  <2>2. \A s \in SeqIds : Running(s)' \/ Waiting(s)' => Running(s) \/ Waiting(s)
    BY <1>0, <1>5, AdmitOnly
  <2>3. \A s \in SeqIds : SameButDelay(seq[s], seq'[s])
    BY <1>0, <1>5, AdmitDelay
  <2> QED BY <1>1, <1>2, <2>1, <2>2, <2>3 DEF SameButDelay
<1>6. CASE SetMetadata
  <2>1. sum_machine_time' = sum_machine_time
    BY <1>6 DEF SetMetadata
  <2>2. ASSUME NEW s \in SeqIds
        PROVE  /\ Running(s)' \/ Waiting(s)' => Gen(seq'[s])
               /\ Running(s)' => seq'[s].num_process_token = 1
    <3>1. /\ SameButTokens(seq[s], seq'[s])
          /\ seq'[s].num_process_token = IF Running(s) THEN Tokens(BatchOf(s), s)
                                         ELSE seq[s].num_process_token
          /\ Running(s)' <=> Running(s)
          /\ Waiting(s)' <=> Waiting(s)
      BY <1>0, <1>6, MetadataOnly
    <3>2. GenStarted(s)
      <4>1. seq[s].gen_start_time <= total_time \/ seq[s].gen_start_time <= 0
        BY <1>0, <1>2 DEF TimeInv
      <4>2. seq[s].gen_start_time \in Nat
        BY <1>2 DEF Request
      <4> QED BY <1>2, <4>1, <4>2 DEF GenStarted
    <3>3. Running(s) => Tokens(BatchOf(s), s) = 1
      BY <1>1, <1>3, <3>2 DEF Tokens, process_gen, IsSum
    <3> QED BY <1>1, <3>1, <3>3 DEF SameButTokens
  <2> QED BY <1>2, <2>1, <2>2
<1>7. CASE SumStep
  BY <1>3, <1>7 DEF SumStep
<1>8. CASE WarmStep \/ GenStep
  <2>1. /\ sum_machine_time' = sum_machine_time /\ pc' # "step" /\ pc = "step"
    BY <1>8 DEF WarmStep, GenStep
  <2>2. PICK who \in SUBSET AllRunning, time \in Nat, reports \in BOOLEAN :
          Iteration(who, time, reports)
    BY <1>0, <1>8, EndIterates
  <2>3. ASSUME NEW s \in SeqIds, Running(s)' \/ Waiting(s)'
        PROVE  Gen(seq'[s])
    <3>1. CASE s \notin who
      BY <1>1, <2>2, <2>3, <3>1 DEF Iteration
    <3>2. CASE s \in who
      <4>1. Served(seq[s], seq'[s], time) /\ Running(s)
        BY <2>2, <3>2 DEF Iteration
      <4>2. Gen(seq[s]) /\ seq[s].num_process_token = 1
        BY <1>1, <2>1, <4>1
      <4>3. /\ seq[s].current_len \in Nat /\ seq[s].input_len \in Nat /\ seq[s].record \in BOOLEAN
        BY <1>2 DEF Request
      <4>4. /\ seq'[s].current_len = seq[s].current_len + 1
            /\ seq'[s].input_len = seq[s].input_len
            /\ seq'[s].record = (seq[s].record \/ (seq'[s].current_len # seq'[s].total_len
                                                 /\ seq'[s].current_len = seq'[s].input_len))
        BY <4>1, <4>2 DEF Served
      <4>5. seq'[s].current_len > seq'[s].input_len
        BY <4>2, <4>3, <4>4
      <4> QED BY <4>2, <4>3, <4>4, <4>5
    <3> QED BY <3>1, <3>2
  <2> QED BY <1>2, <2>1, <2>3
<1>9. CASE NoRoom \/ Filled \/ Idle \/ UNCHANGED vars
  <2>1. UNCHANGED << seq, count_id, sequence_queue, running_queue, sum_machine_time >>
        /\ (pc' = "step" => pc = "step")
    BY <1>9 DEF NoRoom, Filled, Idle, vars
  <2> QED BY <1>1, <1>2, <2>1 DEF Running, Waiting
<1> QED BY <1>4, <1>5, <1>6, <1>7, <1>8, <1>9 DEF Next

---------------------------------------------------------------------------
(* Each step of the scheduler is a step of some lives.                     *)

LEMMA LifeOf ==
  ASSUME NEW s \in SeqIds
  PROVE  /\ Life[s] = [phase |-> Phase(s), prompt |-> PromptLeft(s),
                       output |-> OutputLeft(s), first |-> FirstTokenAt(s)]
         /\ Life'[s] = [phase |-> Phase(s)', prompt |-> PromptLeft(s)',
                        output |-> OutputLeft(s)', first |-> FirstTokenAt(s)']
         /\ Life[s].phase = Phase(s)
         /\ Life[s].prompt = PromptLeft(s)
         /\ Life[s].output = OutputLeft(s)
         /\ Life[s].first = FirstTokenAt(s)
         /\ Life'[s].phase = Phase(s)'
         /\ Life'[s].prompt = PromptLeft(s)'
         /\ Life'[s].output = OutputLeft(s)'
         /\ Life'[s].first = FirstTokenAt(s)'
<1>1. /\ Life[s] = [phase |-> Phase(s), prompt |-> PromptLeft(s),
                    output |-> OutputLeft(s), first |-> FirstTokenAt(s)]
      /\ Life'[s] = [phase |-> Phase(s)', prompt |-> PromptLeft(s)',
                     output |-> OutputLeft(s)', first |-> FirstTokenAt(s)']
  BY DEF Life
<1> QED BY <1>1

\* The phases of a placed request exclude each other.
LEMMA PhaseOf ==
  ASSUME PlaceInv, NEW s \in SeqIds
  PROVE  /\ Phase(s) = "new" <=> ~Created(s)
         /\ Phase(s) = "waiting" <=> Waiting(s)
         /\ Phase(s) = "running" <=> Running(s)
         /\ Phase(s) = "done" <=> Retired(s)
<1>1. ~(Running(s) /\ Waiting(s))
  BY Apart
<1>2. Running(s) \/ Waiting(s) => Created(s)
  <2>1. Waiting(s) => Created(s)
    <3> SUFFICES ASSUME NEW i \in DOMAIN sequence_queue, sequence_queue[i] = s PROVE Created(s)
      BY DEF Waiting
    <3>1. /\ sequence_queue \in Seq(SeqIds) /\ count_id \in Nat
          /\ s = count_id - Len(sequence_queue) + i - 1
      BY IdsFinite DEF PlaceInv, TypeInv, TypeOK, Placement
    <3>2. Len(sequence_queue) \in Nat /\ i \in 1 .. Len(sequence_queue)
      BY <3>1
    <3> QED BY <3>1, <3>2 DEF Created
  <2> QED BY <2>1, RunningCreated
<1> QED BY <1>1, <1>2 DEF Phase, Retired

LEMMA PhasesIn ==
  ASSUME PlaceInv
  PROVE  /\ LifeCycle!In("new") = { s \in SeqIds : ~Created(s) }
         /\ LifeCycle!In("waiting") = { s \in SeqIds : Waiting(s) }
         /\ LifeCycle!In("running") = AllRunning
<1>1. \A s \in SeqIds : /\ Life[s].phase = "new" <=> ~Created(s)
                        /\ Life[s].phase = "waiting" <=> Waiting(s)
                        /\ Life[s].phase = "running" <=> Running(s)
  <2> TAKE s \in SeqIds
  <2>1. Life[s].phase = Phase(s)
    BY LifeOf
  <2> QED BY <2>1, PhaseOf
<1> QED BY <1>1 DEF LifeCycle!In, AllRunning

LEMMA InitMaps == Init => LifeCycle!Init
<1> SUFFICES ASSUME Init PROVE LifeCycle!Init
  OBVIOUS
<1>1. ASSUME NEW s \in SeqIds
      PROVE  Life[s] = LifeCycle!Unborn
  <2>1. ~Created(s) /\ ~Running(s) /\ seq[s] = NoRequest
    BY DEF Init, Created, SeqIds, Running
  <2>2. seq[s].input_len = 0 /\ seq[s].current_len = 0 /\ seq[s].total_len = 0
    BY <2>1 DEF NoRequest
  <2>3. Phase(s) = "new"
    BY <2>1, PlaceInit, PhaseOf
  <2>5. FirstTokenAt(s) = << >>
    BY <2>1 DEF FirstTokenAt
  <2>4. PromptLeft(s) = 0 /\ OutputLeft(s) = 0
    BY <2>2 DEF PromptLeft, OutputLeft, IsSum
  <2> QED BY <2>3, <2>5, <2>4, LifeOf DEF LifeCycle!Unborn, LifeCycle!NoTime
<1>2. Life = [s \in SeqIds |-> Life[s]]
  BY DEF Life
<1> HIDE DEF Life
<1> QED BY <1>1, <1>2 DEF LifeCycle!Init

\* A request whose fields and container stay lives on as it was.
LEMMA LifeKept ==
  ASSUME NEW s \in SeqIds,
         Created(s)' <=> Created(s),
         Waiting(s)' <=> Waiting(s),
         Running(s)' <=> Running(s),
         seq'[s].input_len = seq[s].input_len, seq'[s].total_len = seq[s].total_len,
         seq'[s].current_len = seq[s].current_len, seq'[s].record = seq[s].record,
         Running(s) /\ seq[s].record =>
           /\ seq'[s].gen_start_time = seq[s].gen_start_time
           /\ seq'[s].first_token_time = seq[s].first_token_time
  PROVE  Life'[s] = Life[s]
<1>1. Phase(s)' = Phase(s)
  BY DEF Phase
<1>2. PromptLeft(s)' = PromptLeft(s) /\ OutputLeft(s)' = OutputLeft(s)
  BY DEF PromptLeft, OutputLeft, IsSum
<1>3. FirstTokenAt(s)' = FirstTokenAt(s)
  BY DEF FirstTokenAt
<1> QED BY <1>1, <1>2, <1>3, LifeOf

LEMMA FillMaps ==
  ASSUME LenInv, LenInv', FillSequenceQueue
  PROVE  LifeCycle!Arrive
<1>0. PlaceInv /\ PlaceInv' /\ TypeInv /\ TypeInv' /\ seq' \in [SeqIds -> Request]
  BY DEF LenInv, PlaceInv, TypeInv, TypeOK
<1>1. \A s \in SeqIds : PlaceInv' => /\ Phase(s)' = "new" <=> ~Created(s)'
                                     /\ Phase(s)' = "waiting" <=> Waiting(s)'
                                     /\ Phase(s)' = "running" <=> Running(s)'
  <2> SUFFICES ASSUME NEW s \in SeqIds
               PROVE  (PlaceInv => /\ Phase(s) = "new" <=> ~Created(s)
                                   /\ Phase(s) = "waiting" <=> Waiting(s)
                                   /\ Phase(s) = "running" <=> Running(s))'
    OBVIOUS
  <2> QED BY PhaseOf, PTL
<1> DEFINE S == { s \in SeqIds : ~Created(s) /\ Created(s)' }
<1>2. S \in SUBSET LifeCycle!In("new")
  BY <1>0, PhasesIn
<1>3. ASSUME NEW s \in S
      PROVE  /\ \A r \in LifeCycle!In("new") : r < s => r \in S
             /\ Life'[s].phase = "waiting" /\ Life'[s].first = LifeCycle!NoTime
             /\ Life'[s].prompt \in Nat /\ Life'[s].output \in Nat
  <2>1. Waiting(s)' /\ s \in SeqIds
    BY <1>0, <1>3, FillEffect
  <2>2. Phase(s)' = "waiting" /\ ~Running(s)'
    BY <1>0, <1>1, <2>1
  <2>3. FirstTokenAt(s)' = << >>
    BY <2>2 DEF FirstTokenAt
  <2>4. Fits(seq'[s], Running(s)', Waiting(s)', Created(s)')
    BY <2>1 DEF LenInv
  <2>5. /\ seq'[s].input_len \in Nat /\ seq'[s].total_len \in Nat /\ seq'[s].current_len \in Nat
        /\ seq'[s].input_len <= seq'[s].total_len
        /\ seq'[s].current_len < seq'[s].total_len
    BY <1>0, <2>1, <2>4 DEF Fits, Request
  <2>6. PromptLeft(s)' \in Nat /\ OutputLeft(s)' \in Nat
    BY <2>5 DEF PromptLeft, OutputLeft, IsSum
  <2>7. ASSUME NEW r \in LifeCycle!In("new"), r < s
        PROVE  r \in S
    <3>1. r \in SeqIds /\ ~Created(r)
      BY <1>0, PhasesIn
    <3>2. Created(s)' /\ s \in SeqIds /\ count_id' \in Int
      BY <1>0, <1>3, IdsFinite DEF TypeInv, TypeOK
    <3>3. Created(r)'
      BY <2>7, <3>1, <3>2 DEF Created, SeqIds
    <3> QED BY <3>1, <3>3
  <2> QED BY <2>1, <2>2, <2>3, <2>6, <2>7, LifeOf DEF LifeCycle!NoTime
<1>4. LifeCycle!Others(S)
  <2> SUFFICES ASSUME NEW s \in SeqIds \ S PROVE Life'[s] = Life[s]
    BY DEF LifeCycle!Others
  <2>1. /\ seq'[s] = seq[s]
        /\ Running(s)' <=> Running(s)
        /\ Waiting(s)' <=> Waiting(s)
        /\ Created(s)' <=> Created(s)
    BY <1>0, FillEffect
  <2> QED BY <2>1, LifeKept
<1> HIDE DEF S
<1> QED BY <1>2, <1>3, <1>4 DEF LifeCycle!Arrive

\* What runs is counted by getBatchSize.
LEMMA RunningCounted ==
  ASSUME PlaceInv
  PROVE  /\ IsFiniteSet(AllRunning) /\ Cardinality(AllRunning) \in Nat
         /\ Cardinality(AllRunning) <= BatchSize
<1>1. running_queue \in [Batches -> SUBSET SeqIds]
  BY DEF PlaceInv, TypeInv, TypeOK
<1>2. AllRunning \in SUBSET SeqIds
  BY <1>1, RunningType
<1>3. IsFiniteSet(AllRunning) /\ Cardinality(AllRunning) \in Nat
  BY <1>2, IdsFinite, FS_Subset, FS_CardinalityType
<1> DEFINE f == [s \in AllRunning |-> << BatchOf(s), s >>]
           P == Placed(running_queue)
<1>4. \A s \in AllRunning : BatchOf(s) \in Batches /\ s \in running_queue[BatchOf(s)]
  BY <1>2, BatchOfType DEF AllRunning
<1>5. f \in [AllRunning -> P]
  BY <1>2, <1>4 DEF Placed
<1>6. \A s, r \in AllRunning : f[s] = f[r] => s = r
  OBVIOUS
<1> HIDE DEF f
<1>7. f \in Injection(AllRunning, P)
  BY <1>5, <1>6 DEF Injection, IsInjective
<1>8. IsFiniteSet(P) /\ Cardinality(P) = BatchSize
  BY PlacedFinite, BatchSizeType
<1> HIDE DEF P
<1>9. Cardinality(AllRunning) <= Cardinality(P)
  BY <1>7, <1>8, FS_Injection
<1> QED BY <1>3, <1>8, <1>9

LEMMA AdmitMaps ==
  ASSUME PlaceInv, PlaceInv', Admit, \A s \in SeqIds : Waiting(s) => ~seq[s].record
  PROVE  LifeCycle!Admit
<1>0. TypeInv /\ TotalBatch \in Nat
  BY ConfigAssumption DEF PlaceInv
<1>1. PICK h \in SeqIds :
        /\ Waiting(h) /\ ~Running(h) /\ Running(h)' /\ ~Waiting(h)'
        /\ \A s \in SeqIds \ {h} : /\ seq'[s] = seq[s]
                                   /\ Running(s)' <=> Running(s)
                                   /\ Waiting(s)' <=> Waiting(s)
        /\ \A s \in SeqIds : Created(s)' <=> Created(s)
        /\ \A s \in SeqIds : Waiting(s) => h <= s
  BY AdmitOnly
<1>2. h \in LifeCycle!In("waiting") /\ \A r \in LifeCycle!In("waiting") : h <= r
  BY <1>1, PhasesIn
<1>3. Cardinality(LifeCycle!In("running")) < TotalBatch
  <2>1. LifeCycle!In("running") = AllRunning
    BY PhasesIn
  <2>2. pc = "fillRunningQueue" /\ slots > 0
    BY DEF Admit
  <2>3. slots \in Int /\ BatchSize + slots <= TotalBatch
    BY <2>2 DEF PlaceInv, SlotsCovered, TypeInv, TypeOK
  <2> QED BY <1>0, <2>1, <2>2, <2>3, RunningCounted, BatchSizeType
<1>4. Life'[h] = [Life[h] EXCEPT !.phase = "running"]
  <2>1. Phase(h)' = "running"
    <3>1. ~Waiting(h)' /\ Created(h)'
      <4>1. Created(h)
        BY <1>1, PhaseOf DEF Phase
      <4> QED BY <1>1, <4>1
    <3> QED BY <1>1, <3>1 DEF Phase
  <2>2. SameButDelay(seq[h], seq'[h]) /\ ~seq[h].record
    BY <1>0, <1>1, AdmitDelay
  <2>3. PromptLeft(h)' = PromptLeft(h) /\ OutputLeft(h)' = OutputLeft(h)
    BY <2>2 DEF SameButDelay, PromptLeft, OutputLeft, IsSum
  <2>4. FirstTokenAt(h)' = << >> /\ FirstTokenAt(h) = << >>
    BY <2>2 DEF SameButDelay, FirstTokenAt
  <2>5. /\ Life'[h] = [phase |-> "running", prompt |-> PromptLeft(h),
                      output |-> OutputLeft(h), first |-> << >>]
        /\ Life[h] = [phase |-> Phase(h), prompt |-> PromptLeft(h),
                      output |-> OutputLeft(h), first |-> << >>]
    BY <2>1, <2>3, <2>4, LifeOf
  <2> QED BY <2>5
<1>5. \A s \in SeqIds \ {h} : Life'[s] = Life[s]
  BY <1>1, LifeKept
<1>6. DOMAIN Life' = SeqIds /\ DOMAIN Life = SeqIds
      /\ Life = [s \in SeqIds |-> Life[s]] /\ Life' = [s \in SeqIds |-> Life'[s]]
  BY DEF Life
<1>7. Life' = [Life EXCEPT ![h].phase = "running"]
  BY <1>4, <1>5, <1>6
<1>8. LifeCycle!Cardinality(LifeCycle!In("running")) = Cardinality(LifeCycle!In("running"))
  BY DEF LifeCycle!Cardinality, Cardinality
<1> QED BY <1>2, <1>3, <1>7, <1>8 DEF LifeCycle!Admit

\* What the two ways to start, in the prompt or after it, have in common: a request
\* in its prompt has no first token yet; one after it either has it, or has one
\* token in every iteration and never gets any.
Live(r) ==
  /\ r.current_len < r.input_len => ~r.record /\ r.sum_stage
  /\ ~(r.current_len < r.input_len) =>
        /\ r.num_process_token <= 1
        /\ \/ r.record /\ ~r.sum_stage
           \/ ~r.record /\ r.num_process_token = 1

\* What an iteration makes of such a request.
LEMMA ServedLife ==
  ASSUME NEW r \in Request, NEW q \in Request, NEW time \in Nat, Served(r, q, time), Live(r),
         r.input_len <= r.total_len,
         r.current_len < r.total_len,
         r.current_len < r.input_len => r.current_len + r.num_process_token <= r.input_len,
         r.current_len + r.num_process_token <= r.total_len
  PROVE  /\ r.num_process_token = 0 =>
              /\ q.current_len = r.current_len /\ q.current_len # q.total_len
              /\ q.record = r.record
              /\ r.record => ~Listed(r, q) /\ q.first_token_time = r.first_token_time
         /\ r.current_len < r.input_len =>
              /\ ~r.record
              /\ q.current_len <= q.input_len
              /\ q.current_len = q.total_len => q.input_len = q.total_len
              /\ q.current_len # q.total_len => (q.record <=> q.current_len = q.input_len)
         /\ ~(r.current_len < r.input_len) =>
              /\ q.current_len >= q.input_len
              /\ r.num_process_token # 0 => q.current_len = r.current_len + 1
              /\ q.current_len # q.total_len =>
                   /\ q.record = r.record
                   /\ r.record => ~Listed(r, q) /\ q.first_token_time = r.first_token_time
<1>1. /\ r.input_len \in Nat /\ r.total_len \in Nat /\ r.current_len \in Nat
      /\ r.num_process_token \in Nat
      /\ r.record \in BOOLEAN /\ q.record \in BOOLEAN
  BY DEF Request
<1>2. /\ q.input_len = r.input_len /\ q.total_len = r.total_len
      /\ q.current_len = r.current_len + r.num_process_token
      /\ q.first_token_time = (IF r.sum_stage THEN r.first_token_time + time
                                              ELSE r.first_token_time)
      /\ q.record = (r.record \/ (q.current_len # q.total_len /\ q.current_len = q.input_len))
  BY DEF Served
<1>3. CASE r.current_len < r.input_len
  <2>1. ~r.record
    BY <1>3 DEF Live
  <2>2. /\ q.current_len <= q.input_len
        /\ q.current_len = q.total_len => q.input_len = q.total_len
        /\ r.num_process_token = 0 => q.current_len = r.current_len /\ q.current_len # q.input_len
                                      /\ q.current_len # q.total_len
    BY <1>1, <1>2, <1>3
  <2>3. q.record <=> q.current_len # q.total_len /\ q.current_len = q.input_len
    BY <1>1, <1>2, <2>1
  <2> QED BY <1>1, <1>3, <2>1, <2>2, <2>3
<1>4. CASE ~(r.current_len < r.input_len)
  <2>1. /\ r.num_process_token <= 1
        /\ \/ r.record /\ ~r.sum_stage
           \/ ~r.record /\ r.num_process_token = 1
    BY <1>4 DEF Live
  <2>2. /\ q.current_len >= q.input_len
        /\ r.num_process_token # 0 => q.current_len = r.current_len + 1
        /\ r.num_process_token = 0 => q.current_len = r.current_len /\ q.current_len # q.total_len
        /\ r.num_process_token = 1 => q.current_len # q.input_len
    BY <1>1, <1>2, <1>4, <2>1
  <2>3. q.record = r.record
    <3>1. CASE r.record
      BY <1>1, <1>2, <3>1
    <3>2. CASE ~r.record
      <4>1. q.current_len # q.input_len
        BY <2>1, <2>2, <3>2
      <4> QED BY <1>1, <1>2, <3>2, <4>1
    <3> QED BY <3>1, <3>2
  <2>4. r.record => ~r.sum_stage /\ (Listed(r, q) <=> q.current_len = q.total_len)
    BY <2>1 DEF Listed
  <2>5. r.record => q.first_token_time = r.first_token_time
    BY <1>2, <2>4
  <2> QED BY <1>4, <2>2, <2>3, <2>4, <2>5
<1> QED BY <1>3, <1>4

LEMMA ServeMaps ==
  ASSUME LenInv, LenInv', WarmStep \/ GenStep \/ SumStep,
         \A s \in SeqIds : Running(s) => Live(seq[s])
  PROVE  LifeCycle!Serve
<1>0. /\ PlaceInv /\ TypeInv
      /\ seq \in [SeqIds -> Request] /\ seq' \in [SeqIds -> Request]
  BY DEF LenInv, PlaceInv, TypeInv, TypeOK
<1>1. PICK who \in SUBSET AllRunning, time \in Nat, reports \in BOOLEAN :
        /\ Iteration(who, time, reports)
        /\ \A s \in who : ~IsSum(s) /\ ~Listed(seq[s], seq'[s])
                           => seq'[s].gen_start_time = seq[s].gen_start_time
  BY <1>0, EndIterates
<1> DEFINE S == { s \in who : seq[s].num_process_token # 0 }
<1>2. S \in SUBSET LifeCycle!In("running")
  BY <1>0, PhasesIn
<1>3. ASSUME NEW s \in who
      PROVE  LET r == seq[s]
                 q == seq'[s]
             IN /\ s \in SeqIds /\ r \in Request /\ q \in Request /\ Served(r, q, time) /\ Live(r)
                /\ r.input_len <= r.total_len
                /\ r.current_len < r.total_len
                /\ r.current_len < r.input_len => r.current_len + r.num_process_token <= r.input_len
                /\ r.current_len + r.num_process_token <= r.total_len
                /\ Running(s) /\ Created(s) /\ ~Waiting(s)
                /\ Running(s)' <=> q.current_len # q.total_len
                /\ Waiting(s)' <=> Waiting(s)
                /\ Created(s)' <=> Created(s)
  <2>1. s \in SeqIds /\ Running(s)
    BY DEF AllRunning
  <2>2. Fits(seq[s], Running(s), Waiting(s), Created(s))
    BY <2>1 DEF LenInv
  <2>3. Created(s) /\ ~Waiting(s)
    BY <1>0, <2>1, RunningCreated, Apart
  <2>4. /\ Served(seq[s], seq'[s], time)
        /\ Running(s)' <=> seq'[s].current_len # seq'[s].total_len
        /\ Waiting(s)' <=> Waiting(s)
        /\ Created(s)' <=> Created(s)
    BY <1>1, <2>1 DEF Iteration
  <2> QED BY <1>0, <2>1, <2>2, <2>3, <2>4 DEF Fits
<1>4. LifeCycle!Others(S)
  <2> SUFFICES ASSUME NEW s \in SeqIds \ S PROVE Life'[s] = Life[s]
    BY DEF LifeCycle!Others
  <2>1. CASE s \notin who
    <3>1. /\ seq'[s] = seq[s] /\ (Running(s)' <=> Running(s))
          /\ (Waiting(s)' <=> Waiting(s)) /\ (Created(s)' <=> Created(s))
      BY <1>1, <2>1 DEF Iteration
    <3> QED BY <3>1, LifeKept
  <2>2. CASE s \in who
    <3> DEFINE r == seq[s]
               q == seq'[s]
    <3>1. r.num_process_token = 0
      BY <2>2
    <3>2. /\ q.current_len = r.current_len /\ q.current_len # q.total_len
          /\ q.record = r.record
          /\ r.record => ~Listed(r, q) /\ q.first_token_time = r.first_token_time
      BY <1>3, <2>2, <3>1, ServedLife
    <3>3. q.input_len = r.input_len /\ q.total_len = r.total_len
      BY <1>3, <2>2 DEF Served
    <3>4. r.record => ~IsSum(s)
      BY <1>3, <2>2 DEF Live, IsSum
    <3>5. r.record => q.gen_start_time = r.gen_start_time
      BY <1>1, <2>2, <3>2, <3>4
    <3>6. (Running(s)' <=> Running(s)) /\ (Waiting(s)' <=> Waiting(s))
          /\ (Created(s)' <=> Created(s))
      BY <1>3, <2>2, <3>2
    <3> QED BY <3>2, <3>3, <3>5, <3>6, LifeKept
  <2> QED BY <2>1, <2>2
<1>5. ASSUME NEW s \in S
      PROVE  LifeCycle!Prefill(s) \/ LifeCycle!Generate(s)
  <2> DEFINE r == seq[s]
             q == seq'[s]
  <2>0. s \in who /\ s \in SeqIds /\ r.num_process_token # 0
    BY <1>3
  <2>1. /\ r.input_len \in Nat /\ r.total_len \in Nat /\ r.current_len \in Nat
        /\ r.num_process_token \in Nat
        /\ q.input_len \in Nat /\ q.total_len \in Nat /\ q.current_len \in Nat
        /\ q.record \in BOOLEAN /\ r.record \in BOOLEAN
    BY <1>0, <2>0 DEF Request
  <2>2. /\ q.input_len = r.input_len /\ q.total_len = r.total_len
        /\ q.current_len = r.current_len + r.num_process_token
    BY <1>3, <2>0 DEF Served
  <2>3. /\ Running(s) /\ Created(s) /\ ~Waiting(s)
        /\ Running(s)' <=> q.current_len # q.total_len
        /\ ~Waiting(s)' /\ Created(s)'
        /\ r.input_len <= r.total_len /\ r.current_len < r.total_len
    BY <1>3, <2>0
  <2>4. Phase(s)' = IF q.current_len # q.total_len THEN "running" ELSE "done"
    BY <2>3 DEF Phase
  <2>5. q.current_len = q.total_len => LifeCycle!Done(s)
    <3> SUFFICES ASSUME q.current_len = q.total_len PROVE LifeCycle!Done(s)
      OBVIOUS
    <3>1. q.input_len <= q.current_len
      BY <2>2, <2>3
    <3>2. PromptLeft(s)' = 0 /\ OutputLeft(s)' = 0
      BY <2>1, <3>1 DEF PromptLeft, OutputLeft, IsSum
    <3>3. FirstTokenAt(s)' = << >>
      BY <2>3 DEF FirstTokenAt
    <3>4. Life'[s] = [phase |-> "done", prompt |-> 0, output |-> 0, first |-> << >>]
      BY <2>0, <2>4, <3>2, <3>3, LifeOf
    <3> QED BY <3>4 DEF LifeCycle!Done, LifeCycle!Unborn, LifeCycle!NoTime
  <2>6. CASE IsSum(s)
    <3>1. r.current_len < r.input_len
      BY <2>6 DEF IsSum
    <3>2. /\ ~r.record
          /\ q.current_len <= q.input_len
          /\ q.current_len = q.total_len => q.input_len = q.total_len
          /\ q.current_len # q.total_len => (q.record <=> q.current_len = q.input_len)
      BY <1>3, <2>0, <3>1, ServedLife
    <3>3. /\ PromptLeft(s) = r.input_len - r.current_len
          /\ OutputLeft(s) = r.total_len - r.input_len
      BY <2>6 DEF PromptLeft, OutputLeft
    <3>4. FirstTokenAt(s) = << >>
      BY <3>2 DEF FirstTokenAt
    <3>5. /\ PromptLeft(s)' = q.input_len - q.current_len
          /\ OutputLeft(s)' = q.total_len - q.input_len
      BY <2>1, <3>2 DEF PromptLeft, OutputLeft, IsSum
    <3>6. PromptLeft(s)' < PromptLeft(s)
      BY <2>0, <2>1, <2>2, <3>3, <3>5
    <3>7. Life[s].prompt = PromptLeft(s) /\ Life[s].output = OutputLeft(s)
          /\ Life[s].first = FirstTokenAt(s)
      BY <2>0, LifeOf
    <3>8. Life'[s].prompt = PromptLeft(s)' /\ Life'[s].output = OutputLeft(s)'
          /\ Life'[s].first = FirstTokenAt(s)' /\ Life'[s].phase = Phase(s)'
      BY <2>0, LifeOf
    <3>9. CASE q.current_len = q.total_len
      <4>1. PromptLeft(s)' = 0 /\ OutputLeft(s) = 0
        BY <2>1, <2>2, <3>2, <3>3, <3>5, <3>9
      <4> QED BY <2>5, <3>6, <3>7, <3>8, <3>9, <4>1 DEF LifeCycle!Prefill
    <3>10. CASE q.current_len # q.total_len
      <4>1. OutputLeft(s)' = OutputLeft(s) /\ PromptLeft(s)' + OutputLeft(s)' > 0
        <5>1. q.current_len < q.total_len
          BY <2>1, <2>2, <2>3, <3>2, <3>10
        <5>2. PromptLeft(s)' + OutputLeft(s)' = q.total_len - q.current_len
          BY <2>1, <3>5
        <5> QED BY <2>1, <2>2, <3>3, <3>5, <5>1, <5>2
      <4>2. FirstTokenAt(s)' # << >> <=> q.record
        BY <2>1, <2>3, <3>10 DEF FirstTokenAt
      <4>3. PromptLeft(s)' = 0 <=> q.current_len = q.input_len
        BY <2>1, <3>5
      <4>4. Phase(s)' = "running"
        BY <2>4, <3>10
      <4> QED BY <3>2, <3>4, <3>6, <3>7, <3>8, <3>10, <4>1, <4>2, <4>3, <4>4
              DEF LifeCycle!Prefill, LifeCycle!NoTime
    <3> QED BY <3>9, <3>10
  <2>7. CASE ~IsSum(s)
    <3>1. ~(r.current_len < r.input_len)
      BY <2>7 DEF IsSum
    <3>2. /\ q.current_len >= q.input_len
          /\ q.current_len = r.current_len + 1
          /\ q.current_len # q.total_len =>
               /\ q.record = r.record
               /\ r.record => ~Listed(r, q) /\ q.first_token_time = r.first_token_time
      BY <1>3, <2>0, <3>1, ServedLife
    <3>3. PromptLeft(s) = 0 /\ OutputLeft(s) = r.total_len - r.current_len
      BY <2>7 DEF PromptLeft, OutputLeft
    <3>4. Life[s].prompt = 0 /\ Life[s].output = r.total_len - r.current_len
      BY <2>0, <3>3, LifeOf
    <3>5. CASE q.current_len = q.total_len
      <4>1. Life[s].output = 1
        BY <2>1, <2>2, <3>2, <3>4, <3>5
      <4> QED BY <2>5, <3>4, <3>5, <4>1 DEF LifeCycle!Generate
    <3>6. CASE q.current_len # q.total_len
      <4>1. Phase(s)' = "running" /\ Phase(s) = "running"
        BY <2>3, <2>4, <3>6 DEF Phase
      <4>2. PromptLeft(s)' = 0 /\ OutputLeft(s)' = OutputLeft(s) - 1
        BY <2>1, <2>2, <3>2, <3>3 DEF PromptLeft, OutputLeft, IsSum
      <4>3. FirstTokenAt(s)' = FirstTokenAt(s)
        <5>1. r.record => q.gen_start_time = r.gen_start_time
          BY <1>1, <2>0, <2>7, <3>2, <3>6
        <5> QED BY <2>3, <3>2, <3>6, <5>1 DEF FirstTokenAt
      <4>4. Life[s].output > 1
        BY <2>1, <2>2, <2>3, <3>2, <3>4, <3>6
      <4>5. Life'[s] = [phase |-> "running", prompt |-> 0, output |-> OutputLeft(s) - 1,
                        first |-> FirstTokenAt(s)]
        BY <2>0, <4>1, <4>2, <4>3, LifeOf
      <4>6. Life[s] = [phase |-> "running", prompt |-> 0, output |-> OutputLeft(s),
                       first |-> FirstTokenAt(s)]
        BY <2>0, <3>3, <4>1, LifeOf
      <4>7. Life'[s] = [Life[s] EXCEPT !.output = @ - 1]
        BY <4>5, <4>6
      <4> QED BY <3>4, <4>4, <4>7 DEF LifeCycle!Generate
    <3> QED BY <3>5, <3>6
  <2> QED BY <2>6, <2>7
<1> HIDE DEF S
<1> QED BY <1>2, <1>4, <1>5 DEF LifeCycle!Serve

---------------------------------------------------------------------------
(* The refinement.                                                         *)

\* What the steps of the refinement need of a state and of the next one.
LEMMA NextMaps ==
  ASSUME LenInv, LenInv', [Next]_vars,
         \A s \in SeqIds : Waiting(s) => ~seq[s].record,
         pc = "step" => \A s \in SeqIds : Running(s) => Live(seq[s])
  PROVE  [LifeCycle!Next]_Life
<1>0. PlaceInv /\ PlaceInv' /\ TypeInv
  BY DEF LenInv, PlaceInv
<1>1. DOMAIN Life' = SeqIds
  BY DEF Life
<1>2. CASE FillSequenceQueue
  BY <1>1, <1>2, FillMaps DEF LifeCycle!Next
<1>3. CASE Admit
  BY <1>0, <1>1, <1>3, AdmitMaps DEF LifeCycle!Next
<1>4. CASE WarmStep \/ GenStep \/ SumStep
  <2>1. pc = "step"
    BY <1>4 DEF WarmStep, GenStep, SumStep
  <2> QED BY <1>1, <1>4, <2>1, ServeMaps DEF LifeCycle!Next
<1>5. CASE SetMetadata \/ Untouched
  <2>1. ASSUME NEW s \in SeqIds PROVE Life'[s] = Life[s]
    <3>1. CASE SetMetadata
      BY <1>0, <3>1, MetadataOnly, LifeKept DEF SameButTokens
    <3>2. CASE Untouched
      BY <3>2, UntouchedStep, LifeKept
    <3> QED BY <1>5, <3>1, <3>2
  <2>2. Life = [s \in SeqIds |-> Life[s]] /\ Life' = [s \in SeqIds |-> Life'[s]]
    BY DEF Life
  <2>3. Life' = Life
    BY <2>1, <2>2
  <2> QED BY <2>3
<1> QED BY <1>2, <1>3, <1>4, <1>5, StepCases

\* A configuration that starts requests in their prompts: the record flag says which
\* of them have their first token.
PromptInv == RecordInv /\ SingleTokens

LEMMA PromptStep ==
  ASSUME WorkLeft, StartsInPrompt
  PROVE  PromptInv /\ [Next]_vars => PromptInv' /\ [LifeCycle!Next]_Life
<1> SUFFICES ASSUME PromptInv, [Next]_vars PROVE PromptInv' /\ [LifeCycle!Next]_Life
  OBVIOUS
<1>1. PromptInv'
  BY RecordStep, SingleStep DEF PromptInv
<1>2. LenInv /\ LenInv'
  BY <1>1 DEF PromptInv, RecordInv, StageInv
<1>3. ASSUME NEW s \in SeqIds, Waiting(s) PROVE ~seq[s].record
  BY <1>3 DEF PromptInv, RecordInv
<1>4. ASSUME NEW s \in SeqIds, Running(s) PROVE Live(seq[s])
  <2>1. seq[s].record <=> ~IsSum(s)
    BY <1>4 DEF PromptInv, RecordInv
  <2>2. seq[s].sum_stage <=> IsSum(s)
    BY <1>4 DEF PromptInv, RecordInv, StageInv
  <2>3. ~IsSum(s) => seq[s].num_process_token <= 1
    BY DEF PromptInv, SingleTokens
  <2> QED BY <2>1, <2>2, <2>3 DEF Live, IsSum
<1> QED BY <1>1, <1>2, <1>3, <1>4, NextMaps

\* A configuration without prompts to prefill.
LEMMA NoPromptMaps ==
  ASSUME WorkLeft, \A len \in Lengths : StartLen(len) = len[1]
  PROVE  NoPromptInv /\ [Next]_vars => NoPromptInv' /\ [LifeCycle!Next]_Life
<1> SUFFICES ASSUME NoPromptInv, [Next]_vars PROVE NoPromptInv' /\ [LifeCycle!Next]_Life
  OBVIOUS
<1>1. NoPromptInv'
  BY NoPromptStep
<1>2. LenInv /\ LenInv'
  BY <1>1 DEF NoPromptInv
<1>3. ASSUME NEW s \in SeqIds, Waiting(s) PROVE ~seq[s].record
  BY <1>3 DEF NoPromptInv
<1>4. ASSUME NEW s \in SeqIds, Running(s), pc = "step" PROVE Live(seq[s])
  <2>1. ~IsSum(s) /\ ~seq[s].record /\ seq[s].num_process_token = 1
    BY <1>4 DEF NoPromptInv
  <2> QED BY <2>1 DEF Live, IsSum
<1> QED BY <1>1, <1>2, <1>3, <1>4, NextMaps

\* The scheduler and the iteration loop implement the life cycle of requests, for
\* every number of batches, lengths, durations and arrivals, on one machine or on
\* two, in every configuration that leaves requests something to do: first come
\* first served, the whole prompt before the first output token, one first token
\* which keeps its times, one output token at a time, and an end when, and only
\* when, there is no token left.
THEOREM KeepsPromisesHolds == WorkLeft => (Spec => KeepsPromises)
<1>1. CASE ~WorkLeft
  BY <1>1
<1>2. CASE WorkLeft /\ StartsInPrompt
  <2>1. Init => PromptInv /\ LifeCycle!Init
    BY RecordInit, SingleInit, InitMaps DEF PromptInv
  <2>2. PromptInv /\ [Next]_vars => PromptInv' /\ [LifeCycle!Next]_Life
    BY <1>2, PromptStep
  <2>3. Spec => KeepsPromises
    BY <2>1, <2>2, PTL DEF Spec, KeepsPromises, LifeCycle!Spec
  <2> QED BY <2>3
<1>3. CASE WorkLeft /\ ~StartsInPrompt
  <2>1. \A len \in Lengths : StartLen(len) = len[1]
    BY <1>3, PromptCases
  <2>2. Init => NoPromptInv /\ LifeCycle!Init
    BY NoPromptInit, InitMaps
  <2>3. NoPromptInv /\ [Next]_vars => NoPromptInv' /\ [LifeCycle!Next]_Life
    BY <1>3, <2>1, NoPromptMaps
  <2>4. Spec => KeepsPromises
    BY <2>2, <2>3, PTL DEF Spec, KeepsPromises, LifeCycle!Spec
  <2> QED BY <2>4
<1> QED BY <1>1, <1>2, <1>3
=============================================================================
