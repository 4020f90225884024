-------------------------- MODULE SchedulerProofs --------------------------
(***************************************************************************)
(* Theorems about the scheduler, for every configuration that satisfies    *)
(* ConfigAssumption.                                                       *)
(***************************************************************************)
EXTENDS Scheduler, SequenceTheorems, FiniteSetFacts

(***************************************************************************)
(* Values the configuration can produce.                                   *)
(***************************************************************************)

\* An integer division by ten of a natural number is a natural number.
LEMMA TenthType ==
  ASSUME NEW n \in Nat
  PROVE  n \div 10 \in Nat
OBVIOUS

\* The lengths a new request starts with are natural numbers: pushSeq clamps the
\* output of a synthetic request to what max_seq_len leaves.
LEMMA LengthType ==
  ASSUME NEW len \in Lengths
  PROVE  /\ len[1] \in Nat \ {0} /\ len[2] \in Nat \ {0}
         /\ ClampedOutput(len) \in Nat \ {0}
         /\ TotalLen(len) \in Nat /\ len[1] <= TotalLen(len)
         /\ StartLen(len) \in Nat /\ StartLen(len) <= len[1]
<1>1. /\ len[1] \in Nat \ {0} /\ len[2] \in Nat \ {0}
      /\ RealData \/ len[1] < MaxSeqLen
      /\ MaxSeqLen \in Nat /\ ReuseTenths \in 0 .. 10
  BY ConfigAssumption
<1>2. ClampedOutput(len) \in Nat \ {0}
  BY <1>1 DEF ClampedOutput
<1>3. TotalLen(len) \in Nat /\ len[1] <= TotalLen(len)
  BY <1>1, <1>2 DEF TotalLen
<1>4. StartLen(len) \in Nat /\ StartLen(len) <= len[1]
  <2> DEFINE p == len[1] * ReuseTenths
  <2>1. p \in Nat /\ p <= len[1] * 10
    BY <1>1
  <2>2. p \div 10 \in Nat /\ p \div 10 <= len[1]
    <3> HIDE DEF p
    <3> QED BY <2>1, <1>1
  <2> QED BY <2>2, <1>1 DEF StartLen
<1> QED BY <1>1, <1>2, <1>3, <1>4

\* A new request is a request, wherever its arrival time comes from.
LEMMA NewRequestType ==
  ASSUME NEW len \in Lengths, NEW k \in Nat, cur_arrival_time_idx \in Nat
  PROVE  NewRequest(len, k) \in Request
<1>1. ArrivalAt(cur_arrival_time_idx + k) \in Nat
  BY ConfigAssumption DEF ArrivalAt
<1> DEFINE total == TotalLen(len)
           start == StartLen(len)
           input == len[1]
           arrival == IF TakesArrival THEN ArrivalAt(cur_arrival_time_idx + k) ELSE 0
<1>2. input \in Nat /\ total \in Nat /\ start \in Nat /\ arrival \in Nat
  BY <1>1, LengthType
<1>3. NewRequest(len, k)
        = [NoRequest EXCEPT !.input_len = input, !.total_len = total,
                            !.current_len = start, !.arrival_time = arrival]
  BY DEF NewRequest
<1>4. NoRequest \in Request
  BY DEF NoRequest, Request
<1> HIDE DEF total, start, input, arrival
<1> QED BY <1>2, <1>3, <1>4 DEF Request

(***************************************************************************)
(* Counting requests.                                                      *)
(***************************************************************************)

LEMMA IdsFinite == /\ IsFiniteSet(SeqIds) /\ IsFiniteSet(Batches)
                   /\ 0 \in Batches /\ MaxSeqs \in Nat /\ DPDegree \in Nat \ {0}
<1>1. MaxSeqs - 1 \in Int /\ DPDegree - 1 \in Int /\ 0 \in Int
  BY ConfigAssumption
<1> QED BY <1>1, FS_Interval, ConfigAssumption DEF SeqIds, Batches

\* The pairs of a batch and a request in it, which getBatchSize counts.
Placed(batches) == { p \in Batches \X SeqIds : p[2] \in batches[p[1]] }

LEMMA PlacedFinite ==
  ASSUME NEW batches
  PROVE  IsFiniteSet(Placed(batches)) /\ Cardinality(Placed(batches)) \in Nat
<1>1. IsFiniteSet(Batches \X SeqIds)
  BY IdsFinite, FS_Product
<1>2. Placed(batches) \in SUBSET (Batches \X SeqIds)
  BY DEF Placed
<1> QED BY <1>1, <1>2, FS_Subset, FS_CardinalityType

LEMMA BatchSizeType == BatchSize \in Nat /\ BatchSize = Cardinality(Placed(running_queue))
BY PlacedFinite DEF BatchSize, Placed

LEMMA ArrivedType == ArrivedInWindow \in Nat
<1> DEFINE A == { i \in DOMAIN Arrivals :
                    total_time - iter_time <= Arrivals[i] /\ Arrivals[i] < total_time }
<1>1. IsFiniteSet(1 .. Len(Arrivals)) /\ DOMAIN Arrivals = 1 .. Len(Arrivals)
  BY ConfigAssumption, FS_Interval
<1>2. A \in SUBSET (1 .. Len(Arrivals))
  BY <1>1
<1>3. Cardinality(A) \in Nat
  BY <1>1, <1>2, FS_Subset, FS_CardinalityType
<1> QED BY <1>3 DEF ArrivedInWindow

\* The number of requests created leaves room for the ids of the model.
LEMMA NumPushedType ==
  ASSUME count_id \in 0 .. MaxSeqs
  PROVE  NumPushed \in 0 .. MaxSeqs - count_id
<1>1. NumRequestToInject \in Nat
  <2>1. TotalBatch \in Nat /\ (7 * TotalBatch) \div 10 \in Nat
    BY ConfigAssumption, TenthType
  <2> QED BY <2>1, BatchSizeType, ArrivedType DEF NumRequestToInject
<1> QED BY <1>1, IdsFinite DEF NumPushed

(***************************************************************************)
(* Requests keep their type.                                               *)
(***************************************************************************)

\* The share of a batch with a prefilling request is a number of tokens: it is
\* divided by at least one.
LEMMA ShareType ==
  ASSUME NEW b \in Batches, NEW s \in SumSeqs(b),
         running_queue \in [Batches -> SUBSET SeqIds]
  PROVE  SumShare(b) \in Nat
<1>1. SumSeqs(b) \in SUBSET SeqIds
  BY DEF SumSeqs
<1>2. Cardinality(SumSeqs(b)) \in Nat \ {0}
  BY <1>1, IdsFinite, FS_Subset, FS_CardinalityType, FS_EmptySet
<1> QED BY <1>2, ConfigAssumption DEF SumShare

\* What setMetadata gives a request is a number of tokens.
LEMMA TokensType ==
  ASSUME NEW b \in Batches, NEW s \in SeqIds, s \in running_queue[b],
         seq \in [SeqIds -> Request], running_queue \in [Batches -> SUBSET SeqIds]
  PROVE  Tokens(b, s) \in Nat
<1>1. seq[s] \in Request
  OBVIOUS
<1>2. CASE IsSum(s)
  <2>1. SumShare(b) \in Nat
    BY <1>2, ShareType DEF SumSeqs
  <2> QED BY <1>1, <1>2, <2>1 DEF Tokens, IsSum, Request
<1>3. CASE ~IsSum(s)
  BY <1>1, <1>3 DEF Tokens, Request
<1> QED BY <1>2, <1>3

LEMMA BatchOfType ==
  ASSUME NEW s, Running(s)
  PROVE  BatchOf(s) \in Batches /\ s \in running_queue[BatchOf(s)]
BY DEF BatchOf, Running

LEMMA UpdateType ==
  ASSUME NEW r \in Request, NEW time \in Nat
  PROVE  Update(r, time) \in Request
<1> DEFINE len == r.current_len + r.num_process_token
           end == r.end_token_time + time
           first == IF r.sum_stage THEN r.first_token_time + time ELSE r.first_token_time
           stage == r.sum_stage /\ len # r.input_len
<1>1. len \in Nat /\ end \in Nat /\ first \in Nat
  BY DEF Request
<1>2. stage \in BOOLEAN
  OBVIOUS
<1>3. [r EXCEPT !.end_token_time = end, !.first_token_time = first,
                !.current_len = len, !.num_process_token = 0, !.sum_stage = stage] \in Request
  <2> HIDE DEF len, end, first, stage
  <2> QED BY <1>1, <1>2 DEF Request
<1> QED BY <1>3 DEF Update

LEMMA RecordType ==
  ASSUME NEW r \in Request
  PROVE  [r EXCEPT !.record = @ \/ FirstToken(r)] \in Request
<1> DEFINE record == r.record \/ FirstToken(r)
<1>1. record \in BOOLEAN
  OBVIOUS
<1>2. [r EXCEPT !.record = record] \in Request
  <2> HIDE DEF record
  <2> QED BY <1>1 DEF Request
<1> QED BY <1>2

LEMMA UpdatedType ==
  ASSUME seq \in [SeqIds -> Request], NEW who \in SUBSET SeqIds, NEW time \in Nat
  PROVE  Updated(who, time) \in [SeqIds -> Request]
<1> DEFINE After(s) == LET r == Update(seq[s], time)
                       IN [r EXCEPT !.record = @ \/ FirstToken(r)]
<1>1. ASSUME NEW s \in SeqIds
      PROVE  After(s) \in Request
  <2>1. Update(seq[s], time) \in Request
    BY UpdateType
  <2> QED BY <2>1, RecordType
<1>2. Updated(who, time) = [s \in SeqIds |-> IF s \in who THEN After(s) ELSE seq[s]]
  BY DEF Updated
<1> HIDE DEF After
<1> QED BY <1>1, <1>2

LEMMA StartGenType ==
  ASSUME NEW seqs \in [SeqIds -> Request], NEW list, NEW time \in Nat
  PROVE  StartGen(seqs, list, time) \in [SeqIds -> Request]
BY DEF StartGen, Request

LEMMA ReportedType ==
  ASSUME NEW seqs, NEW list, stat \in [SeqIds -> Seq({"t2ft", "e2e"})]
  PROVE  Reported(seqs, list) \in [SeqIds -> Seq({"t2ft", "e2e"})]
BY DEF Reported

LEMMA PoppedType ==
  ASSUME NEW who, NEW time, running_queue \in [Batches -> SUBSET SeqIds]
  PROVE  /\ Popped(who, time) \in [Batches -> SUBSET SeqIds]
         /\ \A b \in Batches : Popped(who, time)[b] \subseteq running_queue[b]
BY DEF Popped

LEMMA RunningType ==
  ASSUME running_queue \in [Batches -> SUBSET SeqIds]
  PROVE  AllRunning \in SUBSET SeqIds /\ AllSum \in SUBSET SeqIds
BY DEF AllRunning, AllSum

LEMMA TurnType ==
  ASSUME rotate \in Batches, NEW i \in Nat
  PROVE  Turn(i) \in Batches
BY IdsFinite DEF Turn, Batches

\* fillSequenceQueue appends the new ids to the queue, in order.
LEMMA EnqueuedType ==
  ASSUME sequence_queue \in Seq(SeqIds), count_id \in 0 .. MaxSeqs,
         NEW n \in 0 .. MaxSeqs - count_id
  PROVE  /\ Enqueued(n) \in Seq(SeqIds)
         /\ Len(Enqueued(n)) = Len(sequence_queue) + n
         /\ \A i \in 1 .. Len(sequence_queue) : Enqueued(n)[i] = sequence_queue[i]
         /\ \A i \in 1 .. n : Enqueued(n)[Len(sequence_queue) + i] = count_id + i - 1
<1> DEFINE new == [i \in 1 .. n |-> count_id + i - 1]
<1>1. \A i \in 1 .. n : count_id + i - 1 \in SeqIds
  BY IdsFinite DEF SeqIds
<1>2. new \in Seq(SeqIds) /\ Len(new) = n
  BY <1>1, IdsFinite
<1>3. Enqueued(n) = sequence_queue \o new
  BY DEF Enqueued
<1>4. \A i \in 1 .. n : new[i] = count_id + i - 1
  OBVIOUS
<1> HIDE DEF new
<1>5. Enqueued(n) \in Seq(SeqIds) /\ Len(Enqueued(n)) = Len(sequence_queue) + n
  BY <1>2, <1>3, ConcatProperties
<1>6. \A i \in 1 .. Len(sequence_queue) : Enqueued(n)[i] = sequence_queue[i]
  BY <1>2, <1>3
<1>7. \A i \in 1 .. n : Enqueued(n)[Len(sequence_queue) + i] = new[i]
  BY <1>2, <1>3
<1> QED BY <1>4, <1>5, <1>6, <1>7

(***************************************************************************)
(* Type correctness.  Admit takes the head of sequence_queue without a     *)
(* test, so its type depends on the bound that fillRunningQueue computes   *)
(* before the loop.                                                        *)
(***************************************************************************)

TypeInv == TypeOK /\ slots <= Len(sequence_queue)

LEMMA TypeInit == Init => TypeInv
<1> SUFFICES ASSUME Init PROVE TypeInv
  OBVIOUS
<1>1. NoRequest \in Request
  BY DEF NoRequest, Request
<1>2. MaxSeqs \in Nat /\ 0 \in Batches /\ WarmIters \in Nat
  BY IdsFinite, ConfigAssumption
<1> QED BY <1>1, <1>2 DEF Init, TypeInv, TypeOK

LEMMA TypeStep == TypeInv /\ [Next]_vars => TypeInv'
<1> SUFFICES ASSUME TypeInv, [Next]_vars PROVE TypeInv'
  OBVIOUS
<1> USE DEF TypeInv, TypeOK
<1>0. /\ Durations \subseteq Nat /\ 0 \in Nat /\ WarmIters \in Nat
  BY ConfigAssumption
<1>1. CASE FillSequenceQueue
  <2> DEFINE n == NumPushed
  <2>1. n \in 0 .. MaxSeqs - count_id
    BY NumPushedType
  <2>2. PICK lens \in [count_id .. count_id + n - 1 -> Lengths] :
          seq' = [s \in SeqIds |->
                    IF s \in count_id .. count_id + n - 1
                    THEN NewRequest(lens[s], s - count_id) ELSE seq[s]]
    BY <1>1 DEF FillSequenceQueue
  <2>3. \A s \in count_id .. count_id + n - 1 : NewRequest(lens[s], s - count_id) \in Request
    <3> TAKE s \in count_id .. count_id + n - 1
    <3>1. lens[s] \in Lengths /\ s - count_id \in Nat
      BY <2>1
    <3> QED BY <3>1, NewRequestType
  <2>4. seq' \in [SeqIds -> Request]
    BY <2>2, <2>3
  <2>5. /\ count_id' = count_id + n
        /\ sequence_queue' = Enqueued(n)
        /\ cur_arrival_time_idx' = cur_arrival_time_idx + (IF TakesArrival THEN n ELSE 0)
        /\ slots' = NumEmptySeq(Len(Enqueued(n)))
        /\ pc' = "fillRunningQueue"
        /\ UNCHANGED << running_queue, rotate, total_time, sum_machine_time, iter_time,
                        warm, stat >>
    BY <1>1 DEF FillSequenceQueue
  <2>6. /\ Enqueued(n) \in Seq(SeqIds)
        /\ Len(Enqueued(n)) \in Nat
    BY <2>1, EnqueuedType
  <2>7. slots' \in Int /\ slots' <= Len(sequence_queue')
    BY <2>5, <2>6, BatchSizeType, ConfigAssumption DEF NumEmptySeq
  <2>8. count_id' \in 0 .. MaxSeqs /\ cur_arrival_time_idx' \in Nat
    BY <2>1, <2>5, IdsFinite
  <2> HIDE DEF n
  <2> QED BY <2>4, <2>5, <2>6, <2>7, <2>8
<1>2. CASE Admit
  <2>1. sequence_queue # << >> /\ Len(Tail(sequence_queue)) = Len(sequence_queue) - 1
    BY <1>2 DEF Admit
  <2>2. Head(sequence_queue) \in SeqIds /\ Tail(sequence_queue) \in Seq(SeqIds)
    BY <2>1
  <2> DEFINE s == Head(sequence_queue)
  <2>3. PICK i \in 0 .. DPDegree - 1 :
          /\ running_queue' = [running_queue EXCEPT ![Turn(i)] = @ \cup {s}]
          /\ rotate' = Turn(i + 1)
          /\ sequence_queue' = Tail(sequence_queue)
          /\ seq' = IF Inject
                    THEN [seq EXCEPT ![s].queueing_delay = total_time - seq[s].arrival_time]
                    ELSE seq
    BY <1>2 DEF Admit
  <2>4. rotate' \in Batches
    <3>1. i + 1 \in Nat
      BY IdsFinite
    <3> QED BY <2>3, <3>1, TurnType
  <2>5. running_queue' \in [Batches -> SUBSET SeqIds]
    BY <2>2, <2>3
  <2>6. seq' \in [SeqIds -> Request]
    <3> DEFINE delay == total_time - seq[s].arrival_time
    <3>0. s \in SeqIds /\ seq[s] \in Request
      BY <2>2
    <3>1. s \in SeqIds /\ seq[s] \in Request /\ delay \in Int
      <4> HIDE DEF s
      <4> QED BY <3>0 DEF Request
    <3>2. [seq[s] EXCEPT !.queueing_delay = delay] \in Request
      <4> HIDE DEF delay, s
      <4> QED BY <3>1 DEF Request
    <3>3. seq' = seq \/ seq' = [seq EXCEPT ![s] = [seq[s] EXCEPT !.queueing_delay = delay]]
      BY <2>3, <3>1
    <3> HIDE DEF delay, s
    <3> QED BY <3>1, <3>2, <3>3
  <2>7. /\ sequence_queue' \in Seq(SeqIds)
        /\ Len(sequence_queue') = Len(sequence_queue) - 1
        /\ Len(sequence_queue) \in Nat
    BY <2>1, <2>2, <2>3
  <2>8. /\ slots' = slots - 1
        /\ UNCHANGED << count_id, cur_arrival_time_idx, total_time, sum_machine_time,
                        iter_time, warm, stat, pc >>
    BY <1>2 DEF Admit
  <2>9. slots' \in Int /\ slots' <= Len(sequence_queue')
    BY <2>7, <2>8
  <2> HIDE DEF s
  <2> QED BY <2>4, <2>5, <2>6, <2>7, <2>8, <2>9
<1>3. CASE NoRoom
  BY <1>3 DEF NoRoom
<1>4. CASE Filled
  BY <1>4 DEF Filled
<1>5. CASE SetMetadata
  <2>1. \A s \in SeqIds : Running(s) => Tokens(BatchOf(s), s) \in Nat
    BY TokensType, BatchOfType
  <2>2. ASSUME NEW r \in Request, NEW n \in Nat
        PROVE  [r EXCEPT !.num_process_token = n] \in Request
    BY DEF Request
  <2>3. seq' \in [SeqIds -> Request]
    BY <1>5, <2>1, <2>2 DEF SetMetadata
  <2> QED BY <1>5, <2>3 DEF SetMetadata
<1>6. CASE WarmStep
  <2>1. seq' \in [SeqIds -> Request] /\ running_queue' \in [Batches -> SUBSET SeqIds]
    BY <1>6, <1>0, UpdatedType, RunningType, PoppedType DEF WarmStep
  <2> QED BY <1>6, <1>0, <2>1 DEF WarmStep
<1>7. CASE Idle
  BY <1>7 DEF Idle
<1>8. CASE GenStep
  <2>1. PICK time \in Durations :
          /\ total_time' = total_time + time
          /\ iter_time' = time
          /\ seq' = StartGen(Updated(AllRunning, time), TokenList(AllRunning, time),
                             total_time + time)
          /\ running_queue' = Popped(AllRunning, time)
          /\ stat' = Reported(Updated(AllRunning, time), TokenList(AllRunning, time))
    BY <1>8 DEF GenStep
  <2>2. time \in Nat /\ total_time + time \in Nat
    BY <1>0
  <2>3. seq' \in [SeqIds -> Request]
    BY <2>1, <2>2, UpdatedType, RunningType, StartGenType
  <2>4. stat' \in [SeqIds -> Seq({"t2ft", "e2e"})]
    BY <2>1, ReportedType
  <2>5. running_queue' \in [Batches -> SUBSET SeqIds]
    BY <2>1, PoppedType
  <2> QED BY <1>8, <2>1, <2>2, <2>3, <2>4, <2>5 DEF GenStep
<1>9. CASE SumStep
  <2>1. PICK time \in Durations :
          LET end == (IF total_time > sum_machine_time THEN total_time
                                                       ELSE sum_machine_time) + time
              updated == StartGen(Updated(AllSum, time), AllSum, total_time + time)
              list == TokenList(AllSum, time)
          IN /\ sum_machine_time' = end
             /\ seq' = StartGen(updated, list, end)
             /\ running_queue' = Popped(AllSum, time)
             /\ stat' = Reported(updated, list)
    BY <1>9 DEF SumStep
  <2> DEFINE end == (IF total_time > sum_machine_time THEN total_time
                                                     ELSE sum_machine_time) + time
             updated == StartGen(Updated(AllSum, time), AllSum, total_time + time)
  <2>2. time \in Nat /\ total_time + time \in Nat /\ end \in Nat
    BY <1>0
  <2>3. updated \in [SeqIds -> Request]
    BY <2>2, UpdatedType, RunningType, StartGenType
  <2>4. seq' \in [SeqIds -> Request]
    BY <2>1, <2>2, <2>3, StartGenType
  <2>5. stat' \in [SeqIds -> Seq({"t2ft", "e2e"})]
    BY <2>1, ReportedType
  <2>6. running_queue' \in [Batches -> SUBSET SeqIds]
    BY <2>1, PoppedType
  <2> QED BY <1>9, <2>1, <2>2, <2>4, <2>5, <2>6 DEF SumStep
<1>10. CASE UNCHANGED vars
  BY <1>10 DEF vars
<1> QED BY <1>1, <1>2, <1>3, <1>4, <1>5, <1>6, <1>7, <1>8, <1>9, <1>10 DEF Next

\* Every variable keeps its type, whatever the configuration: lengths stay natural
\* numbers and fillRunningQueue never takes the head of an empty queue.
THEOREM TypeCorrect == Spec => []TypeOK
<1>1. TypeInv => TypeOK
  BY DEF TypeInv
<1> QED BY <1>1, TypeInit, TypeStep, PTL DEF Spec

(***************************************************************************)
(* Placement, and the bound that fillRunningQueue relies on.  The two are  *)
(* proved together: that an admitted request adds one to getBatchSize      *)
(* holds because it is younger than everything running.                    *)
(***************************************************************************)

PlaceInv == TypeInv /\ Placement /\ SlotsCovered /\ BatchSize <= TotalBatch

\* A step that only pops keeps the placement, and does not grow the batches.
LEMMA PopKeepsPlacement ==
  ASSUME TypeInv, TypeInv', Placement, UNCHANGED << count_id, sequence_queue >>,
         \A b \in Batches : running_queue'[b] \subseteq running_queue[b]
  PROVE  Placement' /\ BatchSize' <= BatchSize
<1>1. Placement'
  <2> USE DEF TypeInv, TypeOK
  <2>1. \A b \in Batches : \A s \in running_queue'[b] :
          s < count_id' - Len(sequence_queue')
    BY DEF Placement
  <2>2. \A b, c \in Batches : b # c => running_queue'[b] \cap running_queue'[c] = {}
    BY DEF Placement
  <2> QED BY <2>1, <2>2 DEF Placement
<1>2. BatchSize' <= BatchSize
  <2>1. Placed(running_queue') \in SUBSET Placed(running_queue)
    BY DEF Placed
  <2>2. BatchSize' = Cardinality(Placed(running_queue'))
    BY DEF BatchSize, Placed
  <2> QED BY <2>1, <2>2, PlacedFinite, BatchSizeType, FS_Subset
<1> QED BY <1>1, <1>2

LEMMA AdmitPlaces ==
  ASSUME PlaceInv, TypeInv', Admit
  PROVE  Placement' /\ BatchSize' = BatchSize + 1
<1> DEFINE s == Head(sequence_queue)
           len == Len(sequence_queue)
<1>1. /\ sequence_queue \in Seq(SeqIds) /\ sequence_queue # << >>
      /\ running_queue \in [Batches -> SUBSET SeqIds]
      /\ rotate \in Batches /\ count_id \in Nat /\ count_id' = count_id
      /\ sequence_queue' = Tail(sequence_queue)
  BY IdsFinite DEF PlaceInv, TypeInv, TypeOK, Admit
<1>2. /\ s \in SeqIds /\ s = sequence_queue[1]
      /\ len \in Nat \ {0} /\ DOMAIN sequence_queue = 1 .. len
      /\ sequence_queue' \in Seq(SeqIds) /\ Len(sequence_queue') = len - 1
      /\ DOMAIN sequence_queue' = 1 .. len - 1
      /\ \A k \in 1 .. len - 1 : sequence_queue'[k] = sequence_queue[k + 1]
  BY <1>1, HeadTailProperties
<1>3. PICK b \in Batches : running_queue' = [running_queue EXCEPT ![b] = @ \cup {s}]
  <2>1. PICK i \in 0 .. DPDegree - 1 :
          running_queue' = [running_queue EXCEPT ![Turn(i)] = @ \cup {s}]
    BY DEF Admit
  <2>2. Turn(i) \in Batches
    BY <1>1, TurnType, IdsFinite
  <2> QED BY <2>1, <2>2
<1>4. /\ len <= count_id
      /\ \A k \in 1 .. len : sequence_queue[k] = count_id - len + k - 1
      /\ \A c \in Batches : \A t \in running_queue[c] : t < count_id - len
      /\ \A c, d \in Batches : c # d => running_queue[c] \cap running_queue[d] = {}
  BY <1>2 DEF PlaceInv, Placement
<1> HIDE DEF s, len
<1>5. s = count_id - len /\ s \in Int
  <2>1. 1 \in 1 .. len
    BY <1>2
  <2> QED BY <1>1, <1>2, <1>4, <2>1
<1>6. \A c \in Batches : s \notin running_queue[c]
  <2>1. ~(s < s)
    BY <1>5
  <2> QED BY <1>4, <1>5, <2>1
<1>7. count_id' - Len(sequence_queue') = s + 1
  BY <1>1, <1>2, <1>5
<1>8. Len(sequence_queue') <= count_id'
  BY <1>1, <1>2, <1>4
<1>9. \A k \in DOMAIN sequence_queue' :
        sequence_queue'[k] = count_id' - Len(sequence_queue') + k - 1
  <2> TAKE k \in DOMAIN sequence_queue'
  <2>1. k \in 1 .. len - 1 /\ k + 1 \in 1 .. len
    BY <1>2
  <2>2. sequence_queue'[k] = count_id - len + (k + 1) - 1
    BY <1>2, <1>4, <2>1
  <2> QED BY <1>1, <1>2, <1>5, <1>7, <2>1, <2>2
<1>10. \A c \in Batches : \A t \in running_queue'[c] : t < count_id' - Len(sequence_queue')
  <2> TAKE c \in Batches
  <2> TAKE t \in running_queue'[c]
  <2>1. t \in running_queue[c] \/ t = s
    BY <1>1, <1>3
  <2>2. CASE t = s
    BY <1>5, <1>7, <2>2
  <2>3. CASE t \in running_queue[c]
    <3>1. t < s /\ t \in Int
      BY <1>1, <1>4, <1>5, <2>3 DEF SeqIds
    <3> QED BY <1>5, <1>7, <3>1
  <2> QED BY <2>1, <2>2, <2>3
<1>11. \A c, d \in Batches : c # d => running_queue'[c] \cap running_queue'[d] = {}
  BY <1>1, <1>3, <1>4, <1>6
<1>12. Placement'
  BY <1>8, <1>9, <1>10, <1>11 DEF Placement, Batches
<1>13. BatchSize' = BatchSize + 1
  <2>1. << b, s >> \notin Placed(running_queue)
    BY <1>6 DEF Placed
  <2>2. Placed(running_queue') = Placed(running_queue) \cup {<< b, s >>}
    <3>1. \A c \in Batches : running_queue'[c]
                               = IF c = b THEN running_queue[c] \cup {s} ELSE running_queue[c]
      BY <1>1, <1>3
    <3>2. ASSUME NEW c \in Batches, NEW t \in SeqIds
          PROVE  t \in running_queue'[c] <=> t \in running_queue[c] \/ << c, t >> = << b, s >>
      <4>1. CASE c = b
        BY <3>1, <4>1
      <4>2. CASE c # b
        BY <3>1, <4>2
      <4> QED BY <4>1, <4>2
    <3> QED BY <1>2, <3>2 DEF Placed
  <2>3. BatchSize' = Cardinality(Placed(running_queue'))
    BY DEF BatchSize, Placed
  <2> QED BY <2>1, <2>2, <2>3, PlacedFinite, BatchSizeType, FS_AddElement
<1> QED BY <1>12, <1>13

LEMMA PlaceInit == Init => PlaceInv
<1> SUFFICES ASSUME Init PROVE PlaceInv
  OBVIOUS
<1>1. BatchSize = 0
  <2>1. Placed(running_queue) = {}
    BY DEF Init, Placed
  <2> QED BY <2>1, BatchSizeType, FS_EmptySet
<1>2. Placement /\ SlotsCovered
  BY DEF Init, Placement, SlotsCovered
<1> QED BY <1>1, <1>2, TypeInit, ConfigAssumption DEF PlaceInv

LEMMA PlaceStep == PlaceInv /\ [Next]_vars => PlaceInv'
<1> SUFFICES ASSUME PlaceInv, [Next]_vars PROVE PlaceInv'
  OBVIOUS
<1>0. TypeInv /\ TypeInv' /\ TotalBatch \in Nat /\ TotalBatch' = TotalBatch
  BY TypeStep, ConfigAssumption DEF PlaceInv
<1>1. BatchSize \in Nat /\ BatchSize <= TotalBatch
  BY BatchSizeType DEF PlaceInv
<1>2. CASE FillSequenceQueue
  <2> DEFINE n == NumPushed
  <2>0. /\ count_id \in 0 .. MaxSeqs /\ sequence_queue \in Seq(SeqIds)
        /\ Len(sequence_queue) \in Nat /\ DOMAIN sequence_queue = 1 .. Len(sequence_queue)
    <3>1. count_id \in 0 .. MaxSeqs /\ sequence_queue \in Seq(SeqIds)
      BY <1>0 DEF TypeInv, TypeOK
    <3> QED BY <3>1
  <2>1. n \in 0 .. MaxSeqs - count_id
    BY <2>0, NumPushedType
  <2>2. /\ count_id' = count_id + n
        /\ sequence_queue' = Enqueued(n)
        /\ slots' = NumEmptySeq(Len(Enqueued(n)))
        /\ UNCHANGED running_queue
    BY <1>2 DEF FillSequenceQueue
  <2>3. /\ Enqueued(n) \in Seq(SeqIds)
        /\ Len(Enqueued(n)) = Len(sequence_queue) + n
        /\ \A i \in 1 .. Len(sequence_queue) : Enqueued(n)[i] = sequence_queue[i]
        /\ \A i \in 1 .. n : Enqueued(n)[Len(sequence_queue) + i] = count_id + i - 1
    BY <2>0, <2>1, EnqueuedType
  <2> HIDE DEF n
  <2>4. Len(sequence_queue) \in Nat /\ count_id \in Nat /\ n \in Nat
    BY <2>0, <2>1, IdsFinite
  <2>5. \A i \in 1 .. Len(sequence_queue) + n :
          Enqueued(n)[i] = count_id - Len(sequence_queue) + i - 1
    <3> TAKE i \in 1 .. Len(sequence_queue) + n
    <3>1. CASE i <= Len(sequence_queue)
      <4>1. i \in DOMAIN sequence_queue /\ i \in 1 .. Len(sequence_queue)
        BY <2>0, <2>4, <3>1
      <4>2. sequence_queue[i] = count_id - Len(sequence_queue) + i - 1
        BY <4>1 DEF PlaceInv, Placement
      <4> QED BY <2>3, <4>1, <4>2
    <3>2. CASE i > Len(sequence_queue)
      <4> DEFINE j == i - Len(sequence_queue)
      <4>1. j \in 1 .. n /\ i = Len(sequence_queue) + j
        BY <2>4, <3>2
      <4>2. Enqueued(n)[Len(sequence_queue) + j] = count_id + j - 1
        BY <2>3, <4>1
      <4> QED BY <2>4, <4>1, <4>2
    <3> QED BY <2>4, <3>1, <3>2
  <2>6. count_id' - Len(sequence_queue') = count_id - Len(sequence_queue)
    BY <2>2, <2>3, <2>4
  <2>7. Placement'
    <3>1. Len(sequence_queue') <= count_id'
      BY <2>2, <2>3, <2>4 DEF PlaceInv, Placement
    <3>2. \A i \in DOMAIN sequence_queue' :
            sequence_queue'[i] = count_id' - Len(sequence_queue') + i - 1
      BY <2>2, <2>3, <2>4, <2>5, <2>6
    <3> QED BY <2>2, <2>6, <3>1, <3>2 DEF PlaceInv, Placement
  <2>8. BatchSize' = BatchSize
    BY <2>2 DEF BatchSize
  <2>9. SlotsCovered'
    BY <1>0, <1>1, <2>2, <2>3, <2>4, <2>8 DEF SlotsCovered, NumEmptySeq
  <2> QED BY <1>0, <1>1, <2>7, <2>8, <2>9 DEF PlaceInv
<1>3. CASE Admit
  <2>1. Placement' /\ BatchSize' = BatchSize + 1
    BY <1>0, <1>3, AdmitPlaces
  <2>2. /\ pc = "fillRunningQueue" /\ pc' = pc /\ slots' = slots - 1 /\ slots > 0
        /\ Len(sequence_queue') = Len(sequence_queue) - 1
    <3>1. sequence_queue # << >> /\ sequence_queue \in Seq(SeqIds)
      BY <1>3, <1>0 DEF Admit, TypeInv, TypeOK
    <3>2. Len(Tail(sequence_queue)) = Len(sequence_queue) - 1
      BY <3>1, HeadTailProperties
    <3> QED BY <1>3, <3>2 DEF Admit
  <2>3. slots \in Int /\ Len(sequence_queue) \in Nat
    BY <1>0 DEF TypeInv, TypeOK
  <2>4. SlotsCovered' /\ BatchSize' <= TotalBatch
    BY <1>0, <1>1, <2>1, <2>2, <2>3 DEF PlaceInv, SlotsCovered
  <2> QED BY <1>0, <2>1, <2>4 DEF PlaceInv
<1>4. CASE NoRoom \/ Filled \/ SetMetadata \/ Idle \/ UNCHANGED vars
  <2>1. UNCHANGED << count_id, sequence_queue, running_queue >>
    BY <1>4 DEF NoRoom, Filled, SetMetadata, Idle, vars
  <2>2. Placement' /\ BatchSize' = BatchSize
    BY <2>1 DEF PlaceInv, Placement, BatchSize
  <2>3. slots \in Int /\ Len(sequence_queue) \in Nat
    BY <1>0 DEF TypeInv, TypeOK
  <2>4. SlotsCovered'
    BY <1>0, <1>1, <1>4, <2>1, <2>2, <2>3
       DEF PlaceInv, SlotsCovered, NoRoom, Filled, SetMetadata, Idle, vars
  <2> QED BY <1>0, <1>1, <2>2, <2>4 DEF PlaceInv
<1>5. CASE WarmStep \/ GenStep \/ SumStep
  <2>1. UNCHANGED << count_id, sequence_queue >> /\ pc' # "fillRunningQueue"
    BY <1>5 DEF WarmStep, GenStep, SumStep
  <2>2. \A b \in Batches : running_queue'[b] \subseteq running_queue[b]
    BY <1>5, <1>0, PoppedType DEF WarmStep, GenStep, SumStep, TypeInv, TypeOK
  <2>3. Placement' /\ BatchSize' <= BatchSize
    BY <1>0, <2>1, <2>2, PopKeepsPlacement DEF PlaceInv
  <2>4. BatchSize' \in Nat
    BY PlacedFinite DEF BatchSize, Placed
  <2> QED BY <1>0, <1>1, <2>1, <2>3, <2>4 DEF PlaceInv, SlotsCovered
<1> QED BY <1>2, <1>3, <1>4, <1>5 DEF Next

\* Admission is first come first served, and a request is in the queue or in one
\* batch, never in two places, for any batch size, degree and arrival process.
THEOREM PlacementHolds == Spec => []Placement
<1>1. PlaceInv => Placement
  BY DEF PlaceInv
<1> QED BY <1>1, PlaceInit, PlaceStep, PTL DEF Spec

\* fillRunningQueue never dereferences the begin() of an empty queue, and the
\* batches together never exceed total_batch_size.
THEOREM SlotsCoveredHolds == Spec => []SlotsCovered
<1>1. PlaceInv => SlotsCovered
  BY DEF PlaceInv
<1> QED BY <1>1, PlaceInit, PlaceStep, PTL DEF Spec

(***************************************************************************)
(* The search of fillRunningQueue.                                         *)
(***************************************************************************)

\* When no batch has room, the batches hold dp_degree * batch_size_per_dp requests:
\* every pair of a batch and a place in it is taken by a request of its own.
LEMMA FullBatches ==
  ASSUME running_queue \in [Batches -> SUBSET SeqIds], \A b \in Batches : ~HasRoom(b)
  PROVE  DPDegree * PerBatch <= BatchSize
<1> DEFINE Places == 1 .. PerBatch
           size(b) == Cardinality(running_queue[b])
           at(b) == CHOOSE f : f \in Bijection(1 .. size(b), running_queue[b])
           g == [p \in Batches \X Places |-> << p[1], at(p[1])[p[2]] >>]
<1>1. PerBatch \in Nat /\ DPDegree \in Nat \ {0}
  BY ConfigAssumption DEF PerBatch
<1>2. ASSUME NEW b \in Batches
      PROVE  /\ size(b) \in Nat /\ PerBatch <= size(b)
             /\ at(b) \in Bijection(1 .. size(b), running_queue[b])
  <2>1. IsFiniteSet(running_queue[b])
    BY IdsFinite, FS_Subset
  <2>2. size(b) \in Nat /\ \E f : f \in Bijection(1 .. size(b), running_queue[b])
    BY <2>1, FS_CardinalityType DEF ExistsBijection
  <2>3. PerBatch <= size(b)
    <3>1. ~(size(b) < PerBatch)
      BY DEF HasRoom
    <3> HIDE DEF size
    <3> QED BY <1>1, <2>2, <3>1
  <2> QED BY <2>2, <2>3
<1> HIDE DEF size, at
<1>3. ASSUME NEW b \in Batches, NEW i \in Places, NEW j \in Places
      PROVE  /\ at(b)[i] \in running_queue[b]
             /\ at(b)[i] = at(b)[j] => i = j
  <2>1. i \in 1 .. size(b) /\ j \in 1 .. size(b)
    BY <1>1, <1>2
  <2> QED BY <1>2, <2>1 DEF Bijection, Injection, IsInjective
<1>4. g \in Injection(Batches \X Places, Placed(running_queue))
  <2>1. ASSUME NEW p \in Batches \X Places
        PROVE  g[p] \in Placed(running_queue)
    <3>1. p[1] \in Batches /\ p[2] \in Places
      OBVIOUS
    <3> HIDE DEF Places
    <3>2. at(p[1])[p[2]] \in running_queue[p[1]]
      BY <1>3, <3>1
    <3> QED BY <3>1, <3>2 DEF Placed
  <2>2. ASSUME NEW p \in Batches \X Places, NEW q \in Batches \X Places, g[p] = g[q]
        PROVE  p = q
    <3>1. /\ p[1] \in Batches /\ p[2] \in Places /\ p = << p[1], p[2] >>
          /\ q[1] \in Batches /\ q[2] \in Places /\ q = << q[1], q[2] >>
      OBVIOUS
    <3>2. p[1] = q[1] /\ at(p[1])[p[2]] = at(q[1])[q[2]]
      BY <2>2
    <3> HIDE DEF Places, g
    <3>3. p[2] = q[2]
      BY <1>3, <3>1, <3>2
    <3> QED BY <3>1, <3>2, <3>3
  <2>3. g \in [Batches \X Places -> Placed(running_queue)]
    <3> HIDE DEF Places
    <3> QED BY <2>1
  <2> HIDE DEF g, Places
  <2> QED BY <2>2, <2>3 DEF Injection, IsInjective
<1>5. Cardinality(Batches \X Places) <= BatchSize
  <2> HIDE DEF g, Places
  <2> QED BY <1>4, PlacedFinite, BatchSizeType, FS_Injection
<1>6. Cardinality(Batches) = DPDegree /\ Cardinality(Places) = PerBatch
      /\ IsFiniteSet(Batches) /\ IsFiniteSet(Places)
  <2>1. 0 \in Int /\ DPDegree - 1 \in Int /\ 1 \in Int /\ PerBatch \in Int
    BY <1>1
  <2>2. /\ IsFiniteSet(0 .. DPDegree - 1)
        /\ Cardinality(0 .. DPDegree - 1)
             = IF 0 > DPDegree - 1 THEN 0 ELSE (DPDegree - 1) - 0 + 1
    BY <2>1, FS_Interval
  <2>3. /\ IsFiniteSet(1 .. PerBatch)
        /\ Cardinality(1 .. PerBatch) = IF 1 > PerBatch THEN 0 ELSE PerBatch - 1 + 1
    BY <2>1, FS_Interval
  <2>4. Cardinality(Batches) = DPDegree /\ IsFiniteSet(Batches)
    BY <1>1, <2>2 DEF Batches
  <2> QED BY <1>1, <2>3, <2>4
<1>7. Cardinality(Batches \X Places) = DPDegree * PerBatch
  <2> HIDE DEF Places
  <2> QED BY <1>6, FS_Product
<1> QED BY <1>5, <1>7

\* The loop of fillRunningQueue has one iteration for each waiting request of a
\* closed loop, and leaves none.
QueueInv ==
  /\ PlaceInv
  /\ ~Inject => /\ Len(sequence_queue) + BatchSize <= TotalBatch
                /\ IF pc = "fillRunningQueue" THEN slots = Len(sequence_queue)
                                              ELSE sequence_queue = << >>

\* A loop with an iteration left finds a batch with room.
LEMMA RoomLeft ==
  ASSUME TotalBatch % DPDegree = 0, PlaceInv, pc = "fillRunningQueue", slots > 0
  PROVE  \E b \in Batches : HasRoom(b)
<1>1. BatchSize \in Nat /\ BatchSize < TotalBatch
  BY BatchSizeType, ConfigAssumption DEF PlaceInv, SlotsCovered
<1>2. DPDegree * PerBatch = TotalBatch
  <2>1. TotalBatch \in Nat /\ DPDegree \in Nat \ {0}
    BY ConfigAssumption
  <2>2. TotalBatch = DPDegree * (TotalBatch \div DPDegree) + (TotalBatch % DPDegree)
    BY <2>1
  <2>3. TotalBatch \div DPDegree \in Int
    BY <2>1
  <2> QED BY <2>1, <2>2, <2>3 DEF PerBatch
<1>3. TotalBatch \in Nat
  BY ConfigAssumption
<1>4. running_queue \in [Batches -> SUBSET SeqIds]
  BY DEF PlaceInv, TypeInv, TypeOK
<1> QED BY <1>1, <1>2, <1>3, <1>4, FullBatches

LEMMA QueueInit == Init => QueueInv
<1> SUFFICES ASSUME Init PROVE QueueInv
  OBVIOUS
<1>1. PlaceInv
  BY PlaceInit
<1>2. sequence_queue = << >> /\ pc = "fillSequenceQueue"
  BY DEF Init
<1>3. Len(sequence_queue) = 0
  BY <1>2
<1> QED BY <1>1, <1>2, <1>3, BatchSizeType, ConfigAssumption DEF QueueInv, PlaceInv

LEMMA QueueStep == TotalBatch % DPDegree = 0 /\ QueueInv /\ [Next]_vars => QueueInv'
<1> SUFFICES ASSUME TotalBatch % DPDegree = 0, QueueInv, [Next]_vars PROVE QueueInv'
  OBVIOUS
<1>0. PlaceInv /\ PlaceInv'
  BY PlaceStep DEF QueueInv
<1> SUFFICES ASSUME ~Inject
             PROVE  /\ Len(sequence_queue') + BatchSize' <= TotalBatch
                    /\ IF pc' = "fillRunningQueue" THEN slots' = Len(sequence_queue')
                                                   ELSE sequence_queue' = << >>
  BY <1>0 DEF QueueInv
<1>1. /\ TotalBatch \in Nat /\ BatchSize \in Nat /\ BatchSize' \in Nat
      /\ sequence_queue \in Seq(SeqIds) /\ Len(sequence_queue) \in Nat
      /\ Len(sequence_queue) + BatchSize <= TotalBatch
      /\ slots \in Int
  <2>1. TotalBatch \in Nat /\ BatchSize \in Nat
    BY ConfigAssumption, BatchSizeType
  <2>2. BatchSize' \in Nat
    BY PlacedFinite DEF BatchSize, Placed
  <2>3. sequence_queue \in Seq(SeqIds) /\ slots \in Int
    BY <1>0 DEF PlaceInv, TypeInv, TypeOK
  <2> QED BY <2>1, <2>2, <2>3 DEF QueueInv
<1>2. CASE FillSequenceQueue
  <2> DEFINE n == NumPushed
  <2>1. sequence_queue = << >> /\ Len(sequence_queue) = 0
    BY <1>2 DEF QueueInv, FillSequenceQueue
  <2>2. count_id \in 0 .. MaxSeqs /\ MaxSeqs \in Nat
    BY <1>0, IdsFinite DEF PlaceInv, TypeInv, TypeOK
  <2>3. n \in 0 .. MaxSeqs - count_id
    BY <2>2, NumPushedType
  <2>4. n <= TotalBatch - BatchSize
    <3>1. NumRequestToInject \in Nat /\ NumRequestToInject <= TotalBatch - BatchSize
      BY <1>1 DEF NumRequestToInject
    <3> QED BY <1>1, <2>2, <3>1 DEF NumPushed
  <2>5. /\ sequence_queue' = Enqueued(n) /\ slots' = NumEmptySeq(Len(Enqueued(n)))
        /\ pc' = "fillRunningQueue" /\ UNCHANGED running_queue
    BY <1>2 DEF FillSequenceQueue
  <2>6. Len(Enqueued(n)) = n
    BY <1>1, <2>1, <2>2, <2>3, EnqueuedType
  <2>7. BatchSize' = BatchSize
    BY <2>5 DEF BatchSize
  <2> HIDE DEF n
  <2>8. slots' = n
    BY <1>1, <2>2, <2>3, <2>4, <2>5, <2>6 DEF NumEmptySeq
  <2> QED BY <1>1, <2>2, <2>3, <2>4, <2>5, <2>6, <2>7, <2>8
<1>3. CASE Admit
  <2>1. BatchSize' = BatchSize + 1
    BY <1>0, <1>3, AdmitPlaces DEF PlaceInv
  <2>2. Len(sequence_queue') = Len(sequence_queue) - 1 /\ slots' = slots - 1
        /\ pc = "fillRunningQueue" /\ pc' = pc
    <3>1. sequence_queue # << >>
      BY <1>0, <1>1, <1>3 DEF Admit, PlaceInv, TypeInv
    <3>2. Len(Tail(sequence_queue)) = Len(sequence_queue) - 1
      BY <1>1, <3>1, HeadTailProperties
    <3> QED BY <1>3, <3>2 DEF Admit
  <2> QED BY <1>1, <2>1, <2>2 DEF QueueInv
<1>4. CASE NoRoom
  BY <1>0, <1>4, RoomLeft DEF NoRoom
<1>5. CASE Filled
  <2>1. Len(sequence_queue) = 0
    BY <1>1, <1>5 DEF QueueInv, Filled
  <2>2. sequence_queue = << >>
    BY <1>1, <2>1, EmptySeq
  <2> QED BY <1>1, <1>5, <2>2 DEF Filled, BatchSize
<1>6. CASE SetMetadata \/ Idle \/ UNCHANGED vars
  BY <1>1, <1>6 DEF QueueInv, SetMetadata, Idle, vars, BatchSize
<1>7. CASE WarmStep \/ GenStep \/ SumStep
  <2>1. UNCHANGED << count_id, sequence_queue >> /\ pc' # "fillRunningQueue"
        /\ pc # "fillRunningQueue"
    BY <1>7 DEF WarmStep, GenStep, SumStep
  <2>2. \A b \in Batches : running_queue'[b] \subseteq running_queue[b]
    BY <1>7, <1>0, PoppedType DEF WarmStep, GenStep, SumStep, PlaceInv, TypeInv, TypeOK
  <2>3. BatchSize' <= BatchSize
    BY <1>0, <2>1, <2>2, PopKeepsPlacement DEF PlaceInv
  <2>4. sequence_queue = << >> /\ sequence_queue' = sequence_queue
    BY <2>1 DEF QueueInv
  <2>5. Len(sequence_queue') = Len(sequence_queue)
    BY <2>4
  <2>6. Len(sequence_queue') + BatchSize' <= TotalBatch
    BY <1>1, <2>3, <2>5
  <2> QED BY <2>1, <2>4, <2>6
<1> QED BY <1>2, <1>3, <1>4, <1>5, <1>6, <1>7 DEF Next

\* When dp_degree divides total_batch_size, the search of fillRunningQueue finds a
\* batch in every iteration, and a closed loop keeps at most total_batch_size
\* requests alive.
THEOREM QueueBoundedHolds == Spec => []QueueBounded
<1>1. CASE TotalBatch % DPDegree = 0
  <2>1. QueueInv => QueueBounded
    BY <1>1, RoomLeft DEF QueueInv, QueueBounded
  <2>2. QueueInv /\ [Next]_vars => QueueInv'
    BY <1>1, QueueStep
  <2> QED BY <2>1, <2>2, QueueInit, PTL DEF Spec
<1>2. CASE TotalBatch % DPDegree # 0
  <2>1. QueueBounded
    BY <1>2 DEF QueueBounded
  <2> QED BY <2>1, PTL
<1> QED BY <1>1, <1>2

---------------------------------------------------------------------------
(***************************************************************************)
(* The lengths of a request: the tokens it is given, and the stage it is   *)
(* in.                                                                     *)
(***************************************************************************)

\* What holds of a request r of the given standing.  A waiting request has no
\* token, and tokens never take a request past the end of its prompt or of its
\* output; a retired one is complete.
Fits(r, running, waiting, created) ==
  /\ r.input_len <= r.total_len
  /\ running \/ waiting => r.current_len < r.total_len
  /\ waiting => r.num_process_token = 0
  /\ running => r.current_len + r.num_process_token <= r.total_len
  /\ r.current_len < r.input_len => r.current_len + r.num_process_token <= r.input_len
  /\ created /\ ~running /\ ~waiting => r.current_len = r.total_len

LenInv ==
  /\ PlaceInv
  /\ \A s \in SeqIds : Fits(seq[s], Running(s), Waiting(s), Created(s))

\* The stage flag of a live request.
StageInv ==
  /\ LenInv
  /\ \A s \in SeqIds : Running(s) \/ Waiting(s) => (seq[s].sum_stage <=> IsSum(s))

\* The lengths, the tokens and the stage of r are those of q.
SameLens(r, q) ==
  /\ r.input_len = q.input_len /\ r.total_len = q.total_len
  /\ r.current_len = q.current_len /\ r.num_process_token = q.num_process_token
  /\ r.sum_stage = q.sum_stage

---------------------------------------------------------------------------

\* A request waits or runs, never both: what runs is older than what waits.
LEMMA Apart ==
  ASSUME PlaceInv, NEW s \in SeqIds
  PROVE  ~(Running(s) /\ Waiting(s))
<1> SUFFICES ASSUME Running(s), Waiting(s) PROVE FALSE
  OBVIOUS
<1>1. /\ sequence_queue \in Seq(SeqIds) /\ count_id \in Nat /\ s \in Int
      /\ Len(sequence_queue) \in Nat /\ DOMAIN sequence_queue = 1 .. Len(sequence_queue)
  BY IdsFinite DEF PlaceInv, TypeInv, TypeOK, SeqIds
<1>2. PICK i \in 1 .. Len(sequence_queue) : sequence_queue[i] = s
  BY <1>1 DEF Waiting
<1>3. s = count_id - Len(sequence_queue) + i - 1
  BY <1>1, <1>2 DEF PlaceInv, Placement
<1>4. s < count_id - Len(sequence_queue)
  BY DEF PlaceInv, Placement, Running
<1> QED BY <1>1, <1>3, <1>4

\* What setMetadata gives a request: nothing new, one token to generate, or a
\* part of what is left of its prompt.
LEMMA TokensBound ==
  ASSUME NEW b \in Batches, NEW s \in SeqIds, s \in running_queue[b],
         seq \in [SeqIds -> Request], running_queue \in [Batches -> SUBSET SeqIds]
  PROVE  \/ Tokens(b, s) = seq[s].num_process_token
         \/ ~IsSum(s) /\ Tokens(b, s) = 1
         \/ IsSum(s) /\ Tokens(b, s) <= seq[s].input_len - seq[s].current_len
<1>1. seq[s] \in Request
  OBVIOUS
<1>2. CASE IsSum(s)
  <2>1. SumShare(b) \in Nat
    BY <1>2, ShareType DEF SumSeqs
  <2>2. seq[s].input_len - seq[s].current_len \in Int
    BY <1>1 DEF Request
  <2> QED BY <1>2, <2>1, <2>2 DEF Tokens
<1>3. CASE ~IsSum(s)
  BY <1>3 DEF Tokens
<1> QED BY <1>2, <1>3

\* Sequence::update adds the tokens, clears them, and leaves the prefill stage
\* when the prompt is complete.
LEMMA UpdateLens ==
  ASSUME NEW r \in Request, NEW time \in Nat
  PROVE  LET q == Update(r, time) IN
         /\ q.input_len = r.input_len /\ q.total_len = r.total_len
         /\ q.current_len = r.current_len + r.num_process_token
         /\ q.num_process_token = 0
         /\ q.sum_stage = (r.sum_stage /\ q.current_len # r.input_len)
<1> DEFINE len == r.current_len + r.num_process_token
           end == r.end_token_time + time
           first == IF r.sum_stage THEN r.first_token_time + time ELSE r.first_token_time
           stage == r.sum_stage /\ len # r.input_len
           q == [r EXCEPT !.end_token_time = end, !.first_token_time = first,
                          !.current_len = len, !.num_process_token = 0, !.sum_stage = stage]
<1>1. Update(r, time) = q
  BY DEF Update
<1>2. /\ q.input_len = r.input_len /\ q.total_len = r.total_len
      /\ q.current_len = len /\ q.num_process_token = 0 /\ q.sum_stage = stage
  <2> HIDE DEF len, end, first, stage
  <2> QED BY DEF Request
<1> HIDE DEF q
<1> QED BY <1>1, <1>2

LEMMA RecordLens ==
  ASSUME NEW r \in Request
  PROVE  SameLens([r EXCEPT !.record = @ \/ FirstToken(r)], r)
<1> DEFINE record == r.record \/ FirstToken(r)
<1> HIDE DEF record
<1>1. SameLens([r EXCEPT !.record = record], r)
  BY DEF Request, SameLens
<1> QED BY <1>1 DEF record

LEMMA StartGenLens ==
  ASSUME NEW seqs \in [SeqIds -> Request], NEW list, NEW time \in Nat, NEW s \in SeqIds
  PROVE  SameLens(StartGen(seqs, list, time)[s], seqs[s])
BY DEF StartGen, SameLens, Request

LEMMA UpdatedLens ==
  ASSUME seq \in [SeqIds -> Request], NEW who \in SUBSET SeqIds, NEW time \in Nat,
         NEW s \in SeqIds
  PROVE  IF s \in who THEN SameLens(Updated(who, time)[s], Update(seq[s], time))
                      ELSE SameLens(Updated(who, time)[s], seq[s])
<1> DEFINE After(t) == LET r == Update(seq[t], time)
                       IN [r EXCEPT !.record = @ \/ FirstToken(r)]
<1>1. Updated(who, time) = [t \in SeqIds |-> IF t \in who THEN After(t) ELSE seq[t]]
  BY DEF Updated
<1>2. SameLens(After(s), Update(seq[s], time))
  BY UpdateType, RecordLens
<1>3. SameLens(seq[s], seq[s])
  BY DEF SameLens
<1> HIDE DEF After
<1> QED BY <1>1, <1>2, <1>3

---------------------------------------------------------------------------
(* The steps.  Each lemma says what one action does to the standing of a   *)
(* request and to its lengths.                                             *)

\* The end of an iteration, for whichever requests `who` it updates: those that
\* reach total_len are popped.
LEMMA EndStep ==
  ASSUME LenInv, NEW who \in SUBSET AllRunning, NEW time \in Nat,
         running_queue' = Popped(who, time), UNCHANGED << count_id, sequence_queue >>,
         \A s \in SeqIds :
           SameLens(seq'[s], IF s \in who THEN Update(seq[s], time) ELSE seq[s])
  PROVE  \A s \in SeqIds : Fits(seq'[s], Running(s)', Waiting(s)', Created(s)')
<1> SUFFICES ASSUME NEW s \in SeqIds
             PROVE  Fits(seq'[s], Running(s)', Waiting(s)', Created(s)')
  OBVIOUS
<1>1. seq[s] \in Request
  BY DEF LenInv, PlaceInv, TypeInv, TypeOK
<1>2. Fits(seq[s], Running(s), Waiting(s), Created(s)) /\ ~(Running(s) /\ Waiting(s))
  BY Apart DEF LenInv
<1>3. (Waiting(s)' <=> Waiting(s)) /\ (Created(s)' <=> Created(s))
  BY DEF Waiting, Created
<1>4. CASE s \notin who
  <2>1. Running(s)' <=> Running(s)
    BY <1>4 DEF Running, Popped
  <2>2. SameLens(seq'[s], seq[s])
    BY <1>4
  <2> QED BY <1>2, <1>3, <2>1, <2>2 DEF Fits, SameLens
<1>5. CASE s \in who
  <2>1. Running(s)
    BY <1>5 DEF AllRunning
  <2>2. Running(s)' <=> ~Finished(Update(seq[s], time))
    BY <1>5, <2>1 DEF Running, Popped
  <2> DEFINE q == Update(seq[s], time)
             r == seq[s]
  <2>3. /\ q.input_len = r.input_len /\ q.total_len = r.total_len
        /\ q.current_len = r.current_len + r.num_process_token
        /\ q.num_process_token = 0
    BY <1>1, UpdateLens
  <2>4. SameLens(seq'[s], q)
    BY <1>5
  <2>5. Finished(q) <=> q.current_len = q.total_len
    BY DEF Finished
  <2>6. /\ r.input_len <= r.total_len /\ r.current_len + r.num_process_token <= r.total_len
        /\ r.current_len < r.input_len => r.current_len + r.num_process_token <= r.input_len
        /\ ~Waiting(s)
    BY <1>2, <2>1 DEF Fits
  <2>7. /\ r.input_len \in Nat /\ r.total_len \in Nat
        /\ r.current_len \in Nat /\ r.num_process_token \in Nat
    BY <1>1 DEF Request
  <2> HIDE DEF q, r
  <2>8. Fits(q, Running(s)', FALSE, Created(s)')
    BY <2>2, <2>3, <2>5, <2>6, <2>7 DEF Fits, q
  <2> QED BY <1>3, <2>4, <2>6, <2>8 DEF Fits, SameLens
<1> QED BY <1>4, <1>5

\* fillSequenceQueue creates requests that wait and leaves the others alone.
LEMMA FillEffect ==
  ASSUME PlaceInv, FillSequenceQueue, NEW s \in SeqIds
  PROVE  \/ /\ Waiting(s)' /\ ~Created(s) /\ Created(s)'
            /\ \E len \in Lengths, k \in Int : seq'[s] = NewRequest(len, k)
         \/ /\ seq'[s] = seq[s]
            /\ Running(s)' <=> Running(s)
            /\ Waiting(s)' <=> Waiting(s)
            /\ Created(s)' <=> Created(s)
<1> DEFINE n == NumPushed
           new == count_id .. count_id + n - 1
<1>0. /\ count_id \in 0 .. MaxSeqs /\ n \in 0 .. MaxSeqs - count_id
      /\ sequence_queue \in Seq(SeqIds) /\ cur_arrival_time_idx \in Nat
  BY NumPushedType DEF PlaceInv, TypeInv, TypeOK
<1>1. /\ count_id' = count_id + n /\ sequence_queue' = Enqueued(n)
      /\ UNCHANGED running_queue
  BY DEF FillSequenceQueue
<1>2. PICK lens \in [new -> Lengths] :
        seq' = [t \in SeqIds |-> IF t \in new THEN NewRequest(lens[t], t - count_id) ELSE seq[t]]
  BY DEF FillSequenceQueue
<1>3. /\ Enqueued(n) \in Seq(SeqIds)
      /\ Len(Enqueued(n)) = Len(sequence_queue) + n
      /\ \A i \in 1 .. Len(sequence_queue) : Enqueued(n)[i] = sequence_queue[i]
      /\ \A i \in 1 .. n : Enqueued(n)[Len(sequence_queue) + i] = count_id + i - 1
  BY <1>0, EnqueuedType
<1>4. /\ Len(sequence_queue) \in Nat /\ DOMAIN sequence_queue = 1 .. Len(sequence_queue)
      /\ DOMAIN sequence_queue' = 1 .. Len(sequence_queue) + n
      /\ n \in Nat /\ count_id \in Nat
  BY <1>0, <1>1, <1>3, IdsFinite
<1> HIDE DEF n
<1>5. s \in Int
  BY DEF SeqIds
<1>6. CASE s \in new
  <2> DEFINE i == s - count_id + 1
  <2>1. i \in 1 .. n /\ s = count_id + i - 1
    BY <1>4, <1>5, <1>6
  <2>2. Waiting(s)'
    <3>1. sequence_queue'[Len(sequence_queue) + i] = s
      BY <1>1, <1>3, <2>1
    <3>2. Len(sequence_queue) + i \in DOMAIN sequence_queue'
      BY <1>4, <2>1
    <3> QED BY <3>1, <3>2 DEF Waiting
  <2>3. /\ seq'[s] = NewRequest(lens[s], s - count_id)
        /\ lens[s] \in Lengths /\ s - count_id \in Int
    BY <1>2, <1>4, <1>5, <1>6
  <2>4. ~Created(s) /\ Created(s)'
    BY <1>1, <1>4, <1>5, <1>6 DEF Created
  <2> QED BY <2>2, <2>3, <2>4
<1>7. CASE s \notin new
  <2>1. seq'[s] = seq[s] /\ (Running(s)' <=> Running(s))
    BY <1>1, <1>2, <1>7 DEF Running
  <2>2. Created(s)' <=> Created(s)
    BY <1>1, <1>4, <1>5, <1>7 DEF Created
  <2>3. Waiting(s) => Waiting(s)'
    BY <1>1, <1>3, <1>4 DEF Waiting
  <2>4. Waiting(s)' => Waiting(s)
    <3> SUFFICES ASSUME NEW i \in 1 .. Len(sequence_queue) + n, sequence_queue'[i] = s
                 PROVE  Waiting(s)
      BY <1>4 DEF Waiting
    <3>1. CASE i <= Len(sequence_queue)
      BY <1>1, <1>3, <1>4, <3>1 DEF Waiting
    <3>2. CASE i > Len(sequence_queue)
      <4> DEFINE j == i - Len(sequence_queue)
      <4>1. j \in 1 .. n /\ i = Len(sequence_queue) + j
        BY <1>4, <3>2
      <4>2. s = count_id + j - 1
        BY <1>1, <1>3, <4>1
      <4> QED BY <1>4, <1>7, <4>1, <4>2
    <3> QED BY <1>4, <3>1, <3>2
  <2> QED BY <2>1, <2>2, <2>3, <2>4
<1> QED BY <1>6, <1>7

LEMMA NewRequestLens ==
  ASSUME NEW len \in Lengths, NEW k \in Int
  PROVE  LET r == NewRequest(len, k) IN
         /\ r.input_len = len[1] /\ r.total_len = TotalLen(len)
         /\ r.current_len = StartLen(len) /\ r.num_process_token = 0
         /\ r.sum_stage = TRUE
BY DEF NewRequest, NoRequest

\* New requests start before their end, and wait.
LEMMA FillStep ==
  ASSUME WorkLeft, LenInv, FillSequenceQueue
  PROVE  \A s \in SeqIds : Fits(seq'[s], Running(s)', Waiting(s)', Created(s)')
<1> SUFFICES ASSUME NEW s \in SeqIds
             PROVE  Fits(seq'[s], Running(s)', Waiting(s)', Created(s)')
  OBVIOUS
<1>1. CASE /\ Waiting(s)'
           /\ \E len \in Lengths, k \in Int : seq'[s] = NewRequest(len, k)
  <2>1. PICK len \in Lengths, k \in Int : seq'[s] = NewRequest(len, k)
    BY <1>1
  <2>2. /\ seq'[s].input_len = len[1] /\ seq'[s].total_len = TotalLen(len)
        /\ seq'[s].current_len = StartLen(len) /\ seq'[s].num_process_token = 0
    BY <2>1, NewRequestLens
  <2>3. /\ len[1] \in Nat /\ TotalLen(len) \in Nat /\ StartLen(len) \in Nat
        /\ len[1] <= TotalLen(len) /\ StartLen(len) < TotalLen(len) /\ StartLen(len) <= len[1]
    BY LengthType DEF WorkLeft
  <2> QED BY <1>1, <2>2, <2>3 DEF Fits
<1>2. CASE /\ seq'[s] = seq[s]
           /\ Running(s)' <=> Running(s)
           /\ Waiting(s)' <=> Waiting(s)
           /\ Created(s)' => Created(s)
  <2>1. Fits(seq[s], Running(s), Waiting(s), Created(s))
    BY DEF LenInv
  <2> QED BY <1>2, <2>1 DEF Fits
<1> QED BY <1>1, <1>2, FillEffect DEF LenInv

\* An admitted request brings no token along.
LEMMA AdmitStep ==
  ASSUME LenInv, Admit
  PROVE  /\ \A s \in SeqIds : Fits(seq'[s], Running(s)', Waiting(s)', Created(s)')
         /\ \A s \in SeqIds : SameLens(seq'[s], seq[s])
         /\ \A s \in SeqIds : Running(s)' \/ Waiting(s)' => Running(s) \/ Waiting(s)
<1> DEFINE h == Head(sequence_queue)
           len == Len(sequence_queue)
<1>1. /\ sequence_queue \in Seq(SeqIds) /\ sequence_queue # << >>
      /\ running_queue \in [Batches -> SUBSET SeqIds] /\ rotate \in Batches
      /\ seq \in [SeqIds -> Request]
      /\ count_id' = count_id /\ sequence_queue' = Tail(sequence_queue)
  <2>1. TypeInv
    BY DEF LenInv, PlaceInv
  <2>2. sequence_queue # << >> /\ sequence_queue' = Tail(sequence_queue) /\ count_id' = count_id
    BY <2>1 DEF TypeInv, TypeOK, Admit
  <2> QED BY <2>1, <2>2 DEF TypeInv, TypeOK
<1>2. /\ h \in SeqIds /\ h = sequence_queue[1]
      /\ len \in Nat \ {0} /\ DOMAIN sequence_queue = 1 .. len
      /\ DOMAIN sequence_queue' = 1 .. len - 1
      /\ \A k \in 1 .. len - 1 : sequence_queue'[k] = sequence_queue[k + 1]
  BY <1>1, HeadTailProperties
<1>3. PICK b \in Batches : running_queue' = [running_queue EXCEPT ![b] = @ \cup {h}]
  <2>1. PICK i \in 0 .. DPDegree - 1 :
          running_queue' = [running_queue EXCEPT ![Turn(i)] = @ \cup {h}]
    BY DEF Admit
  <2>2. Turn(i) \in Batches
    BY <1>1, TurnType, IdsFinite
  <2> QED BY <2>1, <2>2
<1>4. seq' = seq \/ seq' = [seq EXCEPT ![h].queueing_delay = total_time - seq[h].arrival_time]
  BY DEF Admit
<1> HIDE DEF h, len
<1>5. \A s \in SeqIds : SameLens(seq'[s], seq[s])
  <2> TAKE s \in SeqIds
  <2> DEFINE delay == total_time - seq[h].arrival_time
  <2>1. seq'[s] = seq[s] \/ seq'[s] = [seq[s] EXCEPT !.queueing_delay = delay]
    BY <1>1, <1>2, <1>4
  <2> HIDE DEF delay
  <2> QED BY <1>1, <2>1 DEF SameLens, Request
<1>6. Waiting(h)
  <2>1. 1 \in DOMAIN sequence_queue
    BY <1>2
  <2> QED BY <1>2, <2>1 DEF Waiting
<1>7. \A s \in SeqIds : /\ Running(s)' <=> Running(s) \/ s = h
                        /\ Waiting(s)' => Waiting(s)
                        /\ Waiting(s) => Waiting(s)' \/ s = h
                        /\ Created(s)' <=> Created(s)
  <2> TAKE s \in SeqIds
  <2>1. Running(s)' <=> Running(s) \/ s = h
    BY <1>1, <1>3 DEF Running
  <2>2. Waiting(s)' => Waiting(s)
    <3> SUFFICES ASSUME NEW k \in 1 .. len - 1, sequence_queue'[k] = s
                 PROVE  Waiting(s)
      BY <1>2 DEF Waiting
    <3>1. k + 1 \in DOMAIN sequence_queue /\ sequence_queue[k + 1] = s
      BY <1>2
    <3> QED BY <3>1 DEF Waiting
  <2>3. Waiting(s) => Waiting(s)' \/ s = h
    <3> SUFFICES ASSUME NEW k \in 1 .. len, sequence_queue[k] = s, k # 1
                 PROVE  Waiting(s)'
      BY <1>2 DEF Waiting
    <3>1. k - 1 \in 1 .. len - 1 /\ sequence_queue'[k - 1] = sequence_queue[k]
      BY <1>2
    <3> QED BY <1>2, <3>1 DEF Waiting
  <2> QED BY <1>1, <2>1, <2>2, <2>3 DEF Created
<1>8. \A s \in SeqIds : Fits(seq'[s], Running(s)', Waiting(s)', Created(s)')
  <2> TAKE s \in SeqIds
  <2>1. Fits(seq[s], Running(s), Waiting(s), Created(s)) /\ SameLens(seq'[s], seq[s])
    BY <1>5 DEF LenInv
  <2>2. CASE s = h
    <3>1. /\ seq[s].num_process_token = 0 /\ seq[s].current_len < seq[s].total_len
          /\ seq[s].current_len \in Nat /\ seq[s].total_len \in Nat
      BY <1>1, <1>6, <2>1, <2>2 DEF Fits, Request
    <3>2. Running(s)' /\ ~Running(s)
      BY <1>6, <1>7, <2>2, Apart DEF LenInv
    <3> QED BY <2>1, <3>1, <3>2 DEF Fits, SameLens
  <2>3. CASE s # h
    <3>1. /\ Running(s)' <=> Running(s)
          /\ Waiting(s)' <=> Waiting(s)
          /\ Created(s)' <=> Created(s)
      BY <1>7, <2>3
    <3> QED BY <2>1, <3>1 DEF Fits, SameLens
  <2> QED BY <2>2, <2>3
<1>9. \A s \in SeqIds : Running(s)' \/ Waiting(s)' => Running(s) \/ Waiting(s)
  BY <1>6, <1>7
<1> QED BY <1>5, <1>8, <1>9

\* setMetadata gives no request more than it has left.
LEMMA MetadataStep ==
  ASSUME LenInv, SetMetadata
  PROVE  /\ \A s \in SeqIds : Fits(seq'[s], Running(s)', Waiting(s)', Created(s)')
         /\ \A s \in SeqIds : /\ seq'[s].input_len = seq[s].input_len
                              /\ seq'[s].current_len = seq[s].current_len
                              /\ seq'[s].sum_stage = seq[s].sum_stage
<1>1. /\ seq \in [SeqIds -> Request] /\ running_queue \in [Batches -> SUBSET SeqIds]
  BY DEF LenInv, PlaceInv, TypeInv, TypeOK
<1>2. UNCHANGED << count_id, sequence_queue, running_queue >>
  BY DEF SetMetadata
<1>3. \A s \in SeqIds : /\ Running(s)' <=> Running(s)
                        /\ Waiting(s)' <=> Waiting(s)
                        /\ Created(s)' <=> Created(s)
  BY <1>2 DEF Running, Waiting, Created
<1>4. seq' = [s \in SeqIds |->
                IF Running(s)
                THEN [seq[s] EXCEPT !.num_process_token = Tokens(BatchOf(s), s)] ELSE seq[s]]
  BY DEF SetMetadata
<1>5. ASSUME NEW s \in SeqIds
      PROVE  /\ Fits(seq'[s], Running(s)', Waiting(s)', Created(s)')
             /\ seq'[s].input_len = seq[s].input_len
             /\ seq'[s].current_len = seq[s].current_len
             /\ seq'[s].sum_stage = seq[s].sum_stage
  <2>1. Fits(seq[s], Running(s), Waiting(s), Created(s)) /\ ~(Running(s) /\ Waiting(s))
    BY Apart DEF LenInv
  <2>2. CASE ~Running(s)
    BY <1>3, <1>4, <2>1, <2>2 DEF Fits
  <2>3. CASE Running(s)
    <3> DEFINE n == Tokens(BatchOf(s), s)
    <3>1. BatchOf(s) \in Batches /\ s \in running_queue[BatchOf(s)]
      BY <2>3, BatchOfType
    <3>2. /\ n \in Nat
          /\ \/ n = seq[s].num_process_token
             \/ ~IsSum(s) /\ n = 1
             \/ IsSum(s) /\ n <= seq[s].input_len - seq[s].current_len
      BY <1>1, <3>1, TokensType, TokensBound
    <3>3. seq'[s] = [seq[s] EXCEPT !.num_process_token = n]
      BY <1>4, <2>3
    <3> HIDE DEF n
    <3>4. /\ seq'[s].input_len = seq[s].input_len /\ seq'[s].total_len = seq[s].total_len
          /\ seq'[s].current_len = seq[s].current_len /\ seq'[s].num_process_token = n
          /\ seq'[s].sum_stage = seq[s].sum_stage
          /\ seq[s].input_len \in Nat /\ seq[s].total_len \in Nat /\ seq[s].current_len \in Nat
          /\ seq[s].num_process_token \in Nat
      BY <1>1, <3>3 DEF Request
    <3> QED BY <1>3, <2>1, <2>3, <3>2, <3>4 DEF Fits, IsSum
  <2> QED BY <2>2, <2>3
<1> QED BY <1>5

\* What the three ends of an iteration have in common.
LEMMA EndEffect ==
  ASSUME LenInv, WarmStep \/ GenStep \/ SumStep
  PROVE  \E who \in SUBSET AllRunning, time \in Nat :
           /\ running_queue' = Popped(who, time)
           /\ UNCHANGED << count_id, sequence_queue >>
           /\ \A s \in SeqIds :
                SameLens(seq'[s], IF s \in who THEN Update(seq[s], time) ELSE seq[s])
<1>1. /\ seq \in [SeqIds -> Request] /\ running_queue \in [Batches -> SUBSET SeqIds]
      /\ total_time \in Nat /\ sum_machine_time \in Nat /\ Durations \subseteq Nat
  BY ConfigAssumption DEF LenInv, PlaceInv, TypeInv, TypeOK
<1>2. AllRunning \in SUBSET SeqIds /\ AllSum \in SUBSET SeqIds /\ AllSum \in SUBSET AllRunning
  BY <1>1, RunningType DEF AllSum
<1>3. \A r, q, p : SameLens(r, q) /\ SameLens(q, p) => SameLens(r, p)
  BY DEF SameLens
<1>4. CASE WarmStep
  <2>1. /\ seq' = Updated(AllRunning, 0) /\ running_queue' = Popped(AllRunning, 0)
        /\ UNCHANGED << count_id, sequence_queue >>
    BY <1>4 DEF WarmStep
  <2>2. \A s \in SeqIds :
          SameLens(seq'[s], IF s \in AllRunning THEN Update(seq[s], 0) ELSE seq[s])
    BY <1>1, <1>2, <2>1, UpdatedLens
  <2> QED BY <2>1, <2>2
<1>5. CASE GenStep
  <2>1. PICK time \in Durations :
          /\ seq' = StartGen(Updated(AllRunning, time), TokenList(AllRunning, time),
                             total_time + time)
          /\ running_queue' = Popped(AllRunning, time)
          /\ UNCHANGED << count_id, sequence_queue >>
    BY <1>5 DEF GenStep
  <2>2. time \in Nat /\ total_time + time \in Nat
    BY <1>1
  <2>3. Updated(AllRunning, time) \in [SeqIds -> Request]
    BY <1>1, <1>2, <2>2, UpdatedType
  <2>4. \A s \in SeqIds :
          SameLens(seq'[s], IF s \in AllRunning THEN Update(seq[s], time) ELSE seq[s])
    <3> TAKE s \in SeqIds
    <3>1. SameLens(seq'[s], Updated(AllRunning, time)[s])
      BY <2>1, <2>2, <2>3, StartGenLens
    <3>2. SameLens(Updated(AllRunning, time)[s],
                   IF s \in AllRunning THEN Update(seq[s], time) ELSE seq[s])
      BY <1>1, <1>2, <2>2, UpdatedLens
    <3> QED BY <1>3, <3>1, <3>2
  <2> QED BY <2>1, <2>2, <2>4
<1>6. CASE SumStep
  <2> DEFINE end(time) == (IF total_time > sum_machine_time THEN total_time
                                                            ELSE sum_machine_time) + time
             updated(time) == StartGen(Updated(AllSum, time), AllSum, total_time + time)
  <2>1. PICK time \in Durations :
          /\ seq' = StartGen(updated(time), TokenList(AllSum, time), end(time))
          /\ running_queue' = Popped(AllSum, time)
          /\ UNCHANGED << count_id, sequence_queue >>
    BY <1>6 DEF SumStep
  <2>2. time \in Nat /\ total_time + time \in Nat /\ end(time) \in Nat
    BY <1>1
  <2>3. /\ Updated(AllSum, time) \in [SeqIds -> Request]
        /\ updated(time) \in [SeqIds -> Request]
    BY <1>1, <1>2, <2>2, UpdatedType, StartGenType
  <2>4. \A s \in SeqIds :
          SameLens(seq'[s], IF s \in AllSum THEN Update(seq[s], time) ELSE seq[s])
    <3> TAKE s \in SeqIds
    <3>1. SameLens(updated(time)[s], Updated(AllSum, time)[s])
      BY <2>2, <2>3, StartGenLens
    <3>2. SameLens(seq'[s], updated(time)[s])
      <4> HIDE DEF updated, end
      <4> QED BY <2>1, <2>2, <2>3, StartGenLens
    <3>3. SameLens(Updated(AllSum, time)[s],
                   IF s \in AllSum THEN Update(seq[s], time) ELSE seq[s])
      BY <1>1, <1>2, <2>2, UpdatedLens
    <3> HIDE DEF updated
    <3> QED BY <1>3, <3>1, <3>2, <3>3
  <2> QED BY <1>2, <2>1, <2>2, <2>4
<1> QED BY <1>4, <1>5, <1>6

---------------------------------------------------------------------------
(* Tokens never take a request past its end.                               *)

\* The actions that touch neither a request nor a queue.
Untouched == UNCHANGED << seq, count_id, sequence_queue, running_queue >>

LEMMA UntouchedStep ==
  ASSUME Untouched, NEW s \in SeqIds
  PROVE  /\ seq'[s] = seq[s]
         /\ Running(s)' <=> Running(s)
         /\ Waiting(s)' <=> Waiting(s)
         /\ Created(s)' <=> Created(s)
BY DEF Untouched, Running, Waiting, Created

LEMMA StepCases ==
  ASSUME [Next]_vars
  PROVE  \/ FillSequenceQueue \/ Admit \/ SetMetadata
         \/ WarmStep \/ GenStep \/ SumStep \/ Untouched
BY DEF Next, vars, Untouched, NoRoom, Filled, Idle

LEMMA LenInit == Init => LenInv
<1> SUFFICES ASSUME Init PROVE LenInv
  OBVIOUS
<1>1. PlaceInv
  BY PlaceInit
<1>2. ASSUME NEW s \in SeqIds
      PROVE  Fits(seq[s], Running(s), Waiting(s), Created(s))
  <2>1. ~Running(s) /\ ~Waiting(s)
    BY DEF Init, Running, Waiting
  <2>2. ~Created(s)
    BY IdsFinite DEF Init, Created, SeqIds
  <2>3. seq[s] = NoRequest
    BY DEF Init
  <2> QED BY <2>1, <2>2, <2>3 DEF Fits, NoRequest
<1> QED BY <1>1, <1>2 DEF LenInv

LEMMA LenStep == WorkLeft /\ LenInv /\ [Next]_vars => LenInv'
<1> SUFFICES ASSUME WorkLeft, LenInv, [Next]_vars
             PROVE  LenInv'
  OBVIOUS
<1>0. PlaceInv'
  BY PlaceStep DEF LenInv
<1> SUFFICES \A s \in SeqIds : Fits(seq'[s], Running(s)', Waiting(s)', Created(s)')
  BY <1>0 DEF LenInv
<1>1. CASE FillSequenceQueue
  BY <1>1, FillStep
<1>2. CASE Admit
  BY <1>2, AdmitStep
<1>3. CASE SetMetadata
  BY <1>3, MetadataStep
<1>4. CASE WarmStep \/ GenStep \/ SumStep
  <2>1. PICK who \in SUBSET AllRunning, time \in Nat :
          /\ running_queue' = Popped(who, time)
          /\ UNCHANGED << count_id, sequence_queue >>
          /\ \A s \in SeqIds :
               SameLens(seq'[s], IF s \in who THEN Update(seq[s], time) ELSE seq[s])
    BY <1>4, EndEffect
  <2> QED BY <2>1, EndStep
<1>5. CASE Untouched
  <2> TAKE s \in SeqIds
  <2>1. Fits(seq[s], Running(s), Waiting(s), Created(s))
    BY DEF LenInv
  <2> QED BY <1>5, <2>1, UntouchedStep DEF Fits
<1> QED BY <1>1, <1>2, <1>3, <1>4, <1>5, StepCases

\* No request is given more tokens than its total_len leaves, one that is popped
\* has all of them, and one that is not has some to come: updateScheduler's test
\* current_len == total_len misses none.
THEOREM NoOvershootHolds == Spec => []NoOvershoot
<1>1. LenInv => NoOvershoot
  BY DEF LenInv, Fits, NoOvershoot, Retired
<1>2. CASE WorkLeft
  <2>1. LenInv /\ [Next]_vars => LenInv'
    BY <1>2, LenStep
  <2> QED BY <1>1, <2>1, LenInit, PTL DEF Spec
<1>3. CASE ~WorkLeft
  <2>1. NoOvershoot
    BY <1>3 DEF NoOvershoot
  <2> QED BY <2>1, PTL
<1> QED BY <1>2, <1>3

---------------------------------------------------------------------------
(* The stage flag agrees with the lengths.                                 *)

LEMMA StageInit == Init => StageInv
<1> SUFFICES ASSUME Init PROVE StageInv
  OBVIOUS
<1>1. \A s \in SeqIds : ~Running(s) /\ ~Waiting(s)
  BY DEF Init, Running, Waiting
<1> QED BY <1>1, LenInit DEF StageInv

\* A chunk of the prompt never takes a request past input_len, so the equality
\* that Sequence::update tests and the order that setMetadata tests agree.
LEMMA StageUpdate ==
  ASSUME NEW r \in Request, NEW time \in Nat, r.sum_stage <=> r.current_len < r.input_len,
         r.current_len < r.input_len => r.current_len + r.num_process_token <= r.input_len
  PROVE  LET q == Update(r, time) IN q.sum_stage <=> q.current_len < q.input_len
<1> DEFINE q == Update(r, time)
<1>1. /\ q.input_len = r.input_len
      /\ q.current_len = r.current_len + r.num_process_token
      /\ q.sum_stage = (r.sum_stage /\ q.current_len # r.input_len)
  BY UpdateLens
<1>2. /\ r.input_len \in Nat /\ r.current_len \in Nat /\ r.num_process_token \in Nat
      /\ r.sum_stage \in BOOLEAN
  BY DEF Request
<1> HIDE DEF q
<1>3. CASE r.sum_stage
  <2>1. /\ r.current_len < r.input_len /\ q.current_len <= q.input_len
        /\ q.current_len \in Nat /\ q.input_len \in Nat
    BY <1>1, <1>2, <1>3
  <2>2. q.current_len # r.input_len <=> q.current_len < q.input_len
    BY <1>1, <2>1
  <2>3. q.sum_stage <=> q.current_len # r.input_len
    BY <1>1, <1>3
  <2> QED BY <2>2, <2>3 DEF q
<1>4. CASE ~r.sum_stage
  <2>1. ~(q.current_len < q.input_len)
    BY <1>1, <1>2, <1>4
  <2>2. ~q.sum_stage
    BY <1>1, <1>4
  <2> QED BY <2>1, <2>2 DEF q
<1> QED BY <1>3, <1>4

LEMMA StageStep == StartsInPrompt /\ StageInv /\ [Next]_vars => StageInv'
<1> SUFFICES ASSUME StartsInPrompt, StageInv, [Next]_vars
             PROVE  StageInv'
  OBVIOUS
<1>0. LenInv /\ LenInv'
  <2>1. WorkLeft
    <3> SUFFICES ASSUME NEW len \in Lengths PROVE StartLen(len) < TotalLen(len)
      BY DEF WorkLeft
    <3>1. /\ StartLen(len) \in Nat /\ len[1] \in Nat /\ TotalLen(len) \in Nat
          /\ StartLen(len) < len[1] /\ len[1] <= TotalLen(len)
      BY LengthType DEF StartsInPrompt
    <3> QED BY <3>1
  <2> QED BY <2>1, LenStep DEF StageInv
<1> SUFFICES ASSUME NEW s \in SeqIds, Running(s)' \/ Waiting(s)'
             PROVE  seq'[s].sum_stage <=> seq'[s].current_len < seq'[s].input_len
  BY <1>0 DEF StageInv, IsSum
<1> DEFINE Agrees(r) == r.sum_stage <=> r.current_len < r.input_len
<1>1. Running(s) \/ Waiting(s) => Agrees(seq[s])
  BY DEF StageInv, IsSum
<1>2. CASE FillSequenceQueue
  <2>1. CASE \E len \in Lengths, k \in Int : seq'[s] = NewRequest(len, k)
    BY <2>1, NewRequestLens DEF StartsInPrompt
  <2>2. CASE /\ seq'[s] = seq[s]
             /\ Running(s)' <=> Running(s)
             /\ Waiting(s)' <=> Waiting(s)
    BY <1>1, <2>2
  <2> QED BY <1>0, <1>2, <2>1, <2>2, FillEffect DEF LenInv
<1>3. CASE Admit
  <2>1. SameLens(seq'[s], seq[s]) /\ (Running(s) \/ Waiting(s))
    BY <1>0, <1>3, AdmitStep
  <2> QED BY <1>1, <2>1 DEF SameLens
<1>4. CASE SetMetadata
  <2>1. (Running(s)' <=> Running(s)) /\ (Waiting(s)' <=> Waiting(s))
    BY <1>4 DEF SetMetadata, Running, Waiting
  <2>2. /\ seq'[s].input_len = seq[s].input_len /\ seq'[s].current_len = seq[s].current_len
        /\ seq'[s].sum_stage = seq[s].sum_stage
    BY <1>0, <1>4, MetadataStep
  <2> QED BY <1>1, <2>1, <2>2
<1>5. CASE WarmStep \/ GenStep \/ SumStep
  <2>1. PICK who \in SUBSET AllRunning, time \in Nat :
          /\ running_queue' = Popped(who, time)
          /\ UNCHANGED << count_id, sequence_queue >>
          /\ \A t \in SeqIds :
               SameLens(seq'[t], IF t \in who THEN Update(seq[t], time) ELSE seq[t])
    BY <1>0, <1>5, EndEffect
  <2>2. Running(s) \/ Waiting(s)
    BY <2>1 DEF Running, Waiting, Popped
  <2>3. seq[s] \in Request /\ Fits(seq[s], Running(s), Waiting(s), Created(s))
    BY <1>0 DEF LenInv, PlaceInv, TypeInv, TypeOK
  <2>4. Agrees(Update(seq[s], time))
    <3>1. seq[s].current_len < seq[s].input_len
            => seq[s].current_len + seq[s].num_process_token <= seq[s].input_len
      BY <2>3 DEF Fits
    <3> QED BY <1>1, <2>2, <2>3, <3>1, StageUpdate
  <2>5. \/ SameLens(seq'[s], Update(seq[s], time))
        \/ SameLens(seq'[s], seq[s])
    BY <2>1
  <2> QED BY <1>1, <2>2, <2>4, <2>5 DEF SameLens
<1>6. CASE Untouched
  BY <1>1, <1>6, UntouchedStep
<1> QED BY <1>2, <1>3, <1>4, <1>5, <1>6, StepCases

\* While a request runs, the flag sum_stage that decides what its
\* first_token_time counts agrees with the comparison of its lengths that decides
\* whether it is prefilled.
THEOREM StageAgreesHolds == Spec => []StageAgrees
<1>1. StageInv => StageAgrees
  BY DEF StageInv, StageAgrees
<1>2. CASE StartsInPrompt
  <2>1. StageInv /\ [Next]_vars => StageInv'
    BY <1>2, StageStep
  <2> QED BY <1>1, <2>1, StageInit, PTL DEF Spec
<1>3. CASE ~StartsInPrompt
  <2>1. StageAgrees
    BY <1>3 DEF StageAgrees
  <2> QED BY <2>1, PTL
<1> QED BY <1>2, <1>3
---------------------------------------------------------------------------
(***************************************************************************)
(* What an iteration charges: tokens, times, arrivals and the statistics   *)
(* that addLatency reports.                                                *)
(***************************************************************************)

---------------------------------------------------------------------------
(* What one iteration does to a request it updates.                        *)

\* q is r after an iteration that took `time`, but for gen_start_time.
Served(r, q, time) ==
  /\ q.input_len = r.input_len /\ q.total_len = r.total_len
  /\ q.arrival_time = r.arrival_time /\ q.queueing_delay = r.queueing_delay
  /\ q.current_len = r.current_len + r.num_process_token
  /\ q.num_process_token = 0
  /\ q.end_token_time = r.end_token_time + time
  /\ q.first_token_time = (IF r.sum_stage THEN r.first_token_time + time
                                          ELSE r.first_token_time)
  /\ q.sum_stage = (r.sum_stage /\ q.current_len # r.input_len)
  /\ q.record = (r.record \/ (q.current_len # q.total_len /\ q.current_len = q.input_len))

\* q, which was r, is in the token list.
Listed(r, q) ==
  \/ q.current_len = q.total_len
  \/ q.current_len = q.input_len /\ ~r.record

\* What Updated makes of a request.
Ended(r, time) == LET q == Update(r, time) IN [q EXCEPT !.record = @ \/ FirstToken(q)]

LEMMA EndedServes ==
  ASSUME NEW r \in Request, NEW time \in Nat
  PROVE  /\ Ended(r, time) \in Request
         /\ Served(r, Ended(r, time), time)
         /\ Ended(r, time).gen_start_time = r.gen_start_time
         /\ Finished(Update(r, time)) <=> Ended(r, time).current_len = Ended(r, time).total_len
         /\ Finished(Update(r, time)) \/ FirstToken(Update(r, time)) <=> Listed(r, Ended(r, time))
<1> DEFINE len == r.current_len + r.num_process_token
           end == r.end_token_time + time
           first == IF r.sum_stage THEN r.first_token_time + time ELSE r.first_token_time
           stage == r.sum_stage /\ len # r.input_len
           q == [r EXCEPT !.end_token_time = end, !.first_token_time = first,
                          !.current_len = len, !.num_process_token = 0, !.sum_stage = stage]
           record == q.record \/ FirstToken(q)
           e == [q EXCEPT !.record = record]
<1>1. Update(r, time) = q /\ Ended(r, time) = e
  BY DEF Update, Ended
<1>2. q \in Request /\ e \in Request
  <2>1. q \in Request
    <3> HIDE DEF q
    <3> QED BY <1>1, UpdateType
  <2>2. e = [q EXCEPT !.record = @ \/ FirstToken(q)]
    <3> HIDE DEF q
    <3> QED OBVIOUS
  <2> HIDE DEF q, e
  <2> QED BY <2>1, <2>2, RecordType
<1>3. /\ q.input_len = r.input_len /\ q.total_len = r.total_len
      /\ q.arrival_time = r.arrival_time /\ q.queueing_delay = r.queueing_delay
      /\ q.current_len = len /\ q.num_process_token = 0 /\ q.end_token_time = end
      /\ q.first_token_time = first /\ q.sum_stage = stage /\ q.record = r.record
      /\ q.gen_start_time = r.gen_start_time
  <2> HIDE DEF len, end, first, stage
  <2> QED BY DEF Request
<1>4. /\ e.input_len = q.input_len /\ e.total_len = q.total_len
      /\ e.arrival_time = q.arrival_time /\ e.queueing_delay = q.queueing_delay
      /\ e.current_len = q.current_len /\ e.num_process_token = q.num_process_token
      /\ e.end_token_time = q.end_token_time
      /\ e.first_token_time = q.first_token_time /\ e.sum_stage = q.sum_stage
      /\ e.gen_start_time = q.gen_start_time
      /\ e.record = record
  <2> HIDE DEF q, record
  <2> QED BY <1>2 DEF Request
<1>5. q.record \in BOOLEAN /\ r.record \in BOOLEAN
  BY <1>2 DEF Request
<1> HIDE DEF q, e
<1>6. record = (r.record \/ (e.current_len # e.total_len /\ e.current_len = e.input_len))
  BY <1>3, <1>4, <1>5 DEF FirstToken, Finished
<1>7. Served(r, e, time)
  BY <1>3, <1>4, <1>6 DEF Served
<1>8. /\ Finished(q) <=> e.current_len = e.total_len
      /\ Finished(q) \/ FirstToken(q) <=> Listed(r, e)
  BY <1>3, <1>4, <1>5 DEF FirstToken, Finished, Listed
<1> QED BY <1>1, <1>2, <1>3, <1>4, <1>7, <1>8

\* Updated, Popped and TokenList, request by request.
LEMMA UpdatedServes ==
  ASSUME seq \in [SeqIds -> Request], running_queue \in [Batches -> SUBSET SeqIds],
         NEW who \in SUBSET AllRunning, NEW time \in Nat, NEW s \in SeqIds
  PROVE  LET q == Updated(who, time)[s] IN
         /\ q \in Request
         /\ s \in who => /\ Served(seq[s], q, time)
                         /\ q.gen_start_time = seq[s].gen_start_time
                         /\ s \in TokenList(who, time) <=> Listed(seq[s], q)
                         /\ (\E b \in Batches : s \in Popped(who, time)[b])
                              <=> q.current_len # q.total_len
         /\ s \notin who => /\ q = seq[s]
                            /\ s \notin TokenList(who, time)
                            /\ (\E b \in Batches : s \in Popped(who, time)[b]) <=> Running(s)
<1> DEFINE q == Updated(who, time)[s]
<1>1. who \in SUBSET SeqIds
  BY RunningType
<1>2. q \in Request
  BY <1>1, UpdatedType
<1>3. ASSUME s \in who
      PROVE  /\ Served(seq[s], q, time)
             /\ q.gen_start_time = seq[s].gen_start_time
             /\ s \in TokenList(who, time) <=> Listed(seq[s], q)
             /\ (\E b \in Batches : s \in Popped(who, time)[b]) <=> q.current_len # q.total_len
  <2>1. q = Ended(seq[s], time)
    BY <1>3 DEF Updated, Ended
  <2>2. s \in TokenList(who, time)
          <=> Finished(Update(seq[s], time)) \/ FirstToken(Update(seq[s], time))
    BY <1>3 DEF TokenList
  <2>3. Running(s)
    BY <1>3 DEF AllRunning
  <2>4. (\E b \in Batches : s \in Popped(who, time)[b]) <=> ~Finished(Update(seq[s], time))
    BY <1>3, <2>3 DEF Popped, Running
  <2>5. seq[s] \in Request
    OBVIOUS
  <2> HIDE DEF q
  <2> QED BY <2>1, <2>2, <2>4, <2>5, EndedServes
<1>4. ASSUME s \notin who
      PROVE  /\ q = seq[s]
             /\ s \notin TokenList(who, time)
             /\ (\E b \in Batches : s \in Popped(who, time)[b]) <=> Running(s)
  BY <1>4 DEF Updated, TokenList, Popped, Running
<1> QED BY <1>2, <1>3, <1>4

\* StartGen touches gen_start_time only.
SameButStart(r, q) ==
  /\ q.input_len = r.input_len /\ q.total_len = r.total_len
  /\ q.arrival_time = r.arrival_time /\ q.queueing_delay = r.queueing_delay
  /\ q.current_len = r.current_len /\ q.num_process_token = r.num_process_token
  /\ q.end_token_time = r.end_token_time /\ q.first_token_time = r.first_token_time
  /\ q.sum_stage = r.sum_stage /\ q.record = r.record

LEMMA StartGenOnly ==
  ASSUME NEW seqs \in [SeqIds -> Request], NEW list, NEW time \in Nat, NEW s \in SeqIds
  PROVE  /\ SameButStart(seqs[s], StartGen(seqs, list, time)[s])
         /\ StartGen(seqs, list, time)[s].gen_start_time
              = IF s \in list THEN time ELSE seqs[s].gen_start_time
         /\ s \notin list => StartGen(seqs, list, time)[s] = seqs[s]
BY DEF StartGen, SameButStart, Request

\* A request outside `who` is left alone; one in it is served, and stays unless it
\* has all its tokens.  What addLatency reports of it, if the iteration reports.
Iteration(who, time, reports) ==
  \A s \in SeqIds :
    LET r == seq[s]
        q == seq'[s]
        listed == s \in who /\ Listed(r, q)
    IN /\ s \notin who => /\ q = r
                          /\ Running(s)' <=> Running(s)
       /\ s \in who => /\ Served(r, q, time)
                       /\ Running(s) /\ (Running(s)' <=> q.current_len # q.total_len)
       /\ stat'[s] = IF reports /\ listed /\ q.first_token_time # 0 /\ q.arrival_time # 0
                     THEN Append(stat[s], IF q.current_len = q.total_len THEN "e2e" ELSE "t2ft")
                     ELSE stat[s]
       /\ Waiting(s)' <=> Waiting(s)
       /\ Created(s)' <=> Created(s)

LEMMA WarmServes ==
  ASSUME TypeInv, WarmStep
  PROVE  /\ Iteration(AllRunning, 0, FALSE)
         /\ \A s \in SeqIds : seq'[s].gen_start_time = seq[s].gen_start_time
<1>1. /\ seq \in [SeqIds -> Request] /\ running_queue \in [Batches -> SUBSET SeqIds]
      /\ AllRunning \in SUBSET AllRunning /\ 0 \in Nat
  BY DEF TypeInv, TypeOK
<1>2. /\ seq' = Updated(AllRunning, 0) /\ running_queue' = Popped(AllRunning, 0)
      /\ UNCHANGED << count_id, sequence_queue, stat >>
  BY DEF WarmStep
<1>3. ASSUME NEW s \in SeqIds
      PROVE  /\ s \notin AllRunning => seq'[s] = seq[s] /\ (Running(s)' <=> Running(s))
             /\ s \in AllRunning => /\ Served(seq[s], seq'[s], 0)
                                    /\ seq'[s].gen_start_time = seq[s].gen_start_time
                                    /\ Running(s)' <=> seq'[s].current_len # seq'[s].total_len
             /\ stat'[s] = stat[s]
             /\ Waiting(s)' <=> Waiting(s)
             /\ Created(s)' <=> Created(s)
  <2>1. Running(s)' <=> \E b \in Batches : s \in Popped(AllRunning, 0)[b]
    BY <1>2 DEF Running
  <2>2. (Waiting(s)' <=> Waiting(s)) /\ (Created(s)' <=> Created(s)) /\ stat'[s] = stat[s]
    BY <1>2 DEF Waiting, Created
  <2>3. LET u == Updated(AllRunning, 0)[s] IN
        /\ s \in AllRunning => /\ Served(seq[s], u, 0)
                               /\ u.gen_start_time = seq[s].gen_start_time
                               /\ Running(s)' <=> u.current_len # u.total_len
        /\ s \notin AllRunning => u = seq[s] /\ (Running(s)' <=> Running(s))
    BY <1>1, <2>1, UpdatedServes
  <2> QED BY <1>2, <2>2, <2>3
<1>4. \A s \in SeqIds : s \in AllRunning <=> Running(s)
  BY DEF AllRunning
<1> QED BY <1>3, <1>4 DEF Iteration

LEMMA GenServes ==
  ASSUME TypeInv, GenStep
  PROVE  \E time \in Durations :
           /\ total_time' = total_time + time /\ iter_time' = time
           /\ Iteration(AllRunning, time, TRUE)
           /\ \A s \in AllRunning :
                seq'[s].gen_start_time = IF Listed(seq[s], seq'[s]) THEN total_time'
                                         ELSE seq[s].gen_start_time
<1>1. /\ seq \in [SeqIds -> Request] /\ running_queue \in [Batches -> SUBSET SeqIds]
      /\ AllRunning \in SUBSET AllRunning /\ AllRunning \in SUBSET SeqIds
      /\ stat \in [SeqIds -> Seq({"t2ft", "e2e"})]
      /\ total_time \in Nat
  BY RunningType DEF TypeInv, TypeOK
<1>2. PICK time \in Durations :
        /\ total_time' = total_time + time
        /\ iter_time' = time
        /\ seq' = StartGen(Updated(AllRunning, time), TokenList(AllRunning, time),
                           total_time + time)
        /\ running_queue' = Popped(AllRunning, time)
        /\ stat' = Reported(Updated(AllRunning, time), TokenList(AllRunning, time))
  BY DEF GenStep
<1>3. time \in Nat /\ total_time + time \in Nat
  BY <1>1, ConfigAssumption
<1> DEFINE u == Updated(AllRunning, time)
           list == TokenList(AllRunning, time)
<1>4. u \in [SeqIds -> Request]
  BY <1>1, <1>3, UpdatedType
<1>5. UNCHANGED << count_id, sequence_queue >>
  BY DEF GenStep
<1>6. ASSUME NEW s \in SeqIds
      PROVE  LET r == seq[s]
                 q == seq'[s]
             IN /\ s \notin AllRunning => q = r /\ (Running(s)' <=> Running(s))
                /\ s \in AllRunning => /\ Served(r, q, time)
                                       /\ Running(s)' <=> q.current_len # q.total_len
                                       /\ q.gen_start_time = IF Listed(r, q) THEN total_time'
                                                             ELSE r.gen_start_time
                /\ stat'[s] = IF s \in AllRunning /\ Listed(r, q)
                                  /\ q.first_token_time # 0 /\ q.arrival_time # 0
                              THEN Append(stat[s], IF q.current_len = q.total_len
                                                   THEN "e2e" ELSE "t2ft")
                              ELSE stat[s]
                /\ Waiting(s)' <=> Waiting(s)
                /\ Created(s)' <=> Created(s)
  <2> DEFINE r == seq[s]
             q == seq'[s]
  <2>1. Running(s)' <=> \E b \in Batches : s \in Popped(AllRunning, time)[b]
    BY <1>2 DEF Running
  <2>2. (Waiting(s)' <=> Waiting(s)) /\ (Created(s)' <=> Created(s))
    BY <1>5 DEF Waiting, Created
  <2>3. /\ s \in AllRunning => /\ Served(r, u[s], time)
                               /\ u[s].gen_start_time = r.gen_start_time
                               /\ s \in list <=> Listed(r, u[s])
                               /\ Running(s)' <=> u[s].current_len # u[s].total_len
        /\ s \notin AllRunning => u[s] = r /\ s \notin list /\ (Running(s)' <=> Running(s))
    BY <1>1, <1>3, <2>1, UpdatedServes
  <2>4. stat'[s] = IF s \in list /\ u[s].first_token_time # 0 /\ u[s].arrival_time # 0
                   THEN Append(stat[s], IF u[s].current_len = u[s].total_len
                                        THEN "e2e" ELSE "t2ft")
                   ELSE stat[s]
    BY <1>2 DEF Reported, Finished
  <2> HIDE DEF u, list
  <2>5. /\ SameButStart(u[s], q)
        /\ q.gen_start_time = IF s \in list THEN total_time' ELSE u[s].gen_start_time
        /\ s \notin list => q = u[s]
    BY <1>2, <1>3, <1>4, StartGenOnly DEF u, list
  <2>6. (Served(r, u[s], time) => Served(r, q, time)) /\ (Listed(r, u[s]) <=> Listed(r, q))
    BY <2>5 DEF SameButStart, Served, Listed
  <2>7. /\ q.first_token_time = u[s].first_token_time /\ q.arrival_time = u[s].arrival_time
        /\ q.current_len = u[s].current_len /\ q.total_len = u[s].total_len
    BY <2>5 DEF SameButStart
  <2> HIDE DEF q, r
  <2>8. CASE s \in AllRunning
    BY <2>2, <2>3, <2>4, <2>5, <2>6, <2>7, <2>8 DEF q, r
  <2>9. CASE s \notin AllRunning
    BY <2>2, <2>3, <2>4, <2>5, <2>9 DEF q, r
  <2> QED BY <2>8, <2>9
<1>7. \A s \in SeqIds : s \in AllRunning <=> Running(s)
  BY DEF AllRunning
<1>8. Iteration(AllRunning, time, TRUE)
  BY <1>6, <1>7 DEF Iteration
<1> QED BY <1>1, <1>2, <1>6, <1>8

LEMMA SumServes ==
  ASSUME TypeInv, SumStep
  PROVE  \E time \in Durations :
           /\ sum_machine_time' = (IF total_time > sum_machine_time THEN total_time
                                                                    ELSE sum_machine_time) + time
           /\ Iteration(AllSum, time, TRUE)
           /\ \A s \in AllSum :
                seq'[s].gen_start_time = IF Listed(seq[s], seq'[s]) THEN sum_machine_time'
                                         ELSE total_time + time
<1>1. /\ seq \in [SeqIds -> Request] /\ running_queue \in [Batches -> SUBSET SeqIds]
      /\ AllSum \in SUBSET AllRunning /\ AllSum \in SUBSET SeqIds
      /\ stat \in [SeqIds -> Seq({"t2ft", "e2e"})]
      /\ total_time \in Nat /\ sum_machine_time \in Nat
  BY RunningType DEF TypeInv, TypeOK, AllSum
<1> DEFINE end(time) == (IF total_time > sum_machine_time THEN total_time
                                                          ELSE sum_machine_time) + time
           u(time) == Updated(AllSum, time)
           v(time) == StartGen(u(time), AllSum, total_time + time)
           list(time) == TokenList(AllSum, time)
<1>2. PICK time \in Durations :
        /\ sum_machine_time' = end(time)
        /\ seq' = StartGen(v(time), list(time), end(time))
        /\ running_queue' = Popped(AllSum, time)
        /\ stat' = Reported(v(time), list(time))
  BY DEF SumStep
<1>3. time \in Nat /\ total_time + time \in Nat /\ end(time) \in Nat
  BY <1>1, ConfigAssumption
<1>4. u(time) \in [SeqIds -> Request] /\ v(time) \in [SeqIds -> Request]
  BY <1>1, <1>3, UpdatedType, StartGenType
<1>5. UNCHANGED << count_id, sequence_queue >>
  BY DEF SumStep
<1>6. ASSUME NEW s \in SeqIds
      PROVE  LET r == seq[s]
                 q == seq'[s]
             IN /\ s \notin AllSum => q = r /\ (Running(s)' <=> Running(s))
                /\ s \in AllSum => /\ Served(r, q, time)
                                   /\ Running(s)' <=> q.current_len # q.total_len
                                   /\ q.gen_start_time = IF Listed(r, q) THEN sum_machine_time'
                                                         ELSE total_time + time
                /\ stat'[s] = IF s \in AllSum /\ Listed(r, q)
                                  /\ q.first_token_time # 0 /\ q.arrival_time # 0
                              THEN Append(stat[s], IF q.current_len = q.total_len
                                                   THEN "e2e" ELSE "t2ft")
                              ELSE stat[s]
                /\ Waiting(s)' <=> Waiting(s)
                /\ Created(s)' <=> Created(s)
  <2> DEFINE r == seq[s]
             q == seq'[s]
             w == u(time)[s]
             x == v(time)[s]
             listed == s \in list(time)
  <2>1. Running(s)' <=> \E b \in Batches : s \in Popped(AllSum, time)[b]
    BY <1>2 DEF Running
  <2>2. (Waiting(s)' <=> Waiting(s)) /\ (Created(s)' <=> Created(s))
    BY <1>5 DEF Waiting, Created
  <2>3. /\ s \in AllSum => /\ Served(r, w, time)
                           /\ listed <=> Listed(r, w)
                           /\ Running(s)' <=> w.current_len # w.total_len
        /\ s \notin AllSum => w = r /\ ~listed /\ (Running(s)' <=> Running(s))
    BY <1>1, <1>3, <2>1, UpdatedServes
  <2>4. stat'[s] = IF listed /\ x.first_token_time # 0 /\ x.arrival_time # 0
                   THEN Append(stat[s], IF x.current_len = x.total_len THEN "e2e" ELSE "t2ft")
                   ELSE stat[s]
    <3> HIDE DEF v, list
    <3> QED BY <1>2 DEF Reported, Finished
  <2>5. /\ SameButStart(w, x)
        /\ s \in AllSum => x.gen_start_time = total_time + time
        /\ s \notin AllSum => x = w
    <3> HIDE DEF u
    <3> QED BY <1>3, <1>4, StartGenOnly
  <2>6. /\ SameButStart(x, q)
        /\ q.gen_start_time = IF listed THEN sum_machine_time' ELSE x.gen_start_time
        /\ ~listed => q = x
    <3> HIDE DEF v, list, end
    <3> QED BY <1>2, <1>3, <1>4, StartGenOnly
  <2> HIDE DEF q, r, w, x, listed
  <2>7. (Served(r, w, time) => Served(r, q, time)) /\ (Listed(r, w) <=> Listed(r, q))
    BY <2>5, <2>6 DEF SameButStart, Served, Listed
  <2>8. /\ q.first_token_time = x.first_token_time /\ q.arrival_time = x.arrival_time
        /\ q.current_len = x.current_len /\ q.total_len = x.total_len
        /\ q.current_len = w.current_len /\ q.total_len = w.total_len
    BY <2>5, <2>6 DEF SameButStart
  <2>9. CASE s \in AllSum
    BY <2>2, <2>3, <2>4, <2>5, <2>6, <2>7, <2>8, <2>9 DEF q, r
  <2>10. CASE s \notin AllSum
    BY <2>2, <2>3, <2>4, <2>5, <2>6, <2>10 DEF q, r
  <2> QED BY <2>9, <2>10
<1>7. \A s \in SeqIds : s \in AllSum => Running(s)
  BY DEF AllRunning, AllSum
<1>8. Iteration(AllSum, time, TRUE)
  BY <1>6, <1>7 DEF Iteration
<1> QED BY <1>1, <1>2, <1>6, <1>8

---------------------------------------------------------------------------
(* The other steps, field by field.                                        *)

\* The head of the queue leaves it for a batch; nothing else changes.
LEMMA AdmitOnly ==
  ASSUME PlaceInv, Admit
  PROVE  \E h \in SeqIds :
           /\ Waiting(h) /\ ~Running(h) /\ Running(h)' /\ ~Waiting(h)'
           /\ seq'[h] = IF Inject
                        THEN [seq[h] EXCEPT !.queueing_delay = total_time - seq[h].arrival_time]
                        ELSE seq[h]
           /\ \A s \in SeqIds \ {h} : /\ seq'[s] = seq[s]
                                      /\ Running(s)' <=> Running(s)
                                      /\ Waiting(s)' <=> Waiting(s)
           /\ \A s \in SeqIds : Created(s)' <=> Created(s)
           /\ \A s \in SeqIds : Waiting(s) => h <= s
<1> DEFINE len == Len(sequence_queue)
<1>1. /\ sequence_queue \in Seq(SeqIds) /\ sequence_queue # << >>
      /\ running_queue \in [Batches -> SUBSET SeqIds] /\ rotate \in Batches
      /\ seq \in [SeqIds -> Request] /\ count_id \in Nat
      /\ count_id' = count_id /\ sequence_queue' = Tail(sequence_queue)
  <2>1. TypeInv
    BY DEF PlaceInv
  <2>2. sequence_queue # << >> /\ sequence_queue' = Tail(sequence_queue) /\ count_id' = count_id
    BY <2>1 DEF TypeInv, TypeOK, Admit
  <2> QED BY <2>1, <2>2, IdsFinite DEF TypeInv, TypeOK
<1>0. PICK h \in SeqIds : h = Head(sequence_queue)
  BY <1>1
<1>2. /\ h = sequence_queue[1]
      /\ len \in Nat \ {0} /\ DOMAIN sequence_queue = 1 .. len
      /\ DOMAIN sequence_queue' = 1 .. len - 1
      /\ \A k \in 1 .. len - 1 : sequence_queue'[k] = sequence_queue[k + 1]
  BY <1>0, <1>1, HeadTailProperties
<1>3. PICK b \in Batches : running_queue' = [running_queue EXCEPT ![b] = @ \cup {h}]
  <2>1. PICK i \in 0 .. DPDegree - 1 :
          running_queue' = [running_queue EXCEPT ![Turn(i)] = @ \cup {h}]
    BY <1>0 DEF Admit
  <2>2. Turn(i) \in Batches
    BY <1>1, TurnType, IdsFinite
  <2> QED BY <2>1, <2>2
<1>4. seq' = IF Inject
             THEN [seq EXCEPT ![h].queueing_delay = total_time - seq[h].arrival_time]
             ELSE seq
  BY <1>0 DEF Admit
<1> HIDE DEF len
<1>5. \A k \in 1 .. len : sequence_queue[k] = count_id - Len(sequence_queue) + k - 1
  BY <1>2 DEF PlaceInv, Placement
<1>6. Waiting(h) /\ ~Running(h)
  <2>1. 1 \in DOMAIN sequence_queue
    BY <1>2
  <2>2. Waiting(h)
    BY <1>2, <2>1 DEF Waiting
  <2> QED BY <1>2, <2>2, Apart
<1>7. Running(h)'
  BY <1>1, <1>2, <1>3 DEF Running
<1>8. ~Waiting(h)'
  <2> SUFFICES ASSUME NEW k \in 1 .. len - 1, sequence_queue'[k] = h PROVE FALSE
    BY <1>2 DEF Waiting
  <2>1. k + 1 \in 1 .. len /\ 1 \in 1 .. len /\ sequence_queue'[k] = sequence_queue[k + 1]
    BY <1>2
  <2>2. Len(sequence_queue) \in Nat
    BY <1>1
  <2> QED BY <1>1, <1>2, <1>5, <2>1, <2>2
<1>9. ASSUME NEW s \in SeqIds, s # h
      PROVE  /\ seq'[s] = seq[s]
             /\ Running(s)' <=> Running(s)
             /\ Waiting(s)' <=> Waiting(s)
  <2>1. seq'[s] = seq[s]
    BY <1>1, <1>4, <1>9
  <2>2. Running(s)' <=> Running(s)
    BY <1>1, <1>3, <1>9 DEF Running
  <2>3. Waiting(s)' => Waiting(s)
    <3> SUFFICES ASSUME NEW k \in 1 .. len - 1, sequence_queue'[k] = s
                 PROVE  Waiting(s)
      BY <1>2 DEF Waiting
    <3>1. k + 1 \in DOMAIN sequence_queue /\ sequence_queue[k + 1] = s
      BY <1>2
    <3> QED BY <3>1 DEF Waiting
  <2>4. Waiting(s) => Waiting(s)'
    <3> SUFFICES ASSUME NEW k \in 1 .. len, sequence_queue[k] = s, k # 1
                 PROVE  Waiting(s)'
      BY <1>2, <1>9 DEF Waiting
    <3>1. k - 1 \in 1 .. len - 1 /\ sequence_queue'[k - 1] = sequence_queue[k]
      BY <1>2
    <3> QED BY <1>2, <3>1 DEF Waiting
  <2> QED BY <2>1, <2>2, <2>3, <2>4
<1>10. seq'[h] = IF Inject
                 THEN [seq[h] EXCEPT !.queueing_delay = total_time - seq[h].arrival_time]
                 ELSE seq[h]
  BY <1>1, <1>2, <1>4
<1>11. \A s \in SeqIds : Created(s)' <=> Created(s)
  BY <1>1 DEF Created
<1>12. \A s \in SeqIds : Waiting(s) => h <= s
  <2> SUFFICES ASSUME NEW k \in 1 .. len PROVE h <= sequence_queue[k]
    BY <1>2 DEF Waiting
  <2>1. Len(sequence_queue) \in Nat /\ 1 \in 1 .. len
    BY <1>1, <1>2
  <2> QED BY <1>1, <1>2, <1>5, <2>1
<1> QED BY <1>2, <1>6, <1>7, <1>8, <1>9, <1>10, <1>11, <1>12

\* setMetadata changes nothing but the tokens.
SameButTokens(r, q) ==
  /\ q.input_len = r.input_len /\ q.total_len = r.total_len /\ q.current_len = r.current_len
  /\ q.arrival_time = r.arrival_time /\ q.queueing_delay = r.queueing_delay
  /\ q.end_token_time = r.end_token_time /\ q.first_token_time = r.first_token_time
  /\ q.sum_stage = r.sum_stage /\ q.record = r.record
  /\ q.gen_start_time = r.gen_start_time

LEMMA MetadataOnly ==
  ASSUME TypeInv, SetMetadata, NEW s \in SeqIds
  PROVE  /\ SameButTokens(seq[s], seq'[s])
         /\ seq'[s].num_process_token = IF Running(s) THEN Tokens(BatchOf(s), s)
                                                      ELSE seq[s].num_process_token
         /\ Running(s)' <=> Running(s)
         /\ Waiting(s)' <=> Waiting(s)
         /\ Created(s)' <=> Created(s)
<1>1. /\ seq \in [SeqIds -> Request]
      /\ UNCHANGED << count_id, sequence_queue, running_queue >>
  BY DEF TypeInv, TypeOK, SetMetadata
<1> DEFINE n == Tokens(BatchOf(s), s)
<1>2. seq'[s] = IF Running(s) THEN [seq[s] EXCEPT !.num_process_token = n] ELSE seq[s]
  BY DEF SetMetadata
<1> HIDE DEF n
<1>3. /\ SameButTokens(seq[s], seq'[s])
      /\ seq'[s].num_process_token = IF Running(s) THEN n ELSE seq[s].num_process_token
  BY <1>1, <1>2 DEF SameButTokens, Request
<1> QED BY <1>1, <1>3 DEF n, Running, Waiting, Created

\* The fields of a new request.
LEMMA NewRequestFields ==
  ASSUME NEW len \in Lengths, NEW k \in Int
  PROVE  LET r == NewRequest(len, k) IN
         /\ r.input_len = len[1] /\ r.total_len = TotalLen(len)
         /\ r.current_len = StartLen(len) /\ r.num_process_token = 0
         /\ r.sum_stage = TRUE /\ r.record = FALSE /\ r.gen_start_time = 0
         /\ r.queueing_delay = 0 /\ r.first_token_time = 0 /\ r.end_token_time = 0
         /\ r.arrival_time = IF TakesArrival THEN ArrivalAt(cur_arrival_time_idx + k) ELSE 0
BY DEF NewRequest, NoRequest

\* The same of a request that is new, for some lengths.
LEMMA NewFields ==
  ASSUME NEW r, \E len \in Lengths, k \in Int : r = NewRequest(len, k)
  PROVE  /\ \E len \in Lengths : /\ r.input_len = len[1] /\ r.total_len = TotalLen(len)
                                 /\ r.current_len = StartLen(len)
         /\ r.num_process_token = 0 /\ r.sum_stage = TRUE /\ r.record = FALSE
         /\ r.gen_start_time = 0 /\ r.first_token_time = 0 /\ r.end_token_time = 0
<1>1. PICK len \in Lengths, k \in Int : r = NewRequest(len, k)
  OBVIOUS
<1> DEFINE q == NewRequest(len, k)
<1>2. /\ q.input_len = len[1] /\ q.total_len = TotalLen(len)
      /\ q.current_len = StartLen(len) /\ q.num_process_token = 0
      /\ q.sum_stage = TRUE /\ q.record = FALSE /\ q.gen_start_time = 0
      /\ q.first_token_time = 0 /\ q.end_token_time = 0
  BY NewRequestFields
<1> HIDE DEF q
<1>3. r = q
  BY <1>1 DEF q
<1> QED BY <1>2, <1>3

---------------------------------------------------------------------------
(* The handover between the two machines.                                  *)

\* No gen_start_time is in the future of both machines, whatever the stage of the
\* request, and one that was given a token to generate keeps it legally: a token is
\* not taken back while the clock of the gen machine stands still.
TimeInv ==
  /\ TypeInv
  /\ ~Disagg => sum_machine_time = 0
  /\ \A s \in SeqIds :
       /\ seq[s].gen_start_time <= total_time \/ seq[s].gen_start_time <= sum_machine_time
       /\ ~IsSum(s) /\ seq[s].num_process_token > 0 => seq[s].gen_start_time <= total_time

LEMMA TimeInit == Init => TimeInv
<1> SUFFICES ASSUME Init PROVE TimeInv
  OBVIOUS
<1>1. TypeInv
  BY TypeInit
<1>2. \A s \in SeqIds : seq[s] = NoRequest
  BY DEF Init
<1>3. total_time = 0 /\ sum_machine_time = 0
  BY DEF Init
<1> QED BY <1>1, <1>2, <1>3 DEF TimeInv, NoRequest

LEMMA TimeStep == TimeInv /\ [Next]_vars => TimeInv'
<1> SUFFICES ASSUME TimeInv, [Next]_vars PROVE TimeInv'
  OBVIOUS
<1>0. TypeInv /\ TypeInv'
  BY TypeStep DEF TimeInv
<1> DEFINE Timely(r, total, machine) ==
             /\ r.gen_start_time <= total \/ r.gen_start_time <= machine
             /\ ~(r.current_len < r.input_len) /\ r.num_process_token > 0
                  => r.gen_start_time <= total
<1>1. \A s \in SeqIds : Timely(seq[s], total_time, sum_machine_time)
  BY DEF TimeInv, IsSum
<1>2. /\ total_time \in Nat /\ sum_machine_time \in Nat
      /\ total_time' \in Nat /\ sum_machine_time' \in Nat
      /\ seq \in [SeqIds -> Request] /\ seq' \in [SeqIds -> Request]
  BY <1>0 DEF TypeInv, TypeOK
<1>3. \A s \in SeqIds : /\ seq[s].gen_start_time \in Nat /\ seq'[s].gen_start_time \in Nat
                        /\ seq[s].num_process_token \in Nat
  BY <1>2 DEF Request
<1>4. Durations \subseteq Nat
  BY ConfigAssumption
<1> SUFFICES /\ ~Disagg => sum_machine_time' = 0
             /\ \A s \in SeqIds : Timely(seq'[s], total_time', sum_machine_time')
  BY <1>0 DEF TimeInv, IsSum
<1>5. CASE FillSequenceQueue
  <2>1. UNCHANGED << total_time, sum_machine_time >>
    BY <1>5 DEF FillSequenceQueue
  <2>2. \A s \in SeqIds : seq'[s] = seq[s] \/ \E len \in Lengths, k \in Int : seq'[s] = NewRequest(len, k)
    <3>1. PICK lens \in [count_id .. count_id + NumPushed - 1 -> Lengths] :
            seq' = [s \in SeqIds |->
                      IF s \in count_id .. count_id + NumPushed - 1
                      THEN NewRequest(lens[s], s - count_id) ELSE seq[s]]
      BY <1>5 DEF FillSequenceQueue
    <3>2. count_id \in Int
      BY <1>0, IdsFinite DEF TypeInv, TypeOK
    <3> QED BY <3>1, <3>2 DEF SeqIds
  <2>3. \A s \in SeqIds : Timely(seq'[s], total_time, sum_machine_time)
    <3> TAKE s \in SeqIds
    <3>1. CASE seq'[s] = seq[s]
      BY <1>1, <3>1
    <3>2. CASE \E len \in Lengths, k \in Int : seq'[s] = NewRequest(len, k)
      <4>1. seq'[s].gen_start_time = 0
        BY <3>2, NewRequestFields
      <4> QED BY <1>2, <4>1
    <3> QED BY <2>2, <3>1, <3>2
  <2> QED BY <2>1, <2>3 DEF TimeInv
<1>6. CASE Admit
  <2>1. UNCHANGED << total_time, sum_machine_time >>
    BY <1>6 DEF Admit
  <2>2. \A s \in SeqIds : Timely(seq'[s], total_time, sum_machine_time)
    <3> TAKE s \in SeqIds
    <3> DEFINE delay == total_time - seq[s].arrival_time
    <3>1. seq'[s] = seq[s] \/ seq'[s] = [seq[s] EXCEPT !.queueing_delay = delay]
      BY <1>2, <1>6 DEF Admit
    <3>2. seq[s] \in Request
      BY <1>2
    <3> HIDE DEF delay
    <3>3. /\ seq'[s].gen_start_time = seq[s].gen_start_time
          /\ seq'[s].num_process_token = seq[s].num_process_token
          /\ seq'[s].current_len = seq[s].current_len /\ seq'[s].input_len = seq[s].input_len
      BY <3>1, <3>2 DEF Request
    <3> QED BY <1>1, <3>3
  <2> QED BY <2>1, <2>2 DEF TimeInv
<1>7. CASE SetMetadata
  <2>1. UNCHANGED << total_time, sum_machine_time >>
    BY <1>7 DEF SetMetadata
  <2>2. ASSUME NEW s \in SeqIds
        PROVE  Timely(seq'[s], total_time, sum_machine_time)
    <3>1. /\ SameButTokens(seq[s], seq'[s])
          /\ seq'[s].num_process_token = IF Running(s) THEN Tokens(BatchOf(s), s)
                                                       ELSE seq[s].num_process_token
      BY <1>0, <1>7, MetadataOnly
    <3>2. ~IsSum(s) => \/ seq'[s].num_process_token = seq[s].num_process_token
                       \/ GenStarted(s)
      BY <3>1 DEF Tokens
    <3>3. GenStarted(s) => seq[s].gen_start_time <= total_time
      BY <1>2 DEF GenStarted
    <3> QED BY <1>1, <3>1, <3>2, <3>3 DEF SameButTokens, IsSum
  <2> QED BY <2>1, <2>2 DEF TimeInv
<1>8. CASE WarmStep
  <2>1. UNCHANGED << total_time, sum_machine_time >>
    BY <1>8 DEF WarmStep
  <2>2. /\ Iteration(AllRunning, 0, FALSE)
        /\ \A s \in SeqIds : seq'[s].gen_start_time = seq[s].gen_start_time
    BY <1>0, <1>8, WarmServes
  <2>3. ASSUME NEW s \in SeqIds
        PROVE  Timely(seq'[s], total_time, sum_machine_time)
    BY <1>1, <2>2 DEF Iteration, Served
  <2> QED BY <2>1, <2>3 DEF TimeInv
<1>9. CASE GenStep
  <2>1. PICK time \in Durations :
          /\ total_time' = total_time + time
          /\ Iteration(AllRunning, time, TRUE)
          /\ \A s \in AllRunning :
               seq'[s].gen_start_time = IF Listed(seq[s], seq'[s]) THEN total_time'
                                        ELSE seq[s].gen_start_time
    BY <1>0, <1>9, GenServes
  <2>2. UNCHANGED sum_machine_time /\ total_time <= total_time'
    BY <1>2, <1>4, <1>9, <2>1 DEF GenStep
  <2>3. ASSUME NEW s \in SeqIds
        PROVE  Timely(seq'[s], total_time', sum_machine_time)
    <3>1. CASE s \in AllRunning
      <4>1. seq'[s].num_process_token = 0
        BY <2>1, <3>1 DEF Iteration, Served
      <4>2. seq'[s].gen_start_time = total_time' \/ seq'[s].gen_start_time = seq[s].gen_start_time
        BY <2>1, <3>1
      <4> QED BY <1>1, <1>2, <1>3, <2>2, <4>1, <4>2
    <3>2. CASE s \notin AllRunning
      <4>1. seq'[s] = seq[s]
        BY <2>1, <3>2 DEF Iteration
      <4> QED BY <1>1, <1>2, <1>3, <2>2, <4>1
    <3> QED BY <3>1, <3>2
  <2> QED BY <2>2, <2>3 DEF TimeInv
<1>10. CASE SumStep
  <2>1. PICK time \in Durations :
          /\ sum_machine_time' = (IF total_time > sum_machine_time THEN total_time
                                                                   ELSE sum_machine_time) + time
          /\ Iteration(AllSum, time, TRUE)
          /\ \A s \in AllSum :
               seq'[s].gen_start_time = IF Listed(seq[s], seq'[s]) THEN sum_machine_time'
                                        ELSE total_time + time
    BY <1>0, <1>10, SumServes
  <2>2. Disagg /\ UNCHANGED total_time
    BY <1>10 DEF SumStep
  <2>3. time \in Nat /\ sum_machine_time <= sum_machine_time'
        /\ total_time + time <= sum_machine_time'
    BY <1>2, <1>4, <2>1
  <2>4. ASSUME NEW s \in SeqIds
        PROVE  Timely(seq'[s], total_time, sum_machine_time')
    <3>1. CASE s \in AllSum
      <4>1. seq'[s].num_process_token = 0
        BY <2>1, <3>1 DEF Iteration, Served
      <4>2. seq'[s].gen_start_time <= sum_machine_time'
        BY <1>2, <2>1, <2>3, <3>1
      <4> QED BY <4>1, <4>2
    <3>2. CASE s \notin AllSum
      <4>1. seq'[s] = seq[s]
        BY <2>1, <3>2 DEF Iteration
      <4> QED BY <1>1, <1>2, <1>3, <2>3, <4>1
    <3> QED BY <3>1, <3>2
  <2> QED BY <2>2, <2>4
<1>11. CASE NoRoom \/ Filled \/ Idle \/ UNCHANGED vars
  <2>1. UNCHANGED << seq, total_time, sum_machine_time >>
    BY <1>11 DEF NoRoom, Filled, Idle, vars
  <2> QED BY <1>1, <2>1 DEF TimeInv
<1> QED BY <1>5, <1>6, <1>7, <1>8, <1>9, <1>10, <1>11 DEF Next

\* A prefilled request never generates before the time the prefill machine handed
\* it over, and that time is never in the future of both machines, for any lengths,
\* durations and batch sizes.
THEOREM HandoverRespectedHolds == Spec => []HandoverRespected
<1>1. TimeInv => HandoverRespected
  BY DEF TimeInv, HandoverRespected, AllRunning
<1> QED BY <1>1, TimeInit, TimeStep, PTL DEF Spec

---------------------------------------------------------------------------
(* The work of an iteration.                                               *)

\* Between two iterations no request of a mixed system holds a token, so that the
\* ones a request keeps because its stage is not processed are none; a batch has at
\* most batch_size_per_dp requests to share max_process_token.
WorkInv ==
  /\ PlaceInv /\ TimeInv
  /\ \A b \in Batches : Cardinality(running_queue[b]) <= PerBatch
  /\ ~Disagg => \A s \in SeqIds : pc # "step" \/ ~Running(s) => seq[s].num_process_token = 0
  /\ IterationWork

\* Integer division rounds down, and gives at least one when there is enough.
LEMMA Division ==
  ASSUME NEW m \in Nat, NEW c \in Nat \ {0}
  PROVE  /\ m \div c \in Nat /\ c * (m \div c) <= m
         /\ c <= m => m \div c >= 1
<1>1. m \div c \in Int /\ m % c \in 0 .. c - 1 /\ m = c * (m \div c) + (m % c)
  OBVIOUS
<1> DEFINE d == m \div c
           r == m % c
<1>2. d \in Int /\ r \in 0 .. c - 1 /\ m = c * d + r
  BY <1>1
<1> HIDE DEF d, r
<1>3. d >= 0
  <2> SUFFICES ASSUME d <= -1 PROVE FALSE
    BY <1>2
  <2>1. c * d <= -c
    BY <1>2
  <2> QED BY <1>2, <2>1
<1>4. c <= m => d >= 1
  <2> SUFFICES ASSUME c <= m, d = 0 PROVE FALSE
    BY <1>2, <1>3
  <2> QED BY <1>2
<1>5. c * d <= m
  <2>1. c * d \in Int
    BY <1>2
  <2> QED BY <1>2, <2>1
<1> QED BY <1>2, <1>3, <1>4, <1>5 DEF d

\* What setMetadata gives: the prefilling requests of a batch share its tokens, and
\* in a mixed system a prefilling request keeps the generating ones waiting.
LEMMA MetadataWork ==
  ASSUME WorkInv, SetMetadata
  PROVE  IterationWork'
<1>1. /\ TypeInv /\ PlaceInv /\ TimeInv
      /\ seq \in [SeqIds -> Request] /\ running_queue \in [Batches -> SUBSET SeqIds]
      /\ total_time \in Nat /\ sum_machine_time \in Nat
      /\ UNCHANGED << running_queue, total_time >>
  BY DEF WorkInv, PlaceInv, TypeInv, TypeOK, SetMetadata
<1>2. /\ MaxProcessToken \in Nat /\ PerBatch \in Nat
  BY ConfigAssumption DEF PerBatch
<1>3. \A s \in SeqIds : /\ SameButTokens(seq[s], seq'[s])
                        /\ seq'[s].num_process_token = IF Running(s) THEN Tokens(BatchOf(s), s)
                                                       ELSE seq[s].num_process_token
                        /\ IsSum(s)' <=> IsSum(s)
                        /\ Running(s)' <=> Running(s)
  BY <1>1, MetadataOnly DEF SameButTokens, IsSum
<1>4. \A b \in Batches : SumSeqs(b)' = SumSeqs(b) /\ SumSeqs(b) \subseteq SeqIds
  BY <1>1, <1>3 DEF SumSeqs
<1>5. \A b \in Batches : \A s \in running_queue[b] : Running(s) /\ BatchOf(s) = b
  <2> SUFFICES ASSUME NEW b \in Batches, NEW s \in running_queue[b]
               PROVE  Running(s) /\ BatchOf(s) = b
    OBVIOUS
  <2>1. Running(s)
    BY DEF Running
  <2>2. BatchOf(s) \in Batches /\ s \in running_queue[BatchOf(s)]
    BY <2>1, BatchOfType
  <2> QED BY <1>1, <2>1, <2>2 DEF PlaceInv, Placement
<1>6. hasSumSeq' <=> hasSumSeq
  BY <1>1, <1>3 DEF hasSumSeq
\* The share of a batch.
<1>7. ASSUME NEW b \in Batches, SumSeqs(b) # {}
      PROVE  /\ Cardinality(SumSeqs(b)) \in Nat \ {0} /\ IsFiniteSet(SumSeqs(b))
             /\ SumShare(b) \in Nat /\ Cardinality(SumSeqs(b)) * SumShare(b) <= MaxProcessToken
             /\ MaxProcessToken >= PerBatch => SumShare(b) >= 1
  <2>1. SumSeqs(b) \in SUBSET running_queue[b] /\ running_queue[b] \in SUBSET SeqIds
    BY <1>1 DEF SumSeqs
  <2>2. /\ IsFiniteSet(running_queue[b]) /\ IsFiniteSet(SumSeqs(b))
        /\ Cardinality(SumSeqs(b)) <= Cardinality(running_queue[b])
        /\ Cardinality(SumSeqs(b)) \in Nat \ {0} /\ Cardinality(running_queue[b]) \in Nat
    BY <1>7, <2>1, IdsFinite, FS_Subset, FS_CardinalityType, FS_EmptySet
  <2>3. Cardinality(SumSeqs(b)) <= PerBatch
    BY <1>2, <2>2 DEF WorkInv
  <2> DEFINE c == Cardinality(SumSeqs(b))
  <2> HIDE DEF c
  <2>4. /\ MaxProcessToken \div c \in Nat /\ c * (MaxProcessToken \div c) <= MaxProcessToken
        /\ c <= MaxProcessToken => MaxProcessToken \div c >= 1
    BY <1>2, <2>2, Division DEF c
  <2> QED BY <1>2, <2>2, <2>3, <2>4 DEF c, SumShare
<1>8. ASSUME NEW b \in Batches, NEW s \in SumSeqs(b)
      PROVE  LET n == seq'[s].num_process_token IN
             /\ n \in Nat /\ n <= SumShare(b)
             /\ MaxProcessToken >= PerBatch => n >= 1
  <2>1. /\ s \in running_queue[b] /\ s \in SeqIds /\ IsSum(s) /\ hasSumSeq
        /\ SumSeqs(b) # {}
    BY <1>1 DEF SumSeqs, hasSumSeq
  <2>2. seq'[s].num_process_token = Tokens(b, s)
    BY <1>3, <1>5, <2>1
  <2>3. /\ SumShare(b) \in Nat
        /\ MaxProcessToken >= PerBatch => SumShare(b) >= 1
    BY <1>7, <2>1
  <2> DEFINE left == seq[s].input_len - seq[s].current_len
  <2>4. left \in Nat \ {0}
    BY <1>1, <2>1 DEF IsSum, Request
  <2>5. Tokens(b, s) = IF SumShare(b) < left THEN SumShare(b) ELSE left
    BY <2>1 DEF Tokens, process_sum
  <2> HIDE DEF left
  <2> QED BY <2>2, <2>3, <2>4, <2>5
<1>9. \A b \in Batches : SumFunctionOnSet(TokensGiven', SumSeqs(b)') <= MaxProcessToken
  <2> TAKE b \in Batches
  <2> DEFINE given == TokensGiven'
  <2>1. \A s \in SeqIds : given[s] = seq'[s].num_process_token
    BY DEF TokensGiven
  <2> HIDE DEF given
  <2>2. CASE SumSeqs(b) = {}
    <3>1. SumFunctionOnSet(given, {}) = 0
      BY SumEmpty
    <3> QED BY <1>2, <1>4, <2>2, <3>1 DEF given
  <2>3. CASE SumSeqs(b) # {}
    <3>1. /\ Cardinality(SumSeqs(b)) \in Nat /\ IsFiniteSet(SumSeqs(b))
          /\ SumShare(b) \in Nat /\ Cardinality(SumSeqs(b)) * SumShare(b) <= MaxProcessToken
      BY <1>7, <2>3
    <3>2. \A s \in SumSeqs(b) : given[s] \in Int /\ given[s] <= SumShare(b)
      BY <1>4, <1>8, <2>1
    <3>3. SumFunctionOnSet(given, SumSeqs(b)) <= Cardinality(SumSeqs(b)) * SumShare(b)
      BY <3>1, <3>2, SumBound
    <3>4. SumFunctionOnSet(given, SumSeqs(b)) \in Int
      BY <3>1, <3>2, SumType
    <3>5. Cardinality(SumSeqs(b)) * SumShare(b) \in Int
      BY <3>1
    <3> QED BY <1>2, <1>4, <3>1, <3>3, <3>4, <3>5 DEF given
  <2> QED BY <2>2, <2>3
<1>10. ASSUME ~Disagg, hasSumSeq', NEW s \in AllRunning', ~IsSum(s)'
       PROVE  seq'[s].num_process_token = 0
  <2>1. s \in SeqIds /\ Running(s) /\ ~IsSum(s) /\ hasSumSeq
    BY <1>3, <1>6, <1>10 DEF AllRunning
  <2>2. seq[s].num_process_token = 0
    BY <1>10, <2>1 DEF WorkInv, SetMetadata
  <2>3. Tokens(BatchOf(s), s) = seq[s].num_process_token
    BY <1>10, <2>1 DEF Tokens, process_gen
  <2> QED BY <1>3, <2>1, <2>2, <2>3
<1>11. ASSUME ~Disagg, MaxProcessToken >= PerBatch, AllRunning' # {}
       PROVE  ~NoTokens'
  <2>1. CASE hasSumSeq
    <3>1. PICK b \in Batches : SumSeqs(b) # {}
      BY <2>1 DEF hasSumSeq, SumSeqs
    <3>2. PICK s \in SumSeqs(b) : TRUE
      BY <3>1
    <3>3. seq'[s].num_process_token \in Nat /\ seq'[s].num_process_token >= 1
      BY <1>8, <1>11, <3>2
    <3>4. s \in running_queue'[b]
      BY <1>1, <3>2 DEF SumSeqs
    <3> QED BY <3>3, <3>4 DEF NoTokens
  <2>2. CASE ~hasSumSeq
    <3>1. PICK s \in SeqIds : Running(s)
      BY <1>3, <1>11 DEF AllRunning
    <3>2. PICK b \in Batches : s \in running_queue[b]
      BY <3>1 DEF Running
    <3>3. BatchOf(s) = b /\ ~IsSum(s)
      BY <1>5, <2>2, <3>2 DEF hasSumSeq
    <3>4. seq[s].gen_start_time \in Nat
      BY <1>1 DEF Request
    <3>5. GenStarted(s)
      BY <1>1, <1>11, <3>4 DEF TimeInv, GenStarted
    <3>6. Tokens(b, s) = 1
      BY <2>2, <3>3, <3>5 DEF Tokens, process_gen
    <3>7. seq'[s].num_process_token = 1
      BY <1>3, <3>1, <3>3, <3>6
    <3> QED BY <1>1, <3>2, <3>7 DEF NoTokens
  <2> QED BY <2>1, <2>2
<1> QED BY <1>9, <1>10, <1>11 DEF IterationWork

\* An admitted request finds room in its batch; batches only shrink otherwise.
LEMMA BatchesFit ==
  ASSUME TypeInv, TypeInv', [Next]_vars,
         \A b \in Batches : Cardinality(running_queue[b]) <= PerBatch
  PROVE  \A b \in Batches : Cardinality(running_queue'[b]) <= PerBatch
<1>0. PerBatch \in Nat
  BY ConfigAssumption DEF PerBatch
<1>1. /\ running_queue \in [Batches -> SUBSET SeqIds] /\ PerBatch \in Nat
      /\ running_queue' \in [Batches -> SUBSET SeqIds]
  BY <1>0 DEF TypeInv, TypeOK
<1>2. \A b \in Batches : /\ IsFiniteSet(running_queue[b])
                         /\ Cardinality(running_queue[b]) \in Nat
  BY <1>1, IdsFinite, FS_Subset, FS_CardinalityType
<1>3. CASE Admit
  <2>1. PICK h : h = Head(sequence_queue)
    OBVIOUS
  <2>2. PICK i \in 0 .. DPDegree - 1 :
          /\ HasRoom(Turn(i))
          /\ running_queue' = [running_queue EXCEPT ![Turn(i)] = @ \cup {h}]
    BY <1>3, <2>1 DEF Admit
  <2>3. PICK c \in Batches : c = Turn(i)
    <3>1. i \in Nat /\ rotate \in Batches
      BY IdsFinite DEF TypeInv, TypeOK
    <3> QED BY <3>1, TurnType
  <2>4. Cardinality(running_queue[c]) < PerBatch
    BY <2>2, <2>3 DEF HasRoom
  <2>5. Cardinality(running_queue[c] \cup {h}) <= PerBatch
    <3>1. IsFiniteSet(running_queue[c]) /\ Cardinality(running_queue[c]) \in Nat
      BY <1>2
    <3>2. Cardinality(running_queue[c] \cup {h})
            = IF h \in running_queue[c] THEN Cardinality(running_queue[c])
                                       ELSE Cardinality(running_queue[c]) + 1
      BY <3>1, FS_AddElement
    <3> QED BY <1>1, <2>4, <3>1, <3>2
  <2> QED BY <1>1, <2>2, <2>3, <2>5
<1>4. CASE ~Admit
  <2>1. \A b \in Batches : running_queue'[b] \subseteq running_queue[b]
    <3>1. CASE WarmStep \/ GenStep \/ SumStep
      BY <1>1, <3>1, PoppedType DEF WarmStep, GenStep, SumStep
    <3>2. CASE ~(WarmStep \/ GenStep \/ SumStep)
      BY <1>4, <3>2 DEF Next, vars, FillSequenceQueue, NoRoom, Filled, SetMetadata, Idle
    <3> QED BY <3>1, <3>2
  <2> TAKE b \in Batches
  <2>2. Cardinality(running_queue'[b]) <= Cardinality(running_queue[b])
        /\ Cardinality(running_queue'[b]) \in Nat
    BY <1>2, <2>1, FS_Subset, FS_CardinalityType
  <2> QED BY <1>1, <1>2, <2>2
<1> QED BY <1>3, <1>4

LEMMA WorkInit == Init => WorkInv
<1> SUFFICES ASSUME Init PROVE WorkInv
  OBVIOUS
<1>1. PlaceInv /\ TimeInv
  BY PlaceInit, TimeInit
<1>2. \A b \in Batches : Cardinality(running_queue[b]) <= PerBatch
  <2>1. PerBatch \in Nat
    BY ConfigAssumption DEF PerBatch
  <2> QED BY <2>1, FS_EmptySet DEF Init
<1>3. \A s \in SeqIds : seq[s].num_process_token = 0
  BY DEF Init, NoRequest
<1> QED BY <1>1, <1>2, <1>3 DEF Init, WorkInv, IterationWork

LEMMA WorkStep == WorkInv /\ [Next]_vars => WorkInv'
<1> SUFFICES ASSUME WorkInv, [Next]_vars PROVE WorkInv'
  OBVIOUS
<1>0. PlaceInv /\ PlaceInv' /\ TimeInv' /\ TypeInv /\ TypeInv'
  BY PlaceStep, TimeStep DEF WorkInv, PlaceInv
<1>1. \A b \in Batches : Cardinality(running_queue'[b]) <= PerBatch
  BY <1>0, BatchesFit DEF WorkInv
<1> SUFFICES /\ ~Disagg => \A s \in SeqIds : pc' # "step" \/ ~Running(s)'
                                               => seq'[s].num_process_token = 0
             /\ IterationWork'
  BY <1>0, <1>1 DEF WorkInv
<1>2. seq \in [SeqIds -> Request]
  BY <1>0 DEF TypeInv, TypeOK
<1>3. CASE SetMetadata
  <2>1. IterationWork'
    BY <1>3, MetadataWork
  <2>2. ASSUME ~Disagg, NEW s \in SeqIds, ~Running(s)'
        PROVE  seq'[s].num_process_token = 0
    BY <1>0, <1>3, <2>2, MetadataOnly DEF WorkInv
  <2> QED BY <1>3, <2>1, <2>2 DEF SetMetadata
<1>4. CASE FillSequenceQueue
  <2>1. pc # "step" /\ pc' # "step"
    BY <1>4 DEF FillSequenceQueue
  <2>2. \A s \in SeqIds : seq'[s] = seq[s] \/ \E len \in Lengths, k \in Int : seq'[s] = NewRequest(len, k)
    BY <1>0, <1>4, FillEffect
  <2>3. \A s \in SeqIds : seq'[s] = seq[s] \/ seq'[s].num_process_token = 0
    <3> TAKE s \in SeqIds
    <3>1. CASE \E len \in Lengths, k \in Int : seq'[s] = NewRequest(len, k)
      BY <3>1, NewRequestFields
    <3> QED BY <2>2, <3>1
  <2> QED BY <2>1, <2>3 DEF WorkInv, IterationWork
<1>5. CASE Admit
  <2>1. pc # "step" /\ pc' # "step"
    BY <1>5 DEF Admit
  <2>2. \A s \in SeqIds : seq'[s].num_process_token = seq[s].num_process_token
    <3> TAKE s \in SeqIds
    <3> DEFINE delay == total_time - seq[s].arrival_time
    <3>1. seq'[s] = seq[s] \/ seq'[s] = [seq[s] EXCEPT !.queueing_delay = delay]
      BY <1>2, <1>5 DEF Admit
    <3> HIDE DEF delay
    <3> QED BY <1>2, <3>1 DEF Request
  <2> QED BY <2>1, <2>2 DEF WorkInv, IterationWork
<1>6. CASE WarmStep \/ GenStep
  <2>1. PICK time : Iteration(AllRunning, time, TRUE) \/ Iteration(AllRunning, time, FALSE)
    BY <1>0, <1>6, WarmServes, GenServes
  <2>2. pc = "step" /\ pc' # "step"
    BY <1>6 DEF WarmStep, GenStep
  <2>3. ASSUME ~Disagg, NEW s \in SeqIds
        PROVE  seq'[s].num_process_token = 0
    <3>1. CASE s \in AllRunning
      BY <2>1, <3>1 DEF Iteration, Served
    <3>2. CASE s \notin AllRunning
      BY <2>1, <2>3, <3>2 DEF Iteration, WorkInv, AllRunning
    <3> QED BY <3>1, <3>2
  <2> QED BY <2>2, <2>3 DEF IterationWork
<1>7. CASE SumStep
  BY <1>7 DEF SumStep, IterationWork
<1>8. CASE Idle
  <2>1. ASSUME ~Disagg, NEW s \in SeqIds
        PROVE  seq'[s].num_process_token = 0
    BY <1>8, <2>1 DEF Idle, NoTokens, Running, WorkInv
  <2> QED BY <1>8, <2>1 DEF Idle, IterationWork
<1>9. CASE NoRoom \/ Filled
  BY <1>9 DEF NoRoom, Filled, WorkInv, IterationWork
<1>10. CASE UNCHANGED vars
  BY <1>10 DEF vars, WorkInv, IterationWork, Running, TokensGiven, SumSeqs, IsSum, hasSumSeq,
               AllRunning, NoTokens
<1> QED BY <1>3, <1>4, <1>5, <1>6, <1>7, <1>8, <1>9, <1>10 DEF Next

\* An iteration holds neither too much nor nothing, for every batch size, degree,
\* token budget and mix of requests.
THEOREM IterationWorkHolds == Spec => []IterationWork
<1>1. WorkInv => IterationWork
  BY DEF WorkInv
<1> QED BY <1>1, WorkInit, WorkStep, PTL DEF Spec

---------------------------------------------------------------------------
(* Clocks and arrivals.                                                    *)

\* No time passes in hittingQueue; afterwards iter_time is the last advance of
\* total_time.  A request created before time passes has no arrival time.
ClockInv ==
  /\ TypeInv
  /\ warm > 0 => total_time = 0
  /\ iter_time = 0 => total_time = 0
  /\ iter_time <= total_time
  /\ total_time = 0 => \A s \in SeqIds : seq[s].arrival_time = 0

\* A request is new, with the arrival that its place among the new ones gives it,
\* or it is left alone.
LEMMA FillNew ==
  ASSUME TypeInv, FillSequenceQueue, NEW s \in SeqIds
  PROVE  \/ seq'[s] = seq[s]
         \/ /\ count_id < MaxSeqs
            /\ \E len \in Lengths, k \in Int :
                 0 <= k /\ k < NumPushed /\ seq'[s] = NewRequest(len, k)
<1>1. count_id \in 0 .. MaxSeqs /\ NumPushed \in 0 .. MaxSeqs - count_id /\ MaxSeqs \in Nat
  BY NumPushedType, IdsFinite DEF TypeInv, TypeOK
<1> DEFINE n == NumPushed
           new == count_id .. count_id + n - 1
<1>2. PICK lens \in [new -> Lengths] :
        seq' = [t \in SeqIds |-> IF t \in new THEN NewRequest(lens[t], t - count_id) ELSE seq[t]]
  BY DEF FillSequenceQueue
<1> HIDE DEF n
<1>3. CASE s \in new
  <2>1. seq'[s] = NewRequest(lens[s], s - count_id) /\ lens[s] \in Lengths
    BY <1>2, <1>3
  <2>2. /\ s - count_id \in Int /\ 0 <= s - count_id /\ s - count_id < n
        /\ count_id < MaxSeqs
    BY <1>1, <1>3 DEF n
  <2> QED BY <2>1, <2>2 DEF n
<1>4. CASE s \notin new
  BY <1>2, <1>4
<1> QED BY <1>3, <1>4

\* Admission sets the delay of the head and nothing else of any request.
SameButDelay(r, q) ==
  /\ q.input_len = r.input_len /\ q.total_len = r.total_len /\ q.current_len = r.current_len
  /\ q.num_process_token = r.num_process_token /\ q.arrival_time = r.arrival_time
  /\ q.end_token_time = r.end_token_time /\ q.first_token_time = r.first_token_time
  /\ q.sum_stage = r.sum_stage /\ q.record = r.record /\ q.gen_start_time = r.gen_start_time

LEMMA AdmitDelay ==
  ASSUME TypeInv, Admit, NEW s \in SeqIds
  PROVE  /\ SameButDelay(seq[s], seq'[s])
         /\ \/ seq'[s] = seq[s]
            \/ Inject /\ seq'[s].queueing_delay = total_time - seq[s].arrival_time
<1>1. seq \in [SeqIds -> Request] /\ seq[s] \in Request
  BY DEF TypeInv, TypeOK
<1> DEFINE delay == total_time - seq[s].arrival_time
<1>2. seq'[s] = seq[s] \/ (Inject /\ seq'[s] = [seq[s] EXCEPT !.queueing_delay = delay])
  BY <1>1 DEF Admit
<1> HIDE DEF delay
<1>3. CASE seq'[s] = seq[s]
  BY <1>3 DEF SameButDelay
<1>4. CASE Inject /\ seq'[s] = [seq[s] EXCEPT !.queueing_delay = delay]
  <2>1. SameButDelay(seq[s], seq'[s])
    BY <1>1, <1>4 DEF SameButDelay, Request
  <2>2. seq'[s].queueing_delay = delay
    BY <1>1, <1>4 DEF Request
  <2> QED BY <1>4, <2>1, <2>2 DEF delay
<1> QED BY <1>2, <1>3, <1>4

\* The times of a request that no step but its creation gives it.
LEMMA ArrivalKept ==
  ASSUME TypeInv, [Next]_vars, ~FillSequenceQueue, NEW s \in SeqIds
  PROVE  /\ seq'[s].arrival_time = seq[s].arrival_time
         /\ \/ seq'[s].queueing_delay = seq[s].queueing_delay
            \/ Admit /\ seq'[s].queueing_delay = total_time - seq[s].arrival_time
<1>1. CASE Admit
  BY <1>1, AdmitDelay DEF SameButDelay
<1>2. CASE SetMetadata
  BY <1>2, MetadataOnly DEF SameButTokens
<1>3. CASE WarmStep
  BY <1>3, WarmServes DEF Iteration, Served
<1>4. CASE GenStep
  BY <1>4, GenServes DEF Iteration, Served
<1>5. CASE SumStep
  BY <1>5, SumServes DEF Iteration, Served
<1>6. CASE NoRoom \/ Filled \/ Idle \/ UNCHANGED vars
  BY <1>6 DEF NoRoom, Filled, Idle, vars
<1> QED BY <1>1, <1>2, <1>3, <1>4, <1>5, <1>6 DEF Next

LEMMA ClockInit == Init => ClockInv
<1> SUFFICES ASSUME Init PROVE ClockInv
  OBVIOUS
<1>1. \A s \in SeqIds : seq[s].arrival_time = 0
  BY DEF Init, NoRequest
<1> QED BY <1>1, TypeInit DEF ClockInv, Init

LEMMA ClockStep == ClockInv /\ [Next]_vars => ClockInv'
<1> SUFFICES ASSUME ClockInv, [Next]_vars PROVE ClockInv'
  OBVIOUS
<1>0. TypeInv /\ TypeInv'
  BY TypeStep DEF ClockInv
<1>1. /\ total_time \in Nat /\ iter_time \in Nat /\ warm \in Nat
  BY <1>0, ConfigAssumption DEF TypeInv, TypeOK
<1>2. CASE FillSequenceQueue
  <2>1. UNCHANGED << total_time, iter_time, warm >>
    BY <1>2 DEF FillSequenceQueue
  <2>2. ASSUME total_time = 0, NEW s \in SeqIds
        PROVE  seq'[s].arrival_time = 0
    <3>1. CASE seq'[s] = seq[s]
      BY <2>2, <3>1 DEF ClockInv
    <3>2. CASE \E len \in Lengths, k \in Int : seq'[s] = NewRequest(len, k)
      <4>1. PICK len \in Lengths, k \in Int : seq'[s] = NewRequest(len, k)
        BY <3>2
      <4>2. ~TakesArrival
        BY <2>2 DEF TakesArrival
      <4> QED BY <4>1, <4>2, NewRequestFields
    <3> QED BY <1>0, <1>2, <3>1, <3>2, FillNew
  <2> QED BY <1>0, <2>1, <2>2 DEF ClockInv
<1>3. CASE ~FillSequenceQueue
  <2>1. \A s \in SeqIds : seq'[s].arrival_time = seq[s].arrival_time
    BY <1>0, <1>3, ArrivalKept
  <2>2. CASE WarmStep
    BY <1>0, <1>1, <2>1, <2>2 DEF WarmStep, ClockInv
  <2>3. CASE GenStep
    <3>1. PICK time \in Durations : total_time' = total_time + time /\ iter_time' = time
      BY <2>3 DEF GenStep
    <3>2. time \in Nat \ {0}
      BY ConfigAssumption
    <3>3. warm = 0 /\ warm' = warm
      BY <2>3 DEF GenStep
    <3> QED BY <1>0, <1>1, <3>1, <3>2, <3>3 DEF ClockInv
  <2>4. CASE ~WarmStep /\ ~GenStep
    <3>1. UNCHANGED << total_time, iter_time, warm >>
      BY <1>3, <2>4 DEF Next, vars, Admit, NoRoom, Filled, SetMetadata, Idle, SumStep
    <3> QED BY <1>0, <2>1, <3>1 DEF ClockInv
  <2> QED BY <2>2, <2>3, <2>4
<1> QED BY <1>2, <1>3

\* The arrivals before a time.
CountBefore(t) == Cardinality({ i \in DOMAIN Arrivals : Arrivals[i] < t })

LEMMA CountType ==
  ASSUME NEW t \in Int
  PROVE  CountBefore(t) \in Nat /\ CountBefore(t) <= Len(Arrivals)
<1> DEFINE A == { i \in DOMAIN Arrivals : Arrivals[i] < t }
<1>1. IsFiniteSet(1 .. Len(Arrivals)) /\ DOMAIN Arrivals = 1 .. Len(Arrivals)
      /\ Len(Arrivals) \in Nat
  BY ConfigAssumption, FS_Interval
<1>2. Cardinality(1 .. Len(Arrivals)) = Len(Arrivals)
  <2>1. Cardinality(1 .. Len(Arrivals))
          = IF 1 > Len(Arrivals) THEN 0 ELSE Len(Arrivals) - 1 + 1
    BY <1>1, FS_Interval
  <2> QED BY <1>1, <2>1
<1>3. A \in SUBSET (1 .. Len(Arrivals))
  BY <1>1
<1> HIDE DEF A
<1>4. IsFiniteSet(1 .. Len(Arrivals))
  BY <1>1
<1>5. IsFiniteSet(A) /\ Cardinality(A) <= Cardinality(1 .. Len(Arrivals))
  BY <1>3, <1>4, FS_Subset
<1>6. Cardinality(A) \in Nat
  BY <1>5, FS_CardinalityType
<1> QED BY <1>2, <1>5, <1>6 DEF A, CountBefore

\* Two windows that meet hold the arrivals of both.
LEMMA WindowAdds ==
  ASSUME total_time \in Nat, iter_time \in Nat
  PROVE  CountBefore(total_time) = CountBefore(total_time - iter_time) + ArrivedInWindow
<1> DEFINE start == total_time - iter_time
           A == { i \in DOMAIN Arrivals : Arrivals[i] < start }
           B == { i \in DOMAIN Arrivals : start <= Arrivals[i] /\ Arrivals[i] < total_time }
           C == { i \in DOMAIN Arrivals : Arrivals[i] < total_time }
<1>1. /\ IsFiniteSet(1 .. Len(Arrivals)) /\ DOMAIN Arrivals = 1 .. Len(Arrivals)
      /\ \A i \in DOMAIN Arrivals : Arrivals[i] \in Int
  BY ConfigAssumption, FS_Interval
<1>2. start \in Int /\ start <= total_time
  OBVIOUS
<1> HIDE DEF start
<1>3. A \cup B = C /\ A \cap B = {}
  BY <1>1, <1>2
<1>4. A \in SUBSET (1 .. Len(Arrivals)) /\ B \in SUBSET (1 .. Len(Arrivals))
  BY <1>1
<1> HIDE DEF A, B, C
<1>5. IsFiniteSet(A) /\ IsFiniteSet(B)
  BY <1>1, <1>4, FS_Subset
<1>6. Cardinality(C) = Cardinality(A) + Cardinality(B)
  <2>1. Cardinality(A \cup B) = Cardinality(A) + Cardinality(B) - Cardinality(A \cap B)
    BY <1>5, FS_Union
  <2>2. Cardinality(A \cap B) = 0
    BY <1>3, FS_EmptySet
  <2>3. Cardinality(A) \in Nat /\ Cardinality(B) \in Nat
    BY <1>5, FS_CardinalityType
  <2> QED BY <1>3, <2>1, <2>2, <2>3
<1> QED BY <1>6 DEF start, A, B, C, CountBefore, ArrivedInWindow

\* The arrivals are in their order, so those before a time come first.
LEMMA FirstArrivals ==
  ASSUME NEW t \in Int, NEW j \in DOMAIN Arrivals, j <= CountBefore(t)
  PROVE  Arrivals[j] < t
<1> SUFFICES ASSUME ~(Arrivals[j] < t) PROVE FALSE
  OBVIOUS
<1> DEFINE A == { i \in DOMAIN Arrivals : Arrivals[i] < t }
<1>1. /\ DOMAIN Arrivals = 1 .. Len(Arrivals) /\ j \in Nat \ {0}
      /\ \A i \in DOMAIN Arrivals : Arrivals[i] \in Nat
      /\ \A i, k \in DOMAIN Arrivals : i <= k => Arrivals[i] <= Arrivals[k]
  BY ConfigAssumption
<1>2. A \in SUBSET (1 .. j - 1)
  <2> SUFFICES ASSUME NEW i \in DOMAIN Arrivals, Arrivals[i] < t PROVE i \in 1 .. j - 1
    OBVIOUS
  <2>1. ~(j <= i)
    BY <1>1
  <2> QED BY <1>1, <2>1
<1>3. IsFiniteSet(1 .. j - 1) /\ Cardinality(1 .. j - 1) = j - 1
  <2> DEFINE m == j - 1
  <2>1. 1 \in Int /\ m \in Int
    BY <1>1
  <2>2. m \in Nat
    BY <1>1
  <2> HIDE DEF m
  <2>3. IsFiniteSet(1 .. m) /\ Cardinality(1 .. m) = IF 1 > m THEN 0 ELSE m - 1 + 1
    BY <2>1, FS_Interval
  <2>4. Cardinality(1 .. m) = m
    BY <2>2, <2>3
  <2> QED BY <2>3, <2>4 DEF m
<1> HIDE DEF A
<1>4. Cardinality(A) <= j - 1 /\ Cardinality(A) \in Nat
  BY <1>2, <1>3, FS_Subset, FS_CardinalityType
<1> QED BY <1>1, <1>4 DEF A, CountBefore

\* The arrivals consumed are those before the start of the window that the next
\* fillSequenceQueue counts, until it has counted it.
ArrivalInv ==
  /\ ClockInv
  /\ count_id < MaxSeqs =>
       cur_arrival_time_idx
         = CountBefore(IF pc = "fillSequenceQueue" THEN total_time - iter_time ELSE total_time)
  /\ \A s \in SeqIds : seq[s].arrival_time <= total_time /\ seq[s].queueing_delay >= 0

LEMMA ArrivalInit == Init => ArrivalInv
<1> SUFFICES ASSUME Init PROVE ArrivalInv
  OBVIOUS
<1>1. \A s \in SeqIds : seq[s].arrival_time = 0 /\ seq[s].queueing_delay = 0
  BY DEF Init, NoRequest
<1>2. CountBefore(0) = 0
  <2>1. \A i \in DOMAIN Arrivals : Arrivals[i] \in Nat
    BY ConfigAssumption
  <2>2. { i \in DOMAIN Arrivals : Arrivals[i] < 0 } = {}
    BY <2>1
  <2> QED BY <2>2, FS_EmptySet DEF CountBefore
<1>3. ClockInv
  BY ClockInit
<1>4. /\ cur_arrival_time_idx = 0 /\ total_time = 0 /\ iter_time = 0
      /\ pc = "fillSequenceQueue"
  BY DEF Init
<1> QED BY <1>1, <1>2, <1>3, <1>4 DEF ArrivalInv

\* fillSequenceQueue consumes the window it counts.
LEMMA FillArrivals ==
  ASSUME Inject, ~RealData, ArrivalInv, FillSequenceQueue
  PROVE  /\ count_id' < MaxSeqs => cur_arrival_time_idx' = CountBefore(total_time)
         /\ \A len \in Lengths, k \in Int :
              0 <= k /\ k < NumPushed => NewRequest(len, k).arrival_time <= total_time
<1>1. /\ total_time \in Nat /\ iter_time \in Nat /\ cur_arrival_time_idx \in Nat
      /\ count_id \in 0 .. MaxSeqs /\ MaxSeqs \in Nat /\ pc = "fillSequenceQueue"
      /\ NumPushed \in 0 .. MaxSeqs - count_id
      /\ count_id' = count_id + NumPushed
      /\ cur_arrival_time_idx' = cur_arrival_time_idx + (IF TakesArrival THEN NumPushed ELSE 0)
  BY NumPushedType, IdsFinite DEF ArrivalInv, ClockInv, TypeInv, TypeOK, FillSequenceQueue
<1>2. /\ iter_time <= total_time /\ (iter_time = 0 => total_time = 0)
      /\ count_id < MaxSeqs => cur_arrival_time_idx = CountBefore(total_time - iter_time)
  BY <1>1 DEF ArrivalInv, ClockInv
<1>3. CASE iter_time = 0
  <2>1. total_time = 0 /\ total_time - iter_time = 0 /\ ~TakesArrival
    BY <1>1, <1>2, <1>3 DEF TakesArrival
  <2>2. \A len \in Lengths, k \in Int : NewRequest(len, k).arrival_time = 0
    BY <2>1, NewRequestFields
  <2> QED BY <1>1, <1>2, <2>1, <2>2
<1>4. CASE iter_time # 0
  <2>1. TakesArrival /\ NumRequestToInject = ArrivedInWindow
    BY <1>1, <1>2, <1>4 DEF TakesArrival, NumRequestToInject
  <2>2. CountBefore(total_time) = CountBefore(total_time - iter_time) + ArrivedInWindow
    BY <1>1, WindowAdds
  <2>3. ArrivedInWindow \in Nat
    BY ArrivedType
  <2>4. NumPushed <= ArrivedInWindow /\ (count_id' < MaxSeqs => NumPushed = ArrivedInWindow)
    BY <1>1, <2>1, <2>3 DEF NumPushed
  <2>5. total_time - iter_time \in Int
    BY <1>1
  <2>6. /\ CountBefore(total_time - iter_time) \in Nat /\ CountBefore(total_time) \in Nat
        /\ CountBefore(total_time) <= Len(Arrivals)
    BY <1>1, <2>5, CountType
  <2>7. count_id' < MaxSeqs => cur_arrival_time_idx' = CountBefore(total_time)
    BY <1>1, <1>2, <2>1, <2>2, <2>3, <2>4, <2>6
  <2>8. ASSUME NEW k \in Int, 0 <= k, k < NumPushed, NEW len \in Lengths
        PROVE  NewRequest(len, k).arrival_time <= total_time
    <3> DEFINE j == cur_arrival_time_idx + k + 1
    <3>1. NewRequest(len, k).arrival_time = ArrivalAt(cur_arrival_time_idx + k)
      BY <2>1, NewRequestFields
    <3>2. count_id < MaxSeqs
      BY <1>1, <2>8
    <3>3. j \in Nat \ {0} /\ j <= CountBefore(total_time) /\ j <= Len(Arrivals)
          /\ j = cur_arrival_time_idx + k + 1
      BY <1>1, <1>2, <2>2, <2>3, <2>4, <2>6, <2>8, <3>2
    <3>4. Len(Arrivals) \in Nat /\ DOMAIN Arrivals = 1 .. Len(Arrivals)
      BY ConfigAssumption
    <3> HIDE DEF j
    <3>5. Arrivals[j] < total_time /\ Arrivals[j] \in Nat
      BY <1>1, <3>3, <3>4, FirstArrivals, ConfigAssumption
    <3>6. ArrivalAt(cur_arrival_time_idx + k) = Arrivals[j]
      BY <1>1, <3>3, <3>4 DEF ArrivalAt
    <3> QED BY <1>1, <3>1, <3>5, <3>6
  <2> QED BY <2>7, <2>8
<1> QED BY <1>3, <1>4

LEMMA ArrivalStep == Inject /\ ~RealData /\ ArrivalInv /\ [Next]_vars => ArrivalInv'
<1> SUFFICES ASSUME Inject, ~RealData, ArrivalInv, [Next]_vars PROVE ArrivalInv'
  OBVIOUS
<1>0. ClockInv /\ ClockInv' /\ TypeInv
  BY ClockStep DEF ArrivalInv, ClockInv
<1>1. /\ total_time \in Nat /\ iter_time \in Nat /\ warm \in Nat /\ total_time' \in Nat
      /\ seq \in [SeqIds -> Request]
  BY <1>0, ConfigAssumption DEF ClockInv, TypeInv, TypeOK
<1>2. \A s \in SeqIds : /\ seq[s].arrival_time \in Nat /\ seq[s].queueing_delay \in Int
                        /\ seq[s].arrival_time <= total_time /\ seq[s].queueing_delay >= 0
  BY <1>1 DEF ArrivalInv, Request
<1>3. CASE FillSequenceQueue
  <2>1. UNCHANGED << total_time, iter_time >> /\ pc' # "fillSequenceQueue"
    BY <1>3 DEF FillSequenceQueue
  <2>2. ASSUME NEW s \in SeqIds
        PROVE  seq'[s].arrival_time <= total_time /\ seq'[s].queueing_delay >= 0
    <3>1. CASE seq'[s] = seq[s]
      BY <1>2, <3>1
    <3>2. CASE \E len \in Lengths, k \in Int :
                 0 <= k /\ k < NumPushed /\ seq'[s] = NewRequest(len, k)
      <4>1. PICK len \in Lengths, k \in Int :
              0 <= k /\ k < NumPushed /\ seq'[s] = NewRequest(len, k)
        BY <3>2
      <4>2. seq'[s].queueing_delay = 0
        BY <4>1, NewRequestFields
      <4> QED BY <1>3, <4>1, <4>2, FillArrivals
    <3> QED BY <1>0, <1>3, <3>1, <3>2, FillNew
  <2>3. count_id' < MaxSeqs => cur_arrival_time_idx' = CountBefore(total_time)
    BY <1>3, FillArrivals
  <2> QED BY <1>0, <2>1, <2>2, <2>3 DEF ArrivalInv
<1>4. CASE ~FillSequenceQueue
  <2>1. total_time <= total_time'
    <3>1. CASE GenStep
      <4>1. PICK time \in Durations : total_time' = total_time + time
        BY <3>1 DEF GenStep
      <4> QED BY <1>1, <4>1, ConfigAssumption
    <3>2. CASE ~GenStep
      BY <1>1, <1>4, <3>2 DEF Next, vars, Admit, NoRoom, Filled, SetMetadata, WarmStep, Idle, SumStep
    <3> QED BY <3>1, <3>2
  <2>2. \A s \in SeqIds : seq'[s].arrival_time <= total_time' /\ seq'[s].queueing_delay >= 0
    <3> TAKE s \in SeqIds
    <3>1. seq'[s].arrival_time = seq[s].arrival_time
      BY <1>0, <1>4, ArrivalKept
    <3>2. \/ seq'[s].queueing_delay = seq[s].queueing_delay
          \/ seq'[s].queueing_delay = total_time - seq[s].arrival_time
      BY <1>0, <1>4, ArrivalKept
    <3> QED BY <1>1, <1>2, <2>1, <3>1, <3>2
  <2>3. UNCHANGED << count_id, cur_arrival_time_idx >>
    BY <1>4 DEF Next, vars, Admit, NoRoom, Filled, SetMetadata, WarmStep, Idle, GenStep, SumStep
  <2>4. (IF pc' = "fillSequenceQueue" THEN total_time' - iter_time' ELSE total_time')
          = (IF pc = "fillSequenceQueue" THEN total_time - iter_time ELSE total_time)
    <3>1. CASE GenStep
      <4>1. PICK time \in Durations : total_time' = total_time + time /\ iter_time' = time
        BY <3>1 DEF GenStep
      <4>2. time \in Nat
        BY ConfigAssumption
      <4> QED BY <1>1, <3>1, <4>1, <4>2 DEF GenStep
    <3>2. CASE WarmStep
      BY <1>1, <3>2 DEF WarmStep
    <3>3. CASE ~GenStep /\ ~WarmStep
      BY <1>4, <3>3 DEF Next, vars, Admit, NoRoom, Filled, SetMetadata, Idle, SumStep
    <3> QED BY <3>1, <3>2, <3>3
  <2> HIDE DEF CountBefore
  <2> QED BY <1>0, <2>2, <2>3, <2>4 DEF ArrivalInv
<1> QED BY <1>3, <1>4

\* The windows that fillSequenceQueue counts neither overlap nor leave a gap: no
\* request is created before it arrives or waits a negative time, whatever the
\* arrivals and the durations.
THEOREM ArrivalAccountingHolds == Spec => []ArrivalAccounting
<1>1. ArrivalInv => ArrivalAccounting
  BY DEF ArrivalInv, ArrivalAccounting, CountBefore
<1>2. CASE Inject /\ ~RealData
  <2>1. ArrivalInv /\ [Next]_vars => ArrivalInv'
    BY <1>2, ArrivalStep
  <2> QED BY <1>1, <2>1, ArrivalInit, PTL DEF Spec
<1>3. CASE ~(Inject /\ ~RealData)
  <2>1. ArrivalAccounting
    BY <1>3 DEF ArrivalAccounting
  <2> QED BY <2>1, PTL
<1> QED BY <1>2, <1>3

---------------------------------------------------------------------------
(* The first token is recorded when the prompt ends, not before.           *)

RecordInv ==
  /\ StageInv
  /\ \A s \in SeqIds : Running(s) \/ Waiting(s) => (seq[s].record <=> ~IsSum(s))
  /\ \A s \in SeqIds : Waiting(s) => IsSum(s)

LEMMA RecordInit == Init => RecordInv
<1> SUFFICES ASSUME Init PROVE RecordInv
  OBVIOUS
<1>1. \A s \in SeqIds : ~Running(s) /\ ~Waiting(s)
  BY DEF Init, Running, Waiting
<1> QED BY <1>1, StageInit DEF RecordInv

\* What an iteration that serves r makes of it, in the stage it is in: a prefilling
\* request stays in its prompt, ends it or ends with it; a generating one goes on.
LEMMA ServedStage ==
  ASSUME NEW r \in Request, NEW q \in Request, NEW time \in Nat, Served(r, q, time),
         r.input_len <= r.total_len,
         r.current_len < r.total_len,
         r.current_len < r.input_len => r.current_len + r.num_process_token <= r.input_len,
         r.current_len + r.num_process_token <= r.total_len,
         r.record <=> ~(r.current_len < r.input_len),
         r.sum_stage <=> r.current_len < r.input_len
  PROVE  /\ q.current_len # q.total_len => (q.record <=> ~(q.current_len < q.input_len))
         /\ q.sum_stage <=> q.current_len < q.input_len
         /\ q.current_len <= q.total_len
         /\ r.sum_stage => /\ q.first_token_time = r.first_token_time + time
                           /\ Listed(r, q) <=> ~(q.current_len < q.input_len)
                           /\ q.current_len <= q.input_len
         /\ ~r.sum_stage => /\ q.first_token_time = r.first_token_time
                            /\ Listed(r, q) <=> q.current_len = q.total_len
                            /\ ~(q.current_len < q.input_len)
                            /\ q.total_len # q.input_len
<1>1. /\ r.input_len \in Nat /\ r.total_len \in Nat /\ r.current_len \in Nat
      /\ r.num_process_token \in Nat
      /\ q.input_len \in Nat /\ q.total_len \in Nat /\ q.current_len \in Nat
  BY DEF Request
<1>2. r.record \in BOOLEAN /\ r.sum_stage \in BOOLEAN /\ q.record \in BOOLEAN
      /\ q.sum_stage \in BOOLEAN
  BY DEF Request
<1>3. /\ q.input_len = r.input_len /\ q.total_len = r.total_len
      /\ q.current_len = r.current_len + r.num_process_token
      /\ q.first_token_time = (IF r.sum_stage THEN r.first_token_time + time
                                              ELSE r.first_token_time)
      /\ q.sum_stage = (r.sum_stage /\ q.current_len # r.input_len)
      /\ q.record = (r.record \/ (q.current_len # q.total_len /\ q.current_len = q.input_len))
  BY DEF Served
<1>4. CASE r.sum_stage
  <2>1. r.current_len < r.input_len /\ ~r.record
    BY <1>4
  <2>2. q.current_len <= q.input_len /\ q.input_len <= q.total_len
    BY <1>1, <1>3, <2>1
  <2>3. q.sum_stage <=> q.current_len # q.input_len
    BY <1>2, <1>3, <1>4
  <2>4. q.record <=> q.current_len # q.total_len /\ q.current_len = q.input_len
    BY <1>2, <1>3, <2>1
  <2>5. Listed(r, q) <=> q.current_len = q.total_len \/ q.current_len = q.input_len
    BY <2>1 DEF Listed
  <2>6. q.current_len # q.input_len <=> q.current_len < q.input_len
    BY <1>1, <2>2
  <2>7. q.current_len = q.total_len => q.current_len = q.input_len
    BY <1>1, <2>2
  <2>8. q.current_len <= q.total_len
    BY <1>1, <2>2
  <2>9. q.first_token_time = r.first_token_time + time
    BY <1>3, <1>4
  <2> QED BY <1>4, <2>2, <2>3, <2>4, <2>5, <2>6, <2>7, <2>8, <2>9
<1>5. CASE ~r.sum_stage
  <2>1. ~(r.current_len < r.input_len) /\ r.record
    BY <1>5
  <2>2. /\ ~(q.current_len < q.input_len) /\ q.total_len # q.input_len
        /\ q.current_len <= q.total_len
    BY <1>1, <1>3, <2>1
  <2>3. ~q.sum_stage /\ q.record /\ q.first_token_time = r.first_token_time
    BY <1>2, <1>3, <1>5, <2>1
  <2>4. Listed(r, q) <=> q.current_len = q.total_len
    BY <2>1 DEF Listed
  <2> QED BY <1>5, <2>2, <2>3, <2>4
<1> QED BY <1>4, <1>5

\* The hypotheses of ServedStage are those of a running request.
LEMMA RunningFits ==
  ASSUME RecordInv, NEW s \in SeqIds, Running(s)
  PROVE  LET r == seq[s] IN
         /\ r \in Request
         /\ r.input_len <= r.total_len
         /\ r.current_len < r.total_len
         /\ r.current_len < r.input_len => r.current_len + r.num_process_token <= r.input_len
         /\ r.current_len + r.num_process_token <= r.total_len
         /\ r.record <=> ~(r.current_len < r.input_len)
         /\ r.sum_stage <=> r.current_len < r.input_len
<1>1. Fits(seq[s], Running(s), Waiting(s), Created(s)) /\ seq[s] \in Request
  BY DEF RecordInv, StageInv, LenInv, PlaceInv, TypeInv, TypeOK
<1>2. /\ seq[s].record <=> ~IsSum(s)
      /\ seq[s].sum_stage <=> IsSum(s)
  BY DEF RecordInv, StageInv
<1> QED BY <1>1, <1>2 DEF Fits, IsSum

\* What runs has been created.
LEMMA RunningCreated ==
  ASSUME PlaceInv, NEW s \in SeqIds, Running(s)
  PROVE  Created(s)
<1>1. /\ count_id \in Nat /\ s \in Int /\ Len(sequence_queue) \in Nat
  BY IdsFinite DEF PlaceInv, TypeInv, TypeOK, SeqIds
<1>2. s < count_id - Len(sequence_queue)
  BY DEF PlaceInv, Placement, Running
<1> QED BY <1>1, <1>2 DEF Created

\* The three ends of an iteration have the shape of Iteration.  Those of hittingQueue
\* report nothing, and no time has passed then.
LEMMA EndReports ==
  ASSUME ClockInv, WarmStep \/ GenStep \/ SumStep
  PROVE  \E who \in SUBSET AllRunning, time \in Nat, reports \in BOOLEAN :
           /\ Iteration(who, time, reports)
           /\ (reports /\ time # 0) \/ total_time = 0
<1>1. AllSum \in SUBSET AllRunning /\ AllRunning \in SUBSET AllRunning
  BY DEF AllSum
<1>2. Durations \subseteq Nat \ {0}
  BY ConfigAssumption
<1>3. CASE WarmStep
  <2>1. TypeInv /\ total_time = 0 /\ 0 \in Nat
    BY <1>3 DEF WarmStep, ClockInv
  <2> QED BY <1>1, <1>3, <2>1, WarmServes
<1>4. CASE GenStep
  <2>1. PICK time \in Durations : Iteration(AllRunning, time, TRUE)
    BY <1>4, GenServes DEF ClockInv
  <2>2. time \in Nat /\ time # 0
    BY <1>2
  <2> QED BY <1>1, <2>1, <2>2
<1>5. CASE SumStep
  <2>1. PICK time \in Durations : Iteration(AllSum, time, TRUE)
    BY <1>5, SumServes DEF ClockInv
  <2>2. time \in Nat /\ time # 0
    BY <1>2
  <2> QED BY <1>1, <2>1, <2>2
<1> QED BY <1>3, <1>4, <1>5

\* They restart gen_start_time of a generating request only at its end.
LEMMA EndIterates ==
  ASSUME TypeInv, WarmStep \/ GenStep \/ SumStep
  PROVE  \E who \in SUBSET AllRunning, time \in Nat, reports \in BOOLEAN :
           /\ Iteration(who, time, reports)
           /\ \A s \in who : ~IsSum(s) /\ ~Listed(seq[s], seq'[s])
                              => seq'[s].gen_start_time = seq[s].gen_start_time
<1>1. AllSum \in SUBSET AllRunning /\ AllRunning \in SUBSET AllRunning
  BY DEF AllSum
<1>2. Durations \subseteq Nat
  BY ConfigAssumption
<1>3. CASE WarmStep
  <2>1. \A s \in AllRunning : seq'[s].gen_start_time = seq[s].gen_start_time
    BY <1>3, WarmServes DEF AllRunning
  <2> QED BY <1>1, <1>3, <2>1, WarmServes
<1>4. CASE GenStep
  BY <1>1, <1>2, <1>4, GenServes
<1>5. CASE SumStep
  <2>1. \A s \in AllSum : IsSum(s)
    BY DEF AllSum
  <2> QED BY <1>1, <1>2, <1>5, <2>1, SumServes
<1> QED BY <1>3, <1>4, <1>5

LEMMA RecordStep == StartsInPrompt /\ RecordInv /\ [Next]_vars => RecordInv'
<1> SUFFICES ASSUME StartsInPrompt, RecordInv, [Next]_vars PROVE RecordInv'
  OBVIOUS
<1>0. StageInv /\ StageInv' /\ LenInv /\ PlaceInv /\ TypeInv /\ TypeInv'
  BY StageStep DEF RecordInv, StageInv, LenInv, PlaceInv
<1> DEFINE Agrees(r) == r.record <=> ~(r.current_len < r.input_len)
           Starts(r) == r.current_len < r.input_len
<1> SUFFICES ASSUME NEW s \in SeqIds
             PROVE  /\ Running(s)' \/ Waiting(s)' => Agrees(seq'[s])
                    /\ Waiting(s)' => Starts(seq'[s])
  BY <1>0 DEF RecordInv, IsSum
<1>1. /\ Running(s) \/ Waiting(s) => Agrees(seq[s])
      /\ Waiting(s) => Starts(seq[s])
  BY DEF RecordInv, IsSum
<1>2. CASE FillSequenceQueue
  <2>1. CASE \E len \in Lengths, k \in Int : seq'[s] = NewRequest(len, k)
    <3>1. PICK len \in Lengths : /\ seq'[s].input_len = len[1]
                                 /\ seq'[s].current_len = StartLen(len)
                                 /\ seq'[s].sum_stage = TRUE /\ seq'[s].record = FALSE
      BY <2>1, NewFields
    <3>2. seq'[s].current_len < seq'[s].input_len
      BY <3>1 DEF StartsInPrompt
    <3> QED BY <3>1, <3>2
  <2>2. CASE /\ seq'[s] = seq[s]
             /\ Running(s)' <=> Running(s)
             /\ Waiting(s)' <=> Waiting(s)
    BY <1>1, <2>2
  <2> QED BY <1>0, <1>2, <2>1, <2>2, FillEffect
<1>3. CASE Admit
  <2>1. /\ Running(s)' \/ Waiting(s)' => Running(s) \/ Waiting(s)
        /\ Waiting(s)' => Waiting(s)
    BY <1>0, <1>3, AdmitOnly
  <2>2. SameButDelay(seq[s], seq'[s])
    BY <1>0, <1>3, AdmitDelay
  <2> QED BY <1>1, <2>1, <2>2 DEF SameButDelay
<1>4. CASE SetMetadata
  BY <1>0, <1>1, <1>4, MetadataOnly DEF SameButTokens
<1>5. CASE WarmStep \/ GenStep \/ SumStep
  <2>1. PICK who \in SUBSET AllRunning, time \in Nat, reports \in BOOLEAN :
          Iteration(who, time, reports)
    BY <1>0, <1>5, EndIterates
  <2>2. CASE s \notin who
    BY <1>1, <2>1, <2>2 DEF Iteration
  <2>3. CASE s \in who
    <3>1. Served(seq[s], seq'[s], time) /\ Running(s)
          /\ (Running(s)' <=> seq'[s].current_len # seq'[s].total_len)
          /\ (Waiting(s)' <=> Waiting(s))
      BY <2>1, <2>3 DEF Iteration
    <3>2. ~Waiting(s) /\ ~Waiting(s)'
      BY <1>0, <3>1, Apart
    <3>3. seq'[s] \in Request
      BY <1>0 DEF TypeInv, TypeOK
    <3>4. Running(s)' \/ Waiting(s)' => seq'[s].current_len # seq'[s].total_len
      BY <3>1, <3>2
    <3> QED BY <3>1, <3>2, <3>3, <3>4, RunningFits, ServedStage
  <2> QED BY <2>2, <2>3
<1>6. CASE Untouched
  BY <1>1, <1>6, UntouchedStep
<1> QED BY <1>2, <1>3, <1>4, <1>5, <1>6, StepCases

---------------------------------------------------------------------------
(* Latencies add up to the clock.                                          *)

\* The accounts of a request r at the time `now`: while it runs, its arrival, delay
\* and accumulated time reach the clock, and all that time is first_token_time until
\* the first token is recorded; afterwards its records stay what they were.
Accounted(r, waiting, running, retired, now) ==
  LET since == r.arrival_time + r.queueing_delay IN
  /\ waiting => r.end_token_time = 0 /\ r.first_token_time = 0 /\ r.gen_start_time = 0
  /\ running =>
       /\ since + r.end_token_time = now
       /\ r.sum_stage => r.first_token_time = r.end_token_time /\ r.gen_start_time = 0
       /\ r.gen_start_time # 0 => since + r.first_token_time = r.gen_start_time
  /\ retired /\ r.gen_start_time # 0 => since + r.end_token_time = r.gen_start_time

LatencyInv ==
  /\ RecordInv /\ TimeInv /\ ClockInv
  /\ \A s \in SeqIds : Accounted(seq[s], Waiting(s), Running(s), Retired(s), total_time)

LEMMA LatencyInit == Init => LatencyInv
<1> SUFFICES ASSUME Init PROVE LatencyInv
  OBVIOUS
<1>1. \A s \in SeqIds : ~Running(s) /\ ~Waiting(s)
  BY DEF Init, Running, Waiting
<1>2. \A s \in SeqIds : seq[s].gen_start_time = 0
  BY DEF Init, NoRequest
<1> QED BY <1>1, <1>2, RecordInit, TimeInit, ClockInit DEF LatencyInv, Accounted

\* An iteration of the mixed system keeps the accounts of a request it serves.
LEMMA ServedAccounts ==
  ASSUME NEW r \in Request, NEW q \in Request, NEW time \in Nat, NEW now \in Nat,
         Served(r, q, time), Accounted(r, FALSE, TRUE, FALSE, now),
         r.input_len <= r.total_len,
         r.current_len < r.total_len,
         r.current_len < r.input_len => r.current_len + r.num_process_token <= r.input_len,
         r.current_len + r.num_process_token <= r.total_len,
         r.record <=> ~(r.current_len < r.input_len),
         r.sum_stage <=> r.current_len < r.input_len,
         \/ q.gen_start_time = IF Listed(r, q) THEN now + time ELSE r.gen_start_time
         \/ q.gen_start_time = r.gen_start_time /\ r.gen_start_time = 0
  PROVE  Accounted(q, FALSE, q.current_len # q.total_len, q.current_len = q.total_len, now + time)
<1>1. /\ r.arrival_time \in Nat /\ r.queueing_delay \in Int
      /\ r.first_token_time \in Nat /\ r.end_token_time \in Nat /\ r.gen_start_time \in Nat
      /\ q.current_len \in Nat /\ q.input_len \in Nat /\ q.total_len \in Nat
  BY DEF Request
<1>2. /\ q.arrival_time = r.arrival_time /\ q.queueing_delay = r.queueing_delay
      /\ q.end_token_time = r.end_token_time + time
  BY DEF Served
<1>3. /\ r.arrival_time + r.queueing_delay + r.end_token_time = now
      /\ r.sum_stage => r.first_token_time = r.end_token_time /\ r.gen_start_time = 0
      /\ r.gen_start_time # 0
           => r.arrival_time + r.queueing_delay + r.first_token_time = r.gen_start_time
  BY DEF Accounted
<1>4. /\ q.sum_stage <=> q.current_len < q.input_len
      /\ r.sum_stage => /\ q.first_token_time = r.first_token_time + time
                        /\ Listed(r, q) <=> ~(q.current_len < q.input_len)
      /\ ~r.sum_stage => /\ q.first_token_time = r.first_token_time
                         /\ Listed(r, q) <=> q.current_len = q.total_len
                         /\ ~(q.current_len < q.input_len)
  BY ServedStage
<1> DEFINE since == r.arrival_time + r.queueing_delay
<1>5. /\ since \in Int /\ since + q.end_token_time = now + time
      /\ q.first_token_time \in Nat /\ q.end_token_time \in Nat
  BY <1>1, <1>2, <1>3, <1>4
<1>6. q.sum_stage => /\ r.sum_stage /\ q.first_token_time = q.end_token_time
                     /\ q.gen_start_time = 0
  BY <1>1, <1>2, <1>3, <1>4
<1>7. q.gen_start_time # 0 /\ q.current_len # q.total_len
        => since + q.first_token_time = q.gen_start_time
  <2> SUFFICES ASSUME q.gen_start_time # 0, q.current_len # q.total_len
               PROVE  since + q.first_token_time = q.gen_start_time
    OBVIOUS
  <2>1. CASE r.sum_stage
    BY <1>1, <1>2, <1>3, <1>4, <1>5, <2>1
  <2>2. CASE ~r.sum_stage
    BY <1>1, <1>2, <1>3, <1>4, <1>5, <2>2
  <2> QED BY <2>1, <2>2
<1>8. q.gen_start_time # 0 /\ q.current_len = q.total_len
        => since + q.end_token_time = q.gen_start_time
  <2>1. q.current_len = q.total_len => Listed(r, q)
    BY DEF Listed
  <2> QED BY <1>1, <1>5, <2>1
<1>9. since = q.arrival_time + q.queueing_delay
  BY <1>2
<1> HIDE DEF since
<1> QED BY <1>5, <1>6, <1>7, <1>8, <1>9 DEF Accounted

LEMMA LatencyStep ==
  Inject /\ ~Disagg /\ StartsInPrompt /\ LatencyInv /\ [Next]_vars => LatencyInv'
<1> SUFFICES ASSUME Inject, ~Disagg, StartsInPrompt, LatencyInv, [Next]_vars
             PROVE  LatencyInv'
  OBVIOUS
<1>0. /\ RecordInv /\ RecordInv' /\ TimeInv /\ TimeInv' /\ ClockInv /\ ClockInv'
      /\ PlaceInv /\ PlaceInv' /\ TypeInv /\ TypeInv'
  BY RecordStep, TimeStep, ClockStep DEF LatencyInv, RecordInv, StageInv, LenInv, PlaceInv
<1> SUFFICES ASSUME NEW s \in SeqIds
             PROVE  Accounted(seq'[s], Waiting(s)', Running(s)', Retired(s)', total_time')
  BY <1>0 DEF LatencyInv
<1>1. Accounted(seq[s], Waiting(s), Running(s), Retired(s), total_time)
  BY DEF LatencyInv
<1>2. /\ total_time \in Nat /\ seq[s] \in Request /\ seq'[s] \in Request /\ warm \in Nat
  BY <1>0, ConfigAssumption DEF TypeInv, TypeOK
<1>3. CASE /\ total_time' = total_time /\ SameButTokens(seq[s], seq'[s])
           /\ Running(s)' <=> Running(s)
           /\ Waiting(s)' <=> Waiting(s)
           /\ Created(s)' => Created(s)
  BY <1>1, <1>3 DEF Accounted, SameButTokens, Retired
<1>4. CASE FillSequenceQueue
  <2>1. total_time' = total_time
    BY <1>4 DEF FillSequenceQueue
  <2>2. CASE Waiting(s)' /\ \E len \in Lengths, k \in Int : seq'[s] = NewRequest(len, k)
    <3>1. /\ seq'[s].end_token_time = 0 /\ seq'[s].first_token_time = 0
          /\ seq'[s].gen_start_time = 0
      BY <2>2, NewFields
    <3>2. ~Running(s)' /\ ~Retired(s)'
      <4>1. (PlaceInv => ~(Running(s) /\ Waiting(s)))'
        BY Apart, PTL
      <4> QED BY <1>0, <2>2, <4>1 DEF Retired
    <3> QED BY <3>1, <3>2 DEF Accounted
  <2>3. CASE /\ seq'[s] = seq[s]
             /\ Running(s)' <=> Running(s)
             /\ Waiting(s)' <=> Waiting(s)
             /\ Created(s)' => Created(s)
    <3>1. SameButTokens(seq[s], seq'[s])
      BY <2>3 DEF SameButTokens
    <3> QED BY <1>3, <2>1, <2>3, <3>1
  <2> QED BY <1>0, <1>4, <2>2, <2>3, FillEffect
<1>5. CASE Admit
  <2>0. total_time' = total_time
    BY <1>5 DEF Admit
  <2>1. PICK h \in SeqIds :
          /\ Waiting(h) /\ ~Running(h) /\ Running(h)' /\ ~Waiting(h)'
          /\ seq'[h] = [seq[h] EXCEPT !.queueing_delay = total_time - seq[h].arrival_time]
          /\ \A t \in SeqIds \ {h} : /\ seq'[t] = seq[t]
                                     /\ Running(t)' <=> Running(t)
                                     /\ Waiting(t)' <=> Waiting(t)
          /\ \A t \in SeqIds : Created(t)' <=> Created(t)
    BY <1>0, <1>5, AdmitOnly
  <2>2. CASE s # h
    BY <1>3, <2>0, <2>1, <2>2 DEF SameButTokens
  <2>3. CASE s = h
    <3>1. /\ seq[s].end_token_time = 0 /\ seq[s].first_token_time = 0
          /\ seq[s].gen_start_time = 0
      BY <1>1, <2>1, <2>3 DEF Accounted
    <3> DEFINE delay == total_time - seq[s].arrival_time
    <3>2. seq'[s] = [seq[s] EXCEPT !.queueing_delay = delay]
      BY <2>1, <2>3
    <3>3. seq[s].arrival_time \in Nat /\ delay = total_time - seq[s].arrival_time
      BY <1>2 DEF Request
    <3> HIDE DEF delay
    <3>4. /\ seq'[s].end_token_time = 0 /\ seq'[s].first_token_time = 0
          /\ seq'[s].gen_start_time = 0 /\ seq'[s].queueing_delay = delay
          /\ seq'[s].arrival_time = seq[s].arrival_time
      BY <1>2, <3>1, <3>2 DEF Request
    <3>5. seq'[s].arrival_time + seq'[s].queueing_delay + seq'[s].end_token_time = total_time
      BY <1>2, <3>3, <3>4
    <3>6. Running(s)' /\ ~Waiting(s)' /\ ~Retired(s)'
      BY <2>1, <2>3 DEF Retired
    <3> QED BY <2>0, <3>4, <3>5, <3>6 DEF Accounted
  <2> QED BY <2>2, <2>3
<1>6. CASE SetMetadata
  BY <1>0, <1>3, <1>6, MetadataOnly DEF SetMetadata
<1>7. CASE WarmStep \/ GenStep
  <2>1. PICK time \in Nat, reports \in BOOLEAN :
          /\ total_time' = total_time + time
          /\ Iteration(AllRunning, time, reports)
          /\ \A t \in AllRunning :
               \/ seq'[t].gen_start_time = IF Listed(seq[t], seq'[t]) THEN total_time'
                                           ELSE seq[t].gen_start_time
               \/ seq'[t].gen_start_time = seq[t].gen_start_time /\ seq[t].gen_start_time = 0
    <3>1. CASE WarmStep
      <4>1. total_time' = total_time /\ total_time = 0 /\ sum_machine_time = 0
        BY <1>0, <1>2, <3>1 DEF WarmStep, ClockInv, TimeInv
      <4>2. \A t \in SeqIds : seq[t].gen_start_time = 0
        <5> TAKE t \in SeqIds
        <5>1. seq[t].gen_start_time <= 0
          BY <1>0, <4>1 DEF TimeInv
        <5>2. seq[t].gen_start_time \in Nat
          BY <1>0 DEF TypeInv, TypeOK, Request
        <5> QED BY <5>1, <5>2
      <4>3. /\ Iteration(AllRunning, 0, FALSE)
            /\ \A t \in SeqIds : seq'[t].gen_start_time = seq[t].gen_start_time
        BY <1>0, <3>1, WarmServes
      <4>4. total_time' = total_time + 0 /\ 0 \in Nat
        BY <1>2, <4>1
      <4> QED BY <4>2, <4>3, <4>4 DEF AllRunning
    <3>2. CASE GenStep
      <4>1. Durations \subseteq Nat
        BY ConfigAssumption
      <4> QED BY <1>0, <3>2, <4>1, GenServes
    <3> QED BY <1>7, <3>1, <3>2
  <2>2. /\ Waiting(s)' <=> Waiting(s)
        /\ Created(s)' <=> Created(s)
    BY <2>1 DEF Iteration
  <2>3. CASE s \notin AllRunning
    <3>1. seq'[s] = seq[s] /\ ~Running(s) /\ ~Running(s)'
      BY <2>1, <2>3 DEF Iteration, AllRunning
    <3> QED BY <1>1, <2>2, <3>1 DEF Accounted, Retired
  <2>4. CASE s \in AllRunning
    <3>1. /\ Served(seq[s], seq'[s], time) /\ Running(s)
          /\ Running(s)' <=> seq'[s].current_len # seq'[s].total_len
      BY <2>1, <2>4 DEF Iteration
    <3>2. ~Waiting(s) /\ ~Waiting(s)' /\ ~Retired(s)
      BY <1>0, <2>2, <3>1, Apart DEF Retired
    <3>3. Accounted(seq[s], FALSE, TRUE, FALSE, total_time)
      BY <1>1, <3>1, <3>2 DEF Accounted
    <3> DEFINE q == seq'[s]
    <3>4. Accounted(q, FALSE, q.current_len # q.total_len, q.current_len = q.total_len,
                    total_time + time)
      BY <1>0, <1>2, <2>1, <2>4, <3>1, <3>3, RunningFits, ServedAccounts
    <3>5. Retired(s)' => q.current_len = q.total_len
      BY <3>1 DEF Retired
    <3> HIDE DEF q
    <3> QED BY <2>1, <3>1, <3>2, <3>4, <3>5 DEF Accounted, q
  <2> QED BY <2>3, <2>4
<1>8. CASE SumStep
  BY <1>8 DEF SumStep
<1>9. CASE NoRoom \/ Filled \/ Idle \/ UNCHANGED vars
  <2>1. UNCHANGED << seq, count_id, sequence_queue, running_queue, total_time >>
    BY <1>9 DEF NoRoom, Filled, Idle, vars
  <2>2. SameButTokens(seq[s], seq'[s])
    BY <2>1 DEF SameButTokens
  <2> QED BY <1>3, <2>1, <2>2 DEF Running, Waiting, Created
<1> QED BY <1>4, <1>5, <1>6, <1>7, <1>8, <1>9 DEF Next

\* The end-to-end latency of an injected request is the time since it arrived, and
\* its first token was reported at arrival + queueing delay + first_token_time, for
\* any arrivals, lengths, durations and batch sizes.
THEOREM LatencyAccountingHolds == Spec => []LatencyAccounting
<1>1. LatencyInv => LatencyAccounting
  BY DEF LatencyInv, Accounted, LatencyAccounting
<1>2. CASE Inject /\ ~Disagg /\ StartsInPrompt
  <2>1. LatencyInv /\ [Next]_vars => LatencyInv'
    BY <1>2, LatencyStep
  <2> QED BY <1>1, <2>1, LatencyInit, PTL DEF Spec
<1>3. CASE ~(Inject /\ ~Disagg /\ StartsInPrompt)
  <2>1. LatencyAccounting
    BY <1>3 DEF LatencyAccounting
  <2> QED BY <2>1, PTL
<1> QED BY <1>2, <1>3

---------------------------------------------------------------------------
(* Each request is reported once for its first token and once at its end.  *)

\* What has been reported of a request r: nothing before the end of its prompt, a
\* first token that another one follows, its end.  A generating request has a
\* first_token_time to report.
WellReported(r, reported, running, retired, created) ==
  /\ ~created => reported = << >>
  /\ r.arrival_time # 0 /\ created =>
       /\ running /\ ~(r.current_len < r.input_len) => r.first_token_time # 0
       /\ reported = (IF ~(r.current_len < r.input_len) /\ r.total_len # r.input_len
                      THEN << "t2ft" >> ELSE << >>)
                     \o (IF retired THEN << "e2e" >> ELSE << >>)

ReportInv ==
  /\ RecordInv /\ ClockInv
  /\ \A s \in SeqIds : WellReported(seq[s], stat[s], Running(s), Retired(s), Created(s))

LEMMA ReportInit == Init => ReportInv
<1> SUFFICES ASSUME Init PROVE ReportInv
  OBVIOUS
<1>1. \A s \in SeqIds : ~Created(s) /\ stat[s] = << >>
  BY DEF Init, Created, SeqIds
<1> QED BY <1>1, RecordInit, ClockInit DEF ReportInv, WellReported

\* What an iteration adds to the reports of a request it serves.
LEMMA ServedReports ==
  ASSUME NEW r \in Request, NEW q \in Request, NEW time \in Nat, NEW old, NEW new,
         Served(r, q, time), WellReported(r, old, TRUE, FALSE, TRUE),
         r.input_len <= r.total_len,
         r.current_len < r.total_len,
         r.current_len < r.input_len => r.current_len + r.num_process_token <= r.input_len,
         r.current_len + r.num_process_token <= r.total_len,
         r.record <=> ~(r.current_len < r.input_len),
         r.sum_stage <=> r.current_len < r.input_len,
         r.arrival_time # 0 =>
           /\ time # 0
           /\ new = IF Listed(r, q) /\ q.first_token_time # 0 /\ q.arrival_time # 0
                    THEN Append(old, IF q.current_len = q.total_len THEN "e2e" ELSE "t2ft")
                    ELSE old
  PROVE  WellReported(q, new, q.current_len # q.total_len, q.current_len = q.total_len, TRUE)
<1>1. /\ r.first_token_time \in Nat /\ r.input_len \in Nat /\ r.current_len \in Nat
      /\ q.current_len \in Nat /\ q.input_len \in Nat /\ q.total_len \in Nat
  BY DEF Request
<1>2. /\ q.arrival_time = r.arrival_time /\ q.input_len = r.input_len
      /\ q.total_len = r.total_len
  BY DEF Served
<1>3. /\ q.current_len <= q.total_len
      /\ r.sum_stage => /\ q.first_token_time = r.first_token_time + time
                        /\ Listed(r, q) <=> ~(q.current_len < q.input_len)
                        /\ q.current_len <= q.input_len
      /\ ~r.sum_stage => /\ q.first_token_time = r.first_token_time
                         /\ Listed(r, q) <=> q.current_len = q.total_len
                         /\ ~(q.current_len < q.input_len)
                         /\ q.total_len # q.input_len
  BY ServedStage
<1> SUFFICES ASSUME q.arrival_time # 0
             PROVE  /\ q.current_len # q.total_len /\ ~(q.current_len < q.input_len)
                         => q.first_token_time # 0
                    /\ new = (IF ~(q.current_len < q.input_len) /\ q.total_len # q.input_len
                              THEN << "t2ft" >> ELSE << >>)
                             \o (IF q.current_len = q.total_len THEN << "e2e" >> ELSE << >>)
  BY DEF WellReported
<1>4. /\ time # 0
      /\ new = IF Listed(r, q) /\ q.first_token_time # 0
               THEN Append(old, IF q.current_len = q.total_len THEN "e2e" ELSE "t2ft")
               ELSE old
  BY <1>2
<1>5. CASE r.sum_stage
  <2>1. old = << >> /\ r.current_len < r.input_len
    BY <1>2, <1>5 DEF WellReported
  <2>2. q.first_token_time # 0
    BY <1>1, <1>3, <1>4, <1>5
  <2>3. CASE q.current_len < q.input_len
    <3>1. q.current_len # q.total_len
      BY <1>1, <1>2, <2>3
    <3> QED BY <1>3, <1>4, <1>5, <2>1, <2>3, <3>1
  <2>4. CASE ~(q.current_len < q.input_len) /\ q.current_len # q.total_len
    <3>1. q.total_len # q.input_len /\ Listed(r, q)
      BY <1>1, <1>3, <1>5, <2>4
    <3>2. new = << "t2ft" >>
      BY <1>4, <2>1, <2>2, <2>4, <3>1
    <3> QED BY <2>2, <2>4, <3>1, <3>2
  <2>5. CASE ~(q.current_len < q.input_len) /\ q.current_len = q.total_len
    <3>1. q.total_len = q.input_len /\ Listed(r, q)
      BY <1>1, <1>2, <1>3, <1>5, <2>5
    <3>2. new = << "e2e" >>
      BY <1>4, <2>1, <2>2, <2>5, <3>1
    <3> QED BY <2>5, <3>1, <3>2
  <2> QED BY <2>3, <2>4, <2>5
<1>6. CASE ~r.sum_stage
  <2>1. /\ ~(q.current_len < q.input_len) /\ q.total_len # q.input_len
        /\ q.first_token_time = r.first_token_time
        /\ Listed(r, q) <=> q.current_len = q.total_len
    BY <1>3, <1>6
  <2>2. old = << "t2ft" >> /\ r.first_token_time # 0
    BY <1>2, <1>6, <2>1 DEF WellReported
  <2>3. CASE q.current_len = q.total_len
    <3>1. new = Append(<< "t2ft" >>, "e2e")
      BY <1>4, <2>1, <2>2, <2>3
    <3>2. Append(<< "t2ft" >>, "e2e") = << "t2ft" >> \o << "e2e" >>
      OBVIOUS
    <3> QED BY <2>1, <2>3, <3>1, <3>2
  <2>4. CASE q.current_len # q.total_len
    BY <1>4, <2>1, <2>2, <2>4
  <2> QED BY <2>3, <2>4
<1> QED BY <1>5, <1>6

LEMMA ReportStep == StartsInPrompt /\ ReportInv /\ [Next]_vars => ReportInv'
<1> SUFFICES ASSUME StartsInPrompt, ReportInv, [Next]_vars PROVE ReportInv'
  OBVIOUS
<1>0. /\ RecordInv /\ RecordInv' /\ ClockInv /\ ClockInv'
      /\ PlaceInv /\ PlaceInv' /\ TypeInv /\ TypeInv'
  BY RecordStep, ClockStep DEF ReportInv, RecordInv, StageInv, LenInv, PlaceInv
<1> SUFFICES ASSUME NEW s \in SeqIds
             PROVE  WellReported(seq'[s], stat'[s], Running(s)', Retired(s)', Created(s)')
  BY <1>0 DEF ReportInv
<1>1. WellReported(seq[s], stat[s], Running(s), Retired(s), Created(s))
  BY DEF ReportInv
<1>2. seq[s] \in Request /\ seq'[s] \in Request
  BY <1>0 DEF TypeInv, TypeOK
<1>3. ASSUME stat'[s] = stat[s], SameButDelay(seq[s], seq'[s]),
             Retired(s)' <=> Retired(s),
             Created(s)' <=> Created(s),
             seq[s].current_len < seq[s].input_len \/ (Running(s)' => Running(s))
      PROVE  WellReported(seq'[s], stat'[s], Running(s)', Retired(s)', Created(s)')
  BY <1>1, <1>3 DEF WellReported, SameButDelay
<1>4. CASE FillSequenceQueue
  <2>1. stat' = stat
    BY <1>4 DEF FillSequenceQueue
  <2>2. CASE /\ Waiting(s)' /\ ~Created(s)
             /\ \E len \in Lengths, k \in Int : seq'[s] = NewRequest(len, k)
    <3>1. seq'[s].current_len < seq'[s].input_len
      <4>1. PICK len \in Lengths : /\ seq'[s].input_len = len[1]
                                   /\ seq'[s].current_len = StartLen(len)
        BY <2>2, NewFields
      <4> QED BY <4>1 DEF StartsInPrompt
    <3>2. stat'[s] = << >> /\ ~Retired(s)'
      BY <1>1, <2>1, <2>2 DEF WellReported, Retired
    <3> QED BY <3>1, <3>2 DEF WellReported
  <2>3. CASE /\ seq'[s] = seq[s]
             /\ Running(s)' <=> Running(s)
             /\ Waiting(s)' <=> Waiting(s)
             /\ Created(s)' <=> Created(s)
    <3>1. SameButDelay(seq[s], seq'[s]) /\ stat'[s] = stat[s]
      BY <2>1, <2>3 DEF SameButDelay
    <3> QED BY <1>3, <2>3, <3>1 DEF Retired
  <2> QED BY <1>0, <1>4, <2>2, <2>3, FillEffect
<1>5. CASE Admit
  <2>1. /\ stat'[s] = stat[s]
        /\ SameButDelay(seq[s], seq'[s])
    BY <1>0, <1>5, AdmitDelay DEF Admit
  <2>2. PICK h \in SeqIds :
          /\ Waiting(h) /\ ~Running(h) /\ Running(h)' /\ ~Waiting(h)'
          /\ \A t \in SeqIds \ {h} : /\ Running(t)' <=> Running(t)
                                     /\ Waiting(t)' <=> Waiting(t)
          /\ \A t \in SeqIds : Created(t)' <=> Created(t)
    BY <1>0, <1>5, AdmitOnly
  <2>3. /\ Retired(s)' <=> Retired(s)
        /\ Created(s)' <=> Created(s)
        /\ Running(s)' => Running(s) \/ Waiting(s)
    BY <2>2 DEF Retired
  <2>4. Waiting(s) => seq[s].current_len < seq[s].input_len
    BY DEF ReportInv, RecordInv, IsSum
  <2> QED BY <1>3, <2>1, <2>3, <2>4
<1>6. CASE SetMetadata
  <2>1. /\ stat'[s] = stat[s]
        /\ SameButTokens(seq[s], seq'[s])
        /\ Running(s)' <=> Running(s)
        /\ Waiting(s)' <=> Waiting(s)
        /\ Created(s)' <=> Created(s)
    BY <1>0, <1>6, MetadataOnly DEF SetMetadata
  <2> QED BY <1>1, <2>1 DEF WellReported, SameButTokens, Retired
<1>7. CASE WarmStep \/ GenStep \/ SumStep
  <2>1. PICK who \in SUBSET AllRunning, time \in Nat, reports \in BOOLEAN :
          /\ Iteration(who, time, reports)
          /\ (reports /\ time # 0) \/ total_time = 0
    BY <1>0, <1>7, EndReports
  <2>2. /\ Waiting(s)' <=> Waiting(s)
        /\ Created(s)' <=> Created(s)
    BY <2>1 DEF Iteration
  <2>3. CASE s \notin who
    <3>1. /\ seq'[s] = seq[s] /\ stat'[s] = stat[s]
          /\ Running(s)' <=> Running(s)
      BY <2>1, <2>3 DEF Iteration
    <3> QED BY <1>3, <2>2, <3>1 DEF SameButDelay, Retired
  <2>4. CASE s \in who
    <3> DEFINE r == seq[s]
               q == seq'[s]
    <3>1. /\ Served(r, q, time) /\ Running(s)
          /\ Running(s)' <=> q.current_len # q.total_len
          /\ stat'[s] = IF reports /\ Listed(r, q) /\ q.first_token_time # 0 /\ q.arrival_time # 0
                        THEN Append(stat[s], IF q.current_len = q.total_len THEN "e2e" ELSE "t2ft")
                        ELSE stat[s]
      BY <2>1, <2>4 DEF Iteration
    <3>2. Created(s) /\ ~Waiting(s) /\ ~Retired(s) /\ ~Waiting(s)'
      BY <1>0, <2>2, <3>1, Apart, RunningCreated DEF Retired
    <3>3. r.arrival_time # 0 => reports /\ time # 0
      BY <1>0, <2>1 DEF ClockInv
    <3>4. WellReported(r, stat[s], TRUE, FALSE, TRUE)
      BY <1>1, <3>1, <3>2 DEF WellReported
    <3>5. r.arrival_time # 0 =>
            /\ time # 0
            /\ stat'[s] = IF Listed(r, q) /\ q.first_token_time # 0 /\ q.arrival_time # 0
                          THEN Append(stat[s], IF q.current_len = q.total_len THEN "e2e" ELSE "t2ft")
                          ELSE stat[s]
      BY <3>1, <3>3
    <3> HIDE DEF r, q
    <3>6. /\ r \in Request /\ q \in Request
          /\ r.input_len <= r.total_len
          /\ r.current_len < r.total_len
          /\ r.current_len < r.input_len => r.current_len + r.num_process_token <= r.input_len
          /\ r.current_len + r.num_process_token <= r.total_len
          /\ r.record <=> ~(r.current_len < r.input_len)
          /\ r.sum_stage <=> r.current_len < r.input_len
      BY <1>0, <1>2, <3>1, RunningFits DEF r, q
    <3>7. WellReported(q, stat'[s], q.current_len # q.total_len, q.current_len = q.total_len, TRUE)
      BY <3>1, <3>4, <3>5, <3>6, ServedReports
    <3>8. /\ Running(s)' <=> q.current_len # q.total_len
          /\ Retired(s)' <=> q.current_len = q.total_len
          /\ Created(s)'
      BY <2>2, <3>1, <3>2 DEF Retired
    <3> QED BY <3>7, <3>8 DEF WellReported, q
  <2> QED BY <2>3, <2>4
<1>8. CASE NoRoom \/ Filled \/ Idle \/ UNCHANGED vars
  <2>1. UNCHANGED << seq, count_id, sequence_queue, running_queue, stat >>
    BY <1>8 DEF NoRoom, Filled, Idle, vars
  <2> QED BY <1>1, <2>1 DEF WellReported, Retired, Running, Waiting, Created
<1> QED BY <1>4, <1>5, <1>6, <1>7, <1>8 DEF Next

\* A request with an arrival time is reported once when its prompt ends, unless that
\* is also its end, and once when it is popped, for any configuration whose requests
\* start before the end of their prompt.
THEOREM ReportedOnceHolds == Spec => []ReportedOnce
<1>1. ReportInv => ReportedOnce
  BY DEF ReportInv, WellReported, ReportedOnce, IsSum
<1>2. CASE StartsInPrompt
  <2>1. ReportInv /\ [Next]_vars => ReportInv'
    BY <1>2, ReportStep
  <2> QED BY <1>1, <2>1, ReportInit, PTL DEF Spec
<1>3. CASE ~StartsInPrompt
  <2>1. ReportedOnce
    BY <1>3 DEF ReportedOnce
  <2> QED BY <2>1, PTL
<1> QED BY <1>2, <1>3
=============================================================================
