----------------------------- MODULE Scheduler -----------------------------
(***************************************************************************)
(* The continuous-batching scheduler (src/src/scheduler) together with the *)
(* loop that drives it (Cluster::runIteration and its two variants in      *)
(* src/src/hardware/cluster.cpp).                                          *)
(*                                                                         *)
(* A request (Sequence) waits in sequence_queue, is admitted to one of the *)
(* data-parallel batches of running_queue, has its prompt prefilled in     *)
(* chunks ("sum"), then produces one token per iteration ("gen"), and is   *)
(* popped when current_len = total_len.  The program is one thread: pc     *)
(* names the call that comes next.                                         *)
(***************************************************************************)
EXTENDS Integers, Sequences, FiniteSets, FiniteSetsExt, Functions

CONSTANTS
  DPDegree,         \* dp_degree: number of BatchedSequences in running_queue
  TotalBatch,       \* total_batch_size
  MaxProcessToken,  \* max_process_token: prompt tokens per batch and iteration
  RealData,         \* real_data: lengths come from a trace, not from the config
  Lengths,          \* the <<input, output>> lengths a request may have
  MaxSeqLen,        \* model_config.max_seq_len, clamps the synthetic lengths
  PrefillMode, DecodeMode,   \* system_config.prefill_mode, decode_mode
  ReuseTenths,      \* system_config.kv_cache_reuse_rate, in tenths; 0 = off
  Disagg,           \* system_config.disagg_system
  Inject,           \* system_config.use_inject_rate
  Arrivals,         \* actual_arrival_time
  Durations,        \* the durations an iteration of the device graph may take
  WarmIters,        \* iterations of hittingQueue
  MaxSeqs           \* MODEL BOUND: requests created in a behaviour

Batches == 0 .. DPDegree - 1
SeqIds  == 0 .. MaxSeqs - 1

\* batch_size_per_dp = total_batch_size / dp_degree, an integer division.
PerBatch == TotalBatch \div DPDegree

\* pushSeq shortens the configured output so that the request fits max_seq_len;
\* only synthetic requests go through it.
ClampedOutput(len) ==
  IF ~RealData /\ len[1] + len[2] > MaxSeqLen THEN MaxSeqLen - len[1] ELSE len[2]

\* total_len and the current_len a request starts with, in each mode.
TotalLen(len) ==
  IF PrefillMode /\ ~RealData THEN len[1] ELSE len[1] + ClampedOutput(len) - 1

StartLen(len) ==
  IF RealData THEN 0
  ELSE IF DecodeMode /\ ~PrefillMode THEN len[1]
  ELSE (len[1] * ReuseTenths) \div 10

ASSUME ConfigAssumption ==
  /\ DPDegree \in Nat \ {0}
  /\ TotalBatch \in Nat
  /\ MaxProcessToken \in Nat
  /\ MaxSeqLen \in Nat
  /\ ReuseTenths \in 0 .. 10
  /\ WarmIters \in Nat
  /\ MaxSeqs \in Nat \ {0}
  /\ RealData \in BOOLEAN /\ PrefillMode \in BOOLEAN /\ DecodeMode \in BOOLEAN
  /\ Disagg \in BOOLEAN /\ Inject \in BOOLEAN
  /\ Durations \subseteq Nat \ {0}
  /\ Arrivals \in Seq(Nat)   \* partial sums of the inter-arrival times
  /\ \A i, j \in DOMAIN Arrivals : i <= j => Arrivals[i] <= Arrivals[j]
  /\ Lengths \subseteq (Nat \ {0}) \X (Nat \ {0})
  /\ RealData \/ \A len \in Lengths : len[1] < MaxSeqLen

Request ==
  [input_len : Nat, total_len : Nat, current_len : Nat, num_process_token : Nat,
   sum_stage : BOOLEAN, record : BOOLEAN, gen_start_time : Nat,
   arrival_time : Nat, queueing_delay : Int,
   first_token_time : Nat, end_token_time : Nat]

NoRequest ==
  [input_len |-> 0, total_len |-> 0, current_len |-> 0, num_process_token |-> 0,
   sum_stage |-> TRUE, record |-> FALSE, gen_start_time |-> 0,
   arrival_time |-> 0, queueing_delay |-> 0,
   first_token_time |-> 0, end_token_time |-> 0]

VARIABLES
  seq,             \* the Sequence objects, by id
  count_id,        \* Sequence::count_id: the next id
  sequence_queue,  \* waiting requests, oldest first
  running_queue,   \* the requests of each batch (their order is immaterial)
  rotate,          \* static int rotate of fillRunningQueue, modulo its use
  cur_arrival_time_idx,
  total_time,      \* Scheduler::total_time, and the loop's own total_time
  sum_machine_time,\* the clock of the prefill machine of a disaggregated system
  iter_time,       \* duration of the iteration just run
  slots,           \* iterations left in the for loop of fillRunningQueue
  warm,            \* iterations left in hittingQueue
  stat,            \* types of the stats addLatency reported for each request
  pc

vars == << seq, count_id, sequence_queue, running_queue, rotate,
           cur_arrival_time_idx, total_time, sum_machine_time, iter_time,
           slots, warm, stat, pc >>

---------------------------------------------------------------------------

IsSum(s) == seq[s].current_len < seq[s].input_len
Running(s) == \E b \in Batches : s \in running_queue[b]
Waiting(s) == \E i \in DOMAIN sequence_queue : sequence_queue[i] = s
Created(s) == s < count_id
Retired(s) == Created(s) /\ ~Running(s) /\ ~Waiting(s)

hasSumSeq == \E b \in Batches : \E s \in running_queue[b] : IsSum(s)
SumSeqs(b) == { s \in running_queue[b] : IsSum(s) }

\* getBatchSize: the sizes of the batches, summed.
BatchSize == Cardinality({ p \in Batches \X SeqIds : p[2] \in running_queue[p[1]] })

\* getNumProcessToken() == 0.
NoTokens == \A b \in Batches : \A s \in running_queue[b] : seq[s].num_process_token = 0

Init ==
  /\ seq = [s \in SeqIds |-> NoRequest]
  /\ count_id = 0
  /\ sequence_queue = << >>
  /\ running_queue = [b \in Batches |-> {}]
  /\ rotate = 0
  /\ cur_arrival_time_idx = 0
  /\ total_time = 0 /\ sum_machine_time = 0 /\ iter_time = 0
  /\ slots = 0
  /\ warm = WarmIters
  /\ stat = [s \in SeqIds |-> << >>]
  /\ pc = "fillSequenceQueue"

---------------------------------------------------------------------------
(* fillSequenceQueue: create the requests of this iteration.               *)

\* Arrivals in the window [total_time - iter_time, total_time).
ArrivedInClosedWindow ==   \* mutant
  Cardinality({ i \in DOMAIN Arrivals :
                  total_time - iter_time <= Arrivals[i] /\ Arrivals[i] <= total_time })
ArrivedInWindow ==
  Cardinality({ i \in DOMAIN Arrivals :
                  total_time - iter_time <= Arrivals[i] /\ Arrivals[i] < total_time })

FullBatch == TotalBatch   \* mutant: the running requests are not deducted
NumRequestToInject ==
  LET free == IF Inject THEN (7 * TotalBatch) \div 10 - BatchSize
                        ELSE TotalBatch - BatchSize
  IN IF Inject /\ iter_time # 0 THEN ArrivedInWindow
     ELSE IF free > 0 THEN free ELSE 0

\* The number created, under the model's bound.
NumPushed ==
  IF count_id + NumRequestToInject > MaxSeqs THEN MaxSeqs - count_id
                                             ELSE NumRequestToInject

\* actual_arrival_time.at(k), or 1 once the trace of arrivals is exhausted.
ArrivalAt(k) == IF k < Len(Arrivals) THEN Arrivals[k + 1] ELSE 1

TakesArrival == ~RealData /\ total_time > 0

NewRequest(len, k) ==
  [NoRequest EXCEPT
     !.input_len = len[1],
     !.total_len = TotalLen(len),
     !.current_len = StartLen(len),
     !.arrival_time = IF TakesArrival THEN ArrivalAt(cur_arrival_time_idx + k) ELSE 0]

\* sequence_queue.push_back, for each new request.
EnqueuedFirst(n) == [i \in 1 .. n |-> count_id + i - 1] \o sequence_queue   \* mutant
Enqueued(n) == sequence_queue \o [i \in 1 .. n |-> count_id + i - 1]

\* The number of iterations fillRunningQueue computes for a queue of this length.
EmptyInBatch(waiting) == TotalBatch - BatchSize   \* mutant
NumEmptySeq(waiting) ==
  IF TotalBatch - BatchSize < waiting THEN TotalBatch - BatchSize ELSE waiting

FillSequenceQueue ==
  /\ pc = "fillSequenceQueue"
  /\ LET n == NumPushed
         new == count_id .. count_id + n - 1
     IN /\ \E lens \in [new -> Lengths] :
             seq' = [s \in SeqIds |->
                       IF s \in new THEN NewRequest(lens[s], s - count_id) ELSE seq[s]]
        /\ count_id' = count_id + n
        /\ sequence_queue' = Enqueued(n)
        /\ cur_arrival_time_idx' = cur_arrival_time_idx + (IF TakesArrival THEN n ELSE 0)
        /\ slots' = NumEmptySeq(Len(Enqueued(n)))
  /\ pc' = "fillRunningQueue"
  /\ UNCHANGED << running_queue, rotate, total_time, sum_machine_time, iter_time, warm, stat >>

(* fillRunningQueue: one iteration of its for loop.  The inner loop looks  *)
(* for a batch with room, starting where the previous search stopped.      *)

HasRoom(b) == Cardinality(running_queue[b]) < PerBatch
UnwrappedTurn(i) == rotate + i   \* mutant
Turn(i) == (rotate + i) % DPDegree

Admit ==
  /\ pc = "fillRunningQueue" /\ slots > 0
  /\ LET s == Head(sequence_queue) IN
     \E i \in 0 .. DPDegree - 1 :
       /\ HasRoom(Turn(i))
       /\ \A j \in 0 .. i - 1 : ~HasRoom(Turn(j))
       /\ running_queue' = [running_queue EXCEPT ![Turn(i)] = @ \cup {s}]
       /\ rotate' = Turn(i + 1)
       /\ sequence_queue' = Tail(sequence_queue)
       /\ seq' = IF Inject
                 THEN [seq EXCEPT ![s].queueing_delay = total_time - seq[s].arrival_time]
                 ELSE seq
  /\ slots' = slots - 1
  /\ UNCHANGED << count_id, cur_arrival_time_idx, total_time, sum_machine_time,
                  iter_time, warm, stat, pc >>

\* No batch has room: dp_degree does not divide total_batch_size.
NoRoom ==
  /\ pc = "fillRunningQueue" /\ slots > 0
  /\ \A b \in Batches : ~HasRoom(b)
  /\ slots' = slots - 1
  /\ UNCHANGED << seq, count_id, sequence_queue, running_queue, rotate,
                  cur_arrival_time_idx, total_time, sum_machine_time, iter_time,
                  warm, stat, pc >>

Filled ==
  /\ pc = "fillRunningQueue" /\ slots <= 0
  /\ pc' = "setMetadata"
  /\ UNCHANGED << seq, count_id, sequence_queue, running_queue, rotate,
                  cur_arrival_time_idx, total_time, sum_machine_time, iter_time,
                  slots, warm, stat >>

---------------------------------------------------------------------------
(* setMetadata: the tokens each request processes in this iteration.       *)

process_gen == Disagg \/ ~hasSumSeq
process_sum == Disagg \/ hasSumSeq

\* A batch shares max_process_token between its prefilling requests.
ShareOfAll(b) == MaxProcessToken \div Cardinality({ s \in SeqIds : Running(s) /\ IsSum(s) })   \* mutant
WholeShare(b) == MaxProcessToken   \* mutant
SumShare(b) == MaxProcessToken \div Cardinality(SumSeqs(b))

StartedBefore(s) == seq[s].gen_start_time = 0 \/ seq[s].gen_start_time < total_time   \* mutant
AnyStart(s) == TRUE   \* mutant
GenStarted(s) == seq[s].gen_start_time = 0 \/ seq[s].gen_start_time <= total_time

UncappedTokens(b, s) ==   \* mutant: the prompt's remainder does not cap the share
  IF IsSum(s) THEN IF process_sum THEN SumShare(b) ELSE seq[s].num_process_token
  ELSE IF process_gen /\ GenStarted(s) THEN 1 ELSE seq[s].num_process_token

Tokens(b, s) ==
  LET left == seq[s].input_len - seq[s].current_len IN
  IF IsSum(s)
  THEN IF ~process_sum THEN seq[s].num_process_token
       ELSE IF SumShare(b) < left THEN SumShare(b) ELSE left
  ELSE IF process_gen /\ GenStarted(s) THEN 1 ELSE seq[s].num_process_token

BatchOf(s) == CHOOSE b \in Batches : s \in running_queue[b]

SetMetadata ==
  /\ pc = "setMetadata"
  /\ seq' = [s \in SeqIds |->
               IF Running(s)
               THEN [seq[s] EXCEPT !.num_process_token = Tokens(BatchOf(s), s)]
               ELSE seq[s]]
  /\ pc' = "step"
  /\ UNCHANGED << count_id, sequence_queue, running_queue, rotate,
                  cur_arrival_time_idx, total_time, sum_machine_time, iter_time,
                  slots, warm, stat >>

---------------------------------------------------------------------------
(* The end of an iteration.                                                *)

\* Sequence::update.
UpdateStageFirst(r, time) ==   \* mutant: the stage is tested before the tokens are added
  [r EXCEPT !.end_token_time = @ + time,
            !.first_token_time = IF r.sum_stage THEN @ + time ELSE @,
            !.current_len = @ + r.num_process_token,
            !.num_process_token = 0,
            !.sum_stage = @ /\ r.current_len # r.input_len]

UpdateGenOnly(r, time) ==   \* mutant: end_token_time leaves the prefill out
  LET len == r.current_len + r.num_process_token IN
  [r EXCEPT !.end_token_time = IF r.sum_stage THEN @ ELSE @ + time,
            !.first_token_time = IF r.sum_stage THEN @ + time ELSE @,
            !.current_len = len,
            !.num_process_token = 0,
            !.sum_stage = @ /\ len # r.input_len]

Update(r, time) ==
  LET len == r.current_len + r.num_process_token IN
  [r EXCEPT !.end_token_time = @ + time,
            !.first_token_time = IF r.sum_stage THEN @ + time ELSE @,
            !.current_len = len,
            !.num_process_token = 0,
            !.sum_stage = @ /\ len # r.input_len]

FinishedLate(r) == r.current_len > r.total_len   \* mutant
Finished(r) == r.current_len = r.total_len
FirstTokenAgain(r) == ~Finished(r) /\ r.current_len = r.input_len   \* mutant
FirstToken(r) == ~Finished(r) /\ r.current_len = r.input_len /\ ~r.record

\* The requests of `who` after update, and those that it leaves finished or
\* with their first token: the token_list given to addLatency.
Updated(who, time) ==
  [s \in SeqIds |->
     IF s \in who
     THEN LET r == Update(seq[s], time) IN [r EXCEPT !.record = @ \/ FirstToken(r)]
     ELSE seq[s]]

TokenList(who, time) ==
  { s \in who : LET r == Update(seq[s], time) IN Finished(r) \/ FirstToken(r) }

\* The batches once the finished requests of `who` are popped.
Popped(who, time) ==
  [b \in Batches |->
     { s \in running_queue[b] : s \notin who \/ ~Finished(Update(seq[s], time)) }]

\* addLatency restarts gen_start_time, and reports a stat of every request of
\* the list that has both a first token and an arrival time.
StartGen(seqs, list, time) ==
  [s \in SeqIds |-> IF s \in list THEN [seqs[s] EXCEPT !.gen_start_time = time] ELSE seqs[s]]

ReportedPromptFirst(seqs, list) ==   \* mutant: the end of the prompt is tested first
  [s \in SeqIds |->
     IF s \in list /\ seqs[s].first_token_time # 0 /\ seqs[s].arrival_time # 0
     THEN Append(stat[s], IF seqs[s].current_len = seqs[s].input_len THEN "t2ft" ELSE "e2e")
     ELSE stat[s]]

Reported(seqs, list) ==
  [s \in SeqIds |->
     IF s \in list /\ seqs[s].first_token_time # 0 /\ seqs[s].arrival_time # 0
     THEN Append(stat[s], IF Finished(seqs[s]) THEN "e2e" ELSE "t2ft")
     ELSE stat[s]]

AllRunning == { s \in SeqIds : Running(s) }
EverySeq == AllRunning   \* mutant
AllSum == { s \in AllRunning : IsSum(s) }

\* One iteration of hittingQueue: no device runs, no time passes, and
\* updateScheduler's token list is dropped.
WarmStep ==
  /\ pc = "step" /\ warm > 0
  /\ seq' = Updated(AllRunning, 0)
  /\ running_queue' = Popped(AllRunning, 0)
  /\ warm' = warm - 1
  /\ iter_time' = 0
  /\ pc' = "fillSequenceQueue"
  /\ UNCHANGED << count_id, sequence_queue, rotate, cur_arrival_time_idx,
                  total_time, sum_machine_time, slots, stat >>

\* Nothing to process: the loop continues; the 20 ms it means to add are
\* assigned to a local variable and lost.
Idle ==
  /\ pc = "step" /\ warm = 0
  /\ NoTokens
  /\ pc' = "setMetadata"
  /\ UNCHANGED << seq, count_id, sequence_queue, running_queue, rotate,
                  cur_arrival_time_idx, total_time, sum_machine_time, iter_time,
                  slots, warm, stat >>

\* runIterationMixed, and the gen machine of runIterationSumGenSplit:
\* updateScheduler, then addLatency.
GenStep ==
  /\ pc = "step" /\ warm = 0
  /\ ~NoTokens
  /\ ~Disagg \/ ~hasSumSeq
  /\ \E time \in Durations :
       LET updated == Updated(AllRunning, time)
           list == TokenList(AllRunning, time)
       IN /\ total_time' = total_time + time
          /\ iter_time' = time
          /\ seq' = StartGen(updated, list, total_time + time)
          /\ running_queue' = Popped(AllRunning, time)
          /\ stat' = Reported(updated, list)
  /\ pc' = "fillSequenceQueue"
  /\ UNCHANGED << count_id, sequence_queue, rotate, cur_arrival_time_idx,
                  sum_machine_time, slots, warm >>

\* The sum machine of runIterationSumGenSplit (updateSchedulerSumGenSplit):
\* only the prefilling requests are updated, on the prefill machine's own
\* clock, and nothing is admitted.
SumStep ==
  /\ pc = "step" /\ warm = 0
  /\ ~NoTokens
  /\ Disagg /\ hasSumSeq
  /\ \E time \in Durations :
       LET end == (IF total_time > sum_machine_time THEN total_time
                                                    ELSE sum_machine_time) + time
           updated == StartGen(Updated(AllSum, time), AllSum, total_time + time)
           list == TokenList(AllSum, time)
       IN /\ sum_machine_time' = end
          /\ seq' = StartGen(updated, list, end)
          /\ running_queue' = Popped(AllSum, time)
          /\ stat' = Reported(updated, list)
  /\ pc' = "setMetadata"
  /\ UNCHANGED << count_id, sequence_queue, rotate, cur_arrival_time_idx,
                  total_time, iter_time, slots, warm >>

Next ==
  \/ FillSequenceQueue
  \/ Admit \/ NoRoom \/ Filled
  \/ SetMetadata
  \/ WarmStep \/ Idle \/ GenStep \/ SumStep

\* The thread keeps running while it has a next call.
Spec == Init /\ [][Next]_vars

---------------------------------------------------------------------------
(* Properties.                                                             *)

TypeOK ==
  /\ seq \in [SeqIds -> Request]
  /\ count_id \in 0 .. MaxSeqs
  /\ sequence_queue \in Seq(SeqIds)
  /\ running_queue \in [Batches -> SUBSET SeqIds]
  /\ rotate \in Batches
  /\ cur_arrival_time_idx \in Nat
  /\ total_time \in Nat /\ sum_machine_time \in Nat /\ iter_time \in Nat
  /\ slots \in Int
  /\ warm \in 0 .. WarmIters
  /\ stat \in [SeqIds -> Seq({"t2ft", "e2e"})]
  /\ pc \in {"fillSequenceQueue", "fillRunningQueue", "setMetadata", "step"}

\* Requests are admitted first come first served and sit in one place: the
\* queue holds exactly the youngest ids, in order, everything running is older,
\* and the batches are disjoint.  sequence_queue.erase and batch->add are calls
\* on two containers, and a request lost or added twice would only skew the
\* statistics.
Placement ==
  /\ Len(sequence_queue) <= count_id
  /\ \A i \in DOMAIN sequence_queue :
       sequence_queue[i] = count_id - Len(sequence_queue) + i - 1
  /\ \A b \in Batches : \A s \in running_queue[b] :
       s < count_id - Len(sequence_queue)
  /\ \A b, c \in Batches : b # c => running_queue[b] \cap running_queue[c] = {}

\* fillRunningQueue dereferences sequence_queue.begin() without a test: the
\* iterations it has left never outnumber the waiting requests, and the batches
\* together never exceed total_batch_size.
SlotsCovered ==
  pc = "fillRunningQueue" =>
    /\ slots \in 0 .. Len(sequence_queue)
    /\ BatchSize + slots <= TotalBatch

\* When dp_degree divides total_batch_size the search of fillRunningQueue finds
\* a batch in every iteration, so a closed loop never keeps more than
\* total_batch_size requests alive although fillSequenceQueue ignores the
\* requests already waiting.
QueueBounded ==
  TotalBatch % DPDegree = 0 =>
    /\ pc = "fillRunningQueue" /\ slots > 0 => \E b \in Batches : HasRoom(b)
    /\ ~Inject => Len(sequence_queue) + BatchSize <= TotalBatch
    /\ ~Inject /\ pc # "fillRunningQueue" => sequence_queue = << >>

\* No request can be given more tokens than its total_len leaves: updateScheduler
\* tests current_len == total_len, so a request that jumped over it would hold
\* its slot for ever.  It needs a configuration that leaves something to do.
WorkLeft == \A len \in Lengths : StartLen(len) < TotalLen(len)

NoOvershoot ==
  WorkLeft =>
    \A s \in SeqIds :
      /\ Running(s) \/ Waiting(s) => seq[s].current_len < seq[s].total_len
      /\ Running(s) => seq[s].current_len + seq[s].num_process_token <= seq[s].total_len
      /\ Retired(s) => seq[s].current_len = seq[s].total_len

\* The sum_stage flag, which decides what first_token_time counts, and the
\* comparison of current_len with input_len, which decides what is prefill,
\* agree on every live request that starts before the end of its prompt.
StartsInPrompt == \A len \in Lengths : StartLen(len) < len[1]

StageAgrees ==
  StartsInPrompt =>
    \A s \in SeqIds : Running(s) => (seq[s].sum_stage <=> IsSum(s))

TokensGiven == [s \in SeqIds |-> seq[s].num_process_token]

\* What an iteration holds (setMetadata), neither too much nor nothing: the
\* prefilling requests of a batch together take at most max_process_token; unless
\* the system is disaggregated no request generates while another one prefills;
\* and while requests run it has tokens, so that the idle branch of the loop is
\* taken only with nothing running, provided max_process_token has a token for
\* every prefilling request (otherwise the integer division gives each of them 0,
\* and their presence keeps the generating ones at 0 too).
IterationWork ==
  pc = "step" =>
    /\ \A b \in Batches : SumFunctionOnSet(TokensGiven, SumSeqs(b)) <= MaxProcessToken
    /\ ~Disagg /\ hasSumSeq =>
         \A s \in AllRunning : ~IsSum(s) => seq[s].num_process_token = 0
    /\ ~Disagg /\ MaxProcessToken >= PerBatch /\ AllRunning # {} => ~NoTokens

\* With injected requests, arrival, queueing delay and the accumulated
\* end_token_time of a running request add up to the clock, so the end-to-end
\* latency reported with it is the time since it arrived, and a recorded first
\* token was reported at arrival + queueing delay + first_token_time.
LatencyAccounting ==
  Inject /\ ~Disagg /\ StartsInPrompt =>
    \A s \in SeqIds :
      LET since == seq[s].arrival_time + seq[s].queueing_delay IN
      /\ Running(s) => since + seq[s].end_token_time = total_time
      /\ Running(s) /\ seq[s].gen_start_time # 0 =>
           since + seq[s].first_token_time = seq[s].gen_start_time
      /\ Retired(s) /\ seq[s].gen_start_time # 0 =>
           since + seq[s].end_token_time = seq[s].gen_start_time

\* The arrivals consumed by the requests created so far are exactly those before
\* the clock: the windows [total_time - iter_time, total_time) that
\* fillSequenceQueue counts neither overlap nor leave a gap, so no request is
\* created before it arrives.  (Until MaxSeqs is reached.)
ArrivalAccounting ==
  Inject /\ ~RealData =>
    /\ pc # "fillSequenceQueue" /\ count_id < MaxSeqs =>
         cur_arrival_time_idx
           = Cardinality({ i \in DOMAIN Arrivals : Arrivals[i] < total_time })
    /\ \A s \in SeqIds : Created(s) => seq[s].arrival_time <= total_time
    /\ \A s \in SeqIds : Running(s) => seq[s].queueing_delay >= 0

\* A request that has an arrival time is reported once when its prompt ends,
\* unless that is also its end, and once when it is popped: the two functions
\* that build the token list, the record flag and addLatency's own comparisons
\* have to agree for that.
ReportedOnce ==
  StartsInPrompt =>
    \A s \in SeqIds :
      Created(s) /\ seq[s].arrival_time # 0 =>
        stat[s] = (IF ~IsSum(s) /\ seq[s].total_len # seq[s].input_len
                   THEN << "t2ft" >> ELSE << >>)
                  \o (IF Retired(s) THEN << "e2e" >> ELSE << >>)

\* A prefilled request never generates before the time the prefill machine
\* handed it over (gen_start_time), and that time is never in the future of
\* both machines.
HandoverRespected ==
  \A s \in AllRunning : ~IsSum(s) =>
    /\ seq[s].gen_start_time <= total_time \/ seq[s].gen_start_time <= sum_machine_time
    /\ pc = "step" /\ seq[s].num_process_token > 0 => seq[s].gen_start_time <= total_time

\* The comment of both loops on their idle branch: "if no reqeusts, add time".
IdleAddsTime ==
  [][pc = "step" /\ warm = 0 /\ NoTokens => total_time' > total_time]_vars

\* eval/test.cpp refuses to run decode mode unless "Output length must be larger
\* than 1"; output_len is total_len - input_len + 1.
DecodeOutput ==
  DecodeMode /\ ~RealData =>
    \A s \in SeqIds : Created(s) => seq[s].total_len - seq[s].input_len + 1 > 1
=============================================================================
