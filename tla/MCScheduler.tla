---------------------------- MODULE MCScheduler ----------------------------
(***************************************************************************)
(* Instances of Scheduler for TLC: traces of lengths and of arrivals.      *)
(***************************************************************************)
EXTENDS SchedulerLifeCycle

\* Traced requests: a prompt of one chunk, prompts of several, an output of one
\* token (the request ends with its prompt).
TraceLengths == { <<1, 2>>, <<3, 2>>, <<2, 1>> }
LongOutputs  == { <<1, 2>>, <<3, 3>> }

\* A synthetic configuration has one length.
OneLength    == { <<3, 3>> }
ShortContext == { <<3, 2>> }

\* Several arrivals in one iteration, a gap, and arrivals on the boundary of a
\* window; and none, as for a trace.
ArrivalTimes == << 1, 1, 2, 4, 5, 9 >>
NoArrivals   == << >>

---------------------------------------------------------------------------
(* A closed loop over a trace that never ends.  Its requests are without   *)
(* number and its clock without bound, but only the live requests, their   *)
(* order, and whether a gen_start_time is 0, past or now decide what comes *)
(* next.  Before an iteration creates requests the finished ones are       *)
(* forgotten, the others renamed in their order, and the clock set back.   *)
(* MaxSeqs only has to exceed TotalBatch then, and cuts nothing off.       *)

Live == { s \in SeqIds : Created(s) /\ ~Retired(s) }
Older(s) == Cardinality({ r \in Live : r < s })
Nth(k) == CHOOSE s \in Live : Older(s) = k
SetBack(time) == IF time = 0 THEN 0 ELSE IF time < total_time THEN 1 ELSE 2

Forgettable ==
  pc = "fillSequenceQueue" /\ (Cardinality(Live) < count_id \/ SetBack(total_time) # total_time)

Forget ==
  /\ Forgettable
  /\ seq' = [k \in SeqIds |->
               IF k < Cardinality(Live)
               THEN [seq[Nth(k)] EXCEPT !.gen_start_time = SetBack(@),
                                        !.first_token_time = 0, !.end_token_time = 0]
               ELSE NoRequest]
  /\ count_id' = Cardinality(Live)
  /\ sequence_queue' = [i \in DOMAIN sequence_queue |-> Older(sequence_queue[i])]
  /\ running_queue' = [b \in Batches |-> { Older(s) : s \in running_queue[b] }]
  /\ total_time' = SetBack(total_time)
  /\ UNCHANGED << rotate, cur_arrival_time_idx, sum_machine_time, iter_time, slots,
                  warm, stat, pc >>

EndlessNext == Forget \/ (~Forgettable /\ Next)
EndlessSpec == Init /\ [][EndlessNext]_vars /\ WF_vars(EndlessNext)

\* Progress of a closed loop that is refilled for ever, with prompt tokens for every
\* request: it never comes to a standstill, some request always ends; and if the
\* prompts pause again and again, so does the oldest, and with it every request in
\* its turn.  The hypothesis is needed: a generating request gets no token while any
\* request is in its prompt, and new prompts may follow each other without a pause.
Pauses == []<>(pc = "step" /\ ~hasSumSeq)

AllServed ==
  /\ []<>(\E s \in SeqIds : Retired(s))
  /\ Pauses => []<>Retired(0)

---------------------------------------------------------------------------
\* num_max_batched_token: a constructor parameter of Scheduler that only
\* getMaxMetadata reads.
NumMaxBatchedToken == 3

\* scheduler.cpp calls the parameter the limit "per dp, total": the tokens of a
\* batch in an iteration.
BatchedTokenLimit ==
  pc = "step" =>
    \A b \in Batches :
      MapThenSumSet(LAMBDA s : seq[s].num_process_token, running_queue[b])
        <= NumMaxBatchedToken
=============================================================================
