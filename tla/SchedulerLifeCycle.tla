------------------------- MODULE SchedulerLifeCycle --------------------------
(***************************************************************************)
(* Scheduler implements RequestLifeCycle: where a request is and what it   *)
(* still wants follow from the containers that hold it and from its        *)
(* lengths; its first token is the pair of times that addLatency reports.  *)
(***************************************************************************)
EXTENDS Scheduler

Phase(s) ==
  CASE ~Created(s) -> "new"
    [] Waiting(s)  -> "waiting"
    [] Running(s)  -> "running"
    [] OTHER       -> "done"

PromptLeft(s) == IF IsSum(s) THEN seq[s].input_len - seq[s].current_len ELSE 0
OutputLeft(s) ==
  seq[s].total_len - (IF IsSum(s) THEN seq[s].input_len ELSE seq[s].current_len)
FirstTokenAt(s) ==
  IF Running(s) /\ seq[s].record THEN << seq[s].gen_start_time, seq[s].first_token_time >>
  ELSE << >>

Life == [s \in SeqIds |-> [phase  |-> Phase(s),
                          prompt |-> PromptLeft(s),
                          output |-> OutputLeft(s),
                          first  |-> FirstTokenAt(s)]]

LifeCycle ==
  INSTANCE RequestLifeCycle WITH Requests <- SeqIds, Capacity <- TotalBatch, life <- Life

\* Every step of the scheduler and of the iteration loop is a step of the life of
\* some requests, or of none: none overtakes another, generates before its prompt
\* is done, gets its first token twice or at another time later, or leaves early.
KeepsPromises == LifeCycle!Spec
=============================================================================
