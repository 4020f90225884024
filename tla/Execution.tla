----------------------------- MODULE Execution ------------------------------
(***************************************************************************)
(* The devices of a cluster running a decoder: each call of LayerGraph is  *)
(* pushed, tried on the processors its layer allows (Executor::execution), *)
(* the best status is left for the pop, and the pop charges it to the      *)
(* clock of the device or of a lane.  The simulated transfers share one    *)
(* cache of times, in the cluster, while each device has a DRAM simulator  *)
(* of its own.                                                             *)
(*                                                                         *)
(* One thread visits the devices in rank order; a device runs until a call *)
(* waits for other ranks.  How they wait, and what communication costs, is *)
(* the subject of DeviceGraph.                                             *)
(***************************************************************************)
EXTENDS AttentionSumCost, FiniteSets, TimeBoard


CONSTANTS
  NumDevices,    \* num_total_device
  Systems,       \* systems and models (the c of LayerGraph)
  Works(_),      \* of a system: the work an iteration may bring to the devices
  Calls(_, _),   \* of a system and the work of a device: its graph (Graph)
  Phases(_, _, _, _),  \* of a call on a processor, for a batch (ExecutionPhases)
  MaxIters       \* MODEL BOUND: calls of Cluster::run

Devices == 0 .. NumDevices - 1

\* Work of a device: the batch, and the tokens of each of its experts, none for
\* a dense decoder, with the experts that getIdxHigh puts on the high processor.
Work(w) == /\ \A k \in DOMAIN w.batch : w.batch[k].m \in 0 .. w.batch[k].n
           /\ w.high \subseteq DOMAIN w.routed

ASSUME ExecutionAssumption ==
  /\ NumDevices \in Nat \ {0} /\ MaxIters \in Nat \ {0}
  /\ Systems # {}
  /\ \A c \in Systems :
       /\ c.num_total_device = NumDevices
       /\ NumDevices % c.ne_tp_dg = 0 /\ NumDevices % c.e_tp_dg = 0
       /\ \A works \in Works(c) : \A d \in Devices : Work(works[d])

\* The columns that a call may find: the functions of ATTENTION_SUM leave others.
Columns(call) == {call.info.cols, call.info.hd * call.info.H, call.info.hd * call.info.KVH}

\* Sizes, operations and times are never negative, what a phase charges is among
\* the transfers it issues, and a call that waits is met by all that it waits for.
Move == [req : {"kRead", "kWrite", "kGEMV"}, on : Processor, size : Nat]
PhaseType == [flops : Nat, bytes : Nat, compute : Nat, memory : Nat, ideal : Seq(Move),
              ram : Seq(Move), charged : Seq(Nat), opb : Seq(Nat)]
Countable(phases) ==
  /\ phases \in Seq(PhaseType)
  /\ \A k \in DOMAIN phases :
       /\ \A j \in DOMAIN phases[k].charged : phases[k].charged[j] \in DOMAIN phases[k].ram
       /\ phases[k].opb # << >> => Len(phases[k].opb) = 2 /\ phases[k].opb[2] # 0
CallType(call, batch) ==
  /\ call.waits \in Nat \ {0} /\ {call.flops, call.bytes, call.info.precision} \subseteq Nat
  /\ {"precision", "hd", "H", "KVH", "cols"} \subseteq DOMAIN call.info
  /\ call.processors \in Seq(Processor) /\ call.path \in Seq(STRING)
  /\ call.layer # "none" =>
       \A p \in Range(call.processors) : \A cols \in Columns(call) :
         Countable(Phases(call, p, [call.info EXCEPT !.cols = cols], batch))

ASSUME CallsAssumption ==
  \A c \in Systems : \A works \in Works(c) : \A d \in Devices :
    LET graph == Calls(c, works[d])
    IN /\ Len(graph) \in Nat /\ DOMAIN graph = 1 .. Len(graph)
       /\ \A k \in DOMAIN graph :
            /\ CallType(graph[k], works[d].batch)
            /\ graph[k].waits \in {1, c.ne_tp_dg, NumDevices}
            /\ \A e \in Devices :
                 e \div graph[k].waits = d \div graph[k].waits
                   => /\ k \in DOMAIN Calls(c, works[e])
                      /\ Calls(c, works[e])[k].waits = graph[k].waits

\* A lane starts where the calls before it joined: a call in a lane charges the
\* processor of its lane, and follows no call that charges the device alone.
Executes(call) == call.waits = 1 /\ call.layer # "none"
Serial(call) == Executes(call) /\ call.out.lane = "none"
LanesFit(graph) ==
  \A k \in DOMAIN graph : graph[k].in.lane \in {"high", "low"} =>
    /\ ~Serial(graph[k])
    /\ k > 1 => ~Serial(graph[k - 1])

ASSUME LanesAssumption ==
  \A c \in Systems : \A works \in Works(c) : \A d \in Devices : LanesFit(Calls(c, works[d]))

VARIABLES
  system,      \* the system that is simulated
  iter,        \* calls of Cluster::run so far
  turn,        \* the device that runs
  work,        \* of each device, in this iteration
  calls,       \* of each device: its graph, with the shapes the work gives them
  cur,         \* of each device: the current call
  trial,       \* Executor::execution under way on the device that runs
  exec_status, \* of each device: left by an execution, not yet taken by a pop
  status,      \* of each device: the clocks and the sums of its status board
  timeboard,   \* of each device: the stamp of every call it has pushed
  board,       \* of each device: the statuses its executions delivered
  execution_time_cache,  \* of the cluster
  dram,        \* of each device: the clock of its DRAM simulator
  past         \* the work and the end of the iterations that are over

vars == << system, iter, turn, work, calls, cur, trial, exec_status, status, timeboard,
           board, execution_time_cache, dram, past >>

NoStatus == [processor |-> "none", total |-> 0, flops |-> 0, bytes |-> 0, commands |-> 0]
NoTrial == [step |-> "push", left |-> << >>, cols |-> 0, optimal |-> NoStatus, tried |-> << >>]
ZeroBoard == [device |-> 0, high |-> 0, low |-> 0, flops |-> 0, bytes |-> 0, commands |-> 0]

Ready(works) ==
  /\ work' = works
  /\ calls' = [d \in Devices |-> Calls(system', works[d])]
  /\ cur' = [d \in Devices |-> 1]
  /\ status' = [d \in Devices |-> ZeroBoard]
  /\ timeboard' = [d \in Devices |-> << >>]
  /\ board' = [d \in Devices |-> << >>]
  /\ turn' = 0

Init ==
  /\ system \in Systems
  /\ iter = 1 /\ turn = 0
  /\ work \in Works(system)
  /\ calls = [d \in Devices |-> Calls(system, work[d])]
  /\ cur = [d \in Devices |-> 1]
  /\ trial = NoTrial
  /\ exec_status = [d \in Devices |-> NoStatus]
  /\ status = [d \in Devices |-> ZeroBoard]
  /\ timeboard = [d \in Devices |-> << >>]
  /\ board = [d \in Devices |-> << >>]
  /\ execution_time_cache = << >>
  /\ dram = [d \in Devices |-> 0]
  /\ past = {}

Ends(d) == cur[d] > Len(calls[d])
CallOf(d) == calls[d][cur[d]]
Group(d) == { e \in Devices : e \div CallOf(d).waits = d \div CallOf(d).waits }

---------------------------------------------------------------------------
(* The status board: set_push_status and set_pop_status.                   *)

Joined(s) ==
  LET latest == Larger(s.device, Larger(s.high, s.low))
  IN [s EXCEPT !.device = latest, !.high = latest, !.low = latest]

set_push_status(s, lane) ==
  CASE lane = "high" -> [s EXCEPT !.device = s.high]
    [] lane = "low"  -> [s EXCEPT !.device = s.low]
    [] OTHER         -> Joined(s)

\* mutant: the lane says whose clock runs
ChargedToLane(s, lane, e) ==
  CASE lane = "none" -> [s EXCEPT !.device = @ + e.total]
    [] lane = "low"  -> [s EXCEPT !.low = @ + e.total, !.device = s.low + e.total]
    [] lane = "high" -> [s EXCEPT !.high = @ + e.total, !.device = s.high + e.total]
\* In parallel execution the processor, not the lane, says whose clock runs.
Charged(s, lane, e) ==
  CASE lane = "none"                                      -> [s EXCEPT !.device = @ + e.total]
    [] lane # "none" /\ e.processor \in {"LOGIC", "PIM"} ->
         [s EXCEPT !.low = @ + e.total, !.device = s.low + e.total]
    [] lane # "none" /\ e.processor = "GPU"              ->
         [s EXCEPT !.high = @ + e.total, !.device = s.high + e.total]
    [] OTHER                                              -> s

set_pop_status(s, lane, e) ==
  [Charged(s, lane, e) EXCEPT !.flops = @ + e.flops, !.bytes = @ + e.bytes,
                              !.commands = @ + e.commands]

\* Norms, residuals and rope run at once on the GPU and add their time to device_time, and to a lane's clock.
GPUTime(call) ==
  Larger(call.flops * FlopTime["GPU"], MemoryTime("GPU", call.bytes))
Forward(s, call) ==
  LET time == GPUTime(call)
  IN [s EXCEPT !.device = @ + time,
               !.high = IF call.in.lane = "high" THEN @ + time ELSE @,
               !.low = IF call.in.lane = "low" THEN @ + time ELSE @]

\* A stamp keeps the time and the sums of the status board at its push, and what
\* has been added to them at its pop (TimeStamp::set_status).
push_timestamp(path, s) ==
  [path |-> path, start |-> s.device, end |-> s.device, commands |-> s.commands]
pop_timestamp(stamp, s) == [stamp EXCEPT !.end = s.device, !.commands = s.commands - @]

---------------------------------------------------------------------------
(* The executor, on the phases of the execution functions.                 *)

\* A batched product has the cache keys of a linear layer.
KeyLayer(call) == IF call.layer = "BATCHED_LINEAR" THEN "LINEAR" ELSE call.layer

Flops(phases) == Total([k \in DOMAIN phases |-> phases[k].flops])
Bytes(phases) == Total([k \in DOMAIN phases |-> phases[k].bytes])

executePType(c, call, p, i, batch, cache, clock) ==
  LET phases == Phases(call, p, i, batch)
      ram == RunRamulator(KeyLayer(call), p, i.precision, phases,
                          [cache |-> cache, clock |-> clock, times |-> << >>])
  IN [status |-> [processor |-> p,
                  total     |-> IF c.use_ramulator THEN ram.total ELSE RunIdeal(phases),
                  flops     |-> Flops(phases),
                  bytes     |-> Bytes(phases),
                  commands  |-> IF c.use_ramulator THEN 0
                                ELSE IdealCommands(i.precision, phases)],
      dram   |-> IF c.use_ramulator THEN ram.dram
                 ELSE [cache |-> cache, clock |-> clock, times |-> << >>]]

\* mutant: no duration yet is no special case
NoneYet(optimal, s) == optimal.total > s.total
\* Zero stands for "no duration yet".
Better(optimal, s) == optimal.total = 0 \/ optimal.total > s.total

---------------------------------------------------------------------------
Runs(d) == turn = d /\ ~Ends(d)

\* A call that waits for no other rank: stamp it and run its forward.
Push(d) ==
  /\ Runs(d) /\ trial.step = "push" /\ CallOf(d).waits = 1
  /\ LET pushed == set_push_status(status[d], CallOf(d).in.lane)
     IN /\ status' = [status EXCEPT ![d] = Forward(pushed, CallOf(d))]
        /\ timeboard' = [timeboard EXCEPT ![d] = Append(@, push_timestamp(CallOf(d).path, pushed))]
  /\ trial' = [NoTrial EXCEPT !.step = IF CallOf(d).layer = "none" THEN "pop" ELSE "try",
                              !.left = CallOf(d).processors,
                              !.cols = CallOf(d).info.cols]
  /\ UNCHANGED << system, iter, turn, work, calls, cur, exec_status, board,
                  execution_time_cache, dram, past >>

\* The loop of Executor::execution over the processors.
Try(d) ==
  /\ Runs(d) /\ trial.step = "try" /\ trial.left # << >>
  /\ LET p == Head(trial.left)
         i == [CallOf(d).info EXCEPT !.cols = trial.cols]
     IN \E e \in { executePType(system, CallOf(d), p, i, work[d].batch,
                                execution_time_cache, dram[d]) } :
        /\ trial' = [trial EXCEPT
                       !.left = Tail(@),
                       !.optimal = IF Better(@, e.status) THEN e.status ELSE @,
                       !.tried = Append(@, e.status),
                       !.cols = IF CallOf(d).layer = "ATTENTION_SUM" THEN ColsAfterSum(i, p)
                                ELSE @]
        /\ execution_time_cache' = e.dram.cache
        /\ dram' = [dram EXCEPT ![d] = e.dram.clock]
  /\ UNCHANGED << system, iter, turn, work, calls, cur, exec_status, status, timeboard, board, past >>

\* Device::setExecStatus, after the loop.
Deliver(d) ==
  /\ Runs(d) /\ trial.step = "try" /\ trial.left = << >>
  /\ exec_status' = [exec_status EXCEPT ![d] = trial.optimal]
  /\ board' = [board EXCEPT ![d] = Append(@, trial.optimal)]
  /\ trial' = [trial EXCEPT !.step = "pop"]
  /\ UNCHANGED << system, iter, turn, work, calls, cur, status, timeboard, execution_time_cache,
                  dram, past >>

\* mutant: it is not reset
Kept(e) == e
\* Device::getExecStatus returns the status and resets it.
Taken(e) == NoStatus

Pop(d) ==
  /\ Runs(d) /\ trial.step = "pop"
  /\ LET popped == set_pop_status(status[d], CallOf(d).out.lane, exec_status[d])
     IN /\ status' = [status EXCEPT ![d] = popped]
        /\ timeboard' = [timeboard EXCEPT ![d][cur[d]] = pop_timestamp(@, popped)]
  /\ exec_status' = [exec_status EXCEPT ![d] = Taken(@)]
  /\ cur' = [cur EXCEPT ![d] = @ + 1]
  /\ trial' = NoTrial
  /\ UNCHANGED << system, iter, turn, work, calls, board, execution_time_cache, dram, past >>

\* A call that waits: the group goes on together, at the latest of its times.
Arrived(d) == \A e \in Group(d) : cur[e] = cur[d]

Synchronise(d) ==
  /\ Runs(d) /\ trial.step = "push" /\ CallOf(d).waits > 1 /\ Arrived(d)
  /\ LET joined == [e \in Devices |-> Joined(status[e])]
         latest == Max({ joined[e].device : e \in Group(d) })
         after(e) == [joined[e] EXCEPT !.device = latest]
     IN /\ status' = [e \in Devices |-> IF e \in Group(d) THEN after(e) ELSE status[e]]
        /\ timeboard' = [e \in Devices |->
                           IF e \in Group(d)
                           THEN Append(timeboard[e], pop_timestamp(push_timestamp(CallOf(e).path, joined[e]),
                                                                   after(e)))
                           ELSE timeboard[e]]
  /\ cur' = [e \in Devices |-> IF e \in Group(d) THEN cur[e] + 1 ELSE cur[e]]
  /\ UNCHANGED << system, iter, turn, work, calls, trial, exec_status, board,
                  execution_time_cache, dram, past >>

\* mutant: the last device is not followed by the first
Following(d) == d + 1
DeviceAfter(d) == (d + 1) % NumDevices

\* The next device runs when this one waits or has nothing left.
NextDevice(d) ==
  /\ turn = d
  /\ \E e \in Devices : ~Ends(e)
  /\ ~Ends(d) => trial.step = "push" /\ CallOf(d).waits > 1 /\ ~Arrived(d)
  /\ turn' = DeviceAfter(turn)
  /\ UNCHANGED << system, iter, work, calls, cur, trial, exec_status, status, timeboard,
                  board, execution_time_cache, dram, past >>

AllDone == \A d \in Devices : Ends(d)

\* Of the DRAM, in commands.
getTotalEnergy == MapThenSumSet(LAMBDA d : status[d].commands, Devices)

\* The next Cluster::run.  The cache, the DRAM simulators and exec_status stay.
Restart ==
  /\ AllDone /\ iter < MaxIters
  /\ iter' = iter + 1
  /\ UNCHANGED << system, trial, exec_status, execution_time_cache, dram >>
  /\ \E works \in Works(system) : Ready(works)
  /\ past' = past \cup { [work |-> work, board |-> board, status |-> status] }

Next ==
  \/ \E d \in Devices :
       Push(d) \/ Try(d) \/ Deliver(d) \/ Pop(d) \/ Synchronise(d) \/ NextDevice(d)
  \/ Restart

Spec == Init /\ [][Next]_vars

---------------------------------------------------------------------------
(* Properties.                                                             *)

ExecStatus == [processor : Processor \cup {"none"}, total : Nat, flops : Nat, bytes : Nat,
               commands : Nat]

\* Types: the clocks and the sums of a board are never negative, nor is what an
\* execution delivers.
TypeOK ==
  /\ system \in Systems /\ iter \in 1 .. MaxIters /\ turn \in Devices
  /\ work \in Works(system)
  /\ \A d \in Devices : cur[d] \in 1 .. Len(calls[d]) + 1
  /\ trial.step \in {"push", "try", "pop"}
  /\ exec_status \in [Devices -> ExecStatus]
  /\ status \in [Devices -> [DOMAIN ZeroBoard -> Nat]]
  /\ \A d \in Devices : board[d] \in Seq(ExecStatus)
  /\ \A d \in Devices : \A k \in DOMAIN timeboard[d] : timeboard[d][k].commands \in Nat
  /\ \A key \in DOMAIN execution_time_cache : execution_time_cache[key] \in Nat
  /\ dram \in [Devices -> Nat]

\* Executor::execution keeps the fastest of the processors it tried, although a
\* duration of zero stands for "none tried yet".
ChosenFastest ==
  trial.step = "pop" /\ trial.tried # << >> =>
    LET chosen == board[turn][Len(board[turn])]
    IN /\ \E k \in DOMAIN trial.tried : trial.tried[k] = chosen
       /\ \A k \in DOMAIN trial.tried : chosen.total <= trial.tried[k].total

\* The processors are compared on the same work: the functions of the Executor's
\* tables count the same operations on GPU, LOGIC and PIM, whether they multiply
\* in int or in double.  Not in this: AttentionGenExecutionGPU, which leaves out
\* softmax and context, the batched products on LOGIC and PIM, which take the
\* wrong dimensions, activations, which the GPU does not count, and the tiles of
\* flash attention, which differ.  Whatever the layer, work that takes no time on one
\* processor takes none on another.
SameLayers == {"LINEAR", "ATTENTION_SUM", "MLA_SUM", "ABSORBED_MLA_SUM", "MLA_GEN",
               "ABSORBED_MLA_GEN"}
ZeroTogether ==
  \A j, k \in DOMAIN trial.tried : trial.tried[j].total = 0 => trial.tried[k].total = 0
SameWork ==
  /\ trial.step = "try" /\ CallOf(turn).layer \in SameLayers
     /\ ~(CallOf(turn).layer = "MLA_SUM" /\ CallOf(turn).info.use_flash_attention) =>
       \A p \in Processor :
         Flops(Phases(CallOf(turn), p, CallOf(turn).info, work[turn].batch))
           = Flops(Phases(CallOf(turn), "GPU", CallOf(turn).info, work[turn].batch))
  /\ ZeroTogether

\* The memory size an execution reports is what it hands to the ideal memory model,
\* transfer by transfer, for the functions of the GPU that count all of theirs.
AccountedLayers == {"LINEAR", "ACTIVATION", "MLA_SUM", "ABSORBED_MLA_SUM", "ABSORBED_MLA_GEN"}
AccountedTraffic ==
  trial.step = "try" /\ CallOf(turn).layer \in AccountedLayers =>
    LET phases == Phases(CallOf(turn), "GPU", CallOf(turn).info, work[turn].batch)
        moves == IdealMoves(phases)
    IN Bytes(phases) = CallOf(turn).info.precision * Total([k \in DOMAIN moves |-> moves[k].size])

\* Equal work costs the same on every device and in every iteration: the simulated
\* times depend on the state of a DRAM simulator, but devices share the cache of
\* the cluster.  The ranks of one attention group then also end at the same time,
\* so that the clock of device 0 can stand for the iteration.
SameBoard(d, e, ended) == ended.work[e] = work[d] => ended.board[e] = board[d]
DevicesAgree ==
  AllDone =>
    \A d, e \in Devices :
      /\ SameBoard(d, e, [work |-> work, board |-> board])
      /\ \A ended \in past : SameBoard(d, e, ended)
      /\ d \div system.ne_tp_dg = e \div system.ne_tp_dg /\ work[d] = work[e]
           => status[d] = status[e]

\* A processor does one thing at a time, in two lanes as in one: no device is done
\* before each of its processors has had time for all that was charged to it.
TimeOn(p, e) == IF e.processor = p THEN e.total ELSE 0
Busy(d, p) ==
  Total([k \in DOMAIN board[d] |-> TimeOn(p, board[d][k])]) - TimeOn(p, exec_status[d])
OneThingAtATime ==
  \A d \in Devices : \A p \in Processor :
    Busy(d, p) <= Larger(status[d].device, Larger(status[d].high, status[d].low))

\* Every execution is charged once, by the pop of its own module: none is lost to
\* the next execution or the next iteration, none charged twice.
Collected ==
  \A d \in Devices : \A field \in {"flops", "bytes", "commands"} :
    status[d][field] + exec_status[d][field]
      = Total([k \in DOMAIN board[d] |-> board[d][k][field]])

\* Tensor parallel ranks divide the work and lose none of it: a rank attends for
\* its share of the heads, and does its share of a projection or all of it; and
\* the shares fit together: what a module hands to the next has the columns that
\* its weights have rows, heads and columns divide by the ranks, and the merge finds
\* the tokens that the split gave away (the assertions of the forward functions).
DecodeLayers == {"ATTENTION_GEN", "MLA_GEN", "ABSORBED_MLA_GEN"}
AttentionLayers == DecodeLayers \cup {"ATTENTION_SUM", "MLA_SUM", "ABSORBED_MLA_SUM"}
Unsharded(c) == [c EXCEPT !.ne_tp_dg = 1, !.e_tp_dg = 1]
CallFlops(call, batch) ==
  Flops(Phases(call, IF call.processors = << >> THEN "GPU" ELSE Head(call.processors),
               call.info, batch))
WorkSharded ==
  (trial.step = "push" /\ turn = 0 /\ \A d \in Devices : cur[d] = 1) =>
    \A d \in Devices :
      LET whole == Calls(Unsharded(system), work[d])
      IN /\ \A k \in DOMAIN calls[d] : calls[d][k].fits
         /\ Len(whole) = Len(calls[d])
         /\ \A k \in DOMAIN whole :
              whole[k].layer # "none" =>
                \E share \in IF whole[k].layer \in AttentionLayers THEN {system.ne_tp_dg}
                            ELSE {1, system.ne_tp_dg, system.e_tp_dg} :
                  share * CallFlops(calls[d][k], work[d].batch) = CallFlops(whole[k], work[d].batch)

\* The tiles of flash attention cover a prompt that starts its sequence: tiling
\* adds operations at the border and leaves none out.
Started(batch) == Among(batch, { s \in Range(batch) : s.sum /\ s.m = s.n })
FlashCovers ==
  trial.step = "try" /\ CallOf(turn).layer = "MLA_SUM" /\ CallOf(turn).info.use_flash_attention =>
    LET i == CallOf(turn).info
        started == Started(work[turn].batch)
    IN Flops(Phases(CallOf(turn), Head(CallOf(turn).processors), i, started))
         >= OverSequences(LAMBDA s : 2 * i.H * s.m * s.n * (2 * i.hd + i.rope), started)

\* A decode step is never faster with a longer context, on any processor, also
\* where a row buffer of the near-bank unit fills up.
Shorter(batch) ==
  [k \in DOMAIN batch |-> IF batch[k].n > 1 THEN [batch[k] EXCEPT !.n = @ - 1] ELSE batch[k]]
LongerIsSlower ==
  trial.step = "try" /\ CallOf(turn).layer \in DecodeLayers =>
    \A p \in Processor :
      RunIdeal(Phases(CallOf(turn), p, CallOf(turn).info, Shorter(work[turn].batch)))
        <= RunIdeal(Phases(CallOf(turn), p, CallOf(turn).info, work[turn].batch))

\* The break-down accounts for the iteration.  Without parallel lanes every
\* nanosecond of device 0 is in exactly one category, waiting included, although
\* the categories are found by parts of names and some are taken out of others;
\* and when all ranks have the same batch, the parts of the energy add up to the
\* energy of all devices.
BreakDownAccounts ==
  AllDone =>
    LET time == TimeBreakDown(system.model, timeboard[0])
        energy == EnergyBreakDown(system.model, timeboard, NumDevices)
    IN /\ ~system.parallel_execution =>
            MapThenSumSet(LAMBDA category : time[category], DOMAIN time) = status[0].device
       /\ (\A d \in Devices : work[d].batch = work[0].batch) =>
            MapThenSumSet(LAMBDA part : energy[part], DOMAIN energy) = getTotalEnergy
=============================================================================
