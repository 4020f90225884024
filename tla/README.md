# A TLA+ verification project for LLMSimulator

LLMSimulator predicts the latency and energy of serving a large language model
on a cluster of GPUs whose memory can compute (logic dies, processing in
memory). It is one C++ thread that simulates many actors: requests that arrive,
wait and are batched, data-parallel ranks, devices with clocks of their own,
and the lanes of a device. Its bugs are therefore the bugs of a concurrent
system (a barrier crossed early, a request lost between two containers, time
counted twice), although nothing runs concurrently: they do not crash, they
skew the reported numbers, and a unit test hardly sees them.

The sources are under `src/src`; this directory holds the models, their TLC
configurations and the proofs.

## Inventory

| Component | State | Operations | Interacts with |
|---|---|---|---|
| Scheduler (`scheduler/`) | `sequence_queue`, `running_queue`, `total_time`, arrival index; per request lengths, stage, times | `fillSequenceQueue`, `fillRunningQueue`, `setMetadata`, `updateScheduler`, `updateSchedulerSumGenSplit`, `hittingQueue` | called by the cluster loop; its batches are read by the devices |
| Cluster loop (`hardware/cluster.cpp`) | `total_time`, `sum_machine_time`, list of statistics | `runIteration`, `runIterationMixed`, `runIterationSumGenSplit`, `addLatency`, `run`, `restartModuleGraph` | drives scheduler and devices |
| Module graph engine (`module/module_graph.cpp`) | position of each device, stamped flags, ready flags, `timeboard_synced`, clocks | `run`, `check_ready`, `sync_devices`, `set_stamp`, `restart_graph` | devices read and write each other's clocks and tensors |
| Model, decoders, experts (`model/`, `module/decoder.cpp`, `expert.cpp`) | the modules and tensors of each device | one pass over `forward` builds the graph | fixes who waits for whom |
| Communication (`module/communication.cpp`) | none | `AllReduce`, `MoEScatter`, `MoEGather`, `Sync` | add to a device's clock |
| Gate and route (`module/route.cpp`, `BatchedSequence::update_expert`) | expert counts of every batch | `aggregate_expert`, `Route::forward`, `getIdxHigh` | written by rank 0, read by all |
| Device (`hardware/device.cpp`) | `exec_status`, status board, execution cache | `execution`, `getExecStatus`, cache look-up | between modules, executor and clocks |
| Layers (`module/attention.cpp`, `layer.cpp`, `linear.cpp`, `parallel.cpp`, ...) | none | `forward`: shapes, processors, lanes | built by the decoders, ask the device to execute |
| Executor and cost functions (`hardware/executor.cpp`, `*_impl.cpp`) | none | shapes to durations and DRAM counts | called by the device |
| Time board (`module/timeboard.cpp`) | tree of time stamps | push, pop, `find_stamp` | read by the statistics |
| Statistics, energy (`cluster.cpp`) | sums | `setTimeBreakDown`, `setStat`, `exportToCSV` | output |
| Memory check (`cluster.cpp`) | none | `checkMemorySize` | sets the batch sizes of the scheduler |
| DRAM map, PIM kernels (`dram/`) | allocation addresses, command queues | `setMemoryObject`, `addrToVec`, `GEMV`, `HandleRequest` | feeds Ramulator |
| Near-bank PIM (`dram/nearbank`) | none | `computeGEMVLatency`, a closed form | cost functions |
| Ramulator 2 | external submodule, absent from the repository | | |
| Drivers and tools (`eval/`, `tools/`) | configuration | | |

What is hard in each:

* **Scheduler.** Integer divisions that leave zero or a remainder, an equality
  test that one token too many would jump over, two notions of a request's
  stage that must agree, arrival windows, the priority of prefill over
  generation, and a second clock in a disaggregated system.
  *Correct when* every request is admitted once and in order, receives exactly
  its tokens, is reported once with the time since its arrival, and ends while
  prompts leave it a turn.
* **Graph engine.** Devices block on tensors of other devices and are swept
  again; the first to pass a barrier sets the clocks of the others and leaves a
  mark for each; lanes fork and join clocks; a restart must reset what the
  previous run left. *Correct when* no device crosses a barrier early, every
  member leaves it at the latest arrival exactly once, time is never lost, and
  every run ends.
* **Gate and route.** Counts for all ranks are written when rank 0 passes, and
  read by ranks that pass later. *Correct when* the counts read are those of
  the reader's layer and iteration.
* **Communication.** Sender and receiver compute the same transfer separately,
  each from the counts of all batches. *Correct when* what is sent is received,
  on the same network, and is what the experts compute.
* **Layers.** Each divides heads, columns and rows by a tensor parallel degree
  on its own. *Correct when* the shares of the ranks fit together from layer to
  layer and make up the whole.
* **Executor and cost functions.** Some thirty functions that state the same
  products, sizes and transfers for three processors, in `int` and in `double`,
  with tiles; a cache of simulated times; a status that waits for the next pop;
  two lanes that share one processor. *Correct when* the processors are compared
  on the same work, the fastest is kept, every execution is charged once, equal
  work costs the same and reported traffic is the traffic issued.
* **Time board, statistics.** Categories found by parts of module names.
  *Correct when* the break-down adds up to the iteration and to its energy.
* **Memory check.** Truncated divisions between capacity and batch size.
  *Correct when* no batch outgrows the memory, whatever the scheduler admits.
* **DRAM.** A kernel sends the commands of one channel or bank and a factor in
  another file says how many it stands for. *Correct when* every bundle of a
  transfer is accounted once.

## Modules

### `Scheduler`

The two queues, the requests and the loop around them. `pc` names the call the
thread makes next; the state between two calls is what the program has there.

| Definition | Code |
|---|---|
| `FillSequenceQueue` | `Scheduler::fillSequenceQueue` with `pushSeq`, `pushDummySeq`, `pushRealSeq` |
| `Admit`, `NoRoom`, `Filled` | one iteration of the loop of `fillRunningQueue` that finds a batch, one that finds none, the end of the loop |
| `SetMetadata` | `setMetadata` |
| `WarmStep` | an iteration of `hittingQueue` |
| `Idle` | the branch of both loops for an iteration without tokens |
| `GenStep` | the rest of `runIterationMixed`, and of the generating branch of `runIterationSumGenSplit`: `updateScheduler`, `addLatency` |
| `SumStep` | the prefill branch of `runIterationSumGenSplit`: `updateSchedulerSumGenSplit`, `addLatency` |

`seq` maps ids to the fields of `Sequence` that these functions read or write.
`running_queue` keeps the set of a batch, not its order, which nothing reads.
`slots` is what is left of `num_empty_seq`. `rotate` is kept modulo the number
of batches, as it is used. `stat` keeps the type of each latency that
`addLatency` reports. The duration of an iteration is any member of
`Durations`: what determines it is the subject of `DeviceGraph`. With
`RealData` the lengths of a request are any of `Lengths` (a trace), otherwise
the one pair of the configuration. Reuse of the KV cache is a rate in tenths.
`MaxSeqs` bounds the requests created; when it is reached
`FillSequenceQueue` creates none, so the queues drain. `EndlessSpec` of
`MCScheduler` has no such end: before an iteration creates requests, `Forget` drops
those that ended, renames the others in their order and sets the clock back, so that
a closed loop that is refilled for ever has finitely many states.

### `DeviceGraph`

`TopModuleGraph::run` for every device, under the sweeps of `Cluster::run`. A
device is at node `cur[d]` of `Graph`; `RunNode(d)` is one iteration of the
loop of `TopModuleGraph::run` (stamp, check, synchronise, forward, next),
`Block(d)` the one that leaves it, `Finished(d)` a visit to a device that has
nothing left, `Sweep` the loop of `Cluster::run`, `Restart` the next call of
`Cluster::run` with another batch. What a batch makes of a device is its
`Load`: the durations of its attention, experts and communication, and the
experts that go to the high lane. `clock` holds `device_time`, `high_time` and
`low_time`; `timeboard` the device time of every stamp, which is what the
simulator reports; `ready` and `synced` the names of the tensors with `ready`
and `timeboard_synced` set.

### `ModelGraph` and `MCDeviceGraph`

`ModelGraph` builds the node lists of the decoders in the order of the calls of
their `forward`: `Call` is the push and pop of `Module::operator()`. Layers
without synchronisation between the ones that have it are one leaf.
`MCDeviceGraph` takes a model from it and gives the loads.

### `Experts` and `MCExperts`

The tokens of the layers with experts. `GateUpdate(d)`, `MoEScatter(d)`,
`Route(d)` and `MoEGather(d)` are the `forward` of these modules on device `d`,
`NextIteration` the step of the scheduler between two calls of `Cluster::run`.
`at[d]` counts the stages a device has done; `Met` is the barrier before each
stage, which `DeviceGraph` shows to hold, so that here the devices do a stage in
any order. The counts are those of `BatchedSequence`. A random choice is any of
`Selections` per token; with `listed` the choices come from a trace, which
`expert_list` indexes as `initExpertList` stores it. `traffic` keeps the tokens
a transfer sends and receives, inside and between nodes, before the divisions
by the tensor parallel degrees, and whether its time is charged; bytes and
latencies are left out. `HighTime` and `LowTime` are the costs of `getIdxHigh`
in a common unit, so that they are integers. `getIdxHigh` sorts `expert_list`, pairs of a
group and its tokens: `Weighted` are these pairs, and `Sorted` puts each at the place that the
number of pairs before it gives. `MCExperts` gives the trace of one
shape of request and a few random choices.

### `RequestLifeCycle` and `SchedulerLifeCycle`

What the system promises one request, in one variable `life` (phase, prompt and
output still wanted, time of the first token): `Arrive` in order, `Admit` first
come first served under `Capacity`, `Serve` any set of running requests, of which
each has part of its prompt prefilled or one token generated, and leaves exactly
when it has all of them. It knows no batch, no chunk size, no hand-over and no
clock. `SchedulerLifeCycle` gives the mapping: the phase is the container that
holds the request, what is left follows from its lengths, the first token is
the pair `gen_start_time`, `first_token_time` once `record` is set.
`KeepsPromises` is the refinement. Every call of the iteration loop maps to one
of the three steps or to a stutter.

### `MemoryCheck`, `MemoryBudget` and `MCMemory`

`checkMemorySize` as a function of a machine: model, system, capacity and the
sums of the weight and activation tensors of a device. `Capped` is the branch
with `mem_cap_limit`, which overwrites the batch sizes of the scheduler.
`MemoryBudget` puts the check in front of the scheduler: `Machines` are some that
go on and for which the check arrives at the `TotalBatch` of the
configuration, so that one behaviour of the scheduler stands for every one of them, and
`FitsMemory` compares the caches of what is running with each capacity. In `MCMemory`
they are all such machines for five models and capacities from 500 to 3000;
`InstanceAssumption` makes sure that every model is capped for some capacity.
The formulas of `activation_size` for decode mode are transcribed and not reached
by the run, which is in prefill mode.

### `LayerGraph`

The `forward` functions of `module/`. A decoder becomes the sequence of the calls
that execute, charge or wait for something, each with its shapes, the
processors that may run it, the lane of its tensors, whether the assertions of
its `forward` hold (`fits`) and the names of the modules around it. `Graph` is
the sequence of a device. Embedding, `lm_head` and the splits of tensors execute
nothing.

### `CostModel`, `AttentionSumCost`, `AttentionGenCost`, `LinearCost`, `Executor`

An execution function is a sequence of phases (scoring, softmax, context, one
projection). A phase has operations, bytes, a compute and a memory time, the
transfers it hands to the ideal memory model and to the simulated one, and which
of those it charges. `CostModel` has what the functions share: the roofline,
`issueRamulator` with the cache of simulated times, `run_ideal`, the near-bank
unit, and `Int32` where the code computes in `int`. The three cost modules have
one definition per execution function and processor, with the differences
between the copies kept. `Executor` is the table of its constructor. Durations
are integers: `FlopTime` and `ByteTime` are the times of one operation and one
byte.

### `DramMap`

Address maps, memory objects and kernels: the set of bundles of a tensor that
become commands, and `Weight`, the number of bundles one command counts for in
the energy.

### `Execution`, `TimeBoard`, `DecoderExecution` and `MCExecution`

`Execution` takes any graph of calls and any cost functions; `DecoderExecution` gives it
the graphs of `LayerGraph`, the functions of `Executor` and the kernels of `DramMap`, says
what a system and a batch are, and names what is assumed of them; `MCExecution` gives
twenty-six systems. The devices run the calls:

| Action | Code |
|---|---|
| `Push(d)` | `Module::operator()` up to `forward`: `set_push_status`, `push_timestamp`; norms, residuals and rope, which charge at once |
| `Try(d)` | one iteration of the loop of `Executor::execution` over the processors |
| `Deliver(d)` | `Device::setExecStatus` after the loop |
| `Pop(d)` | the pop module: `getExecStatus` (which resets), `set_pop_status`, `pop_timestamp` |
| `Synchronise(d)` | `sync_devices` when the last rank of a group arrives |
| `NextDevice(d)` | the sweep of `Node::run` |
| `Restart` | the next `Cluster::run`; the cache, the DRAM simulators and `exec_status` stay |

`timeboard` keeps the leaves of the tree of stamps, with their paths: an inner
stamp starts with its first leaf and ends with its last. The board of `Execution`
counts DRAM commands in place of energies. `TimeBoard` is `find_stamp` and
`setTimeBreakDown` on such leaves. How ranks wait for one another, and what
communication costs, is `DeviceGraph`; here a call that waits takes the latest
time of its group.

### The proof modules

| Module | Extends | Theorems about |
|---|---|---|
| `FiniteSetFacts` | | sums over finite sets, greatest elements, places in an order: the lemmas the others share |
| `SchedulerProofs` | `Scheduler` | where requests are and how long they are; the clocks, the tokens of an iteration, what is reported |
| `SchedulerPromiseProofs` | `SchedulerProofs`, `SchedulerLifeCycle`, `MemoryBudget` | the memory of the batches, the refinement of `RequestLifeCycle` |
| `DeviceGraphProofs` | `DeviceGraph` | barriers, counts, marks, lanes, the times of a synchronisation |
| `ExpertsProofs` | `Experts` | counts, traffic, the split of the experts |
| `ExecutionProofs` | `Execution` | what is executed, charged and cached, for any graph and any cost |
| `DecoderProofs` | `ExecutionProofs`, `DecoderExecution` | the graphs of the decoders and the work of their calls |
| `ExecutorProofs` | `DecoderProofs` | what the execution functions count and charge |

See *Proofs*.

## Runs

Scheduler (`MCScheduler`). The instances have two batches of two requests,
prompts of one to three tokens against a limit of two to four per batch, so
that prompts need several chunks, batches fill, and requests of different
stages meet.

| Run | Shows |
|---|---|
| `sched_closed` | With traced lengths: the queue and the batches stay within `total_batch_size` (`QueueBounded`), a request never gets more tokens than it has left (`NoOvershoot`), its stage flag and its lengths agree (`StageAgrees`), an iteration is within its limits and never stalls (`IterationWork`). The loop is refilled for ever: some request always ends, and every one does if the prompts pause again and again (`AllServed`). |
| `sched_prefill_uneven` | Two batches for three requests, in prefill mode (`MCMemory`): the leftover request waits in the queue, order and exclusiveness of placement still hold (`Placement`), a request that ends with its prompt is reported once, as ended (`ReportedOnce`), and no batch outgrows the memory of a machine that was checked, or cut down, to this batch size (`FitsMemory`). |
| `sched_inject` | Injected arrivals with KV reuse, durations one to three and arrivals on window boundaries: `SlotsCovered`, `LatencyAccounting`, `ArrivalAccounting`, `ReportedOnce`. |
| `sched_disagg` | A prefill machine with its own clock: hand-over times are respected (`HandoverRespected`), and the scheduler implements the life cycle of a request (`KeepsPromises`), in the instance where two machines work on the same requests. |
| `sched_idle`, `sched_decode_output`, `sched_token_limit` | Counterexamples, see *Findings*. |

Graph (`MCDeviceGraph`).

| Run | Shows |
|---|---|
| `graph_moe` | A dense and two mixture-of-experts layers on four devices (attention split over two, experts over four), two iterations: `BarrierSafety`, `SyncTime`, `CleanEnd`, `ClockMonotone`; the counts read are those of the reader's layer and iteration (`FreshCounts`); and every run ends (`Completes`). |

Experts (`MCExperts`).

| Run | Shows |
|---|---|
| `moe_traffic` | Two layers on four devices, attention and experts split over two. The counts of every layer of every iteration are those of the trace and add up (`TraceFollowed`); what arrives is what is computed (`WorkArrives`); sent and received agree (`SentReceived`); the gather returns what the scatter brought (`RoundTrip`); the split between the processors is the best by weight (`SplitOptimal`). |
| `moe_node` | Counterexample, see *Findings*. |

Execution (`MCExecution`).

| Run | Shows |
|---|---|
| `exec` | Four devices, two iterations, twenty-six systems: grouped, latent and absorbed attention, dense and expert feed-forward, GPU, LOGIC and PIM alone and in pairs, lanes, flash attention, near-bank units, ideal and simulated memory, tensor parallel degrees one and two. *The choice:* the fastest processor is kept (`ChosenFastest`) and the processors are compared on the same operations, none of them free on one and not on another (`SameWork`). *The cost:* reported traffic is the traffic handed over (`AccountedTraffic`), tiles leave nothing out (`FlashCovers`), a longer context is never faster (`LongerIsSlower`), and the commands of a transfer, weighed as the code weighs them, stand for all of it (`CommandsStandForAll`). *The charge:* each execution is charged once (`Collected`), a processor in two lanes does one thing at a time (`OneThingAtATime`), equal work costs the same whatever the simulator did before (`DevicesAgree`). *The whole:* the shares of the ranks fit together and make up the work (`WorkSharded`), and the break-down adds up to the iteration and its energy (`BreakDownAccounts`). |
| `exec_gemv` | Counterexample, see *Findings*; the systems of `exec` with a PIM in a simulated memory. |

*Bounds.* `MaxSeqs` (5 to 8 requests) exceeds the slots, so every run refills
batches; in `sched_closed`, where finished requests are forgotten, it cuts nothing
off. `MaxIters = 2` is the smallest number that reaches a restart, and a
restart leaves nothing but `synced`, `exec` and `aggregated`, the first two of
which `CleanEnd` shows to be empty. The loads make the first device of the
sweep late, or the last, with its rank, and differ between the iterations: a barrier
is left by devices that came before the latest and after it. `WarmIters` stands for the 10000 iterations of the source.

In `moe_traffic` a prompt of two
tokens comes whole or in chunks and is followed by one generated token, a new
request follows, and the two batches are at different points: `TraceFollowed`
sees both parts of the trace and the wrap of `cur_layer`. Each expert group has
eight experts, the case in which `getIdxHigh` moves groups; a group of one is
the same code path as `getIdxHighOptimal`.

In `exec` dimensions are two to four and contexts up to six tokens, with rows,
tiles, granules and row buffers (`SharedMem`, `Granul`, `NearBank`) of sizes
that these cross: partial tiles, a transfer of no bundle, a row buffer exactly
full. The batches are prompts only, decode steps only, both, and none; the
prompts of a batch are whole and in chunks; the experts get between no and five
tokens. Two iterations let the cache of times and a status left behind reach the
next one. The time of a simulated transfer depends on the clock of the
simulator, so that agreement of devices is not for free. `IntLimit` is larger
than the sums of the model reach. Ranks, bank groups and banks are those of
`hbm3_80GB`, because `power.h` has factors for them; cubes, channels and rows are
fewer. In `sched_prefill_uneven` the capacities are all those of a range that
leaves memory over, none to spare, and too little. `MCMemory` has one pair of
lengths, the one that the check reads.

*Deadlock* is checked in every scheduler and expert run. It is off in the graph
runs and in `exec`, whose behaviours stop after `MaxIters` calls of
`Cluster::run`; that no device waits for ever is `Completes`.

*Fairness.* `WF_vars(Next)` only: the program is one thread that goes on while
it has a next call. Nothing is assumed about which request or device is chosen,
because the code does not choose: each state has one enabled action up to the
inputs (lengths, durations, loads). `EndlessSpec` has the same fairness, for the next
call or `Forget`, which comes before it. That prompts pause is not assumed of the code; it
is a hypothesis of the second half of `AllServed`.

## Findings

1. *The idle branch adds no time* (`sched_idle`). `cluster.cpp:480` and `:552`
   say "if no reqeusts, add time"; the code assigns 20 ms to a local variable
   and continues. The remaining iterations of the loop see the same state.
2. *Output length 1 in decode mode* (`sched_decode_output`).
   `eval/test.cpp:254-256` refuses an output length of 1 in decode mode, but
   `pushSeq` (`scheduler.cpp:99-101`) shortens the output afterwards.
3. *The token limit of a batch is not applied* (`sched_token_limit`).
   `num_max_batched_token`, "per dp, total" (`scheduler.cpp:6`), enters only
   `process_token` at line 292, which nothing reads.

4. *Nodes of other than 8 devices* (`moe_node`). `communication.cpp:143` and
   `:328` divide the rank of the other device by 8 where everything else
   divides by `num_device`; the branch says "intra node" (line 144). With two
   nodes of two devices the sender counts tokens on the wrong network.

5. *What the MACs of a GEMV read* (`exec_gemv`). With `bandwidth_x` 16,
   `GEMV.cpp:25` sends a MAC for the bundles of one bank in 32, and `power.h:44`
   weighs it as 32. `docs/PIM_ARCHITECTURE.md:116` (and
   `PIM_REQUEST_LIFECYCLE.md:185`) say that every bundle gives a MAC, and
   `PIM_COMMAND_TIMING.md:20` and `:155` that the command it becomes reads 8 banks of
   one rank. By either, MACs that read the whole operand are expected;
   `MACsReachAll` is false. `CommandsStandForAll` takes the weights
   of the code, which are made for the commands the code sends.

Observed while modelling, without a statement in the repository to compare with:
in a closed loop new prompts can follow each other without a pause, since a
request that ends with its prompt frees its slot for the next, and a request in
its generation then never gets a token (`scheduler.cpp:269`): without `Pauses`
TLC refutes the second half of `AllServed`. A device that only sends or only
receives in a transfer is charged nothing (`communication.cpp:166`, `:234`); a
receiver counts one source per data-parallel rank and a sender all destinations,
hence the factor in `SentReceived`; when the devices do not divide the experts
the communication and `ExpertFFN` disagree on who has which (the hypothesis of
`WorkArrives`); the dense layers of deepseekV3 are counted in the layers of a
trace, so with a trace `cur_layer` would drift (the run has `MoELayers =
NumLayer`).

On costs: `AbsorbMLASumExecutionLogic` adds the time of its last write twice and
that of the read before not at all (`attention_sum_impl.cpp:2656`), and
`AbsorbMLAGenExecutionGPU` replaces a sum by its last term
(`attention_gen_impl.cpp:1751`): the field `charged` of a phase.
`AttentionGenExecutionGPU` counts scores only, where LOGIC and PIM count the
context too; batched products on LOGIC and PIM take the number of heads for a
dimension (`linear_impl.cpp:310`): `SameWork` leaves both layers out. The latent
prompt functions of LOGIC and PIM compute with the rates of the GPU
(`attention_sum_impl.cpp:1129`, `:1594`): `AtGPURates`.
`rope.cpp:29` keeps the length of the last request where the comment above it
wants the longest. The
tiles of flash attention are counted from the tokens of the step, not of the
context (`attention_sum_impl.cpp:710`): `FlashCovers` is about prompts that start
their sequence.

On memory: `checkMemorySize` takes one from the batch size before it is divided
by the ranks (`cluster.cpp:281-286`), so with memory for one request per batch
and several ranks nothing is ever admitted. `run_ideal` counts one command too
many when the channels divide the bundles of a cube (`device.cpp:194`). Plain
reads and writes on LOGIC and PIM count both pseudo channels and are weighed for
each (`device.cpp:208-213`): their energy is doubled. A PIM command is weighed as
32 banks (`power.h:44`); with the three ranks of `hbm3e_192GB` it stands for 48.

## Proofs

Every theorem holds for all values of the constants that satisfy the `ASSUME`s of
the component's module; TLC evaluates these on every run. What a theorem needs
beyond them is in its statement.

### Scheduler

`ConfigAssumption` allows any degree, batch size, token limit, mode, arrival trace
and set of durations; prompts are shorter than `max_seq_len`, as `pushSeq` asserts,
and arrivals do not decrease, being partial sums (`scheduler.cpp:501-506`).

Where requests are (`SchedulerProofs`):

* `TypeCorrect`: `Spec => []TypeOK`. `TypeOK` alone is not inductive: that
  `Admit` takes the head of a non-empty queue needs `slots <= Len(sequence_queue)`.
  The invariant is `TypeInv`, their conjunction.
* `PlacementHolds` and `SlotsCoveredHolds`, from one invariant,
  `PlaceInv == TypeInv /\ Placement /\ SlotsCovered /\ BatchSize <= TotalBatch`.
  They need each other: admission adds exactly one to `getBatchSize` because
  the request is younger than everything running (`Placement`), and the queue
  has a request for each slot because `num_empty_seq` was bounded by both the
  queue and the room in the batches. The argument counts pairs of a batch and
  a request (`Placed`), since `getBatchSize` sums over the batches.
* `QueueBoundedHolds`. What `QueueInv` adds is that in a closed loop every request in
  the queue has its slot while `fillRunningQueue` runs. That none is left waiting
  needs a batch with room for each (`RoomLeft`), which is why the property asks
  that the ranks divide `total_batch_size`; otherwise `NoRoom` uses up a slot.

How long they are (`SchedulerProofs`):

* `NoOvershootHolds`, from `LenInv`. The property alone is not inductive: a
  request admitted in the middle of an iteration of a disaggregated system must
  bring no token along (a waiting request has none), and a generating request
  may keep its token over several calls of `setMetadata`, so the sum
  `current_len + num_process_token` has to be bounded and not each call. While
  the prompt lasts the bound is `input_len`, which is what makes the next one
  work: `setMetadata` cuts the share to what is left of the prompt. `EndStep`
  covers the three ends of an iteration at once, for any set of requests that
  one of them updates. The hypothesis `WorkLeft` is about the configuration.
* `StageAgreesHolds`, from `StageInv`, which adds the flag of waiting requests:
  `Sequence::update` tests `current_len != input_len` where `setMetadata` tests
  `<`, and the two agree because no chunk passes `input_len`.

Clocks and reports (`SchedulerProofs`):

* `HandoverRespectedHolds`, from `TimeInv`: a request that has a token to generate was
  handed over in the past of the generating machine, and each hand-over in the past
  of one of the two.
* `IterationWorkHolds`, from `WorkInv`. The property looks at one moment only; it needs
  that a batch never outgrows its share of the requests, so that the division of
  `max_process_token` leaves a token for each; that no token is left over
  from the iteration before; and that on one machine no hand-over lies in the
  future, so that whoever generates may.
* `ArrivalAccountingHolds`, from `ArrivalInv`: the index of the next arrival is the
  number of arrivals before the window that is still to be filled, which is the
  clock or the clock less the last iteration, according to `pc`. So no window is
  counted twice or left out, whatever the durations.
* `LatencyAccountingHolds` (`LatencyInv`) and `ReportedOnceHolds` (`ReportInv`), from
  `RecordInv`: the end of the prompt is seen once, because the flag, the lengths and
  `record` agree. The first says where the time since the arrival of a request is
  kept while it waits, runs and after it ended; the second what has been
  reported of it in each stage. Their hypotheses are in the properties.

The refinement (`SchedulerPromiseProofs`): `KeepsPromisesHolds`,
`WorkLeft => (Spec => KeepsPromises)`. The hypothesis is needed: with the whole
prompt reused in prefill mode a request starts complete, is given tokens
all the same, and never leaves. The steps are taken one by one:
`FillSequenceQueue` maps to `Arrive` for all new requests, `Admit` to `Admit`, the end of an
iteration to `Serve` for the requests that had tokens, the rest to stutters.
`Serve` wants each request served to have *some* work done, at most one token
generated, and its first token at the time the abstract clock shows. That
takes two invariants, because `record` means something else in a configuration
that never prefills: `PromptInv` (`RecordInv` and at most one token for a generating
request) when requests start in their prompt, `NoPromptInv` when all start
at its end; `PromptCases` shows that no configuration mixes the two.

### Memory (`SchedulerPromiseProofs`)

`FitsMemoryHolds`: `WorkLeft => (Spec => []FitsMemory)`, for any machines that satisfy
`MachinesAssumption`: the sizes are natural numbers, the divisors positive, and
`Checked` says what the code does not look at. Requests are within the lengths of the
configuration, which those of a trace need not be; and where absorbed projections make the
cache a latent one although `compressed_kv` is off, a latent row is no larger than the
keys and values it is counted as. `FullBatchFits` is about the check alone: whether it leaves the batch size or cuts it,
`batch_size_per_dp` requests of the longest length fit, although heads, requests and ranks
are divided and truncated one after the other (`HeadsShare`, `CacheCovered`). `CachedBound`
is about the scheduler alone: `BudgetInv` joins the lengths (`LenInv`), the size of a
batch (`WorkInv`) and where the length of a request comes from.

### Graph engine

The engine runs any list of nodes, but for some lists the properties are false: a
barrier on a tensor that is ready from the start holds nobody back. What the
graphs of the decoders have in common is `DecoderGraphs`, an assumption in
`DeviceGraph` with seven parts. A synchronising node waits for the output of exactly one
node before it (`ProducedOnce`) and comes right after the module that makes it, or
after another meeting of the same devices (`MetOnce`); two such nodes on the same
tensor have a barrier between them (`KeptApart`); a duration is taken by the next
pop (`TakenAtOnce`); between the gate that writes the expert counts and their use,
and between the use and the next gate, there is a barrier (`CountsGuarded`); a lane is
entered from a call that joined the lanes (`LanesGuarded`); a device makes itself what it
needs outside of meetings (`MadeBefore`). Each holds because of how the constructors of
`module/` put the calls together, whatever the number of layers, devices and
degrees; TLC evaluates all seven on the graph `ModelGraph` builds for the run.

* `GraphTypeCorrect`: `TypeOK` is inductive, including that a device has one stamp for
  each node it has passed or waits at.
* `BarrierSafetyHolds`, from `BarrierInv == TypeOK /\ ReadyExact /\ BarrierSafety`: a tensor
  that a barrier waits for is ready only on devices that have passed its
  producer *in this iteration*. The restart keeps that because it clears the flags
  of everything a node makes.
* `FreshCountsHolds`, from `CountsInv`: the counts are those of the last gate rank 0 has
  passed. `BehindMeans` turns the barriers of `CountsGuarded` into positions of
  other devices.
* `CleanEndHolds`, from `CleanInv`. The strengthening is an equality, `MarksExact`: a
  device has the mark of a tensor exactly when some member of its group has passed
  a node that it has still to pass. Two nodes on one tensor would break it, hence
  `KeptApart`.
* `ClockMonotoneHolds`, from `LaneInv`: setting the device clock to that of a lane
  loses no time only if no time was spent outside the lanes; a device in or before a
  lane is `Level`, and no synchronisation reaches it there.
* `SyncTimeHolds`, from `TimeInv`. The first device to pass sets the
  clocks of the others to the latest of them, and that is the latest *arrival* only if all were
  already stamped there (`Gathered`), which in turn needs that a device runs on
  until it waits (`Turns`) and finds ready what it made itself (`OwnReady`).
  Three more parts follow the time of the meeting through the clocks of the devices that leave it,
  one after the other, to the stamps they write.

### Experts

For any number of nodes, devices and experts, any degrees and any trace:

* `ExpertTypeCorrect`; the shares of `setMetadata` fit the requests.
* `TraceFollowedHolds`, under `EveryLayerTraced` (`MoELayers = NumLayer`; with a trace the
  property is false otherwise, see *Findings*), from `TraceInv`. It rests on
  `ListedRow`, the transposition of the prompt in `initExpertList`, and on `OwnLayer`: the
  counter of a batch, never reset, is the layer of the gate to come.
* `RoundTripHolds`, from `CountInv`: a device between its scatter and its gather would
  scatter the same again (`ScatterKept`), because devices are at most one stage
  apart (`Close`), so that no gate runs meanwhile.
* `WorkArrivesHolds` and `SentReceivedHolds` are double counting: the same pairs of a
  batch and a device are added up by sender and by receiver (`SumExchange`), and
  `NeTp` devices hold each batch (`SumFibers`, `BatchDevices`).
* `SplitOptimalHolds`. The loop of `getIdxHigh` stops at the first group that does not
  shorten the time. As groups move, the time of the high processor never falls
  and that of the low one falls, strictly, because no group is empty and no expert is
  free (`SplitValley`); so a time that does not fall is that of the high processor, and
  all later ones are no shorter (`BestSplit`). `SortedOrder` shows that ranking by weight
  gives each group one place, `DeviceGroups` that the groups are disjoint.

Induction over a set (a sum, a greatest element) is done in `FiniteSetFacts`
by the well-foundedness of the strict subset order, once, in `SubsetInduction`; the
laws of sums follow from `SumIs`, which says what a sum is without its recursion.

### Execution

For any systems, any graphs and any cost functions that satisfy two assumptions on
`Calls` and `Phases`. `CallsAssumption`: sizes, operations and times are natural numbers,
what a phase charges is among the transfers it issues, and a call waits for itself
alone, for its `ne_tp_dg` group or for all devices, which have a call with the same
group there. `LanesAssumption`: a call in a lane follows no call that charges the
device alone. The cost functions compute in
`int`, so that the first is a fact about the sizes of a model and not about the
functions; TLC evaluates both on the graphs and costs of all the systems of
`MCExecution`. What Ramulator does is left open, but that it returns a time
(`RamulatorTimes`) and, where a theorem says so, that this time is not zero for a transfer
of some bytes (`RamulatorTakesTime`: `DRAMInterface::run`, `dram_interface.cpp:94`, ticks
the memory system before it asks whether it is finished).

* `CollectedHolds`, from `CountInv`: `exec_status` is empty except on the device
  whose turn it is, between `Deliver` and `Pop`. So nothing is there for a call
  of another device, or of the next iteration, to take.
* `ExecutionTypes`, from `PlaceInv` (where each device is in its graph, what is left of
  the loop over processors) and `TypeInv`. `RunRamulator` is a fold over the
  transfers of all phases that carries the cache, the clock of the simulator and
  the times so far; `DramStates` is what the fold keeps. That a stamp has a
  natural number of commands needs that the sums only grow between push and pop.
* `DevicesAgreeHolds`. A simulated time depends on the state of a simulator, so two
  executions of the same call may issue different transfers and still have to
  agree. `BoardsInv` says that everything delivered so far, in this iteration or in
  a past one, is what the cache makes of the same calls *now*: an execution
  leaves all its transfers in the cache, and entries are never overwritten, so later
  growth changes no result. `ClockInv` carries that to the status boards: two devices of a
  group with equal work left their last common wait with the same clocks, and have
  since done the same to them.
* `OneThingAtATimeHolds`, from `LaneInv`: outside a lane all that was charged to
  one processor is within the latest clock; a call in a lane finds the time of each
  processor within the clock of its own lane (`Apart`), since `set_push_status` of
  the call before joined the clocks. A charge to the device alone breaks that until
  the next join, which is why `LanesAssumption` is needed.
* `ChosenFastestHolds`, from `ChoiceInv`, for behaviours in which `ZeroTogether` holds:
  work that takes no time on one processor takes none on the others. Otherwise the
  zero is taken for "none tried yet" and the next processor is kept instead
  (`executor.cpp:148`). `FastestOfCodeHolds`, below, shows that the cost functions of the
  code satisfy it.

The witnesses in `BoardsInv` and `ClockInv` range over all boards, so that TLC
cannot evaluate them; the other invariants hold in every state of `exec`.

### Decoders and the executor

The theorems of `DecoderProofs` and `ExecutorProofs` are about the graphs and the functions
of the code, for any number of systems with any sizes. `DecoderExecution` names what they assume:

* `SystemsAssumption`: the sizes of a model are positive, a model with latent attention has
  all its dimensions, the degrees of tensor parallelism divide what `parallel.cpp` asserts
  that they divide, and a batch is one that `setMetadata` can leave (its decode steps have a token
  each, or none of them has).
* `CodeAssumption`: the parameters `Calls` and `Phases` of `Execution` are `Graph` and
  `ExecutionPhases`, wherever a property looks.
* `IntsFit`: rows, columns and inner dimension of one head of a prompt multiply to a number
  that an `int` holds. LOGIC and PIM compute it as one, the GPU as a `double`; beyond the limit
  the shares no longer add up and the processors are not compared on the same work.
* `TilesAssumption`: the shared memory holds four rows of a head, without which the code
  divides by a tile of no rows.

TLC evaluates them on the systems of `exec`. From behaviours the proofs use that `turn` is at a call
of the graph of its device and that what is left to try are processors of that call (`PlaceInv`).

* `WorkShardedHolds`. The graph of a rank and the whole one are built side by side:
  `Pair(c, a, b)` says that two sequences of calls have the same length and go together call
  by call (`Matched`), the share of the one being a divisor of the other, with tensors at their ends
  that agree (`Alike`). Each module has a lemma that says how it continues
  a `Pair`, down to the projections; the absorbed and the latent path are different sequences of
  them. Then each execution function has one that says what it multiplies the operations with.
  A product in `int` is exact by `IntsFit` (`ExactIs`), the quotient of two heads and degrees loses
  nothing (`Shardable`). It is here that the `CASE` of `GenSoftmaxPIM` turned out to have guards that overlap:
  it stands for an `if` and an `else if`, and its second guard now says so.
* `FlashCoversHolds`: a sum over tiles is at least the sum over rows and columns, because
  `CeilDiv` covers what it divides, for each sequence of the batch.
* `AccountedTrafficHolds`: per function, the bytes of a phase are the sizes of its transfers times
  the precision (`Accounts`), and a list of such phases is one (`AllAccount`).
* `LongerIsSlowerHolds`: per function and processor, one token less of context leaves
  all operations, bytes and transfers of a phase at most as large (`NoSlower`), and the
  time of a phase, which is the greater of two or the sum of charged transfers, rises with them (`Rises`).
  On LOGIC and PIM the context is rounded up to four, on the near-bank unit to full row
  buffers, and times are quotients: all monotone, which is what the lemmas on `CeilDiv` and
  `div` are for.
* `SameWorkHolds`, in two parts. The operations: `SameAttentionWork` and `LinearFlops` sum the
  phases of each of the three functions to one expression in the batch and the dimensions. The zero:
  `WhenNeeded` says, per function, that there are no phases at all when there is nothing to do
  (no tokens of the kind, or an empty input), and that otherwise one of them is `Worked`:
  it has operations enough for the clock not to round them away, or moves bytes that the memory
  model charges. It holds for the columns that an earlier processor left in the
  `LayerInfo` too (`Infos`). A `Worked` phase takes time in the ideal model
  (`WorkedRuns`) and from the cache (`WorkedTakes`), because no cached time of some bytes
  is zero (`Timed`, a part of `TypeInv`). `ZeroInv` says that of all the processors tried
  so far for a call. `FastestOfCodeHolds` puts it into `ChosenFastestHolds`: with the code's cost
  functions the executor keeps the fastest processor, without a hypothesis on the costs.
* `CommandsHold` (`CommandsStandForAll`), for any number of cubes, rows, columns, ranks, any even number of
  channels and any size of a transfer, under three hypotheses that hold in every state of `exec`.
  `SpreadEvenly`: an even number of channels and four bank groups of four banks, as in both configurations of
  `memory_config.h`, as many cubes on either map and `pim_x` 16, as in all of `hardware_config.h`;
  the weights 8, 16 and 32 in the code are made for it. `TransfersFit`: what LOGIC transfers is not larger than the memory, because its map
  takes the rank modulo the ranks and drops the rest. `RanksWeighed`: a GEMV of PIM is issued in a memory of two
  ranks. *The residues:* a field of an address is a quotient modulo a size (`FieldsAre`), so
  that the kernels' conditions on fields are conditions on the bundle's number modulo the product
  of sizes (`FirstChannelIs`, `FirstBanksAre`, from `MixedRadix`). *The count:* the pairs
  of a start and a bundle whose command is sent are counted twice, by starts and by bundles (`DoubleCount`);
  each bundle is in the first channel, or bank, for the same number of starts, and that number times the weight is
  the number of starts (`WeighsAll`). *The places:* on either map two bundles have two places
  (`PlainApart`, `LogicApart`). *The ideal model:* `IdealCount` compares its quotient with the number of
  multiples below the size. That the GPU issues no GEMV is `GPUPlain`, function by function.

  The third hypothesis is needed. With `NumRank = 3`, as in `hbm3e_192GB`, which
  `device.cpp:52` chooses for B100 and B200, TLC refutes `CommandsStandForAll` for a GEMV of PIM: one command
  stands for the same bank in all bank groups and ranks, 48 of them, and `power.h:44` weighs it as 32.

### Only model-checked

* Liveness (`AllServed`, `Completes`): out of the prover's reach.
* `BreakDownAccounts`: that the categories add up is a statement about the names of the modules on
  each path of a graph, and about stamps that follow one another without a gap.
* That `DecoderGraphs`, `CallsAssumption` and `LanesAssumption` hold for every model
  is not proved; TLC evaluates them for those that are run.

## Not modelled

* **Ramulator 2** is a submodule and not in the repository. `Ramulator` is any
  function of the simulator's clock and the transfer; the counts it returns
  (`updateStatus`) are not modelled.
* **Floating point.** Times, flops and bytes are integers. The conversion of
  communication to latency, utilisations, energies per command and the operations
  per byte are left out; the break-down of energy is in commands.
* **Dead code.** `SelfAttentionMixed` is constructed nowhere, and with it
  `attention_mixed_impl.cpp` is never called; nor are `checkHeteroMemorySize`,
  `vecToAddrLOGIC` and `setLOGIC`.
* **Output.** CSV, Gantt chart, printed trees, the report of the cache
  quantisation, the split of a duration into its phases.
* **Input.** YAML configuration and the random generation of arrival times and
  expert choices: arrivals are any finite trace, choices any set.
* **Drivers and tools.** `eval/` calls `Cluster`; its assertions and the
  combinations it accepts are in the instances. `tools/` reads the CSV files.

The scheduler with the execution times of its batches is not composed: durations
of an iteration are any of `Durations`. `PROJECT.json` lists each component with
its status.

## Plan

1. `Scheduler`, `DeviceGraph`, `ModelGraph` with their runs. *Done.*
2. `Experts` with its runs. *Done.* Left of it: latencies as integers, and the
   composition with `DeviceGraph` in place of `Met`.
3. The executor's choice of a processor, the cache of simulated times, the status
   between execution and pop. *Done* (`Execution`).
4. The stamps and `setTimeBreakDown`. *Done* (`TimeBoard`).
5. `checkMemorySize`, address maps and kernels. *Done* (`MemoryCheck`, `DramMap`).
6. A request's life cycle refined by `Scheduler`. *Done.* Left: a barrier on
   clocks refined by `DeviceGraph`.
7. The shapes and costs of attention, linear and activation. *Done*
   (`LayerGraph`, the cost modules).
8. Proofs. Every safety property of `Scheduler`, `DeviceGraph` and `Experts` that a
   passing run checks, the refinement `KeepsPromises` included, those of `Execution`
   about behaviours, those about the graphs and the cost functions of the decoders,
   and those of the memory's commands. *Done.* Left: `BreakDownAccounts` from what it needs
   of the paths of a graph; `DecoderGraphs` for every model of `ModelGraph`.
9. `Scheduler` with `Execution`: what the iteration drops when ranks end at
   different times (`cluster.cpp:478`).
