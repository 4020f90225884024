---------------------------- MODULE DeviceGraph ----------------------------
(***************************************************************************)
(* Execution of the module graph by the devices of a cluster               *)
(* (src/src/module/module_graph.cpp, driven by Cluster::run).              *)
(*                                                                         *)
(* Every device holds the same list of nodes: a push node per call of a    *)
(* module, a pop node when the call returns.  One thread visits the        *)
(* devices in rank order, sweep after sweep; a device runs until a node    *)
(* that synchronises with other devices is not ready.  Time is not the     *)
(* order of execution: each device has clocks of its own, which a          *)
(* synchronisation sets to the latest of the group.                        *)
(***************************************************************************)
EXTENDS Integers, Sequences, FiniteSets, FiniteSetsExt

CONSTANTS
  NumDevices,   \* num_total_device
  Graph,        \* the nodes, the same on every device (see Node)
  Loads,        \* the loads an iteration may put on a device (see Load)
  MaxIters      \* MODEL BOUND: calls of Cluster::run

Devices == 0 .. NumDevices - 1
Ends    == Len(Graph) + 1

(* A node:                                                                 *)
(*   pop     it closes a call                                              *)
(*   exec    module->execution(): the module's forward runs                *)
(*   group   0, or module->sync with the devices of this many ranks        *)
(*   vec     the input is a vector of tensors                              *)
(*   in, out <<layer, name>> of the input and output tensors               *)
(*   work    what forward does                                             *)
(*   expert  0, or the expert whose tensors it reads                       *)
(*   layer   the layer it belongs to                                       *)
Node ==
  [pop : BOOLEAN, exec : BOOLEAN, group : 0 .. NumDevices, vec : BOOLEAN,
   in : Nat \X STRING, out : Nat \X STRING, work : STRING, expert : Nat, layer : Nat]

\* What an iteration's batch makes of a device: the durations of its kinds of
\* work, and the experts it runs on the high processor.
Load == [attention : Nat, expert : Nat, comm : Nat, reduce : Nat, high : SUBSET Nat]

ASSUME GraphAssumption ==
  /\ NumDevices \in Nat \ {0}
  /\ Graph \in Seq(Node) /\ Graph # << >>
  /\ Loads \subseteq [Devices -> Load] /\ Loads # {}
  /\ MaxIters \in Nat \ {0}

Tensors == { Graph[k].in : k \in DOMAIN Graph } \cup { Graph[k].out : k \in DOMAIN Graph }

VARIABLES
  iter,        \* calls of Cluster::run so far
  turn,        \* the device that runs; NumDevices between two sweeps
  load,        \* of each device, in this iteration
  cur,         \* current_module of each device
  stamped,     \* is its current node stamped
  ready,       \* names of the ready tensors of each device
  synced,      \* names of those with timeboard_synced set
  clock,       \* device_time, high_time and low_time of each device
  exec,        \* duration in exec_status, not yet taken by a pop node
  timeboard,   \* device_time at each stamp, in order
  aggregated   \* the <<iteration, layer>> of the last GateUpdate of rank 0

vars == << iter, turn, load, cur, stamped, ready, synced, clock, exec, timeboard,
           aggregated >>

NodeOf(d) == Graph[cur[d]]
Running(d) == cur[d] < Ends

\* The devices of a module's device_list: aligned blocks of `group` ranks.
DeviceBlock(d, group) == { e \in Devices : e \div group = d \div group }
Group(d, k) == DeviceBlock(d, Graph[k].group)

ZeroClock == [device |-> 0, high |-> 0, low |-> 0]
Frontier(c) == Max({c.device, c.high, c.low})

Init ==
  /\ iter = 1
  /\ turn = 0
  /\ load \in Loads
  /\ cur = [d \in Devices |-> 1]
  /\ stamped = [d \in Devices |-> FALSE]
  /\ ready = [d \in Devices |-> { Graph[1].in }]
  /\ synced = [d \in Devices |-> {}]
  /\ clock = [d \in Devices |-> ZeroClock]
  /\ exec = [d \in Devices |-> 0]
  /\ timeboard = [d \in Devices |-> << >>]
  /\ aggregated = << 0, 0 >>

---------------------------------------------------------------------------
(* Stamps.  set_stamp runs before the node does, once.                     *)

\* The lane of a parallel tensor; "none" when execution is not parallel.
Lane(d) ==
  IF NodeOf(d).expert = 0 \/ NodeOf(d).vec THEN "none"
  ELSE IF NodeOf(d).expert \in load[d].high THEN "high" ELSE "low"

\* set_push_status.
JoinLanes(c) == [device |-> Max({c.high, c.low}), high |-> Max({c.high, c.low}), low |-> Max({c.high, c.low})]   \* mutant
Joined(c) == [device |-> Frontier(c), high |-> Frontier(c), low |-> Frontier(c)]
PushClock(d) ==
  CASE Lane(d) = "high" -> [clock[d] EXCEPT !.device = clock[d].high]
    [] Lane(d) = "low"  -> [clock[d] EXCEPT !.device = clock[d].low]
    [] OTHER            -> Joined(clock[d])

\* set_pop_status: the duration of the module goes to the lane that ran it.
PopClock(d) ==
  CASE Lane(d) = "high" -> [clock[d] EXCEPT !.high = @ + exec[d],
                                            !.device = clock[d].high + exec[d]]
    [] Lane(d) = "low"  -> [clock[d] EXCEPT !.low = @ + exec[d],
                                            !.device = clock[d].low + exec[d]]
    [] OTHER            -> [clock[d] EXCEPT !.device = @ + exec[d]]

AlwaysStamps(d) == TRUE   \* mutant: a node is stamped again at each attempt
Stamps(d) == ~stamped[d]
StampClock(d) ==
  IF ~Stamps(d) THEN clock[d]
  ELSE IF NodeOf(d).pop THEN PopClock(d) ELSE PushClock(d)
StampExec(d) == IF Stamps(d) /\ NodeOf(d).pop THEN 0 ELSE exec[d]
StampBoard(d) ==
  IF Stamps(d) THEN Append(timeboard[d], StampClock(d).device) ELSE timeboard[d]

(* Readiness and synchronisation: check_ready and sync_devices.            *)

Executes(d) == NodeOf(d).exec /\ ~NodeOf(d).pop
Syncs(d) == Executes(d) /\ NodeOf(d).group # 0

ReadyHere(d) ==   \* mutant: the dependencies on other devices are not looked at
  NodeOf(d).vec \/ NodeOf(d).in \in ready[d]
check_ready(d) ==
  IF NodeOf(d).group # 0
  THEN \A e \in Group(d, cur[d]) : NodeOf(d).in \in ready[e]
  ELSE NodeOf(d).vec \/ NodeOf(d).in \in ready[d]

CanRun(d) == Executes(d) => check_ready(d)

\* The first of the group to find every tensor ready sets the device_time of all
\* to the latest, and leaves a mark for the others; each clears its own.
Late(d) == NodeOf(d).in \notin synced[d]

SyncedClocks(d) ==
  LET stampedClock == [clock EXCEPT ![d] = StampClock(d)]
      group == Group(d, cur[d])
      time == Max({ stampedClock[e].device : e \in group })
  IN IF Syncs(d) /\ Late(d)
     THEN [e \in Devices |-> IF e \in group THEN [stampedClock[e] EXCEPT !.device = time]
                                            ELSE stampedClock[e]]
     ELSE stampedClock

MarksKept(d) ==   \* mutant: the device that was waited for is not cleared
  IF ~Syncs(d) THEN synced
  ELSE IF Late(d) THEN [e \in Devices |->
                          IF e \in Group(d, cur[d]) THEN synced[e] \cup { NodeOf(d).in }
                                                    ELSE synced[e]]
  ELSE [synced EXCEPT ![d] = @ \ { NodeOf(d).in }]
MarksOwnOnly(d) ==   \* mutant: the others are not marked
  IF Syncs(d) THEN [synced EXCEPT ![d] = @ \ { NodeOf(d).in }] ELSE synced
Marks(d) ==
  IF ~Syncs(d) THEN synced
  ELSE [e \in Devices |->
          IF e = d THEN synced[e] \ { NodeOf(d).in }
          ELSE IF Late(d) /\ e \in Group(d, cur[d]) THEN synced[e] \cup { NodeOf(d).in }
          ELSE synced[e]]

---------------------------------------------------------------------------
(* What the forward of a module does to its device.                        *)

\* Time added to device_time at once; the lanes take it at the next join.
CommTime(d, k) ==
  CASE Graph[k].work = "reduce"                -> load[d].reduce
    [] Graph[k].work \in {"scatter", "gather"} -> load[d].comm
    [] OTHER                                   -> 0

\* The duration that setExecStatus leaves for the pop node.
ExecTime(d, status) ==
  CASE NodeOf(d).work = "attention" -> load[d].attention
    [] NodeOf(d).work = "expert"    -> load[d].expert
    [] OTHER                        -> status

\* Sync__Set::forward.
ForwardClock(d, c) ==
  IF NodeOf(d).work = "set" THEN Joined(c) ELSE [c EXCEPT !.device = @ + CommTime(d, cur[d])]

\* GateUpdate::aggregate_expert, on rank 0 only.
Aggregates(d) == NodeOf(d).work = "gate" /\ d = 0

\* TopModuleGraph::run, one node: stamp it, run it, go to the next.
RunNode(d) ==
  /\ turn = d /\ Running(d)
  /\ CanRun(d)
  /\ cur' = [cur EXCEPT ![d] = @ + 1]
  /\ stamped' = [stamped EXCEPT ![d] = FALSE]
  /\ timeboard' = [timeboard EXCEPT ![d] = StampBoard(d)]
  /\ synced' = Marks(d)
  /\ IF Executes(d)
     THEN /\ clock' = [SyncedClocks(d) EXCEPT ![d] = ForwardClock(d, @)]
          /\ exec' = [exec EXCEPT ![d] = ExecTime(d, StampExec(d))]
          /\ ready' = [ready EXCEPT ![d] = @ \cup { NodeOf(d).out }]
          /\ aggregated' = IF Aggregates(d) THEN << iter, NodeOf(d).layer >> ELSE aggregated
     ELSE /\ clock' = [clock EXCEPT ![d] = StampClock(d)]
          /\ exec' = [exec EXCEPT ![d] = StampExec(d)]
          /\ UNCHANGED << ready, aggregated >>
  /\ UNCHANGED << iter, turn, load >>

\* The node is stamped but not ready: the next device runs.
Block(d) ==
  /\ turn = d /\ Running(d)
  /\ ~CanRun(d)
  /\ stamped' = [stamped EXCEPT ![d] = TRUE]
  /\ timeboard' = [timeboard EXCEPT ![d] = StampBoard(d)]
  /\ clock' = [clock EXCEPT ![d] = StampClock(d)]
  /\ exec' = [exec EXCEPT ![d] = StampExec(d)]
  /\ turn' = turn + 1
  /\ UNCHANGED << iter, load, cur, ready, synced, aggregated >>

\* Nothing left on this device.
Finished(d) ==
  /\ turn = d /\ ~Running(d)
  /\ turn' = turn + 1
  /\ UNCHANGED << iter, load, cur, stamped, ready, synced, clock, exec, timeboard, aggregated >>

AllDone == \A d \in Devices : ~Running(d)

\* check_module_graph_remain, between two sweeps.
Sweep ==
  /\ turn = NumDevices /\ ~AllDone
  /\ turn' = 0
  /\ UNCHANGED << iter, load, cur, stamped, ready, synced, clock, exec, timeboard, aggregated >>

\* The next Cluster::run: restartModuleGraph resets the position, the stamps,
\* the ready flags, the clocks and the timeboard; not timeboard_synced, nor
\* exec_status, nor the expert counts.
StaleTensors == ready   \* mutant: unset_tensor is not called
NoTensors == [d \in Devices |-> {}]   \* mutant: set_ready is not called
FreshTensors == [d \in Devices |-> { Graph[1].in }]

Restart ==
  /\ turn = NumDevices /\ AllDone
  /\ iter < MaxIters
  /\ iter' = iter + 1
  /\ turn' = 0
  /\ load' \in Loads
  /\ cur' = [d \in Devices |-> 1]
  /\ stamped' = [d \in Devices |-> FALSE]
  /\ ready' = FreshTensors
  /\ clock' = [d \in Devices |-> ZeroClock]
  /\ timeboard' = [d \in Devices |-> << >>]
  /\ UNCHANGED << synced, exec, aggregated >>

Next ==
  \/ \E d \in Devices : RunNode(d) \/ Block(d) \/ Finished(d)
  \/ Sweep \/ Restart

Spec == Init /\ [][Next]_vars

\* Cluster::run keeps sweeping while a node remains.
FairSpec == Spec /\ WF_vars(Next)

---------------------------------------------------------------------------
(* Properties.                                                             *)

TypeOK ==
  /\ iter \in 1 .. MaxIters
  /\ turn \in 0 .. NumDevices
  /\ load \in [Devices -> Load]
  /\ cur \in [Devices -> 1 .. Ends]
  /\ stamped \in [Devices -> BOOLEAN]
  /\ ready \in [Devices -> SUBSET Tensors]
  /\ synced \in [Devices -> SUBSET Tensors]
  /\ clock \in [Devices -> [device : Nat, high : Nat, low : Nat]]
  /\ exec \in [Devices -> Nat]
  /\ timeboard \in [Devices -> Seq(Nat)]
  /\ \A d \in Devices : Len(timeboard[d]) = cur[d] - 1 + (IF stamped[d] THEN 1 ELSE 0)
  /\ aggregated \in Nat \X Nat

SyncNodes == { k \in DOMAIN Graph : Graph[k].exec /\ ~Graph[k].pop /\ Graph[k].group # 0 }

\* The last node before k whose forward makes its input ready.
Producer ==
  [k \in SyncNodes |->
     Max({ j \in 1 .. k - 1 : Graph[j].exec /\ ~Graph[j].pop /\ Graph[j].out = Graph[k].in })]

\* No device passes a synchronising node before every device of its group has
\* computed, in this iteration, the tensor the node waits for: a tensor left
\* ready by an earlier iteration must not let it through.
BarrierSafety ==
  \A k \in SyncNodes, d \in Devices :
    cur[d] > k => \A e \in Group(d, k) : cur[e] > Producer[k]

\* A device leaves a synchronising node at the latest of the group's arrival
\* times, plus its own communication: also a device that passes after another
\* one has gone on and spent time, so that a communication is not counted twice.
\* The times are those of the time stamps the simulator reports.
SyncTime ==
  \A k \in SyncNodes, d \in Devices :
    LET group == Group(d, k) IN
    Len(timeboard[d]) > k /\ (\A e \in group : Len(timeboard[e]) >= k) =>
      timeboard[d][k + 1] = Max({ timeboard[e][k] : e \in group }) + CommTime(d, k)

\* Cluster::run leaves nothing behind that the next restart does not reset: no
\* timeboard_synced mark, which would make a device skip a synchronisation of
\* the next iteration, and no duration, which would be charged to its first module.
CleanEnd == AllDone => \A d \in Devices : synced[d] = {} /\ exec[d] = 0

\* The expert counts are written by rank 0 for all devices.  Every device that
\* uses them (MoEScatter, Route, MoEGather) sees those of its own layer and
\* iteration: rank 0 has written them, and has not reached the next layer's.
FreshCounts ==
  [][\A d \in Devices :
       /\ iter' = iter /\ cur'[d] # cur[d]
       /\ Executes(d) /\ NodeOf(d).work \in {"scatter", "route", "gather"}
       => aggregated = << iter, NodeOf(d).layer >>]_vars

\* Time already spent is never lost: neither a join of the lanes, nor a module
\* that goes on in one lane, nor a synchronisation moves the latest of a device's
\* three clocks back.
ClockMonotone ==
  [][\A d \in Devices : iter' = iter => Frontier(clock'[d]) >= Frontier(clock[d])]_vars

\* The devices never wait for each other for ever: every Cluster::run ends.
Completes == ~AllDone ~> AllDone
---------------------------------------------------------------------------
(* What the graphs of the decoders have in common.  The engine runs any    *)
(* graph, but the properties above fail for some that have not this.       *)

Forwards(k) == Graph[k].exec /\ ~Graph[k].pop

\* What a synchronising node waits for is the output of one node before it, and is
\* not ready from the start.
ProducedOnce(k) ==
  /\ Graph[k].in # Graph[1].in
  /\ \E j \in 1 .. k - 1 :
       /\ Forwards(j) /\ Graph[j].out = Graph[k].in
       /\ \A i \in DOMAIN Graph : Forwards(i) /\ Graph[i].out = Graph[k].in => i = j

\* A barrier lets d pass k only when e has passed j.
Behind(d, e, j, k) ==
  \E m \in SyncNodes : m <= k /\ j <= Producer[m] /\ e \in Group(d, m)

\* Two nodes that wait for the same tensor are kept apart.
KeptApart(j, k) ==
  Graph[j].in = Graph[k].in => \A d \in Devices : \A e \in Group(d, k) : Behind(d, e, j, k)

\* The duration of a module is taken by its own pop.
Timed(k) == Forwards(k) /\ Graph[k].work \in {"attention", "expert"}
TakenAtOnce(k) == Timed(k) => k + 1 \in DOMAIN Graph /\ Graph[k + 1].pop

\* Between a node that uses the counts of the experts and the gate that wrote them
\* there is a barrier for rank 0, and one for the others before the next gate.
Gate(k) == Forwards(k) /\ Graph[k].work = "gate"
UsesCounts(k) == Forwards(k) /\ Graph[k].work \in {"scatter", "route", "gather"}
CountsGuarded(k) ==
  UsesCounts(k) =>
    /\ \E g \in 1 .. k - 1 : /\ Gate(g) /\ Graph[g].layer = Graph[k].layer
                             /\ \A h \in g + 1 .. k - 1 : ~Gate(h)
                             /\ \A d \in Devices : Behind(d, 0, g, k)
    /\ \A h \in DOMAIN Graph : h > k /\ Gate(h) => \A d \in Devices : Behind(0, d, k, h)

\* A lane is entered from a call that joined the lanes and took no time, by devices
\* that no later synchronisation reaches before they have left it.
Laned(k) == Graph[k].expert # 0 /\ ~Graph[k].vec
TakesTime(k) == Graph[k].work \in {"attention", "expert", "reduce", "scatter", "gather"}
JoinsOnly(k) ==
  /\ ~Graph[k].pop /\ ~Laned(k) /\ ~TakesTime(k) /\ Graph[k].group = 0
  /\ Graph[k].exec => Graph[k].vec
LevelAt(k) ==
  Laned(k) \/ (Graph[k].pop /\ k + 1 \in DOMAIN Graph /\ Laned(k + 1))
LanesGuarded(k) ==
  /\ Laned(k) => /\ Graph[k].group = 0
                 /\ Graph[k].work \notin {"reduce", "scatter", "gather"}
                 /\ k = 1 \/ Laned(k - 1) \/ (k > 2 /\ Graph[k - 1].pop /\ JoinsOnly(k - 2))
  /\ LevelAt(k) => \A m \in SyncNodes : k < m =>
                     \A d \in Devices : \A e \in Group(d, m) : Behind(d, e, k, m)

\* A device waits for others only: it has made itself what else it needs.
MadeBefore(k) ==
  Forwards(k) /\ Graph[k].group = 0 /\ ~Graph[k].vec =>
    \/ Graph[k].in = Graph[1].in
    \/ \E j \in 1 .. k - 1 : Forwards(j) /\ Graph[j].out = Graph[k].in

\* A synchronising node waits for the module called just before it, or comes right
\* after such a node of the same devices, which takes no time.
MeetsAt(k) == Producer[k] = k - 2 /\ Graph[k - 1].pop
FollowsAt(b) ==
  /\ b \in SyncNodes /\ MeetsAt(b) /\ ~TakesTime(b)
  /\ Graph[b + 2].pop /\ ~Laned(b + 2)
  /\ \A d \in Devices : Group(d, b + 3) \subseteq Group(d, b)
MetOnce(k) ==
  /\ k + 1 \in DOMAIN Graph /\ Graph[k + 1].pop /\ ~Laned(k + 1)
  /\ Graph[k].work # "set" /\ ~Timed(k)
  /\ MeetsAt(k) \/ FollowsAt(k - 3)

ASSUME DecoderGraphs ==
  /\ \A k \in SyncNodes : ProducedOnce(k) /\ MetOnce(k)
  /\ \A j, k \in SyncNodes : j < k => KeptApart(j, k)
  /\ \A k \in DOMAIN Graph : /\ TakenAtOnce(k) /\ CountsGuarded(k)
                           /\ LanesGuarded(k) /\ MadeBefore(k)
=============================================================================
