-------------------------- MODULE DeviceGraphProofs --------------------------
(***************************************************************************)
(* Theorems about the execution of a module graph, for every number of     *)
(* devices, every load and every graph that has what those of the decoders *)
(* have in common.                                                         *)
(***************************************************************************)
EXTENDS DeviceGraph, FiniteSetFacts

---------------------------------------------------------------------------
(* Graphs.                                                                 *)

LEMMA DevicesFinite ==
  /\ IsFiniteSet(Devices) /\ Devices \subseteq Nat /\ NumDevices \in Nat \ {0}
  /\ Len(Graph) \in Nat \ {0} /\ DOMAIN Graph = 1 .. Len(Graph) /\ Ends = Len(Graph) + 1
<1>1. NumDevices \in Nat \ {0} /\ Graph \in Seq(Node) /\ Graph # << >>
  BY GraphAssumption
<1>2. 0 \in Int /\ NumDevices - 1 \in Int
  BY <1>1
<1>3. IsFiniteSet(Devices)
  BY <1>2, FS_Interval DEF Devices
<1> QED BY <1>1, <1>3 DEF Devices, Ends

LEMMA NodeType ==
  ASSUME NEW k \in DOMAIN Graph
  PROVE  /\ Graph[k] \in Node
         /\ Graph[k].pop \in BOOLEAN /\ Graph[k].exec \in BOOLEAN /\ Graph[k].vec \in BOOLEAN
         /\ Graph[k].group \in 0 .. NumDevices /\ Graph[k].expert \in Nat
         /\ Graph[k].layer \in Nat
         /\ Graph[k].in \in Tensors /\ Graph[k].out \in Tensors
<1>1. Graph[k] \in Node
  BY GraphAssumption
<1> QED BY <1>1 DEF Node, Tensors

\* A device is in its own group, and groups are symmetric.
LEMMA GroupOf ==
  ASSUME NEW d \in Devices, NEW k \in DOMAIN Graph
  PROVE  /\ Group(d, k) \subseteq Devices /\ d \in Group(d, k)
         /\ IsFiniteSet(Group(d, k)) /\ Group(d, k) # {}
         /\ \A e \in Group(d, k) : d \in Group(e, k) /\ Group(e, k) = Group(d, k)
<1>1. Group(d, k) \in SUBSET Devices /\ d \in Group(d, k)
  BY DEF Group, DeviceBlock
<1>2. IsFiniteSet(Group(d, k))
  BY <1>1, DevicesFinite, FS_Subset
<1>3. \A e \in Group(d, k) : d \in Group(e, k) /\ Group(e, k) = Group(d, k)
  BY DEF Group, DeviceBlock
<1> QED BY <1>1, <1>2, <1>3

\* The node that makes what a synchronising node waits for.
LEMMA ProducerOf ==
  ASSUME NEW k \in SyncNodes
  PROVE  /\ k \in DOMAIN Graph
         /\ Producer[k] \in 1 .. k - 1 /\ Producer[k] \in DOMAIN Graph
         /\ Forwards(Producer[k]) /\ Graph[Producer[k]].out = Graph[k].in
         /\ \A i \in DOMAIN Graph : Forwards(i) /\ Graph[i].out = Graph[k].in => i = Producer[k]
         /\ Graph[k].in # Graph[1].in
<1>1. k \in DOMAIN Graph /\ k \in 1 .. Len(Graph) /\ ProducedOnce(k)
  BY DecoderGraphs, DevicesFinite DEF SyncNodes
<1>2. PICK j \in 1 .. k - 1 :
        /\ Forwards(j) /\ Graph[j].out = Graph[k].in
        /\ \A i \in DOMAIN Graph : Forwards(i) /\ Graph[i].out = Graph[k].in => i = j
  BY <1>1 DEF ProducedOnce
<1>3. \A i \in 1 .. k - 1 : i \in DOMAIN Graph
  BY <1>1, DevicesFinite
<1> DEFINE S == { i \in 1 .. k - 1 : Graph[i].exec /\ ~Graph[i].pop /\ Graph[i].out = Graph[k].in }
<1>4. S = {j}
  BY <1>2, <1>3 DEF Forwards
<1>5. j \in Int
  BY <1>2
<1>6. Max(S) = j
  BY <1>4, <1>5, MaxIs
<1>7. Producer[k] = j
  BY <1>6 DEF Producer
<1> QED BY <1>1, <1>2, <1>3, <1>7 DEF ProducedOnce

---------------------------------------------------------------------------
(* Clocks.                                                                 *)

Clock == [device : Nat, high : Nat, low : Nat]

LEMMA FrontierOf ==
  ASSUME NEW c \in Clock
  PROVE  /\ Frontier(c) \in Nat
         /\ Frontier(c) \in {c.device, c.high, c.low}
         /\ c.device <= Frontier(c) /\ c.high <= Frontier(c) /\ c.low <= Frontier(c)
<1>1. c.device \in Nat /\ c.high \in Nat /\ c.low \in Nat
  BY DEF Clock
<1> DEFINE S == {c.device, c.high, c.low}
<1>2. PICK m \in S : \A x \in S : x <= m
  BY <1>1
<1>3. S \subseteq Int
  BY <1>1
<1>4. Max(S) = m
  BY <1>2, <1>3, MaxIs
<1> QED BY <1>1, <1>2, <1>4 DEF Frontier
LEMMA LoadType ==
  ASSUME TypeOK, NEW d \in Devices
  PROVE  /\ load[d].attention \in Nat /\ load[d].expert \in Nat
         /\ load[d].comm \in Nat /\ load[d].reduce \in Nat
BY DEF TypeOK, Load

LEMMA CommTimeType ==
  ASSUME TypeOK, NEW d \in Devices, NEW k \in DOMAIN Graph
  PROVE  CommTime(d, k) \in Nat
BY LoadType DEF CommTime

\* A stamp leaves a clock a clock, and the time of the lanes to the lanes.
LEMMA StampType ==
  ASSUME TypeOK, NEW d \in Devices, Running(d)
  PROVE  /\ cur[d] \in DOMAIN Graph /\ NodeOf(d) = Graph[cur[d]]
         /\ clock[d] \in Clock /\ exec[d] \in Nat
         /\ StampClock(d) \in Clock /\ StampExec(d) \in Nat
<1>1. /\ cur[d] \in DOMAIN Graph /\ NodeOf(d) = Graph[cur[d]]
      /\ clock[d] \in Clock /\ exec[d] \in Nat
  BY DevicesFinite DEF TypeOK, Running, NodeOf, Clock
<1>2. Frontier(clock[d]) \in Nat
  BY <1>1, FrontierOf
<1>3. PushClock(d) \in Clock
  BY <1>1, <1>2 DEF PushClock, Joined, Clock
<1>4. PopClock(d) \in Clock
  <2>1. /\ clock[d].device \in Nat /\ clock[d].high \in Nat /\ clock[d].low \in Nat
    BY <1>1 DEF Clock
  <2> DEFINE device == clock[d].device + exec[d]
             high == clock[d].high + exec[d]
             low == clock[d].low + exec[d]
  <2>2. device \in Nat /\ high \in Nat /\ low \in Nat
    BY <1>1, <2>1
  <2>3. \/ PopClock(d) = [clock[d] EXCEPT !.high = high, !.device = high]
        \/ PopClock(d) = [clock[d] EXCEPT !.low = low, !.device = low]
        \/ PopClock(d) = [clock[d] EXCEPT !.device = device]
    BY DEF PopClock
  <2> HIDE DEF device, high, low
  <2> QED BY <1>1, <2>2, <2>3 DEF Clock
<1> QED BY <1>1, <1>3, <1>4 DEF StampClock, StampExec

\* What a synchronisation does to the clocks: those of the group that it moves all
\* show the same time, the latest of them.
LEMMA SyncedType ==
  ASSUME TypeOK, NEW d \in Devices, Running(d)
  PROVE  LET stampedClock == [clock EXCEPT ![d] = StampClock(d)]
             group == Group(d, cur[d])
             moved(e) == Syncs(d) /\ Late(d) /\ e \in group
         IN /\ SyncedClocks(d) \in [Devices -> Clock]
            /\ stampedClock \in [Devices -> Clock]
            /\ \A e \in Devices : ~moved(e) => SyncedClocks(d)[e] = stampedClock[e]
            /\ \A e \in Devices : moved(e) =>
                 /\ SyncedClocks(d)[e].high = stampedClock[e].high
                 /\ SyncedClocks(d)[e].low = stampedClock[e].low
                 /\ SyncedClocks(d)[e].device = Max({ stampedClock[x].device : x \in group })
                 /\ stampedClock[e].device <= SyncedClocks(d)[e].device
<1> DEFINE stampedClock == [clock EXCEPT ![d] = StampClock(d)]
           group == Group(d, cur[d])
           f == [e \in group |-> stampedClock[e].device]
           time == Max({ stampedClock[x].device : x \in group })
<1>1. cur[d] \in DOMAIN Graph /\ StampClock(d) \in Clock
  BY StampType
<1>2. stampedClock \in [Devices -> Clock]
  BY <1>1 DEF TypeOK, Clock
<1>3. group \subseteq Devices /\ IsFiniteSet(group) /\ group # {}
  BY <1>1, GroupOf
<1> HIDE DEF group, stampedClock
<1>4. \A e \in group : f[e] \in Int /\ f[e] = stampedClock[e].device
  BY <1>2, <1>3 DEF Clock
<1>5. { stampedClock[x].device : x \in group } = { f[x] : x \in group }
  BY <1>4
<1>15. \A e \in group : f[e] \in Int
  BY <1>4
<1> HIDE DEF f
<1>6. /\ Max({ f[x] : x \in group }) \in { f[x] : x \in group }
      /\ \A e \in group : f[e] <= Max({ f[x] : x \in group })
  BY <1>3, <1>15, MaxValue
<1>7. time \in { stampedClock[x].device : x \in group }
      /\ \A e \in group : stampedClock[e].device <= time
  BY <1>4, <1>5, <1>6
<1>8. time \in Nat
  BY <1>2, <1>3, <1>7 DEF Clock
<1> HIDE DEF time
<1>9. SyncedClocks(d) = IF Syncs(d) /\ Late(d)
                        THEN [e \in Devices |-> IF e \in group
                                                THEN [stampedClock[e] EXCEPT !.device = time]
                                                ELSE stampedClock[e]]
                        ELSE stampedClock
  BY DEF SyncedClocks, stampedClock, group, time
<1>10. \A e \in Devices : stampedClock[e] \in Clock
  BY <1>2
<1>11. \A e \in Devices : [stampedClock[e] EXCEPT !.device = time] \in Clock
  BY <1>8, <1>10 DEF Clock
<1>12. SyncedClocks(d) \in [Devices -> Clock]
  BY <1>2, <1>9, <1>10, <1>11
<1>13. \A e \in Devices : ~(Syncs(d) /\ Late(d) /\ e \in group) => SyncedClocks(d)[e] = stampedClock[e]
  BY <1>9
<1>14. ASSUME NEW e \in Devices, Syncs(d) /\ Late(d) /\ e \in group
       PROVE  /\ SyncedClocks(d)[e].high = stampedClock[e].high
              /\ SyncedClocks(d)[e].low = stampedClock[e].low
              /\ SyncedClocks(d)[e].device = time
              /\ stampedClock[e].device <= SyncedClocks(d)[e].device
  <2>1. SyncedClocks(d)[e] = [stampedClock[e] EXCEPT !.device = time]
    BY <1>9, <1>14
  <2>2. SyncedClocks(d)[e].device = time /\ SyncedClocks(d)[e].high = stampedClock[e].high
        /\ SyncedClocks(d)[e].low = stampedClock[e].low
    BY <1>10, <2>1 DEF Clock
  <2> QED BY <1>7, <1>14, <2>2
<1> QED BY <1>2, <1>12, <1>13, <1>14 DEF stampedClock, group, time

LEMMA ForwardType ==
  ASSUME TypeOK, NEW d \in Devices, Running(d), NEW c \in Clock
  PROVE  ForwardClock(d, c) \in Clock
<1>1. cur[d] \in DOMAIN Graph
  BY StampType
<1>2. CommTime(d, cur[d]) \in Nat /\ Frontier(c) \in Nat
  BY <1>1, CommTimeType, FrontierOf
<1> QED BY <1>2 DEF ForwardClock, Joined, Clock

---------------------------------------------------------------------------
(* Types.                                                                  *)

LEMMA GraphTypeInit == Init => TypeOK
<1> SUFFICES ASSUME Init PROVE TypeOK
  OBVIOUS
<1>1. 1 \in 1 .. Ends /\ 1 \in DOMAIN Graph /\ 0 \in 0 .. NumDevices /\ 1 \in 1 .. MaxIters
      /\ Loads \subseteq [Devices -> Load]
  BY DevicesFinite, GraphAssumption
<1>2. Graph[1].in \in Tensors
  BY <1>1, NodeType
<1>3. ZeroClock \in [device : Nat, high : Nat, low : Nat]
  BY DEF ZeroClock
<1>4. \A d \in Devices : timeboard[d] = << >> /\ cur[d] = 1 /\ stamped[d] = FALSE
  BY DEF Init
<1>5. \A d \in Devices : Len(timeboard[d]) = cur[d] - 1 + (IF stamped[d] THEN 1 ELSE 0)
  BY <1>4
<1> QED BY <1>1, <1>2, <1>3, <1>5 DEF Init, TypeOK

\* The board of a device after an action that stamps it.
LEMMA BoardType ==
  ASSUME TypeOK, NEW d \in Devices, Running(d)
  PROVE  /\ StampBoard(d) \in Seq(Nat) /\ Len(StampBoard(d)) = cur[d]
         /\ Len(timeboard[d]) = cur[d] - 1 + (IF stamped[d] THEN 1 ELSE 0)
         /\ \A i \in 1 .. Len(timeboard[d]) : StampBoard(d)[i] = timeboard[d][i]
         /\ ~stamped[d] => StampBoard(d)[cur[d]] = StampClock(d).device
<1>1. /\ timeboard[d] \in Seq(Nat) /\ cur[d] \in Nat /\ stamped[d] \in BOOLEAN
      /\ Len(timeboard[d]) = cur[d] - 1 + (IF stamped[d] THEN 1 ELSE 0)
  BY DevicesFinite DEF TypeOK
<1>2. StampClock(d).device \in Nat
  BY StampType DEF Clock
<1>3. CASE stamped[d]
  <2>1. StampBoard(d) = timeboard[d]
    BY <1>3 DEF StampBoard, Stamps
  <2> QED BY <1>1, <1>3, <2>1
<1>4. CASE ~stamped[d]
  <2>1. StampBoard(d) = Append(timeboard[d], StampClock(d).device)
    BY <1>4 DEF StampBoard, Stamps
  <2> HIDE DEF StampClock
  <2>2. Len(timeboard[d]) + 1 = cur[d]
    BY <1>1, <1>4
  <2> QED BY <1>1, <1>2, <1>4, <2>1, <2>2
<1> QED BY <1>3, <1>4
\* The whole of a node's run, device by device.
LEMMA RunEffect ==
  ASSUME TypeOK, NEW d \in Devices, RunNode(d)
  PROVE  /\ turn = d /\ Running(d) /\ CanRun(d)
         /\ UNCHANGED << iter, turn, load >>
         /\ cur'[d] = cur[d] + 1 /\ ~stamped'[d]
         /\ timeboard'[d] = StampBoard(d)
         /\ exec'[d] = IF Executes(d) THEN ExecTime(d, StampExec(d)) ELSE StampExec(d)
         /\ ready'[d] = IF Executes(d) THEN ready[d] \cup { NodeOf(d).out } ELSE ready[d]
         /\ clock'[d] = IF Executes(d) THEN ForwardClock(d, SyncedClocks(d)[d])
                                       ELSE SyncedClocks(d)[d]
         /\ synced' = Marks(d)
         /\ aggregated' = IF Executes(d) /\ Aggregates(d) THEN << iter, NodeOf(d).layer >>
                                                          ELSE aggregated
         /\ \A e \in Devices \ {d} :
              /\ cur'[e] = cur[e] /\ stamped'[e] = stamped[e] /\ timeboard'[e] = timeboard[e]
              /\ exec'[e] = exec[e] /\ ready'[e] = ready[e]
              /\ clock'[e] = SyncedClocks(d)[e]
<1>1. /\ turn = d /\ Running(d) /\ CanRun(d)
      /\ UNCHANGED << iter, turn, load >>
      /\ cur' = [cur EXCEPT ![d] = @ + 1]
      /\ stamped' = [stamped EXCEPT ![d] = FALSE]
      /\ timeboard' = [timeboard EXCEPT ![d] = StampBoard(d)]
      /\ synced' = Marks(d)
  BY DEF RunNode
<1>2. /\ DOMAIN cur = Devices /\ cur = [e \in Devices |-> cur[e]]
      /\ stamped \in [Devices -> BOOLEAN]
      /\ timeboard \in [Devices -> Seq(Nat)] /\ exec \in [Devices -> Nat]
      /\ ready \in [Devices -> SUBSET Tensors] /\ clock \in [Devices -> Clock]
  BY DEF TypeOK, Clock
<1>3. SyncedClocks(d) \in [Devices -> Clock]
  BY <1>1, SyncedType
<1>4. CASE Executes(d)
  <2>1. /\ clock' = [SyncedClocks(d) EXCEPT ![d] = ForwardClock(d, @)]
        /\ exec' = [exec EXCEPT ![d] = ExecTime(d, StampExec(d))]
        /\ ready' = [ready EXCEPT ![d] = @ \cup { NodeOf(d).out }]
        /\ aggregated' = IF Aggregates(d) THEN << iter, NodeOf(d).layer >> ELSE aggregated
    BY <1>4 DEF RunNode
  <2> QED BY <1>1, <1>2, <1>3, <1>4, <2>1
<1>5. CASE ~Executes(d)
  <2>1. /\ clock' = [clock EXCEPT ![d] = StampClock(d)]
        /\ exec' = [exec EXCEPT ![d] = StampExec(d)]
        /\ UNCHANGED << ready, aggregated >>
    BY <1>5 DEF RunNode
  <2>2. SyncedClocks(d) = [clock EXCEPT ![d] = StampClock(d)]
    BY <1>5 DEF SyncedClocks, Syncs
  <2> QED BY <1>1, <1>2, <1>5, <2>1, <2>2
<1> QED BY <1>4, <1>5

LEMMA BlockEffect ==
  ASSUME TypeOK, NEW d \in Devices, Block(d)
  PROVE  /\ turn = d /\ Running(d) /\ ~CanRun(d)
         /\ turn' = d + 1 /\ UNCHANGED << iter, load, cur, ready, synced, aggregated >>
         /\ stamped'[d] /\ timeboard'[d] = StampBoard(d)
         /\ clock'[d] = StampClock(d) /\ exec'[d] = StampExec(d)
         /\ \A e \in Devices \ {d} :
              /\ stamped'[e] = stamped[e] /\ timeboard'[e] = timeboard[e]
              /\ exec'[e] = exec[e] /\ clock'[e] = clock[e]
BY DEF Block, TypeOK

\* A step is one of these.
LEMMA GraphCases ==
  ASSUME TypeOK, [Next]_vars
  PROVE  \/ \E d \in Devices : RunNode(d)
         \/ \E d \in Devices : Block(d)
         \/ Restart
         \/ /\ UNCHANGED << iter, load, cur, stamped, ready, synced, clock, exec, timeboard,
                            aggregated >>
            /\ \/ \E d \in Devices : Finished(d)
               \/ Sweep
               \/ turn' = turn
BY DEF Next, Finished, Sweep, vars

LEMMA GraphTypeStep == TypeOK /\ [Next]_vars => TypeOK'
<1> SUFFICES ASSUME TypeOK, [Next]_vars PROVE TypeOK'
  OBVIOUS
<1>1. CASE \E d \in Devices : RunNode(d)
  <2>1. PICK d \in Devices : RunNode(d)
    BY <1>1
  <2>2. /\ cur[d] \in DOMAIN Graph /\ NodeOf(d) = Graph[cur[d]] /\ StampExec(d) \in Nat
        /\ Running(d)
    BY <2>1, RunEffect, StampType
  <2>3. NodeOf(d).out \in Tensors /\ NodeOf(d).in \in Tensors /\ NodeOf(d).layer \in Nat
    BY <2>2, NodeType
  <2>4. cur' \in [Devices -> 1 .. Ends] /\ cur'[d] = cur[d] + 1
    <3>1. cur' = [cur EXCEPT ![d] = cur[d] + 1] /\ cur \in [Devices -> 1 .. Ends]
      BY <2>1 DEF RunNode, TypeOK
    <3>2. cur[d] + 1 \in 1 .. Ends
      BY <2>2, DevicesFinite
    <3> QED BY <3>1, <3>2
  <2>5. stamped' \in [Devices -> BOOLEAN]
    BY <2>1 DEF RunNode, TypeOK
  <2>6. ready' \in [Devices -> SUBSET Tensors]
    <3>1. ready' = [ready EXCEPT ![d] = ready[d] \cup { NodeOf(d).out }] \/ ready' = ready
      BY <2>1 DEF RunNode
    <3>2. ready \in [Devices -> SUBSET Tensors]
      BY DEF TypeOK
    <3>3. ready[d] \cup { NodeOf(d).out } \in SUBSET Tensors
      BY <2>3, <3>2
    <3> QED BY <3>1, <3>2, <3>3
  <2>7. synced' \in [Devices -> SUBSET Tensors]
    BY <2>1, <2>3 DEF RunNode, TypeOK, Marks
  <2>8. clock' \in [Devices -> Clock]
    <3>1. CASE Executes(d)
      <4>1. clock' = [SyncedClocks(d) EXCEPT ![d] = ForwardClock(d, @)]
        BY <2>1, <3>1 DEF RunNode
      <4>2. SyncedClocks(d) \in [Devices -> Clock]
        BY <2>2, SyncedType
      <4>3. ForwardClock(d, SyncedClocks(d)[d]) \in Clock
        BY <2>2, <4>2, ForwardType
      <4> QED BY <4>1, <4>2, <4>3
    <3>2. CASE ~Executes(d)
      <4>1. clock' = [clock EXCEPT ![d] = StampClock(d)]
        BY <2>1, <3>2 DEF RunNode
      <4>2. StampClock(d) \in Clock /\ clock \in [Devices -> Clock]
        BY <2>2, StampType DEF TypeOK, Clock
      <4> QED BY <4>1, <4>2
    <3> QED BY <3>1, <3>2
  <2>9. exec' \in [Devices -> Nat]
    <3>1. ExecTime(d, StampExec(d)) \in Nat
      BY <2>2, LoadType DEF ExecTime
    <3>2. exec' = [exec EXCEPT ![d] = ExecTime(d, StampExec(d))]
          \/ exec' = [exec EXCEPT ![d] = StampExec(d)]
      BY <2>1 DEF RunNode
    <3> QED BY <2>2, <3>1, <3>2 DEF TypeOK
  <2>10. StampBoard(d) \in Seq(Nat) /\ Len(StampBoard(d)) = cur[d]
    BY <2>2, BoardType
  <2>11. timeboard' \in [Devices -> Seq(Nat)]
    BY <2>1, <2>10 DEF RunNode, TypeOK
  <2>12. \A e \in Devices : Len(timeboard'[e]) = cur'[e] - 1 + (IF stamped'[e] THEN 1 ELSE 0)
    <3> TAKE e \in Devices
    <3>1. CASE e = d
      <4>1. timeboard'[d] = StampBoard(d) /\ cur'[d] = cur[d] + 1 /\ ~stamped'[d]
        BY <2>1, RunEffect
      <4>2. cur[d] \in Nat
        BY <2>2, DevicesFinite
      <4> QED BY <2>10, <3>1, <4>1, <4>2
    <3>2. CASE e # d
      <4>1. timeboard'[e] = timeboard[e] /\ cur'[e] = cur[e] /\ stamped'[e] = stamped[e]
        BY <2>1, <3>2, RunEffect
      <4> QED BY <4>1 DEF TypeOK
    <3> QED BY <3>1, <3>2
  <2>13. aggregated' \in Nat \X Nat
    <3>1. iter \in Nat /\ aggregated \in Nat \X Nat
      BY GraphAssumption DEF TypeOK
    <3>2. << iter, NodeOf(d).layer >> \in Nat \X Nat
      BY <2>3, <3>1
    <3>3. aggregated' = << iter, NodeOf(d).layer >> \/ aggregated' = aggregated
      BY <2>1 DEF RunNode
    <3> QED BY <3>1, <3>2, <3>3
  <2>14. UNCHANGED << iter, turn, load >>
    BY <2>1, RunEffect
  <2> QED BY <2>4, <2>5, <2>6, <2>7, <2>8, <2>9, <2>11, <2>12, <2>13, <2>14 DEF TypeOK, Clock
<1>2. CASE \E d \in Devices : Block(d)
  <2>1. PICK d \in Devices : Block(d)
    BY <1>2
  <2>2. Running(d) /\ StampExec(d) \in Nat /\ StampClock(d) \in Clock /\ cur[d] \in DOMAIN Graph
    BY <2>1, BlockEffect, StampType
  <2>3. /\ stamped' = [stamped EXCEPT ![d] = TRUE]
        /\ timeboard' = [timeboard EXCEPT ![d] = StampBoard(d)]
        /\ clock' = [clock EXCEPT ![d] = StampClock(d)]
        /\ exec' = [exec EXCEPT ![d] = StampExec(d)]
        /\ turn' = d + 1
        /\ UNCHANGED << iter, load, cur, ready, synced, aggregated >>
    BY <2>1 DEF Block
  <2>4. StampBoard(d) \in Seq(Nat) /\ Len(StampBoard(d)) = cur[d]
    BY <2>2, BoardType
  <2>5. d + 1 \in 0 .. NumDevices
    BY DevicesFinite DEF Devices
  <2>6. \A e \in Devices : Len(timeboard'[e]) = cur'[e] - 1 + (IF stamped'[e] THEN 1 ELSE 0)
    <3> TAKE e \in Devices
    <3>1. CASE e = d
      <4>1. timeboard'[d] = StampBoard(d) /\ cur'[d] = cur[d] /\ stamped'[d]
        BY <2>1, BlockEffect
      <4>2. cur[d] \in Nat
        BY <2>2, DevicesFinite
      <4> QED BY <2>4, <3>1, <4>1, <4>2
    <3>2. CASE e # d
      <4>1. timeboard'[e] = timeboard[e] /\ cur'[e] = cur[e] /\ stamped'[e] = stamped[e]
        BY <2>1, <3>2, BlockEffect
      <4> QED BY <4>1 DEF TypeOK
    <3> QED BY <3>1, <3>2
  <2>7. clock' \in [Devices -> Clock]
    BY <2>2, <2>3 DEF TypeOK, Clock
  <2>8. exec' \in [Devices -> Nat] /\ stamped' \in [Devices -> BOOLEAN]
        /\ timeboard' \in [Devices -> Seq(Nat)]
    BY <2>2, <2>3, <2>4 DEF TypeOK
  <2> QED BY <2>3, <2>5, <2>6, <2>7, <2>8 DEF TypeOK, Clock
<1>3. CASE Restart
  <2>1. /\ iter' = iter + 1 /\ iter < MaxIters /\ turn' = 0 /\ load' \in Loads
        /\ cur' = [e \in Devices |-> 1] /\ stamped' = [e \in Devices |-> FALSE]
        /\ ready' = [e \in Devices |-> { Graph[1].in }]
        /\ clock' = [e \in Devices |-> ZeroClock]
        /\ timeboard' = [e \in Devices |-> << >>]
        /\ UNCHANGED << synced, exec, aggregated >>
    BY <1>3 DEF Restart, FreshTensors
  <2>2. 1 \in 1 .. Ends /\ 1 \in DOMAIN Graph /\ 0 \in 0 .. NumDevices /\ iter' \in 1 .. MaxIters
        /\ Loads \subseteq [Devices -> Load]
    BY <2>1, DevicesFinite, GraphAssumption DEF TypeOK
  <2>3. Graph[1].in \in Tensors
    BY <2>2, NodeType
  <2>4. ZeroClock \in [device : Nat, high : Nat, low : Nat]
    BY DEF ZeroClock
  <2>5. \A e \in Devices : Len(timeboard'[e]) = cur'[e] - 1 + (IF stamped'[e] THEN 1 ELSE 0)
    BY <2>1
  <2> QED BY <2>1, <2>2, <2>3, <2>4, <2>5 DEF TypeOK
<1>4. CASE /\ UNCHANGED << iter, load, cur, stamped, ready, synced, clock, exec, timeboard,
                           aggregated >>
           /\ (\E d \in Devices : Finished(d)) \/ Sweep \/ turn' = turn
  <2>1. turn' \in 0 .. NumDevices
    <3>1. CASE \E d \in Devices : Finished(d)
      BY <3>1, DevicesFinite DEF Finished, Devices
    <3>2. CASE Sweep \/ turn' = turn
      BY <3>2, DevicesFinite DEF Sweep, TypeOK
    <3> QED BY <1>4, <3>1, <3>2
  <2> QED BY <1>4, <2>1 DEF TypeOK
<1> QED BY <1>1, <1>2, <1>3, <1>4, GraphCases

\* Every variable of the engine keeps its type, for every graph and every load; the
\* board of a device has a stamp for each node it has passed or waits at, once.
THEOREM GraphTypeCorrect == Spec => []TypeOK
BY GraphTypeInit, GraphTypeStep, PTL DEF Spec
---------------------------------------------------------------------------
(* Barriers.                                                               *)

\* A tensor that a barrier waits for is ready on a device only after the device has
\* passed the node that makes it, in this iteration.
ReadyExact ==
  \A k \in SyncNodes, d \in Devices : Graph[k].in \in ready[d] => cur[d] > Producer[k]

BarrierInv == TypeOK /\ ReadyExact /\ BarrierSafety

LEMMA PositionType ==
  ASSUME TypeOK
  PROVE  \A d \in Devices : cur[d] \in Nat /\ cur[d] \in 1 .. Ends /\ (Running(d) <=> cur[d] \in DOMAIN Graph)
<1>1. \A d \in Devices : cur[d] \in 1 .. Ends
  BY DEF TypeOK
<1>2. Ends \in Nat /\ DOMAIN Graph = 1 .. Ends - 1
  BY DevicesFinite
<1> QED BY <1>1, <1>2 DEF Running

LEMMA BarrierType ==
  ASSUME NEW k \in SyncNodes
  PROVE  /\ k \in Nat /\ k \in DOMAIN Graph /\ Producer[k] \in Nat /\ Producer[k] < k
         /\ Producer[k] \in DOMAIN Graph
<1>1. k \in DOMAIN Graph /\ Producer[k] \in 1 .. k - 1
  BY ProducerOf
<1>2. k \in 1 .. Len(Graph) /\ Len(Graph) \in Nat
  BY <1>1, DevicesFinite
<1> QED BY <1>1, <1>2, ProducerOf

\* What a device finds at a barrier that lets it pass.
LEMMA BarrierPassed ==
  ASSUME BarrierInv, NEW d \in Devices, RunNode(d), cur[d] \in SyncNodes
  PROVE  \A e \in Group(d, cur[d]) : cur[e] > Producer[cur[d]]
<1>1. /\ Running(d) /\ CanRun(d)
  BY DEF RunNode
<1>2. Executes(d) /\ NodeOf(d).group # 0 /\ cur[d] \in DOMAIN Graph
  BY DEF Executes, NodeOf, SyncNodes
<1>3. \A e \in Group(d, cur[d]) : NodeOf(d).in \in ready[e]
  BY <1>1, <1>2 DEF CanRun, check_ready
<1>4. Group(d, cur[d]) \subseteq Devices
  BY <1>2, GroupOf
<1> QED BY <1>3, <1>4 DEF BarrierInv, ReadyExact, NodeOf

LEMMA BarrierStep == BarrierInv /\ [Next]_vars => BarrierInv'
<1> SUFFICES ASSUME BarrierInv, [Next]_vars PROVE BarrierInv'
  OBVIOUS
<1>1. TypeOK /\ ReadyExact /\ BarrierSafety
  BY DEF BarrierInv
<1>2. TypeOK'
  BY <1>1, GraphTypeStep
<1>3. CASE \E d \in Devices : RunNode(d)
  <2>1. PICK d \in Devices : RunNode(d)
    BY <1>3
  <2>2. Running(d) /\ cur[d] \in DOMAIN Graph /\ cur[d] \in Nat /\ NodeOf(d) = Graph[cur[d]]
    BY <1>1, <2>1, RunEffect, PositionType DEF NodeOf
  <2>3. \A e \in Devices : cur[e] \in Nat
    BY <1>1, PositionType
  <2>4. cur'[d] = cur[d] + 1 /\ \A e \in Devices \ {d} : cur'[e] = cur[e] /\ ready'[e] = ready[e]
    BY <1>1, <2>1, RunEffect
  <2>5. \A e \in Devices : cur'[e] \in Nat /\ cur'[e] >= cur[e]
    BY <2>3, <2>4
  <2>6. ReadyExact'
    <3> SUFFICES ASSUME NEW k \in SyncNodes, NEW e \in Devices, Graph[k].in \in ready'[e]
                 PROVE  cur'[e] > Producer[k]
      BY DEF ReadyExact
    <3>1. /\ Producer[k] \in Nat
          /\ \A i \in DOMAIN Graph : Forwards(i) /\ Graph[i].out = Graph[k].in => i = Producer[k]
      BY ProducerOf, BarrierType
    <3>2. CASE Graph[k].in \in ready[e]
      BY <1>1, <2>3, <2>5, <3>1, <3>2 DEF ReadyExact
    <3>3. CASE Graph[k].in \notin ready[e]
      <4>1. e = d
        BY <2>4, <3>3
      <4>3. ready'[d] = IF Executes(d) THEN ready[d] \cup { NodeOf(d).out } ELSE ready[d]
        BY <1>1, <2>1, RunEffect
      <4>4. Executes(d) /\ Graph[k].in = NodeOf(d).out
        BY <3>3, <4>1, <4>3
      <4>2. Forwards(cur[d])
        BY <2>2, <4>4 DEF Executes, Forwards
      <4> QED BY <2>2, <2>4, <3>1, <4>1, <4>2, <4>4
    <3> QED BY <3>2, <3>3
  <2>7. BarrierSafety'
    <3> SUFFICES ASSUME NEW k \in SyncNodes, NEW e \in Devices, cur'[e] > k,
                        NEW x \in Group(e, k)
                 PROVE  cur'[x] > Producer[k]
      BY DEF BarrierSafety
    <3>1. k \in DOMAIN Graph /\ k \in Nat /\ Producer[k] \in Nat
      BY ProducerOf, BarrierType
    <3>2. x \in Devices
      BY <3>1, GroupOf
    <3>3. CASE cur[e] > k
      BY <1>1, <2>3, <2>5, <3>1, <3>2, <3>3 DEF BarrierSafety
    <3>4. CASE ~(cur[e] > k)
      <4>1. e = d /\ cur[d] = k
        BY <2>2, <2>3, <2>4, <3>1, <3>4
      <4>2. cur[x] > Producer[k]
        BY <2>1, <4>1, BarrierPassed
      <4> QED BY <2>3, <2>5, <3>1, <3>2, <4>2
    <3> QED BY <3>3, <3>4
  <2> QED BY <1>2, <2>6, <2>7 DEF BarrierInv
<1>4. CASE Restart
  <2>1. cur' = [d \in Devices |-> 1] /\ ready' = [d \in Devices |-> { Graph[1].in }]
    BY <1>4 DEF Restart, FreshTensors
  <2>2. ReadyExact'
    BY <2>1, ProducerOf DEF ReadyExact
  <2>3. BarrierSafety'
    BY <2>1, ProducerOf, DevicesFinite DEF BarrierSafety
  <2> QED BY <1>2, <2>2, <2>3 DEF BarrierInv
<1>5. CASE UNCHANGED << cur, ready >>
  BY <1>1, <1>2, <1>5 DEF BarrierInv, ReadyExact, BarrierSafety
<1> QED BY <1>1, <1>3, <1>4, <1>5, GraphCases, BlockEffect

LEMMA BarrierInit == Init => BarrierInv
<1> SUFFICES ASSUME Init PROVE BarrierInv
  OBVIOUS
<1>1. cur = [d \in Devices |-> 1] /\ ready = [d \in Devices |-> { Graph[1].in }]
  BY DEF Init
<1>2. ReadyExact
  BY <1>1, ProducerOf DEF ReadyExact
<1>3. BarrierSafety
  BY <1>1, ProducerOf, DevicesFinite DEF BarrierSafety
<1> QED BY <1>2, <1>3, GraphTypeInit DEF BarrierInv

\* For every number of devices, every graph of the decoders' kind and every load, no
\* device passes a synchronising node before all devices of its group have computed,
\* in this iteration, what the node waits for.
THEOREM BarrierSafetyHolds == Spec => []BarrierSafety
<1>1. BarrierInv => BarrierSafety
  BY DEF BarrierInv
<1> QED BY <1>1, BarrierInit, BarrierStep, PTL DEF Spec

\* What the barriers before a node keep between two devices.
LEMMA BehindPassed ==
  ASSUME BarrierInv, NEW d \in Devices, NEW e \in Devices, NEW j \in Nat, NEW k \in Nat,
         Behind(d, e, j, k), cur[d] > k
  PROVE  cur[e] > j
<1>1. PICK m \in SyncNodes : m <= k /\ j <= Producer[m] /\ e \in Group(d, m)
  BY DEF Behind
<1>2. m \in Nat /\ Producer[m] \in Nat /\ cur[d] \in Nat /\ cur[e] \in Nat
  BY BarrierType, PositionType DEF BarrierInv
<1>3. cur[e] > Producer[m]
  BY <1>1, <1>2 DEF BarrierInv, BarrierSafety
<1> QED BY <1>1, <1>2, <1>3

LEMMA BehindRunning ==
  ASSUME BarrierInv, NEW d \in Devices, RunNode(d), NEW e \in Devices, NEW j \in Nat,
         Behind(d, e, j, cur[d])
  PROVE  cur[e] > j
<1>1. PICK m \in SyncNodes : m <= cur[d] /\ j <= Producer[m] /\ e \in Group(d, m)
  BY DEF Behind
<1>2. m \in Nat /\ Producer[m] \in Nat /\ cur[d] \in Nat /\ cur[e] \in Nat
  BY BarrierType, PositionType DEF BarrierInv
<1>3. cur[e] > Producer[m]
  BY <1>1, <1>2, BarrierPassed DEF BarrierInv, BarrierSafety
<1> QED BY <1>1, <1>2, <1>3
---------------------------------------------------------------------------
(* The counts of the experts.                                              *)

\* The counts are those of the last gate that rank 0 has passed in this iteration.
CountsOfLastGate ==
  \A g \in DOMAIN Graph :
    Gate(g) /\ cur[0] > g /\ (\A h \in g + 1 .. cur[0] - 1 : ~Gate(h))
      => aggregated = << iter, Graph[g].layer >>

CountsInv == BarrierInv /\ CountsOfLastGate

LEMMA FirstDevice == 0 \in Devices
BY DevicesFinite DEF Devices

\* Only a device that runs a node moves within an iteration.
LEMMA MoveCases ==
  ASSUME TypeOK, [Next]_vars, NEW d \in Devices, iter' = iter, cur'[d] # cur[d]
  PROVE  RunNode(d)
<1>1. iter \in Nat
  BY GraphAssumption DEF TypeOK
<1>2. ~Restart
  BY <1>1 DEF Restart
<1>3. CASE \E e \in Devices : RunNode(e)
  <2>1. PICK e \in Devices : RunNode(e)
    BY <1>3
  <2>2. e = d
    BY <2>1, RunEffect
  <2> QED BY <2>1, <2>2
<1>4. CASE cur' = cur
  BY <1>4
<1> QED BY <1>2, <1>3, <1>4, GraphCases, BlockEffect

LEMMA CountsStep == CountsInv /\ [Next]_vars => CountsInv'
<1> SUFFICES ASSUME CountsInv, [Next]_vars PROVE CountsInv'
  OBVIOUS
<1>1. TypeOK /\ BarrierInv /\ BarrierInv' /\ CountsOfLastGate
  BY BarrierStep DEF CountsInv, BarrierInv
<1>2. CountsOfLastGate'
  <2>1. CASE \E d \in Devices : RunNode(d)
    <3>1. PICK d \in Devices : RunNode(d)
      BY <2>1
    <3>2. /\ cur[d] \in DOMAIN Graph /\ cur[0] \in Nat /\ iter' = iter
          /\ cur'[d] = cur[d] + 1 /\ (d # 0 => cur'[0] = cur[0])
          /\ aggregated' = IF Executes(d) /\ Aggregates(d) THEN << iter, NodeOf(d).layer >>
                                                           ELSE aggregated
      BY <1>1, <3>1, FirstDevice, RunEffect, PositionType
    <3> SUFFICES ASSUME NEW g \in DOMAIN Graph, Gate(g), cur'[0] > g,
                        \A h \in g + 1 .. cur'[0] - 1 : ~Gate(h)
                 PROVE  aggregated' = << iter', Graph[g].layer >>
      BY DEF CountsOfLastGate
    <3>3. g \in Nat
      BY DevicesFinite
    <3>4. CASE d # 0
      BY <1>1, <3>2, <3>4 DEF CountsOfLastGate, Aggregates
    <3>5. CASE d = 0 /\ cur[0] = g
      BY <3>2, <3>5 DEF Gate, Forwards, Executes, Aggregates, NodeOf
    <3>6. CASE d = 0 /\ cur[0] # g
      <4>1. cur[0] > g /\ cur'[0] - 1 = cur[0]
        BY <3>2, <3>3, <3>6
      <4>2. cur[0] \in g + 1 .. cur'[0] - 1
            /\ \A h \in g + 1 .. cur[0] - 1 : h \in g + 1 .. cur'[0] - 1
        BY <3>2, <3>3, <4>1
      <4>3. ~Gate(cur[0]) /\ \A h \in g + 1 .. cur[0] - 1 : ~Gate(h)
        BY <4>2
      <4>4. ~(Executes(d) /\ Aggregates(d))
        BY <3>6, <4>3 DEF Gate, Forwards, Executes, Aggregates, NodeOf
      <4> QED BY <1>1, <3>2, <4>1, <4>3, <4>4 DEF CountsOfLastGate
    <3> QED BY <3>4, <3>5, <3>6
  <2>2. CASE Restart
    <3>1. cur'[0] = 1
      BY <2>2, FirstDevice DEF Restart
    <3> QED BY <3>1, DevicesFinite DEF CountsOfLastGate
  <2>3. CASE UNCHANGED << iter, cur, aggregated >>
    BY <1>1, <2>3 DEF CountsOfLastGate
  <2> QED BY <1>1, <2>1, <2>2, <2>3, GraphCases, BlockEffect
<1> QED BY <1>1, <1>2 DEF CountsInv

LEMMA CountsInit == Init => CountsInv
<1> SUFFICES ASSUME Init PROVE CountsInv
  OBVIOUS
<1>1. cur[0] = 1
  BY FirstDevice DEF Init
<1> QED BY <1>1, BarrierInit, DevicesFinite DEF CountsInv, CountsOfLastGate

\* A device that uses the counts runs between the gate that wrote them and the next.
LEMMA CountsUsed ==
  ASSUME CountsInv, NEW d \in Devices, RunNode(d), UsesCounts(cur[d])
  PROVE  aggregated = << iter, NodeOf(d).layer >>
<1>1. BarrierInv /\ TypeOK /\ CountsOfLastGate
  BY DEF CountsInv, BarrierInv
<1>2. PICK k \in DOMAIN Graph : k = cur[d]
  BY <1>1, RunEffect, PositionType
<1>3. k \in Nat /\ cur[0] \in Nat /\ cur[d] \in Nat /\ 0 \in Devices
  BY <1>1, DevicesFinite, PositionType, FirstDevice
<1>4. CountsGuarded(k)
  BY DecoderGraphs
<1>5. PICK g \in 1 .. k - 1 :
        /\ Gate(g) /\ Graph[g].layer = Graph[k].layer
        /\ \A h \in g + 1 .. k - 1 : ~Gate(h)
        /\ \A e \in Devices : Behind(e, 0, g, k)
  BY <1>2, <1>4 DEF CountsGuarded
<1>6. \A h \in DOMAIN Graph : h > k /\ Gate(h) => \A e \in Devices : Behind(0, e, k, h)
  BY <1>2, <1>4 DEF CountsGuarded
<1>7. g \in Nat /\ g \in DOMAIN Graph
  BY <1>2, DevicesFinite
<1>8. cur[0] > g
  BY <1>1, <1>2, <1>3, <1>5, <1>7, BehindRunning
<1>9. ASSUME NEW h \in g + 1 .. cur[0] - 1, Gate(h)
      PROVE  FALSE
  <2>1. h \in Nat /\ cur[0] > h /\ h > g
    BY <1>3, <1>7
  <2>2. h \in DOMAIN Graph
    BY <1>1, <1>3, <2>1, DevicesFinite, PositionType
  <2>3. CASE h < k
    BY <1>3, <1>5, <1>7, <1>9, <2>1, <2>3
  <2>4. CASE h = k
    BY <1>2, <1>9, <2>4 DEF Gate, UsesCounts
  <2>5. CASE h > k
    <3>1. Behind(0, d, k, h)
      BY <1>6, <1>9, <2>2, <2>5
    <3>2. cur[d] > k
      BY <1>1, <1>3, <2>1, <3>1, BehindPassed
    <3> QED BY <1>2, <1>3, <3>2
  <2> QED BY <1>3, <2>1, <2>3, <2>4, <2>5
<1>10. aggregated = << iter, Graph[g].layer >>
  BY <1>1, <1>5, <1>7, <1>8, <1>9 DEF CountsOfLastGate
<1> QED BY <1>2, <1>5, <1>10 DEF NodeOf

\* Every device that uses the counts of the experts sees those of its own layer and
\* iteration, although only rank 0 writes them and nothing but the barriers of the
\* communications stands between it and the others.
THEOREM FreshCountsHolds == Spec => FreshCounts
<1> DEFINE Fresh ==
      \A d \in Devices :
        /\ iter' = iter /\ cur'[d] # cur[d]
        /\ Executes(d) /\ NodeOf(d).work \in {"scatter", "route", "gather"}
        => aggregated = << iter, NodeOf(d).layer >>
<1>1. CountsInv /\ [Next]_vars => Fresh
  <2> SUFFICES ASSUME CountsInv, [Next]_vars, NEW d \in Devices,
                      iter' = iter, cur'[d] # cur[d], Executes(d),
                      NodeOf(d).work \in {"scatter", "route", "gather"}
               PROVE  aggregated = << iter, NodeOf(d).layer >>
    OBVIOUS
  <2>1. RunNode(d)
    BY MoveCases DEF CountsInv, BarrierInv
  <2>2. UsesCounts(cur[d])
    BY DEF UsesCounts, Forwards, Executes, NodeOf
  <2> QED BY <2>1, <2>2, CountsUsed
<1>2. CountsInv /\ [Next]_vars => [Fresh]_vars
  BY <1>1
<1> QED BY <1>2, CountsInit, CountsStep, PTL DEF Spec, FreshCounts
---------------------------------------------------------------------------
(* Marks and durations.                                                    *)

\* A synchronising node that a device has still to pass and one of its group has.
Pending(d, k) == cur[d] <= k /\ \E e \in Group(d, k) : cur[e] > k

\* The marks on a device are those of its pending nodes.
MarksExact ==
  \A d \in Devices, t \in Tensors :
    t \in synced[d] <=> \E k \in SyncNodes : Graph[k].in = t /\ Pending(d, k)

\* A duration waits for the pop of the module that left it, and for nothing else.
DurationTaken ==
  \A d \in Devices : exec[d] # 0 => cur[d] > 1 /\ Timed(cur[d] - 1) /\ ~stamped[d]

CleanInv == BarrierInv /\ MarksExact /\ DurationTaken

LEMMA SyncsAt ==
  ASSUME TypeOK, NEW d \in Devices, Running(d)
  PROVE  Syncs(d) <=> cur[d] \in SyncNodes
BY PositionType DEF Syncs, Executes, NodeOf, SyncNodes

\* No two nodes that wait for the same tensor are pending at once; a device that
\* arrives at a node is late exactly when no other has passed it.
LEMMA LateMeans ==
  ASSUME BarrierInv, MarksExact, NEW d \in Devices, Running(d), cur[d] \in SyncNodes
  PROVE  /\ \A m \in SyncNodes : m > cur[d] /\ Graph[m].in = NodeOf(d).in => ~Pending(d, m)
         /\ Late(d) <=> \A e \in Group(d, cur[d]) : cur[e] <= cur[d]
<1>1. TypeOK /\ cur[d] \in DOMAIN Graph /\ cur[d] \in Nat /\ NodeOf(d) = Graph[cur[d]]
  BY PositionType DEF BarrierInv, NodeOf
<1>2. NodeOf(d).in \in Tensors
  BY <1>1, NodeType
<1>3. ASSUME NEW m \in SyncNodes, m > cur[d], Graph[m].in = NodeOf(d).in, Pending(d, m)
      PROVE  FALSE
  <2>1. PICK e \in Group(d, m) : cur[e] > m
    BY <1>3 DEF Pending
  <2>2. m \in Nat /\ m \in DOMAIN Graph
    BY BarrierType
  <2>3. e \in Devices /\ d \in Group(e, m)
    BY <2>2, GroupOf
  <2>4. KeptApart(cur[d], m)
    BY <1>3, DecoderGraphs
  <2>5. Behind(e, d, cur[d], m)
    BY <1>1, <1>3, <2>3, <2>4 DEF KeptApart
  <2>6. cur[d] > cur[d]
    BY <1>1, <2>1, <2>2, <2>3, <2>5, BehindPassed
  <2> QED BY <1>1, <2>6
<1>4. Late(d) <=> ~\E k \in SyncNodes : Graph[k].in = NodeOf(d).in /\ Pending(d, k)
  BY <1>2 DEF Late, MarksExact
<1>5. \A e \in Group(d, cur[d]) : cur[e] \in Nat
  BY <1>1, GroupOf, PositionType
<1>6. Pending(d, cur[d]) <=> ~\A e \in Group(d, cur[d]) : cur[e] <= cur[d]
  BY <1>1, <1>5 DEF Pending
<1>7. \A k \in SyncNodes : Graph[k].in = NodeOf(d).in /\ Pending(d, k) => k = cur[d]
  BY <1>1, <1>3, BarrierType DEF Pending
<1>8. (\E k \in SyncNodes : Graph[k].in = NodeOf(d).in /\ Pending(d, k)) <=> Pending(d, cur[d])
  BY <1>1, <1>7
<1> QED BY <1>3, <1>4, <1>6, <1>8

LEMMA MarksRun ==
  ASSUME BarrierInv, MarksExact, NEW d \in Devices, RunNode(d)
  PROVE  MarksExact'
<1>1. TypeOK /\ Running(d) /\ cur[d] \in DOMAIN Graph /\ NodeOf(d) = Graph[cur[d]]
      /\ cur'[d] = cur[d] + 1 /\ synced' = Marks(d)
      /\ \A e \in Devices \ {d} : cur'[e] = cur[e]
  BY RunEffect, PositionType DEF BarrierInv, NodeOf
<1>2. \A e \in Devices : cur[e] \in Nat
  BY <1>1, PositionType
<1>3. \A k \in SyncNodes : k \in Nat /\ k \in DOMAIN Graph
  BY BarrierType
\* Being pending changes at the node that d leaves, and nowhere else.
<1>4. ASSUME NEW k \in SyncNodes, k # cur[d], NEW x \in Devices
      PROVE  Pending(x, k)' <=> Pending(x, k)
  <2>1. \A e \in Devices : (cur'[e] > k <=> cur[e] > k) /\ (cur'[e] <= k <=> cur[e] <= k)
    BY <1>1, <1>2, <1>3, <1>4
  <2>2. Group(x, k) \subseteq Devices
    BY <1>3, GroupOf
  <2> QED BY <2>1, <2>2 DEF Pending
<1>5. CASE ~Syncs(d)
  <2>1. synced' = synced /\ cur[d] \notin SyncNodes
    BY <1>1, <1>5, SyncsAt DEF Marks
  <2>2. \A k \in SyncNodes, x \in Devices : Pending(x, k)' <=> Pending(x, k)
    BY <1>4, <2>1
  <2> QED BY <2>1, <2>2 DEF MarksExact
<1>6. CASE Syncs(d)
  <2>1. PICK k \in SyncNodes : k = cur[d]
    BY <1>1, <1>6, SyncsAt
  <2>2. PICK t \in Tensors : t = Graph[k].in
    BY <1>3, NodeType
  <2>3. /\ \A m \in SyncNodes : m > k /\ Graph[m].in = t => ~Pending(d, m)
        /\ Late(d) <=> \A e \in Group(d, k) : cur[e] <= k
    BY <1>1, <2>1, <2>2, LateMeans
  <2>4. \A x \in Devices :
          synced'[x] = IF x = d THEN synced[x] \ {t}
                       ELSE IF Late(d) /\ x \in Group(d, k) THEN synced[x] \cup {t}
                       ELSE synced[x]
    BY <1>1, <1>6, <2>1, <2>2 DEF Marks
  <2>5. k \in DOMAIN Graph /\ k \in Nat
    BY <1>3
  <2>6. /\ d \in Group(d, k) /\ Group(d, k) \subseteq Devices
        /\ \A e \in Group(d, k) : Group(e, k) = Group(d, k)
        /\ \A x \in Devices : d \in Group(x, k) => x \in Group(d, k)
    BY <2>5, GroupOf
  <2> SUFFICES ASSUME NEW x \in Devices, NEW u \in Tensors
               PROVE  u \in synced'[x] <=> \E m \in SyncNodes : Graph[m].in = u /\ Pending(x, m)'
    BY DEF MarksExact
  <2>7. u \in synced[x] <=> \E m \in SyncNodes : Graph[m].in = u /\ Pending(x, m)
    BY DEF MarksExact
  <2>8. CASE x = d
    <3>1. ~Pending(d, k)'
      BY <1>1, <1>2, <2>1, <2>5 DEF Pending
    <3>2. \A m \in SyncNodes : m # k => (Pending(d, m)' <=> Pending(d, m))
      BY <1>4, <2>1
    <3>3. \A m \in SyncNodes : Pending(d, m) => m >= k
      BY <1>2, <1>3, <2>1 DEF Pending
    <3>4. \A m \in SyncNodes : m # k /\ Pending(d, m) => Graph[m].in # t
      BY <1>3, <2>3, <2>5, <3>3
    <3>5. u \in synced'[d] <=> u \in synced[d] /\ u # t
      BY <2>4
    <3>6. CASE u = t
      BY <2>8, <3>1, <3>2, <3>4, <3>5, <3>6
    <3>7. CASE u # t
      BY <2>2, <2>7, <2>8, <3>1, <3>2, <3>5, <3>7
    <3> QED BY <3>6, <3>7
  <2>9. CASE x # d /\ x \notin Group(d, k)
    <3>1. synced'[x] = synced[x]
      BY <2>4, <2>9
    <3>2. d \notin Group(x, k) /\ Group(x, k) \subseteq Devices
      BY <2>5, <2>6, <2>9, GroupOf
    <3>3. Pending(x, k)' <=> Pending(x, k)
      BY <1>1, <2>9, <3>2 DEF Pending
    <3>4. \A m \in SyncNodes : Pending(x, m)' <=> Pending(x, m)
      BY <1>4, <2>1, <3>3
    <3> QED BY <2>7, <3>1, <3>4
  <2>10. CASE x # d /\ x \in Group(d, k) /\ Late(d)
    <3>1. synced'[x] = synced[x] \cup {t}
      BY <2>4, <2>10
    <3>2. cur[x] <= k /\ ~Pending(x, k)
      BY <1>2, <2>3, <2>5, <2>6, <2>10 DEF Pending
    <3>3. Pending(x, k)'
      BY <1>1, <1>2, <2>1, <2>6, <2>10, <3>2 DEF Pending
    <3>4. \A m \in SyncNodes : m # k => (Pending(x, m)' <=> Pending(x, m))
      BY <1>4, <2>1
    <3> QED BY <2>2, <2>7, <3>1, <3>2, <3>3, <3>4
  <2>11. CASE x # d /\ x \in Group(d, k) /\ ~Late(d)
    <3>1. synced'[x] = synced[x]
      BY <2>4, <2>11
    <3>2. PICK e \in Group(d, k) : cur[e] > k
      BY <1>2, <2>3, <2>5, <2>6, <2>11
    <3>3. e # d /\ e \in Devices /\ Group(x, k) = Group(d, k)
      BY <1>2, <2>1, <2>6, <2>11, <3>2
    <3>4. Pending(x, k)' <=> Pending(x, k)
      BY <1>1, <2>11, <3>2, <3>3 DEF Pending
    <3>5. \A m \in SyncNodes : Pending(x, m)' <=> Pending(x, m)
      BY <1>4, <2>1, <3>4
    <3> QED BY <2>7, <3>1, <3>5
  <2> QED BY <2>8, <2>9, <2>10, <2>11
<1> QED BY <1>5, <1>6

LEMMA DurationStep ==
  ASSUME TypeOK, DurationTaken, [Next]_vars
  PROVE  DurationTaken'
<1> USE DEF DurationTaken
<1>1. \A d \in Devices : cur[d] \in Nat /\ exec[d] \in Nat
  BY PositionType DEF TypeOK
\* Only a pop finds a duration.
<1>2. ASSUME NEW d \in Devices, Running(d), exec[d] # 0
      PROVE  NodeOf(d).pop /\ ~stamped[d]
  <2>1. cur[d] > 1 /\ Timed(cur[d] - 1) /\ ~stamped[d]
    BY <1>2
  <2>2. cur[d] \in DOMAIN Graph /\ cur[d] - 1 \in DOMAIN Graph /\ cur[d] - 1 + 1 = cur[d]
    BY <1>1, <1>2, <2>1, PositionType, DevicesFinite
  <2>3. TakenAtOnce(cur[d] - 1)
    BY <2>2, DecoderGraphs
  <2> QED BY <2>1, <2>2, <2>3 DEF TakenAtOnce, NodeOf
<1>3. ASSUME NEW d \in Devices, Running(d)
      PROVE  StampExec(d) = 0
  BY <1>2, <1>3 DEF StampExec, Stamps
<1>4. CASE \E d \in Devices : RunNode(d)
  <2>1. PICK d \in Devices : RunNode(d)
    BY <1>4
  <2>2. /\ Running(d) /\ cur'[d] = cur[d] + 1 /\ ~stamped'[d]
        /\ exec'[d] = IF Executes(d) THEN ExecTime(d, StampExec(d)) ELSE StampExec(d)
        /\ \A e \in Devices \ {d} :
             cur'[e] = cur[e] /\ stamped'[e] = stamped[e] /\ exec'[e] = exec[e]
    BY <2>1, RunEffect
  <2>3. CASE exec'[d] = 0
    BY <2>2, <2>3
  <2>4. CASE exec'[d] # 0
    <3>1. Executes(d) /\ NodeOf(d).work \in {"attention", "expert"}
      BY <1>3, <2>2, <2>4 DEF ExecTime
    <3>2. Timed(cur[d])
      BY <3>1 DEF Timed, Forwards, Executes, NodeOf
    <3>3. cur'[d] > 1 /\ cur'[d] - 1 = cur[d]
      BY <1>1, <2>2, PositionType
    <3> QED BY <2>2, <3>2, <3>3
  <2> QED BY <2>3, <2>4
<1>5. CASE \E d \in Devices : Block(d)
  <2>1. PICK d \in Devices : Block(d)
    BY <1>5
  <2>2. /\ Running(d) /\ exec'[d] = StampExec(d) /\ cur' = cur
        /\ \A e \in Devices \ {d} : stamped'[e] = stamped[e] /\ exec'[e] = exec[e]
    BY <2>1, BlockEffect
  <2> QED BY <1>3, <2>2
<1>6. CASE Restart
  <2>1. AllDone /\ exec' = exec
    BY <1>6 DEF Restart
  <2>2. ASSUME NEW d \in Devices, exec[d] # 0
        PROVE  FALSE
    <3>1. cur[d] > 1 /\ Timed(cur[d] - 1) /\ ~Running(d)
      BY <2>1, <2>2 DEF AllDone
    <3>2. cur[d] = Len(Graph) + 1 /\ Len(Graph) \in Nat /\ DOMAIN Graph = 1 .. Len(Graph)
      BY <1>1, <3>1, PositionType, DevicesFinite
    <3>3. Len(Graph) \in DOMAIN Graph /\ cur[d] - 1 = Len(Graph)
      BY <3>1, <3>2
    <3>4. TakenAtOnce(Len(Graph))
      BY <3>3, DecoderGraphs
    <3> QED BY <3>1, <3>2, <3>3, <3>4 DEF TakenAtOnce
  <2> QED BY <2>1, <2>2
<1>7. CASE UNCHANGED << cur, stamped, exec >>
  BY <1>7
<1> QED BY <1>4, <1>5, <1>6, <1>7, GraphCases

LEMMA CleanDone == CleanInv => CleanEnd
<1> SUFFICES ASSUME CleanInv, AllDone, NEW d \in Devices
             PROVE  synced[d] = {} /\ exec[d] = 0
  BY DEF CleanEnd
<1>1. TypeOK
  BY DEF CleanInv, BarrierInv
<1>2. Len(Graph) \in Nat /\ DOMAIN Graph = 1 .. Len(Graph) /\ cur[d] = Len(Graph) + 1
  BY <1>1, PositionType, DevicesFinite DEF AllDone, Running
<1>3. \A k \in SyncNodes : ~Pending(d, k)
  BY <1>2, BarrierType DEF Pending
<1>4. synced[d] \subseteq Tensors
  BY <1>1 DEF TypeOK
<1>5. synced[d] = {}
  BY <1>3, <1>4 DEF CleanInv, MarksExact
<1>6. ASSUME exec[d] # 0
      PROVE  FALSE
  <2>1. cur[d] > 1 /\ Timed(cur[d] - 1)
    BY <1>6 DEF CleanInv, DurationTaken
  <2>2. Len(Graph) \in DOMAIN Graph /\ cur[d] - 1 = Len(Graph)
    BY <1>2, <2>1
  <2>3. TakenAtOnce(Len(Graph))
    BY <2>2, DecoderGraphs
  <2> QED BY <1>2, <2>1, <2>2, <2>3 DEF TakenAtOnce
<1> QED BY <1>5, <1>6

LEMMA CleanStep == CleanInv /\ [Next]_vars => CleanInv'
<1> SUFFICES ASSUME CleanInv, [Next]_vars PROVE CleanInv'
  OBVIOUS
<1>1. TypeOK /\ BarrierInv /\ BarrierInv' /\ DurationTaken' /\ MarksExact
  BY BarrierStep, DurationStep DEF CleanInv, BarrierInv
<1>2. CASE \E d \in Devices : RunNode(d)
  BY <1>1, <1>2, MarksRun DEF CleanInv
<1>3. CASE Restart
  <2>1. AllDone /\ synced' = synced /\ cur' = [d \in Devices |-> 1]
    BY <1>3 DEF Restart
  <2>2. \A d \in Devices : synced'[d] = {}
    BY <2>1, CleanDone DEF CleanEnd
  <2>3. \A d \in Devices, k \in SyncNodes : ~Pending(d, k)'
    BY <2>1, BarrierType, GroupOf DEF Pending
  <2> QED BY <1>1, <2>2, <2>3 DEF CleanInv, MarksExact
<1>4. CASE UNCHANGED << cur, synced >>
  BY <1>1, <1>4 DEF CleanInv, MarksExact, Pending
<1> QED BY <1>1, <1>2, <1>3, <1>4, GraphCases, BlockEffect

LEMMA CleanInit == Init => CleanInv
<1> SUFFICES ASSUME Init PROVE CleanInv
  OBVIOUS
<1>1. /\ cur = [d \in Devices |-> 1] /\ synced = [d \in Devices |-> {}]
      /\ exec = [d \in Devices |-> 0]
  BY DEF Init
<1>2. \A d \in Devices, k \in SyncNodes : ~Pending(d, k)
  BY <1>1, BarrierType, GroupOf DEF Pending
<1> QED BY <1>1, <1>2, BarrierInit DEF CleanInv, MarksExact, DurationTaken

\* An iteration leaves nothing behind that the restart does not reset: no mark, which
\* would make a device skip a synchronisation of the next iteration, and no duration,
\* which would be charged to its first module.
THEOREM CleanEndHolds == Spec => []CleanEnd
BY CleanInit, CleanStep, CleanDone, PTL DEF Spec
---------------------------------------------------------------------------
(* Lanes.                                                                  *)

\* No time has been spent outside the lanes.
Level(c) == c.device <= c.high \/ c.device <= c.low

\* A device is level wherever it is about to enter a lane, or in one.
LevelClocks == \A d \in Devices : LevelAt(cur[d]) /\ Running(d) => Level(clock[d])

\* Only a node that waits for a tensor is stamped and not run.
StampedWaits ==
  \A d \in Devices :
    stamped[d] => Running(d) /\ Executes(d) /\ ~(NodeOf(d).group = 0 /\ NodeOf(d).vec)

LaneInv == CleanInv /\ LevelClocks /\ StampedWaits

LEMMA FrontierGrows ==
  ASSUME NEW b \in Clock, NEW c \in Clock,
         b.device <= Frontier(c), b.high <= Frontier(c), b.low <= Frontier(c)
  PROVE  Frontier(b) <= Frontier(c)
BY FrontierOf

LEMMA JoinedClock ==
  ASSUME NEW c \in Clock
  PROVE  /\ Joined(c) \in Clock /\ Level(Joined(c)) /\ Frontier(c) <= Frontier(Joined(c))
<1>1. Frontier(c) \in Nat
  BY FrontierOf
<1> HIDE DEF Frontier
<1>2. Joined(c) \in Clock /\ Joined(c).device = Frontier(c) /\ Joined(c).high = Frontier(c)
  BY <1>1 DEF Joined, Clock
<1>3. Joined(c).device <= Frontier(Joined(c))
  BY <1>2, FrontierOf
<1> QED BY <1>1, <1>2, <1>3 DEF Level

LEMMA LaneOf ==
  ASSUME NEW d \in Devices, Running(d)
  PROVE  Laned(cur[d]) <=> Lane(d) \in {"high", "low"}
BY DEF Laned, Lane, NodeOf

\* A stamp in a lane leaves the device level; it moves the frontier back only when the
\* device was not level.
LEMMA StampLevel ==
  ASSUME TypeOK, NEW d \in Devices, Running(d), Laned(cur[d]) => Level(clock[d])
  PROVE  /\ Frontier(clock[d]) <= Frontier(StampClock(d))
         /\ Laned(cur[d]) => Level(StampClock(d))
         /\ ~NodeOf(d).pop /\ ~Laned(cur[d]) /\ ~stamped[d] => Level(StampClock(d))
         /\ NodeOf(d).pop /\ exec[d] = 0 /\ Level(clock[d]) => Level(StampClock(d))
<1>1. clock[d] \in Clock /\ exec[d] \in Nat /\ StampClock(d) \in Clock
  BY StampType
<1>2. /\ clock[d].device \in Nat /\ clock[d].high \in Nat /\ clock[d].low \in Nat
  BY <1>1 DEF Clock
<1>3. CASE stamped[d]
  <2>1. StampClock(d) = clock[d]
    BY <1>3 DEF StampClock, Stamps
  <2>2. Frontier(clock[d]) \in Nat
    BY <1>1, FrontierOf
  <2> QED BY <1>3, <2>1, <2>2
<1>4. CASE ~stamped[d] /\ ~NodeOf(d).pop
  <2>1. StampClock(d) = PushClock(d)
    BY <1>4 DEF StampClock, Stamps
  <2>2. CASE Laned(cur[d])
    <3>1. \/ PushClock(d) = [clock[d] EXCEPT !.device = clock[d].high]
          \/ PushClock(d) = [clock[d] EXCEPT !.device = clock[d].low]
      BY <2>2, LaneOf DEF PushClock
    <3>2. /\ PushClock(d).high = clock[d].high /\ PushClock(d).low = clock[d].low
          /\ PushClock(d).device \in {clock[d].high, clock[d].low}
      BY <1>1, <3>1 DEF Clock
    <3>3. Level(PushClock(d))
      BY <1>2, <3>2 DEF Level
    <3>4. clock[d].high <= Frontier(PushClock(d)) /\ clock[d].low <= Frontier(PushClock(d))
      BY <1>1, <2>1, <3>2, FrontierOf
    <3>5. Frontier(PushClock(d)) \in Nat
      BY <1>1, <2>1, FrontierOf
    <3>6. clock[d].device <= Frontier(PushClock(d))
      BY <1>2, <2>2, <3>4, <3>5 DEF Level
    <3>7. Frontier(clock[d]) <= Frontier(PushClock(d))
      BY <1>1, <2>1, <3>4, <3>6, FrontierGrows
    <3> QED BY <1>4, <2>1, <2>2, <3>3, <3>7
  <2>3. CASE ~Laned(cur[d])
    <3>1. PushClock(d) = Joined(clock[d])
      BY <2>3, LaneOf DEF PushClock
    <3> QED BY <1>1, <1>4, <2>1, <2>3, <3>1, JoinedClock
  <2> QED BY <2>2, <2>3
<1>5. CASE ~stamped[d] /\ NodeOf(d).pop
  <2>1. StampClock(d) = PopClock(d)
    BY <1>5 DEF StampClock, Stamps
  <2> DEFINE device == clock[d].device + exec[d]
             high == clock[d].high + exec[d]
             low == clock[d].low + exec[d]
  <2>2. /\ device \in Nat /\ high \in Nat /\ low \in Nat
        /\ clock[d].device <= device /\ clock[d].high <= high /\ clock[d].low <= low
        /\ exec[d] = 0 => device = clock[d].device
    BY <1>1, <1>2
  <2>3. \/ PopClock(d) = [clock[d] EXCEPT !.high = high, !.device = high] /\ Laned(cur[d])
        \/ PopClock(d) = [clock[d] EXCEPT !.low = low, !.device = low] /\ Laned(cur[d])
        \/ PopClock(d) = [clock[d] EXCEPT !.device = device] /\ ~Laned(cur[d])
    BY LaneOf DEF PopClock
  <2> HIDE DEF device, high, low
  <2>4. \/ /\ PopClock(d).high = high /\ PopClock(d).device = high
           /\ PopClock(d).low = clock[d].low /\ Laned(cur[d])
        \/ /\ PopClock(d).low = low /\ PopClock(d).device = low
           /\ PopClock(d).high = clock[d].high /\ Laned(cur[d])
        \/ /\ PopClock(d).device = device /\ ~Laned(cur[d])
           /\ PopClock(d).high = clock[d].high /\ PopClock(d).low = clock[d].low
    BY <1>1, <2>3 DEF Clock
  <2>5. /\ Laned(cur[d]) => Level(PopClock(d))
        /\ exec[d] = 0 /\ Level(clock[d]) => Level(PopClock(d))
    BY <1>2, <2>2, <2>4 DEF Level
  <2>6. /\ Frontier(PopClock(d)) \in Nat
        /\ PopClock(d).device <= Frontier(PopClock(d))
        /\ PopClock(d).high <= Frontier(PopClock(d)) /\ PopClock(d).low <= Frontier(PopClock(d))
    BY <1>1, <2>1, FrontierOf
  <2>7. clock[d].high <= PopClock(d).high /\ clock[d].low <= PopClock(d).low
    BY <1>2, <2>2, <2>4
  <2>8. clock[d].high <= Frontier(PopClock(d)) /\ clock[d].low <= Frontier(PopClock(d))
    BY <1>1, <1>2, <2>1, <2>6, <2>7 DEF Clock
  <2>9. clock[d].device <= Frontier(PopClock(d))
    BY <1>2, <2>2, <2>4, <2>6, <2>8 DEF Level
  <2>10. Frontier(clock[d]) <= Frontier(PopClock(d))
    BY <1>1, <2>1, <2>8, <2>9, FrontierGrows
  <2> QED BY <1>5, <2>1, <2>5, <2>10
<1> QED BY <1>3, <1>4, <1>5

\* The forward of a module never moves the frontier back, and keeps the device level
\* when it takes no time of its own.
LEMMA ForwardLevel ==
  ASSUME TypeOK, NEW d \in Devices, Running(d), NEW c \in Clock
  PROVE  /\ Frontier(c) <= Frontier(ForwardClock(d, c))
         /\ Level(c) /\ NodeOf(d).work \notin {"reduce", "scatter", "gather"}
              => Level(ForwardClock(d, c))
<1>1. cur[d] \in DOMAIN Graph /\ ForwardClock(d, c) \in Clock
  BY PositionType, ForwardType
<1>2. CASE NodeOf(d).work = "set"
  BY <1>2, JoinedClock DEF ForwardClock
<1>3. CASE NodeOf(d).work # "set"
  <2>1. CommTime(d, cur[d]) \in Nat
        /\ (NodeOf(d).work \notin {"reduce", "scatter", "gather"} => CommTime(d, cur[d]) = 0)
    BY <1>1, CommTimeType DEF CommTime, NodeOf
  <2>2. PICK t \in Nat : t = CommTime(d, cur[d])
    BY <2>1
  <2>3. ForwardClock(d, c) = [c EXCEPT !.device = @ + t]
    BY <1>3, <2>2 DEF ForwardClock
  <2>4. /\ c.device \in Nat /\ c.high \in Nat /\ c.low \in Nat
        /\ ForwardClock(d, c).device = c.device + t
        /\ ForwardClock(d, c).high = c.high /\ ForwardClock(d, c).low = c.low
    BY <2>3 DEF Clock
  <2>5. /\ Frontier(ForwardClock(d, c)) \in Nat
        /\ ForwardClock(d, c).device <= Frontier(ForwardClock(d, c))
        /\ ForwardClock(d, c).high <= Frontier(ForwardClock(d, c))
        /\ ForwardClock(d, c).low <= Frontier(ForwardClock(d, c))
    BY <1>1, FrontierOf
  <2>6. c.device <= Frontier(ForwardClock(d, c))
    BY <2>4, <2>5
  <2>7. Frontier(c) <= Frontier(ForwardClock(d, c))
    BY <1>1, <2>4, <2>5, <2>6, FrontierGrows
  <2>8. t = 0 /\ Level(c) => Level(ForwardClock(d, c))
    BY <2>4 DEF Level
  <2> QED BY <2>1, <2>2, <2>7, <2>8
<1> QED BY <1>2, <1>3

\* A synchronisation reaches no other device that is level for a lane.
LEMMA SyncAvoidsLanes ==
  ASSUME LaneInv, NEW d \in Devices, RunNode(d), NEW e \in Devices \ {d},
         Syncs(d), Late(d), e \in Group(d, cur[d]), Running(e)
  PROVE  ~LevelAt(cur[e])
<1>1. TypeOK /\ BarrierInv /\ MarksExact /\ Running(d)
  BY DEF LaneInv, CleanInv, BarrierInv, RunNode
<1>2. cur[d] \in SyncNodes
  BY <1>1, SyncsAt
<1>3. cur[e] <= cur[d]
  BY <1>1, <1>2, LateMeans
<1>4. cur[e] \in Nat /\ cur[d] \in Nat /\ cur[e] \in DOMAIN Graph /\ cur[d] \in DOMAIN Graph
  BY <1>1, PositionType
<1>5. LanesGuarded(cur[e]) /\ LanesGuarded(cur[d])
  BY <1>4, DecoderGraphs
<1> SUFFICES ASSUME LevelAt(cur[e]) PROVE FALSE
  OBVIOUS
<1>6. CASE cur[e] < cur[d]
  <2>1. Behind(d, e, cur[e], cur[d])
    BY <1>2, <1>5, <1>6 DEF LanesGuarded
  <2>2. cur[e] > cur[e]
    BY <1>1, <1>4, <2>1, BehindRunning
  <2> QED BY <1>4, <2>2
<1>7. CASE cur[e] = cur[d]
  BY <1>2, <1>5, <1>7 DEF LevelAt, LanesGuarded, SyncNodes
<1> QED BY <1>3, <1>4, <1>6, <1>7

\* Where a device is after a node, it is level if a lane is next.
LEMMA RunLevel ==
  ASSUME LaneInv, NEW d \in Devices, RunNode(d), cur[d] + 1 \in DOMAIN Graph,
         LevelAt(cur[d] + 1)
  PROVE  Level(clock'[d])
<1>1. TypeOK /\ BarrierInv /\ Running(d) /\ DurationTaken /\ LevelClocks /\ StampedWaits
  BY DEF LaneInv, CleanInv, BarrierInv, RunNode
<1>2. PICK k \in DOMAIN Graph : k = cur[d]
  BY <1>1, PositionType
<1>3. k \in Nat \ {0} /\ k + 1 \in DOMAIN Graph /\ NodeOf(d) = Graph[k] /\ Len(Graph) \in Nat
      /\ DOMAIN Graph = 1 .. Len(Graph)
  BY <1>2, DevicesFinite DEF NodeOf
<1>4. LevelAt(k) => Level(clock[d])
  BY <1>1, <1>2 DEF LevelClocks
<1>5. Laned(k) => Level(clock[d])
  BY <1>4 DEF LevelAt
<1>6. clock'[d] = IF Executes(d) THEN ForwardClock(d, SyncedClocks(d)[d]) ELSE SyncedClocks(d)[d]
  BY <1>1, RunEffect
\* Outside a barrier the stamp and the forward are all that happens.
<1>7. ASSUME NodeOf(d).group = 0, Level(StampClock(d)),
             Executes(d) => NodeOf(d).work \notin {"reduce", "scatter", "gather"}
      PROVE  Level(clock'[d])
  <2>1. SyncedClocks(d)[d] = StampClock(d)
    BY <1>7, <1>1, SyncedType DEF Syncs, SyncedClocks, TypeOK
  <2>2. StampClock(d) \in Clock
    BY <1>1, StampType
  <2> QED BY <1>1, <1>6, <1>7, <2>1, <2>2, ForwardLevel
<1>8. CASE Laned(k)
  <2>1. LanesGuarded(k)
    BY DecoderGraphs
  <2>2. NodeOf(d).group = 0 /\ NodeOf(d).work \notin {"reduce", "scatter", "gather"}
    BY <1>3, <1>8, <2>1 DEF LanesGuarded
  <2>3. Level(StampClock(d))
    BY <1>1, <1>2, <1>5, <1>8, StampLevel
  <2> QED BY <1>7, <2>2, <2>3
\* From the pop before a lane: it is level already, and takes nothing.
<1>9. CASE ~Laned(k) /\ Laned(k + 1)
  <2>1. LanesGuarded(k + 1)
    BY <1>3, DecoderGraphs
  <2>2. (k + 1) - 1 = k /\ (k + 1) - 2 = k - 1 /\ k + 1 # 1
    BY <1>3
  <2>3. Graph[k].pop /\ JoinsOnly(k - 1)
    BY <1>9, <2>1, <2>2 DEF LanesGuarded
  <2>4. LevelAt(k)
    BY <1>3, <1>9, <2>3 DEF LevelAt
  <2>5. exec[d] = 0
    <3>1. exec[d] # 0 => Timed(k - 1)
      BY <1>1, <1>2 DEF DurationTaken
    <3>2. ~Timed(k - 1)
      BY <2>3 DEF JoinsOnly, TakesTime, Timed
    <3> QED BY <3>1, <3>2
  <2>6. Level(StampClock(d))
    BY <1>1, <1>2, <1>3, <1>4, <1>5, <2>3, <2>4, <2>5, StampLevel
  <2>7. ~Executes(d) /\ SyncedClocks(d)[d] = StampClock(d)
    BY <1>1, <1>3, <2>3, SyncedType DEF Executes, Syncs, SyncedClocks, TypeOK
  <2> QED BY <1>6, <2>6, <2>7
\* From the call before that pop: it joins the lanes, and takes no time.
<1>10. CASE ~Laned(k) /\ ~Laned(k + 1)
  <2>1. Graph[k + 1].pop /\ (k + 1) + 1 \in DOMAIN Graph /\ Laned((k + 1) + 1)
    BY <1>2, <1>10 DEF LevelAt
  <2>2. (k + 1) + 1 = k + 2 /\ (k + 2) - 1 = k + 1 /\ (k + 2) - 2 = k /\ k + 2 # 1
    BY <1>3
  <2>3. LanesGuarded(k + 2)
    BY <2>1, <2>2, DecoderGraphs
  <2>4. JoinsOnly(k)
    BY <1>10, <2>1, <2>2, <2>3 DEF LanesGuarded
  <2>5. ~stamped[d]
    BY <1>1, <1>3, <2>4 DEF JoinsOnly, StampedWaits, Executes
  <2>6. Level(StampClock(d))
    BY <1>1, <1>2, <1>3, <1>10, <2>4, <2>5, StampLevel DEF JoinsOnly
  <2>7. NodeOf(d).group = 0 /\ NodeOf(d).work \notin {"reduce", "scatter", "gather"}
    BY <1>3, <2>4 DEF JoinsOnly, TakesTime
  <2> QED BY <1>7, <2>6, <2>7
<1> QED BY <1>8, <1>9, <1>10

LEMMA LaneStep == LaneInv /\ [Next]_vars => LaneInv'
<1> SUFFICES ASSUME LaneInv, [Next]_vars PROVE LaneInv'
  OBVIOUS
<1>1. TypeOK /\ TypeOK' /\ CleanInv' /\ LevelClocks /\ StampedWaits /\ BarrierInv
  BY CleanStep DEF LaneInv, CleanInv, BarrierInv
<1>2. CASE \E d \in Devices : RunNode(d)
  <2>1. PICK d \in Devices : RunNode(d)
    BY <1>2
  <2>2. /\ Running(d) /\ cur[d] \in DOMAIN Graph /\ cur'[d] = cur[d] + 1 /\ ~stamped'[d]
        /\ \A e \in Devices \ {d} : /\ cur'[e] = cur[e] /\ stamped'[e] = stamped[e]
                                    /\ clock'[e] = SyncedClocks(d)[e]
    BY <1>1, <2>1, RunEffect, PositionType
  <2>3. StampedWaits'
    BY <1>1, <2>2 DEF StampedWaits, Running, Executes, NodeOf
  <2>4. ASSUME NEW e \in Devices, LevelAt(cur'[e]), cur'[e] < Ends
        PROVE  Level(clock'[e])
    <3>1. CASE e = d
      <4>1. cur[d] + 1 \in DOMAIN Graph
        BY <2>2, <2>4, <3>1, DevicesFinite
      <4> QED BY <2>1, <2>2, <2>4, <3>1, <4>1, RunLevel
    <3>2. CASE e # d
      <4>1. Running(e) /\ LevelAt(cur[e])
        BY <2>2, <2>4, <3>2 DEF Running
      <4>2. ~(Syncs(d) /\ Late(d) /\ e \in Group(d, cur[d]))
        BY <2>1, <3>2, <4>1, SyncAvoidsLanes
      <4>3. SyncedClocks(d)[e] = clock[e]
        BY <1>1, <2>2, <3>2, <4>2, SyncedType DEF TypeOK
      <4> QED BY <1>1, <2>2, <3>2, <4>1, <4>3 DEF LevelClocks
    <3> QED BY <3>1, <3>2
  <2> QED BY <1>1, <2>3, <2>4 DEF LaneInv, LevelClocks, Running
<1>3. CASE \E d \in Devices : Block(d)
  <2>1. PICK d \in Devices : Block(d)
    BY <1>3
  <2>2. /\ Running(d) /\ cur[d] \in DOMAIN Graph /\ cur' = cur /\ ~CanRun(d)
        /\ clock'[d] = StampClock(d)
        /\ \A e \in Devices \ {d} : stamped'[e] = stamped[e] /\ clock'[e] = clock[e]
    BY <1>1, <2>1, BlockEffect, PositionType
  <2>3. Executes(d) /\ ~(NodeOf(d).group = 0 /\ NodeOf(d).vec)
    BY <2>2 DEF CanRun, check_ready
  <2>4. StampedWaits'
    BY <1>1, <2>2, <2>3 DEF StampedWaits, Running, Executes, NodeOf
  <2>5. Laned(cur[d]) => Level(clock[d])
    BY <1>1, <2>2 DEF LevelClocks, LevelAt
  <2>6. LevelAt(cur[d]) => Laned(cur[d])
    BY <2>3 DEF LevelAt, Executes, NodeOf
  <2>7. LevelAt(cur[d]) => Level(clock'[d])
    BY <1>1, <2>2, <2>5, <2>6, StampLevel
  <2>8. LevelClocks'
    BY <1>1, <2>2, <2>7 DEF LevelClocks, Running
  <2> QED BY <1>1, <2>4, <2>8 DEF LaneInv
<1>4. CASE Restart
  <2>1. stamped' = [d \in Devices |-> FALSE] /\ clock' = [d \in Devices |-> ZeroClock]
    BY <1>4 DEF Restart
  <2> QED BY <1>1, <2>1 DEF LaneInv, LevelClocks, StampedWaits, Level, ZeroClock
<1>5. CASE UNCHANGED << cur, stamped, clock >>
  BY <1>1, <1>5 DEF LaneInv, LevelClocks, StampedWaits, Running, Executes, NodeOf
<1> QED BY <1>1, <1>2, <1>3, <1>4, <1>5, GraphCases

LEMMA LaneInit == Init => LaneInv
<1> SUFFICES ASSUME Init PROVE LaneInv
  OBVIOUS
<1>1. stamped = [d \in Devices |-> FALSE] /\ clock = [d \in Devices |-> ZeroClock]
  BY DEF Init
<1> QED BY <1>1, CleanInit DEF LaneInv, LevelClocks, StampedWaits, Level, ZeroClock

\* Time already spent is never lost within an iteration: whatever a device runs in a
\* lane or outside, and whatever others synchronise with it, the latest of its three
\* clocks never moves back.
THEOREM ClockMonotoneHolds == Spec => ClockMonotone
<1> DEFINE Monotone ==
      \A d \in Devices : iter' = iter => Frontier(clock'[d]) >= Frontier(clock[d])
<1>1. LaneInv /\ [Next]_vars => [Monotone]_vars
  <2> SUFFICES ASSUME LaneInv, [Next]_vars, NEW x \in Devices, iter' = iter
               PROVE  Frontier(clock'[x]) >= Frontier(clock[x])
    OBVIOUS
  <2>1. TypeOK /\ TypeOK' /\ BarrierInv /\ LevelClocks
    BY GraphTypeStep DEF LaneInv, CleanInv, BarrierInv
  <2>2. clock[x] \in Clock /\ Frontier(clock[x]) \in Nat /\ Frontier(clock'[x]) \in Nat
    BY <2>1, FrontierOf DEF TypeOK, Clock
  <2>3. ~Restart
    BY <2>1, GraphAssumption DEF TypeOK, Restart
  <2>4. ASSUME NEW d \in Devices, Running(d)
        PROVE  Frontier(clock[d]) <= Frontier(StampClock(d))
    BY <2>1, <2>4, StampLevel DEF LevelClocks, LevelAt
  <2>5. CASE \E d \in Devices : RunNode(d)
    <3>1. PICK d \in Devices : RunNode(d)
      BY <2>5
    <3>2. Running(d)
      BY <3>1 DEF RunNode
    <3> DEFINE before == [clock EXCEPT ![d] = StampClock(d)]
    <3>3. before \in [Devices -> Clock] /\ SyncedClocks(d) \in [Devices -> Clock]
      BY <2>1, <3>2, SyncedType
    <3>4. /\ SyncedClocks(d)[x].high = before[x].high /\ SyncedClocks(d)[x].low = before[x].low
          /\ before[x].device <= SyncedClocks(d)[x].device
      <4>1. before[x].device <= before[x].device
        BY <3>3 DEF Clock
      <4> QED BY <2>1, <3>2, <4>1, SyncedType
    <3>5. Frontier(before[x]) <= Frontier(SyncedClocks(d)[x])
      <4>1. PICK b \in Clock : b = before[x]
        BY <3>3
      <4>2. PICK c \in Clock : c = SyncedClocks(d)[x]
        BY <3>3
      <4>3. /\ c.high = b.high /\ c.low = b.low /\ b.device <= c.device
            /\ b.device \in Nat /\ c.device \in Nat
        BY <3>4, <4>1, <4>2 DEF Clock
      <4>4. c.device <= Frontier(c) /\ c.high <= Frontier(c) /\ c.low <= Frontier(c)
            /\ Frontier(c) \in Nat
        BY FrontierOf
      <4>5. b.device <= Frontier(c) /\ b.high <= Frontier(c) /\ b.low <= Frontier(c)
        BY <4>3, <4>4
      <4> QED BY <4>1, <4>2, <4>5, FrontierGrows
    <3>6. Frontier(clock[x]) <= Frontier(before[x])
      <4>1. before[x] = IF x = d THEN StampClock(d) ELSE clock[x]
        BY <2>1 DEF TypeOK
      <4> QED BY <2>2, <2>4, <3>2, <4>1
    <3>7. Frontier(SyncedClocks(d)[x]) <= Frontier(clock'[x])
      <4>1. SyncedClocks(d)[x] \in Clock /\ Frontier(SyncedClocks(d)[x]) \in Nat
        BY <3>3, FrontierOf
      <4>2. clock'[x] = SyncedClocks(d)[x]
            \/ (x = d /\ clock'[x] = ForwardClock(d, SyncedClocks(d)[x]))
        BY <2>1, <3>1, RunEffect
      <4> QED BY <2>1, <3>2, <4>1, <4>2, ForwardLevel
    <3>8. /\ Frontier(before[x]) \in Nat /\ Frontier(SyncedClocks(d)[x]) \in Nat
      BY <3>3, FrontierOf
    <3> QED BY <2>2, <3>5, <3>6, <3>7, <3>8
  <2>6. CASE \E d \in Devices : Block(d)
    <3>1. PICK d \in Devices : Block(d)
      BY <2>6
    <3>2. Running(d) /\ clock'[d] = StampClock(d)
          /\ \A e \in Devices \ {d} : clock'[e] = clock[e]
      BY <2>1, <3>1, BlockEffect
    <3> QED BY <2>2, <2>4, <3>2
  <2>7. CASE clock' = clock
    BY <2>2, <2>7
  <2> QED BY <2>1, <2>3, <2>5, <2>6, <2>7, GraphCases
<1> QED BY <1>1, LaneInit, LaneStep, PTL DEF Spec, ClockMonotone
---------------------------------------------------------------------------
(* The times of a synchronisation: where the devices are when another one  *)
(* runs.                                                                   *)

\* A device that has begun runs until it waits.
Turns == \A d \in Devices : Running(d) /\ cur[d] > 1 /\ ~stamped[d] => turn = d

\* What a device has made is ready on it.
OwnReady ==
  \A d \in Devices : /\ Graph[1].in \in ready[d]
                     /\ \A j \in 1 .. cur[d] - 1 : Forwards(j) => Graph[j].out \in ready[d]

StampedAtBarrier == \A d \in Devices : stamped[d] => cur[d] \in SyncNodes

\* Some device of d's group is past k.
Passed(d, k) == \E e \in Group(d, k) : cur[e] > k

\* When one has passed a meeting, the others were all there.
Gathered ==
  \A k \in SyncNodes, d \in Devices : MeetsAt(k) /\ Passed(d, k) =>
    \A e \in Group(d, k) : cur[e] > k \/ (cur[e] = k /\ stamped[e])

PlaceInv == LaneInv /\ Turns /\ OwnReady /\ StampedAtBarrier /\ Gathered

\* The node whose meeting sets the time of k.
Reference(k) == IF MeetsAt(k) THEN k ELSE k - 3

LEMMA BarrierShape ==
  ASSUME NEW k \in SyncNodes
  PROVE  /\ k \in Nat /\ k \in DOMAIN Graph /\ k > 1
         /\ k + 1 \in DOMAIN Graph /\ Graph[k + 1].pop /\ ~Laned(k + 1) /\ k + 1 \notin SyncNodes
         /\ ~Laned(k) /\ ~Graph[k].pop /\ Graph[k].exec /\ Graph[k].group # 0
         /\ Graph[k].work # "set" /\ ~Timed(k)
         /\ MeetsAt(k) => k > 2 /\ Producer[k] = k - 2 /\ k - 1 \notin SyncNodes /\ Graph[k - 1].pop
<1>1. k \in Nat /\ k \in DOMAIN Graph /\ Producer[k] \in 1 .. k - 1
  BY ProducerOf, BarrierType
<1>2. MetOnce(k) /\ LanesGuarded(k)
  BY <1>1, DecoderGraphs
<1>3. ~Graph[k].pop /\ Graph[k].exec /\ Graph[k].group # 0
  BY DEF SyncNodes
<1>4. \A m \in SyncNodes : ~Graph[m].pop
  BY DEF SyncNodes
<1> QED BY <1>1, <1>2, <1>3, <1>4 DEF MetOnce, LanesGuarded, MeetsAt

LEMMA ReferenceShape ==
  ASSUME NEW k \in SyncNodes
  PROVE  /\ Reference(k) \in SyncNodes /\ MeetsAt(Reference(k)) /\ Reference(k) <= k
         /\ MeetsAt(k) => Reference(k) = k
         /\ ~MeetsAt(k) => /\ Reference(k) = k - 3
                           /\ ~TakesTime(k - 3)
                           /\ Graph[k - 2].pop /\ ~Laned(k - 2) /\ k - 2 \notin SyncNodes
                           /\ Graph[k - 1].pop /\ ~Laned(k - 1) /\ k - 1 \notin SyncNodes
         /\ \A d \in Devices : \A e \in Group(d, k) :
              e \in Group(d, Reference(k)) /\ Group(e, Reference(k)) = Group(d, Reference(k))
<1>1. k \in Nat /\ k \in DOMAIN Graph
  BY BarrierType
<1>2. MetOnce(k)
  BY DecoderGraphs
<1>3. \A d \in Devices : \A e \in Group(d, k) : Group(e, k) = Group(d, k)
  BY <1>1, GroupOf
<1>4. CASE MeetsAt(k)
  BY <1>1, <1>3, <1>4 DEF Reference
<1>5. CASE ~MeetsAt(k)
  <2>1. FollowsAt(k - 3)
    BY <1>2, <1>5 DEF MetOnce
  <2>2. k - 3 \in SyncNodes /\ (k - 3) + 1 = k - 2 /\ (k - 3) + 2 = k - 1 /\ (k - 3) + 3 = k
    BY <1>1, <2>1 DEF FollowsAt
  <2>3. k - 3 \in DOMAIN Graph /\ Graph[k - 2].pop /\ ~Laned(k - 2)
    BY <2>2, BarrierShape
  <2>4. \A d \in Devices : \A e \in Group(d, k - 3) : Group(e, k - 3) = Group(d, k - 3)
    BY <2>3, GroupOf
  <2>5. MeetsAt(k - 3) /\ ~TakesTime(k - 3) /\ Graph[k - 1].pop /\ ~Laned(k - 1)
        /\ \A d \in Devices : Group(d, k) \subseteq Group(d, k - 3)
    BY <2>1, <2>2 DEF FollowsAt
  <2>6. \A m \in SyncNodes : ~Graph[m].pop
    BY DEF SyncNodes
  <2> QED BY <1>1, <1>5, <2>2, <2>3, <2>4, <2>5, <2>6 DEF Reference
<1> QED BY <1>4, <1>5

LEMMA Elsewhere ==
  ASSUME PlaceInv, NEW d \in Devices, turn = d, NEW e \in Devices \ {d}
  PROVE  ~Running(e) \/ cur[e] = 1 \/ (stamped[e] /\ cur[e] \in SyncNodes)
<1>1. cur[e] \in Nat /\ cur[e] >= 1
  BY PositionType DEF PlaceInv, LaneInv, CleanInv, BarrierInv
<1> QED BY <1>1 DEF PlaceInv, Turns, StampedAtBarrier
\* A device waits at a synchronising node only.
LEMMA WaitsAtBarrier ==
  ASSUME PlaceInv, NEW d \in Devices, Block(d)
  PROVE  cur[d] \in SyncNodes
<1>1. TypeOK
  BY DEF PlaceInv, LaneInv, CleanInv, BarrierInv
<1>2. Running(d) /\ ~CanRun(d) /\ cur[d] \in DOMAIN Graph /\ NodeOf(d) = Graph[cur[d]]
  BY <1>1, BlockEffect, PositionType DEF NodeOf
<1>3. Executes(d) /\ ~check_ready(d)
  BY <1>2 DEF CanRun
<1> SUFFICES ASSUME Graph[cur[d]].group = 0 PROVE FALSE
  BY <1>2, <1>3 DEF Executes, SyncNodes
<1>4. ~Graph[cur[d]].vec /\ Graph[cur[d]].in \notin ready[d]
  BY <1>2, <1>3 DEF check_ready
<1>5. MadeBefore(cur[d]) /\ Forwards(cur[d])
  BY <1>2, <1>3, DecoderGraphs DEF Executes, Forwards
<1>6. \/ Graph[cur[d]].in = Graph[1].in
      \/ \E j \in 1 .. cur[d] - 1 : Forwards(j) /\ Graph[j].out = Graph[cur[d]].in
  BY <1>4, <1>5 DEF MadeBefore
<1> QED BY <1>4, <1>6 DEF PlaceInv, OwnReady

LEMMA PlaceStep == PlaceInv /\ [Next]_vars => PlaceInv'
<1> SUFFICES ASSUME PlaceInv, [Next]_vars PROVE PlaceInv'
  OBVIOUS
<1>1. /\ TypeOK /\ BarrierInv /\ LaneInv /\ LaneInv' /\ Turns /\ OwnReady /\ StampedAtBarrier
      /\ Gathered
  BY LaneStep DEF PlaceInv, LaneInv, CleanInv, BarrierInv
<1>2. \A e \in Devices : cur[e] \in Nat /\ cur[e] >= 1
  BY <1>1, PositionType
<1>3. \A k \in SyncNodes : k \in Nat /\ k \in DOMAIN Graph
  BY BarrierShape
<1>4. CASE \E d \in Devices : RunNode(d)
  <2>1. PICK d \in Devices : RunNode(d)
    BY <1>4
  <2>2. /\ turn = d /\ turn' = turn /\ Running(d) /\ cur'[d] = cur[d] + 1 /\ ~stamped'[d]
        /\ cur[d] \in DOMAIN Graph
        /\ ready'[d] = IF Executes(d) THEN ready[d] \cup { NodeOf(d).out } ELSE ready[d]
        /\ \A e \in Devices \ {d} : cur'[e] = cur[e] /\ stamped'[e] = stamped[e] /\ ready'[e] = ready[e]
    BY <1>1, <2>1, RunEffect, PositionType
  <2>3. Turns'
    BY <1>1, <2>2 DEF Turns, Running
  <2>4. StampedAtBarrier'
    BY <1>1, <2>2 DEF StampedAtBarrier
  <2>5. OwnReady'
    <3> SUFFICES ASSUME NEW e \in Devices
                 PROVE  /\ Graph[1].in \in ready'[e]
                        /\ \A j \in 1 .. cur'[e] - 1 : Forwards(j) => Graph[j].out \in ready'[e]
      BY DEF OwnReady
    <3>1. CASE e # d
      BY <1>1, <2>2, <3>1 DEF OwnReady
    <3>2. CASE e = d
      <4>1. Graph[1].in \in ready'[d]
        BY <1>1, <2>2 DEF OwnReady
      <4>2. ASSUME NEW j \in 1 .. cur'[d] - 1, Forwards(j)
            PROVE  Graph[j].out \in ready'[d]
        <5>1. j \in 1 .. cur[d] - 1 \/ j = cur[d]
          BY <1>2, <2>2
        <5>2. CASE j \in 1 .. cur[d] - 1
          BY <1>1, <2>2, <4>2, <5>2 DEF OwnReady
        <5>3. CASE j = cur[d]
          BY <2>2, <4>2, <5>3 DEF Forwards, Executes, NodeOf
        <5> QED BY <5>1, <5>2, <5>3
      <4> QED BY <3>2, <4>1, <4>2
    <3> QED BY <3>1, <3>2
  <2>6. Gathered'
    <3> SUFFICES ASSUME NEW k \in SyncNodes, NEW x \in Devices, MeetsAt(k),
                        NEW y \in Group(x, k), cur'[y] > k, NEW e \in Group(x, k)
                 PROVE  cur'[e] > k \/ (cur'[e] = k /\ stamped'[e])
      BY DEF Gathered, Passed
    <3>1. k \in Nat /\ k - 1 \in Nat /\ k > 2 /\ Producer[k] = k - 2 /\ k - 1 \notin SyncNodes
      BY BarrierShape
    <3>2. x \in Devices /\ y \in Devices /\ e \in Devices /\ e \in Group(y, k)
      BY <1>3, GroupOf
    <3>3. CASE cur[y] > k
      <4>1. cur[e] > k \/ (cur[e] = k /\ stamped[e])
        BY <1>1, <3>3 DEF Gathered, Passed
      <4> QED BY <1>2, <2>2, <3>1, <3>2, <4>1
    <3>4. CASE ~(cur[y] > k)
      <4>1. y = d /\ cur[d] = k
        BY <1>2, <2>2, <3>1, <3>2, <3>4
      <4>2. cur[e] > k - 2
        BY <1>1, <2>1, <3>1, <3>2, <4>1, BarrierPassed
      <4>3. CASE e = d
        BY <2>2, <3>1, <4>1, <4>3
      <4>4. CASE e # d
        <5>1. ~Running(e) \/ cur[e] = 1 \/ (stamped[e] /\ cur[e] \in SyncNodes)
          BY <2>2, <3>2, <4>4, Elsewhere
        <5>2. CASE ~Running(e)
          <6>1. cur[e] > k
            BY <1>1, <1>2, <1>3, <3>1, <3>2, <5>2, PositionType, DevicesFinite DEF Running
          <6> QED BY <2>2, <3>2, <4>4, <6>1
        <5>3. CASE stamped[e] /\ cur[e] \in SyncNodes
          <6>1. cur[e] # k - 1
            BY <3>1, <5>3
          <6>2. cur[e] > k \/ cur[e] = k
            BY <1>2, <3>1, <3>2, <4>2, <6>1
          <6> QED BY <2>2, <3>2, <4>4, <5>3, <6>2
        <5> QED BY <1>2, <3>1, <4>2, <5>1, <5>2, <5>3
      <4> QED BY <4>3, <4>4
    <3> QED BY <3>3, <3>4
  <2> QED BY <1>1, <2>3, <2>4, <2>5, <2>6 DEF PlaceInv
<1>5. CASE \E d \in Devices : Block(d)
  <2>1. PICK d \in Devices : Block(d)
    BY <1>5
  <2>2. /\ turn = d /\ stamped'[d] /\ cur' = cur /\ ready' = ready
        /\ \A e \in Devices \ {d} : stamped'[e] = stamped[e]
    BY <1>1, <2>1, BlockEffect
  <2>3. cur[d] \in SyncNodes
    BY <2>1, WaitsAtBarrier
  <2>4. Turns'
    BY <1>1, <2>2 DEF Turns, Running
  <2>5. StampedAtBarrier'
    BY <1>1, <2>2, <2>3 DEF StampedAtBarrier
  <2>6. OwnReady'
    BY <1>1, <2>2 DEF OwnReady
  <2>7. Gathered'
    <3>1. \A e \in Devices : stamped[e] => stamped'[e]
      BY <2>2
    <3>2. \A k \in SyncNodes, x \in Devices : Group(x, k) \subseteq Devices
      BY <1>3, GroupOf
    <3> QED BY <1>1, <2>2, <3>1, <3>2 DEF Gathered, Passed
  <2> QED BY <1>1, <2>4, <2>5, <2>6, <2>7 DEF PlaceInv
<1>6. CASE Restart
  <2>1. /\ cur' = [d \in Devices |-> 1] /\ stamped' = [d \in Devices |-> FALSE]
        /\ ready' = [d \in Devices |-> { Graph[1].in }]
    BY <1>6 DEF Restart, FreshTensors
  <2>2. Turns' /\ StampedAtBarrier' /\ OwnReady'
    BY <2>1 DEF Turns, StampedAtBarrier, OwnReady
  <2>3. \A k \in SyncNodes, x \in Devices : ~Passed(x, k)'
    BY <1>3, <2>1, GroupOf, DevicesFinite DEF Passed
  <2> QED BY <1>1, <2>2, <2>3 DEF PlaceInv, Gathered
<1>7. CASE /\ UNCHANGED << iter, load, cur, stamped, ready, synced, clock, exec, timeboard,
                           aggregated >>
           /\ (\E d \in Devices : Finished(d)) \/ Sweep \/ turn' = turn
  <2>1. Turns'
    <3> SUFFICES ASSUME NEW e \in Devices, Running(e), cur[e] > 1, ~stamped[e]
                 PROVE  turn' = e
      BY <1>7 DEF Turns, Running
    <3>1. turn = e /\ e < NumDevices
      BY <1>1, DevicesFinite DEF Turns, Devices
    <3>2. ~Sweep /\ \A d \in Devices : ~Finished(d)
      BY <3>1, DevicesFinite DEF Sweep, Finished
    <3> QED BY <1>7, <3>1, <3>2
  <2> QED BY <1>1, <1>7, <2>1 DEF PlaceInv, OwnReady, StampedAtBarrier, Gathered, Passed
<1> QED BY <1>1, <1>4, <1>5, <1>6, <1>7, GraphCases

LEMMA PlaceInit == Init => PlaceInv
<1> SUFFICES ASSUME Init PROVE PlaceInv
  OBVIOUS
<1>1. /\ cur = [d \in Devices |-> 1] /\ stamped = [d \in Devices |-> FALSE]
      /\ ready = [d \in Devices |-> { Graph[1].in }]
  BY DEF Init
<1>2. Turns /\ StampedAtBarrier /\ OwnReady
  BY <1>1 DEF Turns, StampedAtBarrier, OwnReady
<1>3. \A k \in SyncNodes, x \in Devices : ~Passed(x, k)
  <2>1. \A k \in SyncNodes : k \in Nat /\ k > 1 /\ k \in DOMAIN Graph
    BY BarrierShape
  <2>2. \A k \in SyncNodes, x \in Devices : Group(x, k) \subseteq Devices
    BY <2>1, GroupOf
  <2> QED BY <1>1, <2>1, <2>2 DEF Passed
<1> QED BY <1>2, <1>3, LaneInit DEF PlaceInv, Gathered
---------------------------------------------------------------------------
(* Times.                                                                  *)

\* The latest arrival of d's group at k, by the time stamps.
Meeting(d, k) == Max({ timeboard[e][k] : e \in Group(d, k) })
Met(d, k) == Meeting(d, Reference(k))

\* The time of a clock is t.
At(c, t) == c.device = t /\ c.high <= t /\ c.low <= t

\* A device that waits shows its arrival, until one of the group has passed ...
Waiting ==
  \A k \in SyncNodes, d \in Devices :
    MeetsAt(k) /\ cur[d] = k /\ stamped[d] /\ ~Passed(d, k) => At(clock[d], timeboard[d][k])

\* ... and the time of the meeting from then on,
Released ==
  \A k \in SyncNodes, d \in Devices :
    MeetsAt(k) /\ cur[d] <= k /\ Passed(d, k) => At(clock[d], Meeting(d, k))

\* also up to and at a node that follows.
Following ==
  \A k \in SyncNodes, d \in Devices :
    ~MeetsAt(k) /\ k - 3 < cur[d] /\ cur[d] <= k => At(clock[d], Met(d, k))
Arrived ==
  \A k \in SyncNodes, d \in Devices :
    ~MeetsAt(k) /\ Len(timeboard[d]) >= k => timeboard[d][k] = Met(d, k)

\* Past the node it has spent its own communication on top.
Leaving ==
  \A k \in SyncNodes, d \in Devices :
    cur[d] = k + 1 => clock[d].device = Met(d, k) + CommTime(d, k)
Left ==
  \A k \in SyncNodes, d \in Devices :
    Len(timeboard[d]) > k => timeboard[d][k + 1] = Met(d, k) + CommTime(d, k)

TimeInv ==
  PlaceInv /\ Waiting /\ Released /\ Following /\ Arrived /\ Leaving /\ Left

LEMMA PlaceParts ==
  ASSUME PlaceInv
  PROVE  /\ TypeOK /\ BarrierInv /\ MarksExact /\ DurationTaken /\ StampedWaits
         /\ \A d \in Devices : /\ cur[d] \in Nat /\ timeboard[d] \in Seq(Nat)
                               /\ Len(timeboard[d]) = cur[d] - 1 + (IF stamped[d] THEN 1 ELSE 0)
                               /\ clock[d] \in Clock
<1>1. TypeOK /\ BarrierInv /\ MarksExact /\ DurationTaken /\ StampedWaits
  BY DEF PlaceInv, LaneInv, CleanInv, BarrierInv
<1> QED BY <1>1, PositionType DEF TypeOK, Clock

\* A board only grows.
LEMMA BoardsGrow ==
  ASSUME TypeOK, NEW x \in Devices, RunNode(x) \/ Block(x), NEW e \in Devices
  PROVE  /\ Len(timeboard[e]) <= Len(timeboard'[e])
         /\ \A i \in 1 .. Len(timeboard[e]) : timeboard'[e][i] = timeboard[e][i]
<1>1. /\ Running(x) /\ timeboard'[x] = StampBoard(x)
      /\ \A d \in Devices \ {x} : timeboard'[d] = timeboard[d]
  BY RunEffect, BlockEffect
<1>2. /\ Len(StampBoard(x)) = cur[x] /\ cur[x] \in Nat
      /\ Len(timeboard[x]) = cur[x] - 1 + (IF stamped[x] THEN 1 ELSE 0)
      /\ \A i \in 1 .. Len(timeboard[x]) : StampBoard(x)[i] = timeboard[x][i]
  BY <1>1, BoardType, PositionType
<1>3. Len(timeboard[x]) <= Len(StampBoard(x))
  BY <1>2
<1>4. Len(timeboard[e]) \in Nat
  BY DEF TypeOK
<1> QED BY <1>1, <1>2, <1>3, <1>4

\* A time on the board of a device was there before the step, or the device that
\* moves has just stamped it.
LEMMA BoardEntry ==
  ASSUME TypeOK, NEW x \in Devices, RunNode(x) \/ Block(x), NEW e \in Devices,
         NEW k \in Nat, k > 0, Len(timeboard'[e]) >= k
  PROVE  \/ Len(timeboard[e]) >= k /\ timeboard'[e][k] = timeboard[e][k]
         \/ /\ Len(timeboard[e]) < k /\ e = x /\ cur[x] = k /\ ~stamped[x]
            /\ timeboard'[x][k] = StampClock(x).device
<1>1. /\ Running(x) /\ timeboard'[x] = StampBoard(x)
      /\ \A d \in Devices \ {x} : timeboard'[d] = timeboard[d]
  BY RunEffect, BlockEffect
<1>2. /\ Len(StampBoard(x)) = cur[x] /\ cur[x] \in Nat
      /\ Len(timeboard[x]) = cur[x] - 1 + (IF stamped[x] THEN 1 ELSE 0)
      /\ ~stamped[x] => StampBoard(x)[cur[x]] = StampClock(x).device
  BY <1>1, BoardType, PositionType
<1>3. Len(timeboard[e]) \in Nat
  BY DEF TypeOK
<1>4. CASE Len(timeboard[e]) >= k
  <2>1. k \in 1 .. Len(timeboard[e])
    BY <1>3, <1>4
  <2>2. timeboard'[e][k] = timeboard[e][k]
    BY <2>1, BoardsGrow
  <2> QED BY <1>4, <2>2
<1>5. CASE Len(timeboard[e]) < k
  <2>1. e = x
    BY <1>1, <1>3, <1>5
  <2>2. Len(StampBoard(x)) >= k /\ Len(timeboard[x]) < k
    BY <1>1, <1>5, <2>1
  <2>3. cur[x] = k /\ ~stamped[x]
    BY <1>2, <2>2
  <2>4. timeboard'[x][k] = StampClock(x).device
    BY <1>1, <1>2, <2>3
  <2> QED BY <1>5, <2>1, <2>3, <2>4
<1> QED BY <1>3, <1>4, <1>5

LEMMA GatheredStamps ==
  ASSUME PlaceInv, NEW k \in SyncNodes, MeetsAt(k), NEW d \in Devices, Passed(d, k)
  PROVE  \A e \in Group(d, k) : e \in Devices /\ Len(timeboard[e]) >= k
<1>1. k \in Nat /\ Group(d, k) \subseteq Devices
  BY BarrierType, GroupOf
<1>2. \A e \in Group(d, k) : cur[e] > k \/ (cur[e] = k /\ stamped[e])
  BY DEF PlaceInv, Gathered
<1> QED BY <1>1, <1>2, PlaceParts

\* When one has passed, the time of the meeting is fixed.
LEMMA MeetingFixed ==
  ASSUME PlaceInv, NEW x \in Devices, RunNode(x) \/ Block(x),
         NEW k \in SyncNodes, MeetsAt(k), NEW d \in Devices, Passed(d, k)
  PROVE  Meeting(d, k)' = Meeting(d, k)
<1>1. TypeOK /\ k \in Nat /\ k > 1
  BY PlaceParts, BarrierShape
<1>2. \A e \in Group(d, k) : e \in Devices /\ Len(timeboard[e]) >= k /\ Len(timeboard[e]) \in Nat
  BY <1>1, GatheredStamps, PlaceParts
<1>3. \A e \in Group(d, k) : timeboard'[e][k] = timeboard[e][k]
  BY <1>1, <1>2, BoardsGrow
<1>4. { timeboard'[e][k] : e \in Group(d, k) } = { timeboard[e][k] : e \in Group(d, k) }
  BY <1>3
<1> QED BY <1>4 DEF Meeting

LEMMA LatestOf ==
  ASSUME NEW b, NEW k \in Nat \ {0}, NEW d \in Devices, k \in DOMAIN Graph,
         \A e \in Group(d, k) : b[e] \in Seq(Nat) /\ Len(b[e]) >= k
  PROVE  /\ Max({ b[e][k] : e \in Group(d, k) }) \in Nat
         /\ \A e \in Group(d, k) : b[e][k] <= Max({ b[x][k] : x \in Group(d, k) })
<1>1. IsFiniteSet(Group(d, k)) /\ Group(d, k) # {}
  BY GroupOf
<1> DEFINE f == [e \in Group(d, k) |-> b[e][k]]
<1>2. \A e \in Group(d, k) : b[e][k] \in Nat
  BY DevicesFinite
<1>3. \A e \in Group(d, k) : f[e] \in Int
  BY <1>2
<1>4. { f[e] : e \in Group(d, k) } = { b[e][k] : e \in Group(d, k) }
  BY DEF f
<1>5. \A e \in Group(d, k) : f[e] = b[e][k]
  OBVIOUS
<1> HIDE DEF f
<1>6. /\ Max({ f[e] : e \in Group(d, k) }) \in { f[e] : e \in Group(d, k) }
      /\ \A e \in Group(d, k) : f[e] <= Max({ f[x] : x \in Group(d, k) })
  BY <1>1, <1>3, MaxValue
<1> QED BY <1>2, <1>4, <1>5, <1>6

LEMMA MeetingValue ==
  ASSUME PlaceInv, NEW k \in SyncNodes, MeetsAt(k), NEW d \in Devices, Passed(d, k)
  PROVE  Meeting(d, k) \in Nat
<1>1. k \in Nat \ {0} /\ k \in DOMAIN Graph
  BY BarrierShape
<1>2. \A e \in Group(d, k) : timeboard[e] \in Seq(Nat) /\ Len(timeboard[e]) >= k
  BY GatheredStamps, PlaceParts
<1> QED BY <1>1, <1>2, LatestOf DEF Meeting

\* The stamp of a device at a barrier keeps its time.
LEMMA StampAt ==
  ASSUME TypeOK, NEW d \in Devices, Running(d), cur[d] \in SyncNodes
  PROVE  /\ ~stamped[d] => StampClock(d) = Joined(clock[d])
         /\ stamped[d] => StampClock(d) = clock[d]
         /\ ~stamped[d] => At(StampClock(d), StampClock(d).device)
         /\ \A t \in Nat : At(clock[d], t) => At(StampClock(d), t)
<1>1. clock[d] \in Clock /\ NodeOf(d) = Graph[cur[d]]
  BY StampType
<1>2. ~NodeOf(d).pop /\ ~Laned(cur[d])
  BY <1>1, BarrierShape
<1>3. ~stamped[d] => StampClock(d) = Joined(clock[d])
  BY <1>2, LaneOf DEF StampClock, Stamps, PushClock
<1>4. stamped[d] => StampClock(d) = clock[d]
  BY DEF StampClock, Stamps
<1>5. PICK m \in Nat : m = Frontier(clock[d])
  BY <1>1, FrontierOf
<1>6. Joined(clock[d]) = [device |-> m, high |-> m, low |-> m]
  BY <1>5 DEF Joined
<1>7. \A t \in Nat : At(clock[d], t) => m = t
  <2>1. /\ m \in {clock[d].device, clock[d].high, clock[d].low} /\ clock[d].device <= m
        /\ clock[d].high \in Nat /\ clock[d].low \in Nat
    BY <1>1, <1>5, FrontierOf DEF Clock
  <2> QED BY <2>1 DEF At
<1> QED BY <1>3, <1>4, <1>6, <1>7 DEF At
\* The time of k is set when one of the group has passed the meeting it goes by; who
\* has still to pass k shows that time.
TimeSet(d, k) == IF MeetsAt(k) THEN Passed(d, k) ELSE cur[d] > k - 3

LEMMA SetTime ==
  ASSUME TimeInv, NEW k \in SyncNodes, NEW d \in Devices, TimeSet(d, k)
  PROVE  /\ Met(d, k) \in Nat
         /\ \A x \in Devices : RunNode(x) \/ Block(x) => Met(d, k)' = Met(d, k)
         /\ \A e \in Group(d, k) : /\ e \in Devices /\ Met(e, k) = Met(d, k)
                                   /\ cur[e] <= k => At(clock[e], Met(d, k))
<1> DEFINE b == Reference(k)
<1>1. /\ b \in SyncNodes /\ MeetsAt(b) /\ b \in Nat /\ k \in Nat /\ k \in DOMAIN Graph
      /\ b \in DOMAIN Graph
  BY ReferenceShape, BarrierShape
<1>2. PlaceInv /\ Gathered /\ Released /\ Following
  BY DEF TimeInv, PlaceInv
<1>3. /\ \A e \in Group(d, k) : e \in Group(d, b) /\ Group(e, b) = Group(d, b)
      /\ Group(d, k) \subseteq Devices /\ d \in Group(d, b)
  BY <1>1, ReferenceShape, GroupOf
<1>4. Passed(d, b)
  <2>1. CASE MeetsAt(k)
    BY <2>1, ReferenceShape DEF TimeSet
  <2>2. CASE ~MeetsAt(k)
    BY <2>2, <1>3, ReferenceShape DEF TimeSet, Passed
  <2> QED BY <2>1, <2>2
<1>5. Met(d, k) = Meeting(d, b) /\ Met(d, k)' = Meeting(d, b)'
  BY DEF Met
<1> HIDE DEF b
<1>6. Met(d, k) \in Nat
  BY <1>1, <1>2, <1>4, <1>5, MeetingValue
<1>7. \A x \in Devices : RunNode(x) \/ Block(x) => Met(d, k)' = Met(d, k)
  BY <1>1, <1>2, <1>4, <1>5, MeetingFixed
<1>8. ASSUME NEW e \in Group(d, k)
      PROVE  /\ e \in Devices /\ Met(e, k) = Met(d, k)
             /\ cur[e] <= k => At(clock[e], Met(d, k))
  <2>1. e \in Devices /\ Group(e, b) = Group(d, b) /\ e \in Group(d, b)
    BY <1>3
  <2>2. Meeting(e, b) = Meeting(d, b)
    BY <2>1 DEF Meeting
  <2>3. Met(e, k) = Met(d, k)
    BY <2>2, <1>5 DEF Met, b
  <2>4. Passed(e, b)
    BY <1>4, <2>1 DEF Passed
  <2>5. ASSUME cur[e] <= k
        PROVE  At(clock[e], Met(d, k))
    <3>1. CASE MeetsAt(k)
      <4>1. b = k
        BY <3>1, ReferenceShape DEF b
      <4> QED BY <1>2, <1>5, <2>1, <2>2, <2>4, <2>5, <3>1, <4>1 DEF Released
    <3>2. CASE ~MeetsAt(k)
      <4>1. b = k - 3
        BY <3>2, ReferenceShape DEF b
      <4>2. cur[e] > b \/ (cur[e] = b /\ stamped[e])
        BY <1>1, <1>2, <1>4, <2>1 DEF Gathered
      <4>3. CASE cur[e] > b
        BY <1>2, <2>1, <2>3, <2>5, <3>2, <4>1, <4>3 DEF Following
      <4>4. CASE cur[e] = b
        <5>1. cur[e] <= b
          BY <1>1, <4>4
        <5> QED BY <1>1, <1>2, <1>5, <2>1, <2>2, <2>4, <5>1 DEF Released
      <4> QED BY <4>2, <4>3, <4>4
    <3> QED BY <3>1, <3>2
  <2> QED BY <2>1, <2>3, <2>5
<1> QED BY <1>6, <1>7, <1>8

\* The clocks of a step, with the stamp of the device that runs.
Stamped(d) == [clock EXCEPT ![d] = StampClock(d)]

\* The first to pass a meeting finds all the others there, at their arrivals.
LEMMA MeetTimes ==
  ASSUME TimeInv, NEW f \in Devices, RunNode(f), NEW k \in SyncNodes, cur[f] = k,
         MeetsAt(k), ~Passed(f, k), NEW e \in Group(f, k)
  PROVE  /\ e \in Devices /\ cur[e] = k /\ (e # f => stamped[e])
         /\ At(Stamped(f)[e], timeboard'[e][k])
         /\ timeboard'[e] \in Seq(Nat) /\ Len(timeboard'[e]) >= k
<1>1. PlaceInv /\ PlaceInv' /\ TypeOK /\ TypeOK' /\ Waiting /\ Gathered'
  <2>1. [Next]_vars
    BY DEF Next
  <2>2. PlaceInv /\ PlaceInv'
    BY <2>1, PlaceStep DEF TimeInv
  <2>3. TypeOK /\ TypeOK'
    BY <2>1, <2>2, PlaceParts, GraphTypeStep
  <2> QED BY <2>2, <2>3 DEF TimeInv, PlaceInv
<1>2. /\ k \in Nat /\ k \in DOMAIN Graph /\ k > 1 /\ Running(f)
      /\ f \in Group(f, k) /\ Group(f, k) \subseteq Devices /\ e \in Devices
      /\ Group(e, k) = Group(f, k)
  BY BarrierShape, GroupOf DEF RunNode
<1>3. /\ cur'[f] = k + 1 /\ timeboard'[f] = StampBoard(f)
      /\ \A x \in Devices \ {f} : cur'[x] = cur[x] /\ stamped'[x] = stamped[x]
                                  /\ timeboard'[x] = timeboard[x]
  BY <1>1, RunEffect
<1>4. Passed(f, k)'
  BY <1>2, <1>3 DEF Passed
<1>5. cur'[e] > k \/ (cur'[e] = k /\ stamped'[e])
  BY <1>1, <1>4 DEF Gathered
<1>6. cur[e] <= k /\ cur[e] \in Nat /\ cur'[e] \in Nat
  <2>1. cur[e] \in Nat
    BY <1>1, <1>2, PositionType
  <2>2. cur[e] <= k
    BY <1>2, <2>1 DEF Passed
  <2> QED BY <1>2, <1>3, <2>1, <2>2
<1>7. cur[e] = k /\ (e # f => stamped[e])
  BY <1>2, <1>3, <1>5, <1>6
<1>8. ~Passed(e, k)
  BY <1>2 DEF Passed
<1>9. stamped[e] => At(clock[e], timeboard[e][k]) /\ Len(timeboard[e]) = k
  <2>1. stamped[e] => At(clock[e], timeboard[e][k])
    BY <1>1, <1>2, <1>7, <1>8 DEF Waiting
  <2>2. stamped[e] => Len(timeboard[e]) = k
    BY <1>1, <1>2, <1>7, PlaceParts
  <2> QED BY <2>1, <2>2
<1>10. timeboard'[e] \in Seq(Nat)
  BY <1>1, <1>2 DEF TypeOK
<1>11. CASE e # f
  <2>1. Stamped(f)[e] = clock[e] /\ timeboard'[e] = timeboard[e]
    BY <1>1, <1>2, <1>3, <1>11 DEF Stamped, TypeOK
  <2> QED BY <1>2, <1>7, <1>9, <1>10, <1>11, <2>1
<1>12. CASE e = f
  <2>1. Stamped(f)[f] = StampClock(f)
    BY <1>1 DEF Stamped, TypeOK
  <2>2. /\ Len(StampBoard(f)) = k
        /\ \A i \in 1 .. Len(timeboard[f]) : StampBoard(f)[i] = timeboard[f][i]
        /\ ~stamped[f] => StampBoard(f)[k] = StampClock(f).device
    BY <1>1, <1>2, BoardType
  <2>3. CASE stamped[f]
    <3>1. StampBoard(f)[k] = timeboard[f][k]
      BY <1>2, <1>9, <1>12, <2>2, <2>3
    <3>2. StampClock(f) = clock[f]
      BY <1>1, <1>2, <2>3, StampAt
    <3> QED BY <1>2, <1>3, <1>7, <1>9, <1>10, <1>12, <2>1, <2>2, <2>3, <3>1, <3>2
  <2>4. CASE ~stamped[f]
    <3>1. At(StampClock(f), StampClock(f).device)
      BY <1>1, <1>2, <2>4, StampAt
    <3> QED BY <1>2, <1>3, <1>7, <1>10, <1>12, <2>1, <2>2, <2>4, <3>1
  <2> QED BY <2>3, <2>4
<1> QED BY <1>11, <1>12

\* A synchronisation moves the clocks of its group to the time of the meeting.
LEMMA SyncedTime ==
  ASSUME TimeInv, NEW f \in Devices, RunNode(f), NEW k \in SyncNodes, cur[f] = k, Late(f)
  PROVE  /\ Max({ Stamped(f)[e].device : e \in Group(f, k) }) = Met(f, k)'
         /\ Met(f, k)' \in Nat
         /\ \A e \in Group(f, k) :
              /\ e \in Devices /\ cur[e] <= k
              /\ Stamped(f)[e].high <= Met(f, k)' /\ Stamped(f)[e].low <= Met(f, k)'
              /\ ~MeetsAt(k) /\ e # f => Stamped(f)[e].device = Met(f, k)'
<1>1. PlaceInv /\ TypeOK /\ BarrierInv /\ MarksExact /\ Running(f)
  BY PlaceParts DEF TimeInv, RunNode
<1>2. /\ k \in Nat \ {0} /\ k \in DOMAIN Graph /\ f \in Group(f, k) /\ Group(f, k) \subseteq Devices
      /\ f \in Devices
  BY BarrierShape, GroupOf
<1>3. \A e \in Group(f, k) : cur[e] <= k
  BY <1>1, LateMeans
<1>4. ~Passed(f, k)
  BY <1>1, <1>2, <1>3, PlaceParts DEF Passed
<1>5. CASE MeetsAt(k)
  <2>1. \A e \in Group(f, k) : /\ Stamped(f)[e].device = timeboard'[e][k]
                               /\ Stamped(f)[e].high <= timeboard'[e][k]
                               /\ Stamped(f)[e].low <= timeboard'[e][k]
                               /\ timeboard'[e] \in Seq(Nat) /\ Len(timeboard'[e]) >= k
    BY <1>4, <1>5, MeetTimes DEF At
  <2>2. { Stamped(f)[e].device : e \in Group(f, k) } = { timeboard'[e][k] : e \in Group(f, k) }
    BY <2>1
  <2>3. Met(f, k)' = Max({ timeboard'[e][k] : e \in Group(f, k) })
    <3>1. Met(f, k)' = Max({ timeboard'[e][Reference(k)] : e \in Group(f, Reference(k)) })
      BY DEF Met, Meeting
    <3>2. Reference(k) = k
      BY <1>5, ReferenceShape
    <3> QED BY <3>1, <3>2
  <2>4. /\ Met(f, k)' \in Nat
        /\ \A e \in Group(f, k) : timeboard'[e][k] <= Met(f, k)'
    <3>1. \A e \in Group(f, k) : timeboard'[e] \in Seq(Nat) /\ Len(timeboard'[e]) >= k
      BY <2>1
    <3>2. /\ Max({ timeboard'[e][k] : e \in Group(f, k) }) \in Nat
          /\ \A e \in Group(f, k) :
               timeboard'[e][k] <= Max({ timeboard'[x][k] : x \in Group(f, k) })
      BY <1>2, <3>1, LatestOf
    <3> QED BY <2>3, <3>2
  <2>5. Stamped(f) \in [Devices -> Clock]
    BY <1>1, SyncedType DEF Stamped
  <2>6. \A e \in Group(f, k) : timeboard'[e][k] \in Nat /\ Stamped(f)[e].high \in Nat
                               /\ Stamped(f)[e].low \in Nat
    BY <1>2, <2>1, <2>5 DEF Clock
  <2>7. \A e \in Group(f, k) : /\ Stamped(f)[e].high <= Met(f, k)'
                               /\ Stamped(f)[e].low <= Met(f, k)'
    BY <2>1, <2>4, <2>6
  <2> QED BY <1>2, <1>3, <1>5, <2>2, <2>3, <2>4, <2>7
<1>6. CASE ~MeetsAt(k)
  <2>1. TimeSet(f, k)
    BY <1>2, <1>6 DEF TimeSet
  <2>2. /\ Met(f, k) \in Nat /\ Met(f, k)' = Met(f, k)
        /\ \A e \in Group(f, k) : At(clock[e], Met(f, k))
    BY <1>3, <2>1, SetTime
  <2>3. At(StampClock(f), Met(f, k))
    BY <1>1, <1>2, <2>2, StampAt
  <2>4. \A e \in Group(f, k) : At(Stamped(f)[e], Met(f, k))
    BY <1>1, <1>2, <2>2, <2>3 DEF Stamped, TypeOK
  <2>5. { Stamped(f)[e].device : e \in Group(f, k) } = { Met(f, k) }
    BY <1>2, <2>4 DEF At
  <2>6. Max({ Stamped(f)[e].device : e \in Group(f, k) }) = Met(f, k)
    <3>1. Met(f, k) \in { Met(f, k) } /\ { Met(f, k) } \subseteq Int /\ \A x \in { Met(f, k) } : x <= Met(f, k)
      BY <2>2
    <3> QED BY <2>5, <3>1, MaxIs
  <2> QED BY <1>2, <1>3, <1>6, <2>2, <2>4, <2>6 DEF At
<1> QED BY <1>5, <1>6
\* A clock that shows t, moved to a later time.
LEMMA MovedTo ==
  ASSUME TimeInv, NEW f \in Devices, RunNode(f), NEW k \in SyncNodes, cur[f] = k, Late(f),
         NEW e \in Group(f, k)
  PROVE  At(SyncedClocks(f)[e], Met(f, k)')
<1>1. TypeOK /\ Running(f) /\ Syncs(f)
  <2>1. TypeOK /\ Running(f)
    BY PlaceParts DEF TimeInv, RunNode
  <2> QED BY <2>1, SyncsAt
<1>2. e \in Devices
  BY SyncedTime
<1>3. /\ SyncedClocks(f)[e].high = Stamped(f)[e].high
      /\ SyncedClocks(f)[e].low = Stamped(f)[e].low
      /\ SyncedClocks(f)[e].device = Max({ Stamped(f)[x].device : x \in Group(f, k) })
  BY <1>1, <1>2, SyncedType DEF Stamped
<1> QED BY <1>3, SyncedTime DEF At

\* Of the devices that do not run, only those found at the meeting are moved.
Finds(f, k, d) == cur[f] = k /\ MeetsAt(k) /\ ~Passed(f, k) /\ d \in Group(f, k)

LEMMA SyncOthers ==
  ASSUME TimeInv, NEW f \in Devices, RunNode(f), NEW d \in Devices \ {f}
  PROVE  \/ /\ \A k \in SyncNodes : ~Finds(f, k, d)
            /\ clock'[d] = clock[d]
         \/ \E k \in SyncNodes : /\ Finds(f, k, d) /\ cur[d] = k /\ stamped[d]
                                /\ At(clock'[d], Meeting(f, k)')
<1>1. PlaceInv /\ TypeOK /\ BarrierInv /\ MarksExact /\ Running(f)
  BY PlaceParts DEF TimeInv, RunNode
<1>2. clock'[d] = SyncedClocks(f)[d]
  BY <1>1, RunEffect
<1>3. Stamped(f)[d] = clock[d]
  BY <1>1 DEF Stamped, TypeOK
<1>4. ~(Syncs(f) /\ Late(f) /\ d \in Group(f, cur[f])) => clock'[d] = clock[d]
  BY <1>1, <1>2, <1>3, SyncedType DEF Stamped
<1>5. ASSUME NEW k \in SyncNodes, cur[f] = k
      PROVE  Late(f) <=> ~Passed(f, k)
  <2>1. Late(f) <=> \A e \in Group(f, k) : cur[e] <= k
    BY <1>1, <1>5, LateMeans
  <2>2. k \in Nat /\ \A e \in Group(f, k) : cur[e] \in Nat
    BY <1>1, BarrierType, GroupOf, PositionType
  <2> QED BY <2>1, <2>2 DEF Passed
<1>6. ASSUME NEW k \in SyncNodes, Finds(f, k, d)
      PROVE  cur[d] = k /\ stamped[d] /\ At(clock'[d], Meeting(f, k)')
  <2>1. k = cur[f] /\ MeetsAt(k) /\ ~Passed(f, k) /\ d \in Group(f, k) /\ Late(f)
    BY <1>5, <1>6 DEF Finds
  <2>2. cur[d] = k /\ stamped[d]
    BY <2>1, MeetTimes
  <2>3. At(clock'[d], Met(f, k)')
    BY <1>2, <2>1, MovedTo
  <2>4. Met(f, k)' = Meeting(f, k)'
    <3>1. Met(f, k)' = Meeting(f, Reference(k))'
      BY DEF Met
    <3>2. Reference(k) = k
      BY <2>1, ReferenceShape
    <3>3. Meeting(f, Reference(k))' = Meeting(f, k)'
      BY <3>2 DEF Meeting
    <3> QED BY <3>1, <3>3
  <2> QED BY <2>2, <2>3, <2>4
<1>7. ASSUME \A k \in SyncNodes : ~Finds(f, k, d), Syncs(f), Late(f), d \in Group(f, cur[f])
      PROVE  clock'[d] = clock[d]
  <2>1. PICK k \in SyncNodes : k = cur[f]
    BY <1>1, <1>7, SyncsAt
  <2>2. ~MeetsAt(k)
    BY <1>5, <1>7, <2>1 DEF Finds
  <2>3. /\ At(clock'[d], Met(f, k)')
        /\ clock[d].device = Met(f, k)'
    <3>1. cur[f] = k /\ Late(f) /\ d \in Group(f, k)
      BY <1>7, <2>1
    <3>2. At(SyncedClocks(f)[d], Met(f, k)')
      BY <3>1, MovedTo
    <3>3. \A e \in Group(f, k) :
            ~MeetsAt(k) /\ e # f => Stamped(f)[e].device = Met(f, k)'
      BY <3>1, SyncedTime
    <3>4. Stamped(f)[d].device = Met(f, k)'
      BY <2>2, <3>1, <3>3
    <3> QED BY <1>2, <1>3, <3>2, <3>4
  <2>4. clock'[d].high = clock[d].high /\ clock'[d].low = clock[d].low
    <3>1. /\ SyncedClocks(f)[d].high = Stamped(f)[d].high
          /\ SyncedClocks(f)[d].low = Stamped(f)[d].low
      <4>1. TypeOK /\ Running(f) /\ Syncs(f) /\ Late(f) /\ d \in Group(f, cur[f])
        BY <1>1, <1>7
      <4> QED BY <4>1, SyncedType DEF Stamped
    <3> QED BY <1>2, <1>3, <3>1
  <2>5. clock'[d] \in Clock /\ clock[d] \in Clock
    <3>1. SyncedClocks(f) \in [Devices -> Clock] /\ clock \in [Devices -> Clock]
      BY <1>1, SyncedType DEF TypeOK, Clock
    <3> QED BY <1>2, <3>1
  <2> QED BY <2>3, <2>4, <2>5 DEF At, Clock
<1>8. (\A k \in SyncNodes : ~Finds(f, k, d)) => clock'[d] = clock[d]
  BY <1>4, <1>7
<1> QED BY <1>6, <1>8
\* A device passes a barrier at the time of the meeting, plus its own communication.
LEMMA RunPasses ==
  ASSUME TimeInv, NEW f \in Devices, RunNode(f), NEW k \in SyncNodes, cur[f] = k
  PROVE  /\ Met(f, k)' \in Nat
         /\ clock'[f].device = Met(f, k)' + CommTime(f, k)
         /\ clock'[f].high <= Met(f, k)' /\ clock'[f].low <= Met(f, k)'
<1>1. PlaceInv /\ TypeOK /\ BarrierInv /\ MarksExact /\ Running(f)
  BY PlaceParts DEF TimeInv, RunNode
<1>2. k \in Nat /\ k \in DOMAIN Graph /\ f \in Group(f, k) /\ NodeOf(f) = Graph[k]
      /\ Graph[k].work # "set" /\ Executes(f)
  BY BarrierShape, GroupOf DEF NodeOf, Executes
<1>3. At(SyncedClocks(f)[f], Met(f, k)') /\ Met(f, k)' \in Nat
  <2>1. CASE Late(f)
    BY <1>2, <2>1, MovedTo, SyncedTime
  <2>2. CASE ~Late(f)
    <3>1. Passed(f, k)
      <4>1. ~\A e \in Group(f, k) : cur[e] <= k
        BY <1>1, <2>2, LateMeans
      <4>2. \A e \in Group(f, k) : cur[e] \in Nat
        BY <1>1, <1>2, GroupOf, PositionType
      <4> QED BY <1>2, <4>1, <4>2 DEF Passed
    <3>2. TimeSet(f, k)
      BY <1>2, <3>1 DEF TimeSet
    <3>3. Met(f, k) \in Nat /\ Met(f, k)' = Met(f, k) /\ At(clock[f], Met(f, k))
      BY <1>2, <3>2, SetTime
    <3>4. At(StampClock(f), Met(f, k))
      BY <1>1, <3>3, StampAt
    <3>5. SyncedClocks(f)[f] = StampClock(f)
      BY <1>1, <2>2, SyncedType DEF TypeOK
    <3> QED BY <3>3, <3>4, <3>5
  <2> QED BY <2>1, <2>2
<1>4. clock'[f] = [SyncedClocks(f)[f] EXCEPT !.device = @ + CommTime(f, k)]
  BY <1>1, <1>2, RunEffect DEF ForwardClock
<1>5. SyncedClocks(f)[f] \in Clock
  BY <1>1, SyncedType
<1> QED BY <1>3, <1>4, <1>5 DEF At, Clock

\* A pop outside the lanes, of a module that left no duration, changes no clock.
LEMMA IdlePop ==
  ASSUME PlaceInv, NEW f \in Devices, RunNode(f), NodeOf(f).pop, ~Laned(cur[f]),
         cur[f] > 1 => ~Timed(cur[f] - 1)
  PROVE  ~stamped[f] /\ StampClock(f) = clock[f] /\ clock'[f] = clock[f]
<1>1. TypeOK /\ Running(f) /\ DurationTaken /\ StampedWaits
  BY PlaceParts DEF RunNode
<1>2. ~stamped[f] /\ exec[f] = 0 /\ ~Executes(f)
  BY <1>1 DEF DurationTaken, StampedWaits, Executes
<1>3. clock[f] \in Clock
  BY <1>1, StampType
<1>4. StampClock(f) = [clock[f] EXCEPT !.device = clock[f].device + exec[f]]
  BY <1>1, <1>2, LaneOf DEF StampClock, Stamps, PopClock
<1>5. clock[f].device + exec[f] = clock[f].device
  BY <1>2, <1>3 DEF Clock
<1>6. StampClock(f) = clock[f]
  BY <1>3, <1>4, <1>5 DEF Clock
<1>7. clock'[f] = StampClock(f)
  <2>1. clock'[f] = SyncedClocks(f)[f]
    BY <1>1, <1>2, RunEffect
  <2>2. SyncedClocks(f) = [clock EXCEPT ![f] = StampClock(f)]
    BY <1>2 DEF SyncedClocks, Syncs
  <2>3. clock \in [Devices -> Clock]
    BY <1>1 DEF TypeOK, Clock
  <2> HIDE DEF StampClock
  <2> QED BY <2>1, <2>2, <2>3
<1> QED BY <1>2, <1>6, <1>7

\* The clocks of the devices at a meeting, after a step of one device.
LEMMA MeetingRun ==
  ASSUME TimeInv, NEW f \in Devices, RunNode(f)
  PROVE  (Waiting /\ Released)'
<1>1. PlaceInv /\ TypeOK /\ Waiting /\ Released /\ Gathered /\ Running(f)
      /\ (\A d \in Devices : cur[d] \in Nat)
  BY PlaceParts DEF TimeInv, PlaceInv, RunNode
<1>2. PlaceInv'
  BY PlaceStep DEF TimeInv, Next
<1>3. Gathered'
  BY <1>2 DEF PlaceInv
<1>4. /\ cur'[f] = cur[f] + 1 /\ ~stamped'[f]
      /\ \A e \in Devices \ {f} : /\ cur'[e] = cur[e] /\ stamped'[e] = stamped[e]
                                  /\ timeboard'[e] = timeboard[e]
  BY <1>1, RunEffect
<1>5. \A k \in SyncNodes : k \in Nat /\ k \in DOMAIN Graph
  BY BarrierShape
<1>6. \A k \in SyncNodes, d \in Devices : Passed(d, k) => Passed(d, k)'
  <2>1. \A k \in SyncNodes, d \in Devices : Group(d, k) \subseteq Devices
    BY <1>5, GroupOf
  <2>2. \A k \in SyncNodes, e \in Devices : cur[e] > k => cur'[e] > k
    BY <1>1, <1>4, <1>5
  <2> QED BY <2>1, <2>2 DEF Passed
<1>7. Waiting'
  <2> SUFFICES ASSUME NEW k \in SyncNodes, NEW d \in Devices, MeetsAt(k),
                      cur'[d] = k, stamped'[d], ~Passed(d, k)'
               PROVE  At(clock'[d], timeboard'[d][k])
    BY DEF Waiting
  <2>1. d # f /\ cur[d] = k /\ stamped[d] /\ timeboard'[d] = timeboard[d] /\ ~Passed(d, k)
    BY <1>4, <1>6
  <2>2. ASSUME NEW m \in SyncNodes, Finds(f, m, d), cur[d] = m
        PROVE  FALSE
    <3>1. m = k /\ cur[f] = k /\ f \in Group(d, k) /\ cur'[f] > k
      BY <1>4, <1>5, <2>1, <2>2, GroupOf DEF Finds
    <3>2. Passed(d, k)'
      BY <3>1 DEF Passed
    <3> QED BY <3>2
  <2>3. clock'[d] = clock[d]
    BY <2>1, <2>2, SyncOthers
  <2> QED BY <1>1, <2>1, <2>3 DEF Waiting
<1>8. Released'
  <2> SUFFICES ASSUME NEW k \in SyncNodes, NEW d \in Devices, MeetsAt(k),
                      cur'[d] <= k, Passed(d, k)'
               PROVE  At(clock'[d], Meeting(d, k)')
    BY DEF Released
  <2>1. /\ d \in Group(d, k) /\ Group(d, k) \subseteq Devices /\ k \in Nat
        /\ \A e \in Group(d, k) : Group(e, k) = Group(d, k) /\ d \in Group(e, k)
    BY <1>5, GroupOf
  <2>2. cur'[d] = k /\ stamped'[d]
    <3>1. cur'[d] > k \/ (cur'[d] = k /\ stamped'[d])
      BY <1>3, <2>1 DEF Gathered
    <3>2. cur'[d] \in Nat
      BY <1>1, <1>4
    <3> QED BY <2>1, <3>1, <3>2
  <2>3. d # f /\ cur[d] = k /\ stamped[d]
    BY <1>4, <2>2
  <2>4. CASE Passed(d, k)
    <3>1. ASSUME NEW m \in SyncNodes, Finds(f, m, d), cur[d] = m
          PROVE  FALSE
      <4>1. m = k /\ d \in Group(f, k) /\ ~Passed(f, k) /\ f \in Group(d, k)
        BY <1>5, <2>3, <3>1, GroupOf DEF Finds
      <4> QED BY <2>1, <2>4, <4>1 DEF Passed
    <3>2. clock'[d] = clock[d]
      BY <2>3, <3>1, SyncOthers
    <3>3. Meeting(d, k)' = Meeting(d, k)
      BY <1>1, <2>4, MeetingFixed
    <3>4. cur[d] <= k
      BY <2>1, <2>3
    <3> QED BY <1>1, <2>4, <3>2, <3>3, <3>4 DEF Released
  <2>5. CASE ~Passed(d, k)
    <3>1. PICK y \in Group(d, k) : cur'[y] > k
      BY DEF Passed
    <3>2. y = f /\ cur[f] = k
      <4>1. ~(cur[y] > k) /\ y \in Devices
        BY <2>1, <2>5 DEF Passed
      <4> QED BY <1>1, <1>4, <2>1, <3>1, <4>1
    <3>3. Finds(f, k, d)
      BY <2>1, <2>5, <3>2 DEF Finds, Passed
    <3>4. PICK m \in SyncNodes : Finds(f, m, d) /\ At(clock'[d], Meeting(f, m)')
      BY <2>3, <3>3, SyncOthers
    <3>5. m = k
      BY <3>2, <3>4 DEF Finds
    <3>6. Meeting(f, k)' = Meeting(d, k)'
      BY <2>1, <3>2 DEF Meeting
    <3> QED BY <3>4, <3>5, <3>6
  <2> QED BY <2>4, <2>5
<1> QED BY <1>7, <1>8
\* The times a device shows and has stamped on its way past a barrier.
LEMMA PassingRun ==
  ASSUME TimeInv, NEW f \in Devices, RunNode(f)
  PROVE  (Following /\ Arrived /\ Leaving /\ Left)'
<1>1. /\ PlaceInv /\ TypeOK /\ Following /\ Arrived /\ Leaving /\ Left /\ Running(f)
      /\ StampedAtBarrier /\ turn = f
      /\ \A d \in Devices : /\ cur[d] \in Nat /\ timeboard[d] \in Seq(Nat)
                            /\ Len(timeboard[d]) = cur[d] - 1 + (IF stamped[d] THEN 1 ELSE 0)
  BY PlaceParts DEF TimeInv, PlaceInv, RunNode
<1>2. /\ cur'[f] = cur[f] + 1 /\ timeboard'[f] = StampBoard(f) /\ load' = load
      /\ \A e \in Devices \ {f} : cur'[e] = cur[e] /\ timeboard'[e] = timeboard[e]
  BY <1>1, RunEffect
<1>3. /\ Len(StampBoard(f)) = cur[f]
      /\ \A i \in 1 .. Len(timeboard[f]) : StampBoard(f)[i] = timeboard[f][i]
      /\ ~stamped[f] => StampBoard(f)[cur[f]] = StampClock(f).device
  BY <1>1, BoardType
<1>4. \A d \in Devices, k \in DOMAIN Graph : CommTime(d, k)' = CommTime(d, k)
  BY <1>2 DEF CommTime
<1>5. ASSUME NEW k \in SyncNodes
      PROVE  /\ k \in Nat /\ k > 1 /\ k \in DOMAIN Graph /\ k + 1 \in DOMAIN Graph
             /\ (~MeetsAt(k) => k - 3 \in Nat)
             /\ \A d \in Devices : d \in Group(d, k)
  BY BarrierShape, ReferenceShape, GroupOf
<1>6. \A k \in SyncNodes, d \in Devices : TimeSet(d, k) => Met(d, k)' = Met(d, k)
  BY SetTime
\* A device that is past k has its time set.
<1>7. \A k \in SyncNodes, d \in Devices : cur[d] > k => TimeSet(d, k)
  BY <1>1, <1>5 DEF TimeSet, Passed
<1>8. \A k \in SyncNodes, d \in Devices : ~MeetsAt(k) /\ Len(timeboard[d]) >= k => TimeSet(d, k)
  <2> SUFFICES ASSUME NEW k \in SyncNodes, NEW d \in Devices, ~MeetsAt(k),
                      Len(timeboard[d]) >= k
               PROVE  cur[d] > k - 3
    BY DEF TimeSet
  <2>1. k \in Nat
    BY <1>5
  <2>2. Len(timeboard[d]) <= cur[d] /\ cur[d] \in Nat
    BY <1>1
  <2> QED BY <2>1, <2>2
<1>9. Following'
  <2> SUFFICES ASSUME NEW k \in SyncNodes, NEW d \in Devices, ~MeetsAt(k),
                      k - 3 < cur'[d], cur'[d] <= k
               PROVE  At(clock'[d], Met(d, k)')
    BY DEF Following
  <2>1. /\ k - 3 \in SyncNodes /\ ~TakesTime(k - 3) /\ Reference(k) = k - 3 /\ MeetsAt(k - 3)
        /\ Graph[k - 2].pop /\ ~Laned(k - 2) /\ Graph[k - 1].pop /\ ~Laned(k - 1)
    BY ReferenceShape
  <2>2. k \in Nat /\ cur[d] \in Nat /\ cur[f] \in Nat
    BY <1>1, <1>5
  <2>3. CASE d # f
    <3>1. TimeSet(d, k) /\ k - 3 < cur[d] /\ cur[d] <= k
      BY <1>2, <2>3 DEF TimeSet
    <3>2. At(clock[d], Met(d, k)) /\ Met(d, k)' = Met(d, k)
      BY <1>1, <1>6, <3>1 DEF Following
    <3>3. \A m \in SyncNodes : ~(Finds(f, m, d) /\ cur[d] = m)
      <4>1. SUFFICES ASSUME NEW m \in SyncNodes, MeetsAt(m), cur[d] = m
                     PROVE  FALSE
        BY DEF Finds
      <4>2. m # k /\ k - 3 \in Nat /\ m - 1 \notin SyncNodes /\ k - 2 \notin SyncNodes
            /\ k - 1 \notin SyncNodes
        BY <1>5, <4>1, BarrierShape, ReferenceShape
      <4>3. m # k - 1 /\ m # k - 2 /\ m # k
        BY <4>1, <4>2
      <4> QED BY <2>2, <3>1, <4>1, <4>3
    <3>4. clock'[d] = clock[d]
      BY <2>3, <3>3, SyncOthers
    <3> QED BY <3>2, <3>4
  <2>4. CASE d = f /\ cur[f] = k - 3
    <3>1. /\ Met(f, k - 3)' \in Nat
          /\ clock'[f].device = Met(f, k - 3)' + CommTime(f, k - 3)
          /\ clock'[f].high <= Met(f, k - 3)' /\ clock'[f].low <= Met(f, k - 3)'
      BY <2>1, <2>4, RunPasses
    <3>2. CommTime(f, k - 3) = 0
      BY <2>1 DEF CommTime, TakesTime
    <3>3. Met(f, k - 3)' = Met(f, k)'
      <4>1. Reference(k - 3) = k - 3
        BY <2>1, ReferenceShape
      <4> QED BY <2>1, <4>1 DEF Met
    <3>4. clock'[f].device = Met(f, k - 3)'
      BY <3>1, <3>2
    <3> QED BY <2>4, <3>1, <3>3, <3>4 DEF At
  <2>5. CASE d = f /\ cur[f] # k - 3
    <3>1. k - 3 < cur[f] /\ cur[f] < k /\ cur[f] > 1
      BY <1>1, <1>2, <1>5, <2>1, <2>5, BarrierShape
    <3>2. cur[f] = k - 2 \/ cur[f] = k - 1
      BY <2>2, <3>1
    <3>3. NodeOf(f).pop /\ ~Laned(cur[f])
      BY <2>1, <3>2 DEF NodeOf
    <3>4. ~Timed(cur[f] - 1)
      <4>1. ~Timed(k - 3)
        BY <2>1, BarrierShape
      <4>2. ~Timed(k - 2)
        BY <2>1 DEF Timed, Forwards
      <4> QED BY <1>5, <3>2, <4>1, <4>2
    <3>5. clock'[f] = clock[f]
      BY <1>1, <3>3, <3>4, IdlePop
    <3>6. cur[f] <= k /\ TimeSet(f, k)
      BY <1>1, <1>5, <3>1 DEF TimeSet
    <3> QED BY <1>1, <1>6, <2>5, <3>1, <3>5, <3>6 DEF Following
  <2> QED BY <2>3, <2>4, <2>5
<1>10. Arrived'
  <2> SUFFICES ASSUME NEW k \in SyncNodes, NEW d \in Devices, ~MeetsAt(k),
                      Len(timeboard'[d]) >= k
               PROVE  timeboard'[d][k] = Met(d, k)'
    BY DEF Arrived
  <2>0. k \in Nat /\ k > 0 /\ k - 3 \in Nat
    BY <1>5
  <2>1. CASE Len(timeboard[d]) >= k /\ timeboard'[d][k] = timeboard[d][k]
    <3>1. Met(d, k)' = Met(d, k)
      BY <1>6, <1>8, <2>1
    <3>2. timeboard[d][k] = Met(d, k)
      BY <1>1, <2>1 DEF Arrived
    <3> QED BY <2>1, <3>1, <3>2
  <2>2. CASE /\ Len(timeboard[d]) < k /\ d = f /\ cur[f] = k /\ ~stamped[f]
             /\ timeboard'[f][k] = StampClock(f).device
    <3>1. d = f /\ cur[f] = k /\ ~stamped[f]
      BY <2>2
    <3>2. TimeSet(f, k) /\ cur[f] <= k
      BY <2>0, <3>1 DEF TimeSet
    <3>3. Met(f, k) \in Nat /\ Met(f, k)' = Met(f, k) /\ At(clock[f], Met(f, k))
      BY <1>5, <3>2, SetTime
    <3>4. At(StampClock(f), Met(f, k))
      BY <1>1, <3>1, <3>3, StampAt
    <3> QED BY <2>2, <3>1, <3>3, <3>4 DEF At
  <2>4. \/ Len(timeboard[d]) >= k /\ timeboard'[d][k] = timeboard[d][k]
        \/ /\ Len(timeboard[d]) < k /\ d = f /\ cur[f] = k /\ ~stamped[f]
           /\ timeboard'[f][k] = StampClock(f).device
    <3>1. k \in Nat /\ k > 0 /\ TypeOK
      BY <1>1, <2>0
    <3> QED BY <3>1, BoardEntry
  <2> QED BY <2>1, <2>2, <2>4
<1>11. Leaving'
  <2> SUFFICES ASSUME NEW k \in SyncNodes, NEW d \in Devices, cur'[d] = k + 1
               PROVE  clock'[d].device = Met(d, k)' + CommTime(d, k)
    BY <1>4, <1>5 DEF Leaving
  <2>1. CASE d # f
    <3>1. cur[d] = k + 1 /\ Running(d)
      BY <1>1, <1>2, <1>5, <2>1, PositionType
    <3>2. stamped[d] /\ cur[d] \in SyncNodes
      BY <1>1, <1>5, <2>1, <3>1, Elsewhere
    <3> QED BY <3>1, <3>2, BarrierShape
  <2>2. CASE d = f
    <3>1. cur[f] = k
      BY <1>1, <1>2, <1>5, <2>2
    <3> QED BY <2>2, <3>1, RunPasses
  <2> QED BY <2>1, <2>2
<1>12. Left'
  <2> SUFFICES ASSUME NEW k \in SyncNodes, NEW d \in Devices, Len(timeboard'[d]) > k
               PROVE  timeboard'[d][k + 1] = Met(d, k)' + CommTime(d, k)
    BY <1>4, <1>5 DEF Left
  <2>1. CASE Len(timeboard[d]) > k
    <3>1. timeboard'[d][k + 1] = timeboard[d][k + 1] /\ cur[d] > k
      <4>0. /\ Len(timeboard[d]) \in Nat /\ cur[d] \in Nat /\ k \in Nat
            /\ Len(timeboard[d]) <= cur[d]
        <5>1. k \in Nat
          BY <1>5
        <5> QED BY <1>1, <5>1
      <4>1. k + 1 \in 1 .. Len(timeboard[d])
        BY <2>1, <4>0
      <4>2. cur[d] > k
        BY <2>1, <4>0
      <4> QED BY <1>1, <4>1, <4>2, BoardsGrow
    <3> QED BY <1>1, <1>6, <1>7, <2>1, <3>1 DEF Left
  <2>2. CASE ~(Len(timeboard[d]) > k)
    <3>1. d = f /\ cur[f] = k + 1
      <4>1. k \in Nat /\ TypeOK /\ Len(timeboard[d]) \in Nat
        BY <1>1, <1>5
      <4>2. k + 1 \in Nat /\ k + 1 > 0 /\ Len(timeboard'[d]) >= k + 1 /\ ~(Len(timeboard[d]) >= k + 1)
        <5>1. Len(timeboard'[d]) > k /\ Len(timeboard'[d]) \in Nat
          BY <1>1, <1>2, <1>3
        <5> QED BY <2>2, <4>1, <5>1
      <4> QED BY <4>1, <4>2, BoardEntry
    <3>2. NodeOf(f).pop /\ ~Laned(cur[f]) /\ ~Timed(cur[f] - 1)
      BY <1>5, <3>1, BarrierShape DEF NodeOf
    <3>3. ~stamped[f] /\ StampClock(f) = clock[f]
      BY <1>1, <3>2, IdlePop
    <3>4. timeboard'[f][k + 1] = clock[f].device
      BY <1>2, <1>3, <3>1, <3>3
    <3>5. clock[f].device = Met(f, k) + CommTime(f, k)
      BY <1>1, <3>1 DEF Leaving
    <3>6. Met(f, k)' = Met(f, k)
      BY <1>1, <1>5, <1>6, <1>7, <3>1
    <3> QED BY <3>1, <3>4, <3>5, <3>6
  <2> QED BY <2>1, <2>2
<1> QED BY <1>9, <1>10, <1>11, <1>12
LEMMA TimeBlock ==
  ASSUME TimeInv, NEW x \in Devices, Block(x)
  PROVE  (Waiting /\ Released /\ Following /\ Arrived /\ Leaving /\ Left)'
<1>1. /\ PlaceInv /\ TypeOK /\ Waiting /\ Released /\ Following /\ Arrived /\ Leaving /\ Left
      /\ Gathered /\ StampedAtBarrier
      /\ \A d \in Devices : /\ cur[d] \in Nat /\ timeboard[d] \in Seq(Nat)
                            /\ Len(timeboard[d]) = cur[d] - 1 + (IF stamped[d] THEN 1 ELSE 0)
  BY PlaceParts DEF TimeInv, PlaceInv
<1>2. /\ Running(x) /\ cur' = cur /\ load' = load /\ cur[x] \in SyncNodes
      /\ clock'[x] = StampClock(x) /\ timeboard'[x] = StampBoard(x)
      /\ \A d \in Devices \ {x} : /\ stamped'[d] = stamped[d] /\ timeboard'[d] = timeboard[d]
                                  /\ clock'[d] = clock[d]
  BY <1>1, BlockEffect, WaitsAtBarrier
<1>3. /\ Len(StampBoard(x)) = cur[x]
      /\ \A i \in 1 .. Len(timeboard[x]) : StampBoard(x)[i] = timeboard[x][i]
      /\ ~stamped[x] => StampBoard(x)[cur[x]] = StampClock(x).device
      /\ stamped[x] => Len(timeboard[x]) = cur[x]
  BY <1>1, <1>2, BoardType
<1>4. /\ ~stamped[x] => At(StampClock(x), StampClock(x).device)
      /\ stamped[x] => StampClock(x) = clock[x]
      /\ \A t \in Nat : At(clock[x], t) => At(StampClock(x), t)
  BY <1>1, <1>2, StampAt
<1>5. ASSUME NEW k \in SyncNodes
      PROVE  /\ k \in Nat /\ k > 1 /\ k \in DOMAIN Graph /\ k + 1 \notin SyncNodes
             /\ (~MeetsAt(k) => /\ k - 3 \in Nat /\ k - 2 \notin SyncNodes /\ k - 1 \notin SyncNodes)
             /\ \A d \in Devices : d \in Group(d, k)
  BY BarrierShape, ReferenceShape, GroupOf
<1>6. \A k \in SyncNodes, d \in Devices : TimeSet(d, k) => Met(d, k)' = Met(d, k)
  BY SetTime
<1>7. \A d \in Devices, k \in DOMAIN Graph : CommTime(d, k)' = CommTime(d, k)
  BY <1>2 DEF CommTime
<1>8. \A k \in SyncNodes, d \in Devices : Passed(d, k)' <=> Passed(d, k)
  BY <1>2 DEF Passed
<1>9. Waiting'
  <2> SUFFICES ASSUME NEW k \in SyncNodes, NEW d \in Devices, MeetsAt(k),
                      cur[d] = k, stamped'[d], ~Passed(d, k)
               PROVE  At(clock'[d], timeboard'[d][k])
    BY <1>2, <1>8 DEF Waiting
  <2>1. CASE d # x \/ stamped[d]
    <3>1. clock'[d] = clock[d] /\ stamped[d]
      BY <1>2, <1>4, <2>1
    <3>2. timeboard'[d][k] = timeboard[d][k]
      BY <1>2, <1>3, <1>5, <2>1
    <3> QED BY <1>1, <3>1, <3>2 DEF Waiting
  <2>2. CASE d = x /\ ~stamped[d]
    BY <1>2, <1>3, <1>4, <2>2
  <2> QED BY <2>1, <2>2
<1>10. Released'
  <2> SUFFICES ASSUME NEW k \in SyncNodes, NEW d \in Devices, MeetsAt(k),
                      cur[d] <= k, Passed(d, k)
               PROVE  At(clock'[d], Meeting(d, k)')
    BY <1>2, <1>8 DEF Released
  <2>1. stamped[d]
    <3>1. cur[d] > k \/ (cur[d] = k /\ stamped[d])
      BY <1>1, <1>5 DEF Gathered
    <3> QED BY <1>1, <1>5, <3>1
  <2>2. clock'[d] = clock[d]
    BY <1>2, <1>4, <2>1
  <2>3. Meeting(d, k)' = Meeting(d, k)
    BY <1>1, MeetingFixed
  <2> QED BY <1>1, <2>2, <2>3 DEF Released
<1>11. Following'
  <2> SUFFICES ASSUME NEW k \in SyncNodes, NEW d \in Devices, ~MeetsAt(k),
                      k - 3 < cur[d], cur[d] <= k
               PROVE  At(clock'[d], Met(d, k)')
    BY <1>2 DEF Following
  <2>1. TimeSet(d, k) /\ d \in Group(d, k)
    BY <1>5 DEF TimeSet
  <2>2. Met(d, k) \in Nat /\ Met(d, k)' = Met(d, k) /\ At(clock[d], Met(d, k))
    BY <2>1, SetTime
  <2>3. clock'[d] = clock[d] \/ (clock'[d] = StampClock(x) /\ d = x)
    BY <1>2
  <2> QED BY <1>4, <2>2, <2>3
<1>12. Arrived'
  <2> SUFFICES ASSUME NEW k \in SyncNodes, NEW d \in Devices, ~MeetsAt(k),
                      Len(timeboard'[d]) >= k
               PROVE  timeboard'[d][k] = Met(d, k)'
    BY DEF Arrived
  <2>1. k \in Nat /\ k > 1 /\ k - 3 \in Nat /\ cur[d] \in Nat /\ d \in Group(d, k)
    BY <1>1, <1>5
  <2>2. CASE Len(timeboard[d]) >= k /\ timeboard'[d][k] = timeboard[d][k]
    <3>1. Len(timeboard[d]) <= cur[d]
      BY <1>1
    <3>2. TimeSet(d, k)
      BY <2>1, <2>2, <3>1 DEF TimeSet
    <3>3. Met(d, k)' = Met(d, k)
      BY <1>6, <3>2
    <3>4. timeboard[d][k] = Met(d, k)
      BY <1>1, <2>2 DEF Arrived
    <3> QED BY <2>2, <3>3, <3>4
  <2>3. CASE /\ Len(timeboard[d]) < k /\ d = x /\ cur[x] = k /\ ~stamped[x]
             /\ timeboard'[x][k] = StampClock(x).device
    <3>1. d = x
      BY <2>3
    <3>2. cur[d] = k /\ ~stamped[d]
      BY <2>3
    <3>3. TimeSet(d, k) /\ cur[d] <= k
      BY <2>1, <3>2 DEF TimeSet
    <3>4. Met(d, k) \in Nat /\ Met(d, k)' = Met(d, k) /\ At(clock[d], Met(d, k))
      BY <2>1, <3>3, SetTime
    <3>5. At(StampClock(x), Met(d, k))
      BY <1>4, <3>1, <3>4
    <3> QED BY <2>3, <3>4, <3>5 DEF At
  <2>4. \/ Len(timeboard[d]) >= k /\ timeboard'[d][k] = timeboard[d][k]
        \/ /\ Len(timeboard[d]) < k /\ d = x /\ cur[x] = k /\ ~stamped[x]
           /\ timeboard'[x][k] = StampClock(x).device
    <3>1. k \in Nat /\ k > 0 /\ TypeOK
      BY <1>1, <2>1
    <3> QED BY <3>1, BoardEntry
  <2> QED BY <2>2, <2>3, <2>4
<1>13. Leaving'
  <2> SUFFICES ASSUME NEW k \in SyncNodes, NEW d \in Devices, cur[d] = k + 1
               PROVE  clock'[d].device = Met(d, k)' + CommTime(d, k)
    BY <1>2, <1>5, <1>7 DEF Leaving
  <2>1. d # x
    BY <1>2, <1>5
  <2>2. TimeSet(d, k)
    BY <1>1, <1>5 DEF TimeSet, Passed
  <2> QED BY <1>1, <1>2, <1>6, <2>1, <2>2 DEF Leaving
<1>14. Left'
  <2> SUFFICES ASSUME NEW k \in SyncNodes, NEW d \in Devices, Len(timeboard'[d]) > k
               PROVE  timeboard'[d][k + 1] = Met(d, k)' + CommTime(d, k)
    BY <1>5, <1>7 DEF Left
  <2>1. k \in Nat /\ k > 1 /\ cur[d] \in Nat /\ d \in Group(d, k) /\ k + 1 \notin SyncNodes
    BY <1>1, <1>5
  <2>2. Len(timeboard[d]) > k
    <3>1. CASE d # x
      BY <1>2, <3>1
    <3>2. CASE d = x
      <4>1. cur[x] > k /\ cur[x] # k + 1
        BY <1>2, <1>3, <2>1, <3>2
      <4> QED BY <1>1, <2>1, <3>2, <4>1
    <3> QED BY <3>1, <3>2
  <2>3. timeboard'[d][k + 1] = timeboard[d][k + 1]
    <3>1. k + 1 \in 1 .. Len(timeboard[d])
      BY <1>1, <2>1, <2>2
    <3> QED BY <1>1, <3>1, BoardsGrow
  <2>4. TimeSet(d, k)
    <3>1. cur[d] > k
      BY <1>1, <2>1, <2>2
    <3> QED BY <1>5, <2>1, <3>1 DEF TimeSet, Passed
  <2> QED BY <1>1, <1>6, <2>2, <2>3, <2>4 DEF Left
<1> QED BY <1>9, <1>10, <1>11, <1>12, <1>13, <1>14

\* No time has been met when all devices are at the first node.
LEMMA TimeStart ==
  ASSUME \A d \in Devices : cur[d] = 1 /\ ~stamped[d] /\ Len(timeboard[d]) = 0
  PROVE  Waiting /\ Released /\ Following /\ Arrived /\ Leaving /\ Left
<1>1. ASSUME NEW k \in SyncNodes
      PROVE  /\ k \in Nat /\ k > 1 /\ k \in DOMAIN Graph
             /\ (~MeetsAt(k) => k - 3 \in Nat /\ k - 3 > 1)
  BY BarrierShape, ReferenceShape
<1>2. \A k \in SyncNodes, d \in Devices : ~Passed(d, k)
  <2>1. \A k \in SyncNodes, d \in Devices : Group(d, k) \subseteq Devices
    BY <1>1, GroupOf
  <2> QED BY <1>1, <2>1 DEF Passed
<1>3. Waiting /\ Released
  BY <1>2 DEF Waiting, Released
<1>4. Following /\ Leaving
  BY <1>1 DEF Following, Leaving
<1>5. Arrived /\ Left
  BY <1>1 DEF Arrived, Left
<1> QED BY <1>3, <1>4, <1>5

LEMMA TimeInit == Init => TimeInv
BY PlaceInit, TimeStart DEF Init, TimeInv

LEMMA TimeStep == TimeInv /\ [Next]_vars => TimeInv'
<1> SUFFICES ASSUME TimeInv, [Next]_vars PROVE TimeInv'
  OBVIOUS
<1>1. TypeOK /\ PlaceInv'
  BY PlaceStep, PlaceParts DEF TimeInv
<1>2. CASE \E d \in Devices : RunNode(d)
  BY <1>1, <1>2, MeetingRun, PassingRun DEF TimeInv
<1>3. CASE \E d \in Devices : Block(d)
  BY <1>1, <1>3, TimeBlock DEF TimeInv
<1>4. CASE Restart
  <2>1. \A d \in Devices : cur'[d] = 1 /\ ~stamped'[d] /\ Len(timeboard'[d]) = 0
    BY <1>4 DEF Restart
  <2>2. (\A d \in Devices : cur[d] = 1 /\ ~stamped[d] /\ Len(timeboard[d]) = 0)'
        => (Waiting /\ Released /\ Following /\ Arrived /\ Leaving /\ Left)'
    BY TimeStart, PTL
  <2> QED BY <1>1, <2>1, <2>2 DEF TimeInv
<1>5. CASE UNCHANGED << iter, load, cur, stamped, ready, synced, clock, exec, timeboard,
                        aggregated >>
  <2>1. (Waiting /\ Released /\ Following)'
    BY <1>5 DEF TimeInv, Waiting, Released, Following, Passed, Met, Meeting
  <2>2. \A d \in Devices, k \in SyncNodes : /\ Met(d, k)' = Met(d, k)
                                            /\ CommTime(d, k)' = CommTime(d, k)
    BY <1>5 DEF Met, Meeting, CommTime
  <2>3. (Arrived /\ Leaving)'
    BY <1>5, <2>2 DEF TimeInv, Arrived, Leaving
  <2>4. Left'
    BY <1>5, <2>2 DEF TimeInv, Left
  <2> QED BY <1>1, <2>1, <2>3, <2>4 DEF TimeInv
<1> QED BY <1>1, <1>2, <1>3, <1>4, <1>5, GraphCases

LEMMA TimesMet == TimeInv => SyncTime
<1> SUFFICES ASSUME TimeInv, NEW k \in SyncNodes, NEW d \in Devices,
                    Len(timeboard[d]) > k,
                    \A e \in Group(d, k) : Len(timeboard[e]) >= k
             PROVE  timeboard[d][k + 1] = Max({ timeboard[e][k] : e \in Group(d, k) }) + CommTime(d, k)
  BY DEF SyncTime
<1>1. timeboard[d][k + 1] = Met(d, k) + CommTime(d, k)
  BY DEF TimeInv, Left
<1>2. CASE MeetsAt(k)
  <2>1. Met(d, k) = Meeting(d, k)
    BY <1>2, ReferenceShape DEF Met
  <2> QED BY <1>1, <2>1 DEF Meeting
<1>3. CASE ~MeetsAt(k)
  <2>1. k \in Nat /\ k \in DOMAIN Graph /\ d \in Group(d, k) /\ k > 1 /\ k - 3 \in Nat
    BY <1>3, BarrierShape, ReferenceShape, GroupOf
  <2>2. cur[d] > k - 3
    BY <2>1, PlaceParts DEF TimeInv
  <2>3. /\ Met(d, k) \in Nat
        /\ \A e \in Group(d, k) : e \in Devices /\ Met(e, k) = Met(d, k)
    BY <1>3, <2>2, SetTime DEF TimeSet
  <2>4. \A e \in Group(d, k) : timeboard[e][k] = Met(d, k)
    BY <1>3, <2>3 DEF TimeInv, Arrived
  <2>5. { timeboard[e][k] : e \in Group(d, k) } = { Met(d, k) }
    BY <2>1, <2>4
  <2>6. Max({ timeboard[e][k] : e \in Group(d, k) }) = Met(d, k)
    <3>1. Met(d, k) \in { Met(d, k) } /\ { Met(d, k) } \subseteq Int
          /\ \A x \in { Met(d, k) } : x <= Met(d, k)
      BY <2>3
    <3> QED BY <2>5, <3>1, MaxIs
  <2> QED BY <1>1, <2>6
<1> QED BY <1>2, <1>3

\* A device leaves a synchronising node at the latest of the group's arrival times,
\* plus its own communication, by the time stamps the simulator reports: in whatever
\* order the devices pass, for every graph of the decoders' kind.
THEOREM SyncTimeHolds == Spec => []SyncTime
BY TimeInit, TimeStep, TimesMet, PTL DEF Spec
=============================================================================
