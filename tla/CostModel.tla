------------------------------ MODULE CostModel ------------------------------
(***************************************************************************)
(* What the execution functions of src/src/hardware share: the time of a   *)
(* computation and of a transfer on each processor, the transfers they     *)
(* hand to the DRAM simulator, the cache of the simulated times and the    *)
(* near-bank PIM unit.                                                     *)
(*                                                                         *)
(* An execution function is a sequence of phases (scoring, softmax,        *)
(* context, ...).  A phase computes and moves data at the same time and    *)
(* takes the longer of the two.  Sizes are counted in elements, times in   *)
(* whole units.                                                            *)
(***************************************************************************)
EXTENDS Integers, Sequences, SequencesExt, Functions, FiniteSetsExt

CONSTANTS
  FlopTime, ByteTime,  \* of each processor: 1 / compute_peak_flops, 1 / memory_bandwidth
  Ramulator(_, _, _, _),  \* (clock, processor, request, bytes): the time of a transfer
  Granul, NumCube, NumChannel,  \* getGranul, num_cube, num_channel
  SharedMem,  \* shared_mem_size of flash attention
  IntLimit,   \* 2^31: an int is in -IntLimit .. IntLimit - 1
  NearBank    \* nearbank_pim_config

Processor == {"GPU", "LOGIC", "PIM"}

ASSUME CostAssumption ==
  /\ {FlopTime, ByteTime} \subseteq [Processor -> Nat \ {0}]
  /\ {Granul, NumCube, NumChannel, SharedMem, IntLimit} \subseteq Nat \ {0}
  /\ {NearBank.banks, NearBank.rowbuffer, NearBank.fill, NearBank.pe} \subseteq Nat \ {0}
  /\ {NearBank.quant, NearBank.dequant, NearBank.scoring, NearBank.softmax, NearBank.context}
       \subseteq BOOLEAN

Larger(a, b) == IF a >= b THEN a ELSE b
Smaller(a, b) == IF a <= b THEN a ELSE b
Total(s) == FoldFunction(+, 0, s)
FloorDiv(a, b) == a \div b \* mutant: the last, partial tile is not counted
CeilDiv(a, b) == (a + b - 1) \div b

\* An int computation that overflows wraps around.
Int32(x) == ((x + IntLimit) % (2 * IntLimit)) - IntLimit

\* LOGIC and PIM compute twice as fast on elements of one byte.
ComputeTime(p, precision, flops) ==
  (flops * FlopTime[p]) \div (IF p # "GPU" /\ precision = 1 THEN 2 ELSE 1)

MemoryTime(p, bytes) == bytes * ByteTime[p]

\* The time at the GPU's rate, in a function of LOGIC or PIM.
HostTime(i, flops) == (flops * FlopTime["GPU"]) \div (IF i.precision = 1 THEN 2 ELSE 1)

(* Transfers: a request, the processor it is cached under, its elements.   *)

Read(p, size)  == [req |-> "kRead",  on |-> p, size |-> size]
Write(p, size) == [req |-> "kWrite", on |-> p, size |-> size]
GEMV(p, size)  == [req |-> "kGEMV",  on |-> p, size |-> size]

(* A phase: flops and bytes as the status reports them, the time of each,  *)
(* the transfers of the two memory models, which of the simulated ones are *)
(* charged, and a factor on the memory time that replaces the compute time.*)

Phase(i, p, flops, bytes, moves) ==
  [flops   |-> flops,
   bytes   |-> bytes,
   compute |-> ComputeTime(p, i.precision, flops),
   memory  |-> MemoryTime(p, bytes),
   ideal   |-> moves,
   ram     |-> moves,
   charged |-> [k \in DOMAIN moves |-> k],
   opb     |-> << >>]

ComputeOnly(i, p, flops) == Phase(i, p, flops, 0, << >>)

\* The elements of a sequence that are in S, in their order.
Among(seq, S) ==
  FoldLeft(LAMBDA kept, e : IF e \in S THEN Append(kept, e) ELSE kept, << >>, seq)

\* The loops over the sequences of a batch: one phase each, or their sums.
EachSequence(F(_), seqs) == [k \in 1 .. Len(seqs) |-> F(seqs[k])]
OverSequences(F(_), seqs) == Total([k \in 1 .. Len(seqs) |-> F(seqs[k])])

(* issueRamulator, checkExecutionCache and addExecutionCache.  `dram` is   *)
(* the cache, the clock of the DRAM simulator and the times of the         *)
(* transfers issued since the last phase began.                            *)

CacheKey(layer, move, bytes) == << layer, move.on, move.req, bytes >>

\* mutant: the time is not kept
NotKept(cache, key, time) == cache
addExecutionCache(cache, key, time) ==
  [k \in DOMAIN cache \cup {key} |-> IF k = key THEN time ELSE cache[k]]

issueRamulator(layer, hw, precision, dram, move) ==
  LET key  == CacheKey(layer, move, move.size * precision)
      time == IF key \in DOMAIN dram.cache THEN dram.cache[key]
              ELSE Ramulator(dram.clock, hw, move.req, move.size * precision)
  IN IF key \in DOMAIN dram.cache
     THEN [dram EXCEPT !.times = Append(@, time)]
     ELSE [cache |-> addExecutionCache(dram.cache, key, time),
           clock |-> dram.clock + time,
           times |-> Append(dram.times, time)]

PhaseTime(phase, memory) ==
  IF phase.opb = << >> THEN Larger(phase.compute, memory)
  ELSE (memory * phase.opb[1]) \div phase.opb[2]

\* The duration of phases on processor hw, and the DRAM simulator after them.
RunRamulator(layer, hw, precision, phases, dram) ==
  FoldLeft(LAMBDA acc, phase :
             LET d == FoldLeft(LAMBDA st, move : issueRamulator(layer, hw, precision, st, move),
                               [acc.dram EXCEPT !.times = << >>], phase.ram)
                 charged == Total([k \in DOMAIN phase.charged |-> d.times[phase.charged[k]]])
             IN [total |-> acc.total + PhaseTime(phase, IF phase.charged = << >>
                                                        THEN phase.memory ELSE charged),
                 dram  |-> d],
           [total |-> 0, dram |-> dram], phases)

RunIdeal(phases) == Total([k \in 1 .. Len(phases) |-> PhaseTime(phases[k], phases[k].memory)])

\* run_ideal: the reads or writes that two pseudo channels of a cube see.
run_ideal(bytes) ==
  LET toCube == CeilDiv(bytes \div Granul, NumCube)
      pCH_0 == CeilDiv(toCube, NumChannel)
      pCH_1 == IF toCube % NumChannel = 1 THEN toCube \div NumChannel
               ELSE toCube \div NumChannel + 1
  IN IF bytes = 0 THEN 0 ELSE pCH_0 + pCH_1

IdealMoves(phases) == FlattenSeq([k \in 1 .. Len(phases) |-> phases[k].ideal])
IdealCommands(precision, phases) ==
  LET moves == IdealMoves(phases)
  IN Total([k \in 1 .. Len(moves) |-> run_ideal(moves[k].size * precision)])

\* NearbankPIMUnit::computeGEMVLatency: the row buffers of a bank are filled
\* while the processing element works on the previous one.  The bytes of a bank
\* are a fraction; `total` counts those of all banks, whose row buffers hold BankRow.
BankRow == NearBank.banks * NearBank.rowbuffer
Fills(total) == Larger(1, CeilDiv(total, BankRow))

\* mutant: a part of a row buffer takes as many fills as it has bytes
Unscaled(total, work) ==
  IF total <= BankRow THEN Larger(total * NearBank.fill, work)
  ELSE NearBank.fill + Larger((Fills(total) - 1) * NearBank.fill, work)
Overlapped(total, work) ==
  IF total <= BankRow THEN Larger((total * NearBank.fill) \div BankRow, work)
  ELSE NearBank.fill + Larger((Fills(total) - 1) * NearBank.fill, work)

computeGEMVLatency(precision, m, k, n) ==
  LET total == (m * k + k * n + m * n) * precision
      reduced == IF NearBank.quant THEN (m * k + n * k) * precision ELSE 0
      dequantised == IF NearBank.dequant THEN 2 * k * n ELSE 0
      work == ((total + reduced + dequantised) * NearBank.pe) \div NearBank.banks
  IN [latency |-> Overlapped(total, work), rowbuffer |-> Fills(total) * NearBank.fill]
=============================================================================
