--------------------------- MODULE MCDeviceGraph ---------------------------
(***************************************************************************)
(* DeviceGraph on the graphs of ModelGraph.                                *)
(***************************************************************************)
EXTENDS DeviceGraph

CONSTANTS NeTp, ETp, Experts

MG == INSTANCE ModelGraph WITH Ranks <- NumDevices

\* A dense layer and two with experts, the second of which gates again.
DenseTwoMoE == MG!LLM(<< MG!Decoder(1), MG!MoEDecoder(2), MG!MoEDecoder(3) >>)

\* Devices of one data-parallel rank have the same attention to compute, those of
\* one expert the same expert; the communication of each device is its own, the
\* all-reduce of a group takes the same time on all of its devices.  Device k and its
\* rank are late: the first device of the sweep, or the last.
Skewed(d, k) ==
  [attention |-> IF d \div NeTp = k \div NeTp THEN 3 ELSE 1,
   expert    |-> IF d \div ETp = 0 THEN 2 ELSE 1,
   comm      |-> IF d = k THEN 2 ELSE 0,
   reduce    |-> 1,
   high      |-> IF d = k THEN {1} ELSE {2}]

SkewedLoads == { [d \in Devices |-> Skewed(d, k)] : k \in {0, NumDevices - 1} }
=============================================================================
