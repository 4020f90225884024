------------------------------- MODULE DramMap -------------------------------
(***************************************************************************)
(* The commands that a transfer sends to the DRAM simulator: a tensor is   *)
(* cut into bundles, a bundle has a place in the memory (MMapController),  *)
(* and the kernel of the request sends the bundles of one channel, for     *)
(* GEMV of one bank, which stand for all others.  The simulator itself is  *)
(* not part of the repository.                                             *)
(***************************************************************************)
EXTENDS CostModel, FiniteSets

CONSTANTS
  NumLogicCube, NumRank, NumBankgroup, NumBank, NumCol, NumRow,  \* memory_config
  BandwidthX   \* logic_x, pim_x: banks of a bank group's bandwidth that a GEMV uses

ASSUME DramAssumption ==
  /\ {NumLogicCube, NumRank, NumBankgroup, NumBank, NumCol, NumRow} \subseteq Nat \ {0}
  /\ BandwidthX \in [LOGIC : {4}, PIM : {4, 8, 16}]

\* The fields of an address, from the one that changes fastest, and what is left.
Fields(address, sizes) ==
  FoldLeft(LAMBDA a, size : [left |-> a.left \div size, at |-> Append(a.at, a.left % size)],
           [left |-> address, at |-> << >>], sizes)

addrToVec(address) ==
  LET f == Fields(address \div Granul,
                  << NumCube, NumChannel, NumRank, NumBankgroup, NumBank, NumCol >>)
  IN [cube |-> f.at[1], channel |-> f.at[2], rank |-> f.at[3], bankgroup |-> f.at[4],
      bank |-> f.at[5], col |-> f.at[6], row |-> f.left]

\* mutant: the lower bit of the bank changes after the column
BankAfterCol(address) ==
  LET f == Fields(address \div Granul,
                  << NumLogicCube, NumChannel, NumBankgroup, NumCol, 2, NumRow, 2, NumRank >>)
  IN [cube |-> f.at[1], channel |-> f.at[2], rank |-> f.at[8], bankgroup |-> f.at[3],
      bank |-> 2 * f.at[7] + f.at[5], col |-> f.at[4], row |-> f.at[6]]
\* LOGIC: two banks of every bank group side by side, the other two far away.
addrToVecLOGIC(address) ==
  LET f == Fields(address \div Granul,
                  << NumLogicCube, NumChannel, NumBankgroup, 2, NumCol, NumRow, 2, NumRank >>)
  IN [cube |-> f.at[1], channel |-> f.at[2], rank |-> f.at[8], bankgroup |-> f.at[3],
      bank |-> 2 * f.at[7] + f.at[4], col |-> f.at[5], row |-> f.at[6]]

\* Two pseudo channels, numbered over all cubes, make a channel of the simulator.
ramul_addr_vec(v) ==
  LET channel == NumChannel * v.cube + v.channel
  IN [channel |-> channel \div 2, pseudo |-> channel % 2, rank |-> v.rank,
      bankgroup |-> v.bankgroup, bank |-> v.bank, row |-> v.row, col |-> v.col]

\* A memory object; a bundle that is not full is dropped.
MemoryObject(address, size) == [address |-> address, num_bundle |-> size \div Granul]

getAddrVec(object, bundle, type) ==
  LET address == object.address + bundle * Granul
  IN ramul_addr_vec(IF type = "LOGIC" THEN addrToVecLOGIC(address) ELSE addrToVec(address))

Places(object, type) == [k \in 0 .. object.num_bundle - 1 |-> getAddrVec(object, k, type)]

(* The kernels: the bundles of an object that become commands.             *)

\* Read_kernel, Write_kernel: both pseudo channels of the first channel.
Transferred(p, object) ==
  LET at == Places(object, p) IN { k \in DOMAIN at : at[k].channel = 0 }

FirstBank(bank) ==
  CASE BandwidthX.PIM = 16 -> bank = 0
    [] BandwidthX.PIM = 8  -> bank % 2 = 0
    [] BandwidthX.PIM = 4  -> TRUE

\* mutant: a bank of every bank group answers for itself
EveryBankgroup(p, v) ==
  /\ v.channel = 0 /\ v.pseudo = 0
  /\ \/ p = "LOGIC" /\ v.bank % 2 = 0
     \/ p = "PIM" /\ v.rank = 0 /\ FirstBank(v.bank)
\* The bank whose MAC commands all the banks of the GEMV obey.
FirstOfAll(p, v) ==
  /\ v.channel = 0 /\ v.pseudo = 0 /\ v.bankgroup = 0
  /\ \/ p = "LOGIC" /\ v.bank % 2 = 0
     \/ p = "PIM" /\ v.rank = 0 /\ FirstBank(v.bank)

GEMVKernel(p, object) ==
  LET at == Places(object, IF p = "LOGIC" THEN "LOGIC" ELSE "GPU")
  IN { k \in DOMAIN at : FirstOfAll(p, at[k]) }

GeneratePIMCommand(p, req, object) ==
  IF req = "kGEMV" THEN GEMVKernel(p, object) ELSE Transferred(p, object)

(* What a command weighs in the energy, in accesses of one bundle:         *)
(* Device::initializeDRAM and the factors of dram/power.h.                 *)

num_pseudo_ch(p) == IF p = "GPU" THEN (NumCube * NumChannel) \div 2 ELSE NumCube * NumChannel
AllBanks(p) == IF p = "LOGIC" THEN 8 ELSE 32
Weight(p, req) == num_pseudo_ch(p) * (IF req = "kGEMV" THEN AllBanks(p) ELSE 1)
=============================================================================
