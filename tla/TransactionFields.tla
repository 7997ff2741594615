--------------------------- MODULE TransactionFields ---------------------------
(***************************************************************************)
(* scripts/lib/common.ts, resolveTransactionFields: the gas limit and the  *)
(* two fees a command signs.  They come from separate reads, and after the *)
(* signature the transaction waits, so blocks are built between the reads  *)
(* and before the inclusion: the base fee moves by an eighth at most, the  *)
(* block gas limit by less than 1/1024, and deposits of others change what *)
(* the transaction's own deposit costs.                                    *)
(***************************************************************************)
EXTENDS Integers, FiniteSets

CONSTANTS
  Costs,      \* gas of a composed transaction, its Merkle update aside
  HashGas,    \* gas of one hash of the deposit contract's Merkle update
  BaseFees,   \* base fees the run may meet
  Tips,       \* what the endpoint may report as a priority fee
  GasLimits,  \* block gas limits the run may meet
  DepositCounts, \* deposits the run may meet
  MaxBlocks,  \* bound: blocks built while the fees age
  MaxDeposits \* bound: deposits of others from the estimate on

(* EIP-1559 never lowers a base fee below 7 wei.  No block has a limit of  *)
(* less than 5000 gas; all that is used of it is that 1/1024 of a limit is *)
(* a gas at least.                                                         *)
MinBaseFee == 7
MinGasLimit == 1024

ASSUME FieldsAssumption ==
  /\ Costs \subseteq Nat \ {0} /\ HashGas \in Nat /\ Tips \subseteq Nat
  /\ \A fee \in BaseFees : fee \in Nat /\ fee >= MinBaseFee
  /\ \A limit \in GasLimits : limit \in Nat /\ limit >= MinGasLimit
  /\ DepositCounts \subseteq Nat
  /\ MaxBlocks \in Nat /\ MaxDeposits \in Nat

VARIABLES
  baseFee,      \* of the next block
  gasLimit,     \* of the latest block
  depositCount, \* of the deposit contract
  deposits,     \* deposits of others since the estimate
  step,         \* how far the run is
  cost,         \* of the transaction it composed
  estimate, estimatedCount, \* eth_estimateGas, and the count it was made at
  suggested,    \* the base fee read
  blocks,       \* built since the fees were read
  fields,       \* what it signs
  clamped       \* whether the ceiling cut the margin

chain == <<baseFee, gasLimit, depositCount, deposits>>
command == <<step, cost, estimate, estimatedCount, suggested, fields, clamped>>
vars == <<chain, command, blocks>>

NoFields == [gas |-> 0, maxFeePerGas |-> 0, maxPriorityFeePerGas |-> 0]

Init ==
  /\ baseFee \in BaseFees /\ gasLimit \in GasLimits /\ depositCount \in DepositCounts
  /\ deposits = 0
  /\ step = "start" /\ cost \in Costs
  /\ estimate = 0 /\ estimatedCount = 0 /\ suggested = 0
  /\ blocks = 0
  /\ fields = NoFields /\ clamped = FALSE

Smaller(a, b) == IF a < b THEN a ELSE b
Larger(a, b) == IF a < b THEN b ELSE a

-----------------------------------------------------------------------------
(* The chain *)

(* One hash for every trailing zero bit of the incremented count. *)
Hashes(count) == Cardinality({h \in 1 .. count + 1 : (count + 1) % 2 ^ h = 0})

Need == cost + HashGas * Hashes(depositCount)

(* EIP-1559: a full, a half full and an empty block. *)
AfterFullBlock(fee) == fee + Larger(fee \div 8, 1)
NextBaseFees(fee) == {AfterFullBlock(fee), fee, fee - fee \div 8}

(* A block's limit differs from its parent's by less than 1/1024 of it. *)
NextGasLimits(limit) ==
  LET delta == limit \div 1024 - 1 IN {limit - delta, limit, limit + delta}

(* Blocks before the fees are read change what is read, which Init leaves  *)
(* open.                                                                   *)
EndBlock ==
  /\ step \in {"fees", "signed"} /\ blocks < MaxBlocks
  /\ baseFee' \in NextBaseFees(baseFee)
  /\ gasLimit' \in NextGasLimits(gasLimit)
  /\ blocks' = blocks + 1
  /\ UNCHANGED <<command, depositCount, deposits>>

(* Anybody deposits. *)
Deposit ==
  /\ step \in {"estimated", "fees", "signed"} /\ deposits < MaxDeposits
  /\ deposits' = deposits + 1
  /\ depositCount' = depositCount + 1
  /\ UNCHANGED <<baseFee, gasLimit, command, blocks>>

-----------------------------------------------------------------------------
(* The run *)

Estimate ==
  /\ step = "start"
  /\ estimate' = Need /\ estimatedCount' = depositCount
  /\ step' = "estimated"
  /\ UNCHANGED <<chain, cost, suggested, fields, clamped, blocks>>

(* A zero reward is replaced by what the endpoint suggests, and that, if   *)
(* it is zero too or is not to be had, by one wei.                         *)
Priority(reward, suggestion) ==
  IF reward # 0 THEN reward ELSE Larger(suggestion, 1)

(* The base fee grown by an eighth for each of these blocks. *)
FEE_BASE_FEE_FULL_BLOCKS == 2

FeeCap_OneBlockMutant(base, tip) ==
  LET cap == (base * 9) \div 8 IN IF cap < tip THEN cap + tip ELSE cap
FeeCap(base, tip) ==
  LET cap == (base * (9 * 9)) \div (8 * 8)
  IN IF cap < tip THEN cap + tip ELSE cap

(* resolveSuggestedFees: the base fee of the next block and the reward of  *)
(* one read.                                                               *)
ReadFees ==
  /\ step = "estimated"
  /\ \E reward \in Tips, suggestion \in Tips \cup {0} :
       LET tip == Priority(reward, suggestion)
       IN fields' = [NoFields EXCEPT !.maxFeePerGas = FeeCap(baseFee, tip),
                                     !.maxPriorityFeePerGas = tip]
  /\ suggested' = baseFee
  /\ step' = "fees"
  /\ UNCHANGED <<chain, cost, estimate, estimatedCount, clamped, blocks>>

GAS_MARGIN_PERCENT == 120
BLOCK_GAS_LIMIT_CEILING_PERCENT == 95

Ceiling_Mutant(limit) == limit
Ceiling(limit) == (limit * BLOCK_GAS_LIMIT_CEILING_PERCENT) \div 100

WithMargin_Mutant(gas) == gas
WithMargin(gas) == (gas * GAS_MARGIN_PERCENT) \div 100

(* applyGasMargin, on the limit of the latest block. *)
ReadGasLimit ==
  /\ step = "fees"
  /\ IF estimate > Ceiling(gasLimit)
     THEN step' = "refused" /\ fields' = NoFields /\ UNCHANGED clamped
     ELSE /\ fields' = [fields EXCEPT !.gas = Smaller(WithMargin(estimate), Ceiling(gasLimit))]
          /\ clamped' = (WithMargin(estimate) > Ceiling(gasLimit))
          /\ step' = "signed"
  /\ UNCHANGED <<chain, cost, estimate, estimatedCount, suggested, blocks>>

(* The transaction would revert, or a read fails: nothing is signed. *)
ReadFails ==
  /\ step \in {"start", "estimated", "fees"}
  /\ step' = "refused" /\ fields' = NoFields
  /\ UNCHANGED <<chain, cost, estimate, estimatedCount, suggested, clamped, blocks>>

(* Whether a block may include what was signed. *)
Affordable == fields.maxFeePerGas >= baseFee
FitsBlock == fields.gas <= gasLimit

Include ==
  /\ step = "signed" /\ Affordable /\ FitsBlock
  /\ step' = IF Need <= fields.gas THEN "included" ELSE "outOfGas"
  /\ UNCHANGED <<chain, cost, estimate, estimatedCount, suggested, fields, clamped, blocks>>

Next ==
  \/ Estimate \/ ReadFees \/ ReadGasLimit \/ ReadFails \/ Include
  \/ EndBlock \/ Deposit

Spec == Init /\ [][Next]_vars

-----------------------------------------------------------------------------
(* Properties *)

(* The cap covers two full blocks after the fees were read, as the comment *)
(* of FEE_BASE_FEE_FULL_BLOCKS says, whether they are built before or      *)
(* after the signature.  Below 8 wei, where EIP-1559 raises the fee by one *)
(* wei and not by an eighth, the comment is wrong and it covers one block. *)
FullBlocksCovered == IF suggested >= 8 THEN FEE_BASE_FEE_FULL_BLOCKS ELSE 1

CapOutlastsFullBlocks ==
  step = "signed" /\ blocks <= FullBlocksCovered => Affordable

(* A limit falls by less than 1/1024 per block, so by less than 1/20 in 51 *)
(* blocks: the 5 % the ceiling leaves.                                     *)
FallingBlocksCovered == 51

(* What is signed is a transaction the endpoint accepts and a block can    *)
(* hold while it waits: the tip is paid and within the cap, the gas covers *)
(* the estimate, and it stays below the gas limit while that falls.        *)
SignedFieldsAreValid ==
  step = "signed" =>
    /\ 1 <= fields.maxPriorityFeePerGas
    /\ fields.maxPriorityFeePerGas <= fields.maxFeePerGas
    /\ estimate <= fields.gas
    /\ blocks <= FallingBlocksCovered => FitsBlock

(* A transaction that runs out of gas either had its margin cut by the     *)
(* ceiling, or is included at a deposit count whose Merkle update takes    *)
(* more hashes than at the estimate's count, by more than the fifth of the *)
(* estimate the margin adds pays for.                                      *)
OutOfGasHasACause ==
  step = "outOfGas" =>
    \/ clamped
    \/ HashGas * (Hashes(depositCount) - Hashes(estimatedCount)) > estimate \div 5
=============================================================================
