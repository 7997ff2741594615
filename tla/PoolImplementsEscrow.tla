------------------------ MODULE PoolImplementsEscrow ------------------------
(***************************************************************************)
(* The pool implements FundingEscrow.  The pool leaves the active amounts  *)
(* of the attempt that topped up in place; what the escrow holds is the    *)
(* active funding of an attempt whose top-up was not submitted.            *)
(***************************************************************************)
EXTENDS ValidatorFundingPool

Escrow == INSTANCE FundingEscrow WITH
  Predeposit <- PREDEPOSIT_WEI,
  TopUp <- TOP_UP_WEI,
  Values <- Amounts,
  held <- IF topUpSubmitted THEN NoWei ELSE activeFundedWeiOf,
  owed <- refundableWeiOf,
  stake <- creditedWeiOf,
  received <- proceedsIn,
  paid <- claimedWeiOf

(* Every step of the pool is a step of the escrow or leaves it unchanged:  *)
(* contributions end as a refund that is owed or as stake, all of an       *)
(* attempt together, stake is what was contributed, and a claim pays       *)
(* exactly up to the claimant's share of the proceeds at that moment, even *)
(* when a callee claims in the middle of another payout.                   *)
ImplementsEscrow == Escrow!EscrowSpec
=============================================================================
