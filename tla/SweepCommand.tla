---------------------------- MODULE SweepCommand ----------------------------
(***************************************************************************)
(* contracts/FeeRecipientForwarder.sol, which keeps execution-layer        *)
(* rewards until anyone sweeps them into the pool, and scripts/sweep.ts,   *)
(* which sweeps once and then checks what the block of its sweep shows.    *)
(*                                                                         *)
(* A block is what happens between two ticks of the pool's clock.  The     *)
(* forwarder is one of the accounts; it acts only through sweep.           *)
(***************************************************************************)
EXTENDS ValidatorFundingPool

CONSTANTS
  forwarder,
  MaxRewards  \* bound on the rewards paid to the forwarder

ASSUME ForwarderAssumption == forwarder \in Accounts /\ MaxRewards \in Nat

VARIABLES
  forwarderBalance,
  rewardsPaid,     \* history: the rewards paid to the forwarder
  blockStart,      \* balances and logged totals when the block began
  sweptByOthers,   \* history: what other callers swept in this block
  sweepStep, swept, \* the command, and the amount of its Swept event
  pinned           \* what it reads of the block its sweep is in

sweepVars == <<sweepStep, swept, pinned>>
forwarderVars == <<forwarderBalance, rewardsPaid, sweptByOthers>>
sweepSystemVars == <<vars, forwarderVars, blockStart, sweepVars>>

(* The balances at the end of a block, and the totals its logs add up to. *)
Ledger ==
  [pool |-> balance, forwarder |-> forwarderBalance, claimed |-> totalClaimedWei,
   refunded |-> totalRefundedWei, toppedUp |-> topUpSubmitted]

NoBlock == [forwarderBefore |-> 0, poolBefore |-> 0, poolAfter |-> 0, outflow |-> 0,
            sweptByOthers |-> 0]

SweepInit ==
  /\ Init
  /\ forwarderBalance = 0 /\ rewardsPaid = 0 /\ sweptByOthers = 0
  /\ blockStart = Ledger
  /\ sweepStep = "idle" /\ swept = 0 /\ pinned = NoBlock

-----------------------------------------------------------------------------
(* The forwarder *)

(* receive: unconditional. *)
RewardArrives(value) ==
  /\ rewardsPaid + value <= MaxRewards
  /\ forwarderBalance' = forwarderBalance + value
  /\ rewardsPaid' = rewardsPaid + value
  /\ UNCHANGED <<vars, sweptByOthers, blockStart, sweepVars>>

SweepAccepted ==
  /\ forwarderBalance # 0
  /\ state = "ToppedUp" \/ CanFund(forwarder, forwarderBalance)

(* sweep: the whole balance, to the pool's receive; it reverts if that     *)
(* does.                                                                   *)
sweep ==
  /\ SweepAccepted
  /\ receive(forwarder, forwarderBalance)
  /\ forwarderBalance' = 0
  /\ UNCHANGED <<rewardsPaid, blockStart>>

(* Anyone may call it, also from inside a payout of the pool. *)
SweepByAnother ==
  /\ sweep
  /\ sweptByOthers' = sweptByOthers + forwarderBalance
  /\ UNCHANGED sweepVars

-----------------------------------------------------------------------------
(* The command *)

SweepGoesTo(next) == sweepStep' = next

(* A sweep that would revert now is not signed. *)
SendSweep ==
  /\ sweepStep = "idle" /\ calls = <<>>
  /\ SweepGoesTo(IF SweepAccepted THEN "sent" ELSE "refused")
  /\ UNCHANGED <<vars, forwarderVars, blockStart, swept, pinned>>

MineSweep ==
  /\ sweepStep = "sent" /\ calls = <<>>
  /\ sweep
  /\ swept' = forwarderBalance
  /\ SweepGoesTo("mined")
  /\ UNCHANGED <<sweptByOthers, pinned>>

MineSweepRevert ==
  /\ sweepStep = "sent" /\ calls = <<>>
  /\ ~ SweepAccepted
  /\ SweepGoesTo("reverted")
  /\ UNCHANGED <<vars, forwarderVars, blockStart, swept, pinned>>

outflowEvents_Mutant(from, to) ==
  (to.claimed - from.claimed) + (to.refunded - from.refunded)
(* readPoolOutflowsInBlock: the events that record ETH leaving the pool.   *)
(* A commit and an exit request pass on what they were sent.               *)
outflowEvents(from, to) ==
  (to.claimed - from.claimed) + (to.refunded - from.refunded)
    + (IF to.toppedUp /\ ~ from.toppedUp THEN TOP_UP_WEI ELSE 0)

(* The block ends; the reads of the command are pinned to its sweep's. *)
EndSweepBlock ==
  /\ Tick
  /\ blockStart' = Ledger
  /\ sweptByOthers' = 0
  /\ IF sweepStep = "mined"
     THEN /\ pinned' = [forwarderBefore |-> blockStart.forwarder,
                        poolBefore |-> blockStart.pool, poolAfter |-> balance,
                        outflow |-> outflowEvents(blockStart, Ledger),
                        sweptByOthers |-> sweptByOthers]
          /\ SweepGoesTo("reading")
     ELSE UNCHANGED <<pinned, sweepStep>>
  /\ UNCHANGED <<forwarderBalance, rewardsPaid, swept>>

fellShort_Mutant == swept <= pinned.forwarderBefore
fellShort == swept < pinned.forwarderBefore
credited == pinned.poolAfter - pinned.poolBefore + pinned.outflow

(* assertSweepWasCredited, its two comparisons in order.  The one check    *)
(* before them, that the receipt has exactly one Swept event, holds of the *)
(* forwarder modelled, whose sweep emits one.                              *)
Conclude ==
  /\ sweepStep = "reading"
  /\ SweepGoesTo(IF fellShort THEN "forwardedTooLittle"
          ELSE IF credited < pinned.forwarderBefore THEN "notCredited"
          ELSE "credited")
  /\ UNCHANGED <<vars, forwarderVars, blockStart, swept, pinned>>

-----------------------------------------------------------------------------
(* The system *)

Others == Accounts \ {forwarder}

(* A payout of the pool may go to the forwarder. *)
PaidTo(recipient, amount) ==
  forwarderBalance' = forwarderBalance + (IF recipient = forwarder THEN amount ELSE 0)

PoolPayout ==
  \/ \E sender \in Others, recipient \in Others \cup {forwarder} :
       refundTo(sender, recipient) /\ PaidTo(recipient, refundableWeiOf[sender])
  \/ \E sender \in Others, recipient \in Others \cup {forwarder} :
       claimTo(sender, recipient) /\ PaidTo(recipient, claimable(sender))

SweepPoolStep ==
  \/ \E sender \in Others, value \in Amounts : commitAndPredeposit(sender, value)
  \/ \E sender \in Others, ps \in ParticipantLists, ts \in TargetLists :
       openFundingAttempt(sender, ps, ts)
  \/ \E sender \in Others, value \in Amounts : receive(sender, value)
  \/ \E value \in Amounts : silentEther(value)
  \/ closeExpiredFundingAttempt
  \/ \E sender \in Others : topUpValidator(sender)
  \/ \E sender \in Others, value \in Amounts, fee \in ExitFees :
       requestExit(sender, value, fee, fee)
  \/ commitReturns
  \/ topUpReturns
  \/ \E sender \in Others : exitReturns(sender)
  \/ payoutReturns

SweepNext ==
  \/ /\ \/ PoolPayout
        \/ SweepPoolStep /\ UNCHANGED forwarderBalance
     /\ UNCHANGED <<rewardsPaid, sweptByOthers, blockStart, sweepVars>>
  \/ \E value \in Amounts : RewardArrives(value)
  \/ SweepByAnother
  \/ SendSweep
  \/ MineSweep
  \/ MineSweepRevert
  \/ EndSweepBlock
  \/ Conclude

SweepSpec == SweepInit /\ [][SweepNext]_sweepSystemVars

-----------------------------------------------------------------------------
(* Properties *)

(* Whatever else its block holds, refunds, claims, the top-up itself, exit *)
(* requests, more rewards, a sweep that forwarded everything is never      *)
(* reported as one that did not reach the pool.                            *)
NoFalseShortfall == sweepStep # "notCredited"

(* When the command says that the forwarder kept part of what it held,     *)
(* somebody else had swept that part earlier in the same block.            *)
ShortSweepWasShared ==
  sweepStep = "forwardedTooLittle" =>
    /\ pinned.sweptByOthers > 0
    /\ swept + pinned.sweptByOthers >= pinned.forwarderBefore

(* The comment in assertSweepWasCredited: the forwarder's balance cannot   *)
(* have fallen between the read and the sweep.                             *)
ForwarderNeverFallsShort == sweepStep # "forwardedTooLittle"
=============================================================================
