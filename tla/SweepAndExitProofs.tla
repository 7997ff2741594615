--------------------------- MODULE SweepAndExitProofs ---------------------------
(***************************************************************************)
(* The two commands that share the pool with everybody else and touch      *)
(* nothing of each other.                                                  *)
(*                                                                         *)
(* A sweep: whatever shares its block, rewards, other sweeps, payouts and  *)
(* the calls they leave open, funding, the top-up, exit requests, what the *)
(* command makes of the balances and events of that block.                 *)
(*                                                                         *)
(* An exit request: however many accounts ask at once, however the fee     *)
(* moves and however old the beacon answers are when they are used, which  *)
(* requests are dropped, and which revert.                                 *)
(***************************************************************************)
EXTENDS SweepCommand, ExitCommand, ValidatorFundingPoolProofs

USE DEF lifecycleVars, attemptVars, activeVars, refundVars, creditVars,
        claimVars, validatorVars, callVars, environmentVars

-----------------------------------------------------------------------------
(* Sweep: the inductive invariant *)

SweepSteps ==
  {"idle", "refused", "sent", "reverted", "mined", "reading",
   "forwardedTooLittle", "notCredited", "credited"}
Read == {"reading", "forwardedTooLittle", "notCredited", "credited"}

Ledgers == [pool : Nat, forwarder : Nat, claimed : Nat, refunded : Nat, toppedUp : BOOLEAN]

SweepShapes ==
  /\ forwarderBalance \in Nat /\ sweptByOthers \in Nat /\ swept \in Nat
  /\ blockStart \in Ledgers
  /\ sweepStep \in SweepSteps
  /\ pinned.forwarderBefore \in Nat /\ pinned.sweptByOthers \in Nat
  /\ credited \in Int

(* Everything the pool was ever paid, by its books and by a ledger.        *)
Received == proceedsIn + totalActiveFundedWei + totalRefundableWei + totalRefundedWei

ReceivedBy(ledger) ==
  ledger.pool + ledger.claimed + ledger.refunded + (IF ledger.toppedUp THEN TOP_UP_WEI ELSE 0)

(* The pool was paid the sweep of this block, on top of what it had before *)
(* the block, and nothing left the forwarder but by a sweep.               *)
BlockIsSound ==
  /\ blockStart.toppedUp => topUpSubmitted
  /\ ReceivedBy(blockStart) + (IF sweepStep = "mined" THEN swept ELSE 0) <= Received
  /\ blockStart.forwarder <=
       sweptByOthers + (IF sweepStep = "mined" THEN swept ELSE forwarderBalance)

(* The block of the sweep, as the command reads it, shows both.            *)
ReadingIsSound ==
  /\ sweepStep \in Read =>
       /\ swept <= credited
       /\ pinned.forwarderBefore <= swept + pinned.sweptByOthers
  /\ sweepStep = "forwardedTooLittle" => swept < pinned.forwarderBefore
  /\ sweepStep # "notCredited"

SweepIInv ==
  /\ IInv
  /\ SweepShapes
  /\ BlockIsSound
  /\ ReadingIsSound

-----------------------------------------------------------------------------
(* Sweep: what a step of the pool does to the totals *)

(* The books are settled between transactions: what the pool was paid is   *)
(* what it holds, what left it and what the validator got.                 *)
LEMMA BooksAreSettled ==
  ASSUME IInv, calls = <<>>
  PROVE  Received = balance + totalClaimedWei + totalRefundedWei
                      + (IF topUpSubmitted THEN TOP_UP_WEI ELSE 0)
<1>1. HeldChange = 0
  BY NothingHeld DEF HeldChange
<1>2. /\ TypeOK /\ BalanceExplained
      /\ deposited = (IF predepositSubmitted THEN PREDEPOSIT_WEI ELSE 0)
                       + (IF topUpSubmitted THEN TOP_UP_WEI ELSE 0)
  BY DEF IInv, CreditFacts
<1>3. QED
  BY <1>1, <1>2, AmountsAssumption DEF TypeOK, BalanceExplained, Received

(* The totals these sums are made of are amounts.                          *)
LEMMA TotalsAreAmounts ==
  IInv =>
    /\ balance \in Nat /\ deposited \in Nat /\ totalClaimedWei \in Nat
    /\ proceedsIn \in Nat /\ totalActiveFundedWei \in Nat
    /\ totalRefundableWei \in Nat /\ totalRefundedWei \in Nat
    /\ topUpSubmitted \in BOOLEAN /\ calls \in Seq(Frame)
BY DEF IInv, TypeOK

(* A step that pays the pool nothing, and one that may pay it.             *)
Unpaid == Received' = Received /\ (topUpSubmitted => topUpSubmitted')
Paid == Received' >= Received /\ (topUpSubmitted => topUpSubmitted')

(* Paying the pool raises what it received by exactly the value.           *)
LEMMA ReceivePays ==
  ASSUME IInv, NEW sender \in Accounts, NEW value \in Nat, receive(sender, value)
  PROVE  /\ Received' = Received + value
         /\ topUpSubmitted' = topUpSubmitted
<1>1. /\ proceedsIn \in Nat /\ totalActiveFundedWei \in Nat
      /\ totalRefundableWei \in Nat /\ totalRefundedWei \in Nat
  BY TotalsAreAmounts
<1>2. CASE creditFunding(sender, value)
  BY <1>1, <1>2 DEF creditFunding, Received
<1>3. CASE EtherIn(value)
  BY <1>1, <1>3 DEF EtherIn, Received
<1>4. QED
  BY <1>2, <1>3 DEF receive

(* So does ETH that runs no code.                                          *)
LEMMA SilentEtherPays ==
  ASSUME IInv, NEW value \in Nat, silentEther(value)
  PROVE  Paid
<1>1. TypeOK
  BY DEF IInv
<1>2. QED
  BY <1>1 DEF TypeOK, silentEther, EtherIn, Received, Paid

(* Closing an attempt turns funding into refunds, and loses none.          *)
LEMMA ClosePaysNothing ==
  ASSUME IInv, closeExpiredFundingAttempt
  PROVE  Unpaid
<1>1. IInv'
  BY CloseKeepsIInv
<1>2. /\ totalActiveFundedWei \in Nat /\ totalRefundableWei \in Nat
      /\ balance + deposited + totalClaimedWei =
           proceedsIn + totalActiveFundedWei + totalRefundableWei + HeldChange
             + (IF predepositSubmitted THEN PREDEPOSIT_WEI ELSE 0)
  BY TotalsAreAmounts DEF IInv, BalanceExplained
<1>3. /\ totalActiveFundedWei' \in Nat /\ totalRefundableWei' \in Nat
      /\ balance' + deposited' + totalClaimedWei' =
           proceedsIn' + totalActiveFundedWei' + totalRefundableWei' + HeldChange'
             + (IF predepositSubmitted' THEN PREDEPOSIT_WEI ELSE 0)
  BY <1>1 DEF IInv, TypeOK, BalanceExplained
<1>4. UNCHANGED <<balance, deposited, totalClaimedWei, totalRefundedWei, proceedsIn,
                  predepositSubmitted, topUpSubmitted, calls>>
  BY DEF closeExpiredFundingAttempt
<1>5. HeldChange' = HeldChange /\ HeldChange \in Nat
  BY <1>4, HeldType, TotalsAreAmounts DEF HeldChange, HeldIn
<1>6. PICK active \in Nat, owed \in Nat, refunded \in Nat, in \in Nat :
        /\ active = totalActiveFundedWei /\ owed = totalRefundableWei
        /\ refunded = totalRefundedWei /\ in = proceedsIn
  BY TotalsAreAmounts
<1>7. PICK active2 \in Nat, owed2 \in Nat :
        active2 = totalActiveFundedWei' /\ owed2 = totalRefundableWei'
  BY <1>3
<1>8. PICK predeposit \in Nat, held \in Nat,
             total \in {balance + deposited + totalClaimedWei} :
        /\ predeposit = (IF predepositSubmitted THEN PREDEPOSIT_WEI ELSE 0)
        /\ held = HeldChange /\ total = balance + deposited + totalClaimedWei
  BY <1>5, AmountsAssumption
<1>9. total = in + active + owed + held + predeposit
  BY <1>2, <1>6, <1>8
<1>10. total = in + active2 + owed2 + held + predeposit
  BY <1>3, <1>4, <1>5, <1>6, <1>7, <1>8
<1>11. in + active2 + owed2 + refunded = in + active + owed + refunded
  BY <1>9, <1>10
<1>12. QED
  BY <1>4, <1>6, <1>7, <1>11 DEF Unpaid, Received

(* A payout moves what is owed; it is not a payment to the pool.           *)
LEMMA PayoutPaysNothing ==
  ASSUME IInv, NEW sender \in Accounts, NEW recipient,
         refundTo(sender, recipient) \/ claimTo(sender, recipient)
  PROVE  Unpaid
<1>1. TypeOK /\ sender \in Addresses
  BY DEF IInv, Addresses
<1>2. CASE refundTo(sender, recipient)
  <2>1. /\ refundableWeiOf[sender] \in Nat
        /\ totalRefundableWei' = totalRefundableWei - refundableWeiOf[sender]
        /\ totalRefundedWei' = totalRefundedWei + refundableWeiOf[sender]
        /\ UNCHANGED <<proceedsIn, totalActiveFundedWei, topUpSubmitted>>
    BY <1>1, <1>2 DEF TypeOK, refundTo
  <2>2. totalRefundableWei \in Nat /\ totalRefundedWei \in Nat
    BY <1>1 DEF TypeOK
  <2>3. totalRefundableWei' + totalRefundedWei' = totalRefundableWei + totalRefundedWei
    BY <2>1, <2>2
  <2>4. proceedsIn \in Nat /\ totalActiveFundedWei \in Nat
    BY <1>1 DEF TypeOK
  <2>5. /\ totalRefundableWei' \in Int /\ totalRefundedWei' \in Int
    BY <2>1, <2>2
  <2>6. Received' = Received
    BY <2>1, <2>2, <2>3, <2>4, <2>5 DEF Received
  <2>7. QED
    BY <2>1, <2>6 DEF Unpaid
<1>3. CASE claimTo(sender, recipient)
  BY <1>1, <1>3 DEF TypeOK, claimTo, Unpaid, Received
<1>4. QED
  BY <1>2, <1>3

(* No step of the pool takes back what it received, or the top-up.         *)
LEMMA PoolStepPays == IInv /\ SweepPoolStep => Paid
<1> SUFFICES ASSUME IInv, SweepPoolStep PROVE Paid
  OBVIOUS
<1>0. TypeOK
  BY DEF IInv
<1>u. Unpaid => Paid
  BY <1>0 DEF Unpaid, Paid, Received, TypeOK
<1>1. ASSUME NEW sender \in Others, NEW value \in Amounts, commitAndPredeposit(sender, value)
      PROVE Paid
  BY <1>1, <1>u DEF commitAndPredeposit, Unpaid, Received
<1>2. ASSUME NEW sender \in Others, NEW ps \in ParticipantLists, NEW ts \in TargetLists,
             openFundingAttempt(sender, ps, ts)
      PROVE Paid
  BY <1>2, <1>u DEF openFundingAttempt, Unpaid, Received
<1>3. ASSUME NEW sender \in Others, NEW value \in Amounts, receive(sender, value)
      PROVE Paid
  <2>1. value \in Nat /\ sender \in Accounts
    BY AmountsAssumption DEF Others
  <2>2. Received' = Received + value /\ topUpSubmitted' = topUpSubmitted
    BY <1>3, <2>1, ReceivePays
  <2>3. QED
    BY <2>1, <2>2, <1>0 DEF Paid, Received, TypeOK
<1>4. ASSUME NEW value \in Amounts, silentEther(value) PROVE Paid
  BY <1>4, AmountsAssumption, SilentEtherPays
<1>5. CASE closeExpiredFundingAttempt
  BY <1>5, <1>u, ClosePaysNothing
<1>6. ASSUME NEW sender \in Others, topUpValidator(sender) PROVE Paid
  <2>1. Received' = Received /\ topUpSubmitted'
    BY <1>6 DEF topUpValidator, Received
  <2>2. QED
    BY <2>1, <1>u DEF Unpaid
<1>7. ASSUME NEW sender \in Others, NEW value \in Amounts, NEW fee \in ExitFees,
             requestExit(sender, value, fee, fee)
      PROVE Paid
  BY <1>7, <1>u DEF requestExit, Unpaid, Received
<1>8. ASSUME commitReturns \/ topUpReturns \/ payoutReturns PROVE Paid
  BY <1>8, <1>u DEF commitReturns, topUpReturns, payoutReturns, Unpaid, Received
<1>9. ASSUME NEW sender \in Others, exitReturns(sender) PROVE Paid
  BY <1>9, <1>u DEF exitReturns, Unpaid, Received
<1>10. QED
  BY <1>1, <1>2, <1>3, <1>4, <1>5, <1>6, <1>7, <1>8, <1>9 DEF SweepPoolStep

(* Every step of the pool is one of its own next-state relation.           *)
LEMMA PoolStepKeepsIInv == IInv /\ SweepPoolStep => IInv'
<1> SUFFICES ASSUME IInv, SweepPoolStep PROVE IInv'
  OBVIOUS
<1>1. Others \subseteq Accounts
  BY DEF Others
<1>2. SweepPoolStep => Next
  BY <1>1 DEF SweepPoolStep, Next, CallReturns
<1>3. QED
  BY <1>2, NextKeepsIInv

(* So is every payout, which may be paid to the forwarder.                 *)
LEMMA PoolPayoutKeepsIInv == IInv /\ PoolPayout => IInv'
<1>1. Others \cup {forwarder} \subseteq Recipients /\ Others \subseteq Accounts
  BY ForwarderAssumption DEF Others, Recipients, Addresses
<1>2. QED
  BY <1>1, RefundKeepsIInv, ClaimKeepsIInv DEF PoolPayout

-----------------------------------------------------------------------------
(* Sweep: the steps *)

(* What the invariant needs of a step that is not the command's: the pool  *)
(* keeps what it received, and the forwarder what it holds.                *)
LEMMA QuietKeeps ==
  ASSUME SweepIInv, IInv', Paid, forwarderBalance' \in Nat,
         forwarderBalance' >= forwarderBalance,
         UNCHANGED <<sweptByOthers, blockStart, sweepVars>>
  PROVE  SweepIInv'
<1>1. UNCHANGED <<sweptByOthers, blockStart, sweepStep, swept, pinned>>
  BY DEF sweepVars
<1>2. SweepShapes'
  BY <1>1 DEF SweepIInv, SweepShapes, credited
<1>3. BlockIsSound'
  <2>1. PICK received \in Int, received2 \in Int :
          received = Received /\ received2 = Received'
    <3>1. Received \in Int
      BY TotalsAreAmounts DEF SweepIInv, Received
    <3>2. /\ proceedsIn' \in Nat /\ totalActiveFundedWei' \in Nat
          /\ totalRefundableWei' \in Nat /\ totalRefundedWei' \in Nat
      BY DEF IInv, TypeOK
    <3>3. Received' \in Int
      BY <3>2 DEF Received
    <3>4. QED
      BY <3>1, <3>3
  <2>2. PICK floor \in Int :
          floor = ReceivedBy(blockStart) + (IF sweepStep = "mined" THEN swept ELSE 0)
    BY AmountsAssumption DEF SweepIInv, SweepShapes, ReceivedBy, Ledgers
  <2>3. floor <= received2
    <3>1. floor <= received /\ received <= received2
      BY <2>1, <2>2 DEF SweepIInv, BlockIsSound, Paid
    <3>2. QED
      BY <3>1
  <2>4. ReceivedBy(blockStart)' = ReceivedBy(blockStart)
    BY <1>1 DEF ReceivedBy
  <2>5. /\ blockStart.forwarder \in Nat /\ sweptByOthers \in Nat /\ swept \in Nat
        /\ forwarderBalance \in Nat
        /\ blockStart.forwarder <=
             sweptByOthers + (IF sweepStep = "mined" THEN swept ELSE forwarderBalance)
        /\ blockStart.toppedUp => topUpSubmitted
    BY DEF SweepIInv, SweepShapes, BlockIsSound, Ledgers
  <2>6. blockStart.forwarder <=
          sweptByOthers + (IF sweepStep = "mined" THEN swept ELSE forwarderBalance')
    BY <2>5
  <2>7. QED
    BY <1>1, <2>1, <2>2, <2>3, <2>4, <2>5, <2>6 DEF BlockIsSound, Paid
<1>4. ReadingIsSound'
  BY <1>1 DEF SweepIInv, ReadingIsSound, credited
<1>5. QED
  BY <1>2, <1>3, <1>4 DEF SweepIInv

(* SweepSteps of the pool, payouts to the forwarder and rewards are such steps. *)
LEMMA SweepPoolStepKeeps ==
  ASSUME SweepIInv, PoolPayout \/ (SweepPoolStep /\ UNCHANGED forwarderBalance),
         UNCHANGED <<rewardsPaid, sweptByOthers, blockStart, sweepVars>>
  PROVE  SweepIInv'
<1>1. IInv /\ forwarderBalance \in Nat
  BY DEF SweepIInv, SweepShapes
<1>2. IInv'
  BY <1>1, PoolStepKeepsIInv, PoolPayoutKeepsIInv
<1>3. ASSUME SweepPoolStep, UNCHANGED forwarderBalance
      PROVE  Paid /\ forwarderBalance' \in Nat /\ forwarderBalance' >= forwarderBalance
  BY <1>1, <1>3, PoolStepPays
<1>4. ASSUME NEW sender \in Others, NEW recipient \in Others \cup {forwarder},
             \/ refundTo(sender, recipient) /\ PaidTo(recipient, refundableWeiOf[sender])
             \/ claimTo(sender, recipient) /\ PaidTo(recipient, claimable(sender))
      PROVE  Paid /\ forwarderBalance' \in Nat /\ forwarderBalance' >= forwarderBalance
  <2>1. sender \in Accounts /\ sender \in Addresses /\ recipient \in Recipients
    BY ForwarderAssumption DEF Others, Recipients, Addresses
  <2>2. Paid
    <3>1. Unpaid
      BY <1>1, <1>4, <2>1, PayoutPaysNothing
    <3>2. Received \in Int
      BY <1>1, TotalsAreAmounts DEF Received
    <3>3. QED
      BY <3>1, <3>2 DEF Unpaid, Paid
  <2>3. refundableWeiOf[sender] \in Nat
    BY <1>1, <2>1 DEF IInv, TypeOK
  <2>4. claimTo(sender, recipient) => claimable(sender) \in Nat
    BY <1>1, <2>1, ClaimReachesShare
  <2>5. PICK amount \in Nat : PaidTo(recipient, amount)
    BY <1>4, <2>3, <2>4
  <2>6. QED
    BY <1>1, <2>2, <2>5 DEF PaidTo
<1>5. Paid /\ forwarderBalance' \in Nat /\ forwarderBalance' >= forwarderBalance
  BY <1>3, <1>4 DEF PoolPayout
<1>6. QED
  BY <1>2, <1>5, QuietKeeps

(* A reward only raises the forwarder's balance.                           *)
LEMMA RewardKeeps ==
  ASSUME SweepIInv, NEW value \in Amounts, RewardArrives(value)
  PROVE  SweepIInv'
<1>1. IInv /\ forwarderBalance \in Nat /\ value \in Nat
  BY AmountsAssumption DEF SweepIInv, SweepShapes
<1>2. UNCHANGED vars /\ UNCHANGED <<sweptByOthers, blockStart, sweepVars>>
  BY DEF RewardArrives
<1>3. IInv' /\ Paid
  <2>1. Received' = Received /\ Received \in Int /\ topUpSubmitted' = topUpSubmitted
    BY <1>1, <1>2, TotalsAreAmounts DEF vars, Received
  <2>2. QED
    BY <1>1, <1>2, <2>1, StutterKeepsIInv DEF Paid
<1>4. forwarderBalance' \in Nat /\ forwarderBalance' >= forwarderBalance
  BY <1>1 DEF RewardArrives
<1>5. QED
  BY <1>2, <1>3, <1>4, QuietKeeps

(* A stuttering step is one too.                                           *)
LEMMA SweepStutterKeeps == SweepIInv /\ UNCHANGED sweepSystemVars => SweepIInv'
<1> SUFFICES ASSUME SweepIInv, UNCHANGED sweepSystemVars PROVE SweepIInv'
  OBVIOUS
<1>1. UNCHANGED vars /\ UNCHANGED <<forwarderBalance, sweptByOthers, blockStart, sweepVars>>
  BY DEF sweepSystemVars, forwarderVars
<1>2. IInv /\ forwarderBalance \in Nat
  BY DEF SweepIInv, SweepShapes
<1>3. IInv' /\ Paid
  <2>1. Received' = Received /\ Received \in Int /\ topUpSubmitted' = topUpSubmitted
    BY <1>1, <1>2, TotalsAreAmounts DEF vars, Received
  <2>2. QED
    BY <1>1, <1>2, <2>1, StutterKeepsIInv DEF Paid
<1>4. QED
  BY <1>1, <1>2, <1>3, QuietKeeps

(* A sweep of the whole balance, by whoever: the pool receives what the    *)
(* forwarder held.                                                         *)
LEMMA SweepPays ==
  ASSUME SweepIInv, sweep
  PROVE  /\ IInv' /\ Received' = Received + forwarderBalance
         /\ topUpSubmitted' = topUpSubmitted
         /\ forwarderBalance' = 0 /\ blockStart' = blockStart
<1>1. /\ forwarder \in Accounts /\ forwarderBalance \in Nat /\ IInv
      /\ receive(forwarder, forwarderBalance)
  BY ForwarderAssumption DEF SweepIInv, SweepShapes, sweep
<1>2. IInv'
  BY <1>1, ReceiveKeepsIInv
<1>3. Received' = Received + forwarderBalance /\ topUpSubmitted' = topUpSubmitted
  BY <1>1, ReceivePays
<1>4. QED
  BY <1>2, <1>3 DEF sweep

(* The terms of BlockIsSound, as numbers.                                  *)
LEMMA BlockTerms ==
  ASSUME SweepIInv
  PROVE  /\ Received \in Int /\ ReceivedBy(blockStart) \in Int
         /\ blockStart.forwarder \in Nat /\ sweptByOthers \in Nat /\ swept \in Nat
         /\ forwarderBalance \in Nat
<1>1. Received \in Int
  BY TotalsAreAmounts DEF SweepIInv, Received
<1>2. QED
  BY <1>1, AmountsAssumption DEF SweepIInv, SweepShapes, ReceivedBy, Ledgers

(* Another caller's sweep counts among those of the block.                 *)
LEMMA OtherSweepKeeps ==
  ASSUME SweepIInv, SweepByAnother
  PROVE  SweepIInv'
<1>1. /\ IInv' /\ Received' = Received + forwarderBalance
      /\ topUpSubmitted' = topUpSubmitted
      /\ forwarderBalance' = 0 /\ blockStart' = blockStart
  BY SweepPays DEF SweepByAnother
<1>2. UNCHANGED <<sweepStep, swept, pinned>> /\ sweptByOthers' = sweptByOthers + forwarderBalance
  BY DEF SweepByAnother, sweepVars
<1>3. /\ Received \in Int /\ ReceivedBy(blockStart) \in Int
      /\ blockStart.forwarder \in Nat /\ sweptByOthers \in Nat /\ swept \in Nat
      /\ forwarderBalance \in Nat
  BY BlockTerms
<1>4. SweepShapes'
  BY <1>1, <1>2, <1>3 DEF SweepIInv, SweepShapes, credited
<1>5. BlockIsSound'
  <2>1. /\ blockStart.toppedUp => topUpSubmitted
        /\ ReceivedBy(blockStart) + (IF sweepStep = "mined" THEN swept ELSE 0) <= Received
        /\ blockStart.forwarder <=
             sweptByOthers + (IF sweepStep = "mined" THEN swept ELSE forwarderBalance)
    BY DEF SweepIInv, BlockIsSound
  <2>2. ReceivedBy(blockStart)' = ReceivedBy(blockStart)
    BY <1>1 DEF ReceivedBy
  <2>3. ReceivedBy(blockStart) + (IF sweepStep = "mined" THEN swept ELSE 0) <= Received'
    BY <2>1, <1>1, <1>3
  <2>4. blockStart.forwarder <=
          sweptByOthers' + (IF sweepStep = "mined" THEN swept ELSE forwarderBalance')
    BY <2>1, <1>1, <1>2, <1>3
  <2>5. QED
    BY <2>1, <2>2, <2>3, <2>4, <1>1, <1>2 DEF BlockIsSound
<1>6. ReadingIsSound'
  BY <1>2 DEF SweepIInv, ReadingIsSound, credited
<1>7. QED
  BY <1>1, <1>4, <1>5, <1>6 DEF SweepIInv

(* The command's own sweep moves what the forwarder holds into the pool.   *)
LEMMA MineSweepKeeps ==
  ASSUME SweepIInv, MineSweep
  PROVE  SweepIInv'
<1>1. /\ IInv' /\ Received' = Received + forwarderBalance
      /\ topUpSubmitted' = topUpSubmitted
      /\ forwarderBalance' = 0 /\ blockStart' = blockStart
  BY SweepPays DEF MineSweep
<1>2. /\ UNCHANGED <<sweptByOthers, pinned>> /\ swept' = forwarderBalance
      /\ sweepStep = "sent" /\ sweepStep' = "mined"
  BY DEF MineSweep, SweepGoesTo
<1>3. /\ Received \in Int /\ ReceivedBy(blockStart) \in Int
      /\ blockStart.forwarder \in Nat /\ sweptByOthers \in Nat /\ swept \in Nat
      /\ forwarderBalance \in Nat
  BY BlockTerms
<1>4. SweepShapes'
  BY <1>1, <1>2, <1>3 DEF SweepIInv, SweepShapes, credited, SweepSteps
<1>5. BlockIsSound'
  <2>1. /\ blockStart.toppedUp => topUpSubmitted
        /\ ReceivedBy(blockStart) <= Received
        /\ blockStart.forwarder <= sweptByOthers + forwarderBalance
    BY <1>2, <1>3 DEF SweepIInv, BlockIsSound
  <2>2. ReceivedBy(blockStart)' = ReceivedBy(blockStart)
    BY <1>1 DEF ReceivedBy
  <2>3. ReceivedBy(blockStart) + swept' <= Received'
    BY <2>1, <1>1, <1>2, <1>3
  <2>4. QED
    BY <2>1, <2>2, <2>3, <1>1, <1>2 DEF BlockIsSound
<1>6. ReadingIsSound'
  BY <1>2 DEF ReadingIsSound, Read
<1>7. QED
  BY <1>1, <1>4, <1>5, <1>6 DEF SweepIInv

(* Estimating and a revert change the command's step only.                 *)
LEMMA NothingSweptKeeps ==
  ASSUME SweepIInv, SendSweep \/ MineSweepRevert
  PROVE  SweepIInv'
<1>1. /\ UNCHANGED vars
      /\ UNCHANGED <<forwarderBalance, sweptByOthers, blockStart, swept, pinned>>
      /\ sweepStep \in {"idle", "sent"} /\ sweepStep' \in {"sent", "refused", "reverted"}
  BY DEF SendSweep, MineSweepRevert, forwarderVars, SweepGoesTo
<1>2. IInv'
  BY <1>1, StutterKeepsIInv DEF SweepIInv
<1>3. SweepShapes'
  BY <1>1 DEF SweepIInv, SweepShapes, credited, SweepSteps
<1>4. BlockIsSound'
  <2>1. Received' = Received /\ ReceivedBy(blockStart)' = ReceivedBy(blockStart)
        /\ topUpSubmitted' = topUpSubmitted
    BY <1>1 DEF vars, Received, ReceivedBy
  <2>2. QED
    BY <1>1, <2>1 DEF SweepIInv, BlockIsSound
<1>5. ReadingIsSound'
  BY <1>1 DEF ReadingIsSound, Read
<1>6. QED
  BY <1>2, <1>3, <1>4, <1>5 DEF SweepIInv

(* The verdict follows the order of the checks, on figures that bound each *)
(* other: with nothing short, the credit covers what the forwarder held.   *)
LEMMA ConcludeKeeps ==
  ASSUME SweepIInv, Conclude
  PROVE  SweepIInv'
<1>1. /\ UNCHANGED vars
      /\ UNCHANGED <<forwarderBalance, sweptByOthers, blockStart, swept, pinned>>
      /\ sweepStep = "reading"
      /\ sweepStep' = IF fellShort THEN "forwardedTooLittle"
                      ELSE IF credited < pinned.forwarderBefore THEN "notCredited"
                      ELSE "credited"
  BY DEF Conclude, forwarderVars, SweepGoesTo
<1>2. /\ swept \in Nat /\ pinned.forwarderBefore \in Nat /\ credited \in Int
      /\ swept <= credited /\ pinned.forwarderBefore <= swept + pinned.sweptByOthers
  BY <1>1 DEF SweepIInv, SweepShapes, ReadingIsSound, Read
<1>3. sweepStep' \in {"forwardedTooLittle", "credited"}
      /\ (sweepStep' = "forwardedTooLittle" => swept < pinned.forwarderBefore)
  BY <1>1, <1>2 DEF fellShort
<1>4. IInv'
  BY <1>1, StutterKeepsIInv DEF SweepIInv
<1>5. SweepShapes'
  BY <1>1, <1>3 DEF SweepIInv, SweepShapes, credited, SweepSteps
<1>6. BlockIsSound'
  <2>1. Received' = Received /\ ReceivedBy(blockStart)' = ReceivedBy(blockStart)
        /\ topUpSubmitted' = topUpSubmitted
    BY <1>1 DEF vars, Received, ReceivedBy
  <2>2. QED
    BY <1>1, <1>3, <2>1 DEF SweepIInv, BlockIsSound
<1>7. ReadingIsSound'
  BY <1>1, <1>2, <1>3 DEF ReadingIsSound, Read, credited
<1>8. QED
  BY <1>4, <1>5, <1>6, <1>7 DEF SweepIInv

(* When the block ends the books are settled, and what the command reads   *)
(* of it is what the pool received in it.                                  *)
LEMMA EndSweepBlockKeeps ==
  ASSUME SweepIInv, EndSweepBlock
  PROVE  SweepIInv'
<1>1. /\ Tick /\ calls = <<>> /\ IInv
      /\ UNCHANGED <<forwarderBalance, swept>>
      /\ blockStart' = Ledger /\ sweptByOthers' = 0
  BY DEF SweepIInv, EndSweepBlock, Tick
<1>2. IInv'
  BY <1>1, TickKeepsIInv
<1>3. UNCHANGED <<balance, totalClaimedWei, totalRefundedWei, topUpSubmitted, proceedsIn,
                  totalActiveFundedWei, totalRefundableWei>>
  BY <1>1 DEF Tick
<1>4. /\ balance \in Nat /\ totalClaimedWei \in Nat /\ totalRefundedWei \in Nat
      /\ topUpSubmitted \in BOOLEAN
  BY <1>1, TotalsAreAmounts
<1>5. /\ Received \in Int /\ ReceivedBy(blockStart) \in Int
      /\ blockStart \in Ledgers /\ blockStart.forwarder \in Nat
      /\ sweptByOthers \in Nat /\ swept \in Nat /\ forwarderBalance \in Nat
  BY BlockTerms DEF SweepIInv, SweepShapes
<1>6. Ledger \in Ledgers
  BY <1>4, <1>5 DEF Ledger, Ledgers
<1>7. ReceivedBy(Ledger) = Received
  BY <1>1, BooksAreSettled DEF ReceivedBy, Ledger
<1>8. BlockIsSound'
  <2>1. sweepStep' # "mined"
    BY DEF EndSweepBlock, SweepGoesTo
  <2>2. Received' = Received /\ ReceivedBy(blockStart)' = ReceivedBy(Ledger)
    BY <1>1, <1>3 DEF Received, ReceivedBy
  <2>3. ReceivedBy(blockStart)' <= Received'
    BY <2>2, <1>5, <1>7
  <2>4. blockStart'.forwarder = forwarderBalance /\ blockStart'.toppedUp = topUpSubmitted
    BY <1>1 DEF Ledger
  <2>5. QED
    <3>1. (ReceivedBy(blockStart) + (IF sweepStep = "mined" THEN swept ELSE 0))' <= Received'
      BY <2>1, <2>2, <2>3, <1>5, <1>7
    <3>2. (blockStart.forwarder <=
             sweptByOthers + (IF sweepStep = "mined" THEN swept ELSE forwarderBalance))'
      BY <2>1, <2>4, <1>1, <1>5
    <3>3. QED
      BY <3>1, <3>2, <2>4, <1>3 DEF BlockIsSound
<1>9. CASE sweepStep = "mined"
  <2>1. /\ pinned' = [forwarderBefore |-> blockStart.forwarder,
                      poolBefore |-> blockStart.pool, poolAfter |-> balance,
                      outflow |-> outflowEvents(blockStart, Ledger),
                      sweptByOthers |-> sweptByOthers]
        /\ sweepStep' = "reading"
    BY <1>9 DEF EndSweepBlock, SweepGoesTo
  <2>2. credited' = balance - blockStart.pool + outflowEvents(blockStart, Ledger)
    BY <2>1 DEF credited
  <2>3. /\ blockStart.pool \in Nat /\ blockStart.claimed \in Nat
        /\ blockStart.refunded \in Nat /\ blockStart.toppedUp \in BOOLEAN
    BY <1>5 DEF Ledgers
  <2>4. credited' = Received - ReceivedBy(blockStart)
    <3>1. blockStart.toppedUp => topUpSubmitted
      BY DEF SweepIInv, BlockIsSound
    <3>2. PICK now1 \in Nat, before \in Nat :
            /\ now1 = (IF topUpSubmitted THEN TOP_UP_WEI ELSE 0)
            /\ before = (IF blockStart.toppedUp THEN TOP_UP_WEI ELSE 0)
      BY AmountsAssumption
    <3>3. (IF topUpSubmitted /\ ~ blockStart.toppedUp THEN TOP_UP_WEI ELSE 0) = now1 - before
      BY <3>1, <3>2, AmountsAssumption
    <3>4. outflowEvents(blockStart, Ledger) =
            (totalClaimedWei - blockStart.claimed) + (totalRefundedWei - blockStart.refunded)
              + (now1 - before)
      BY <3>3 DEF outflowEvents, Ledger
    <3>5. Received = balance + totalClaimedWei + totalRefundedWei + now1
      BY <1>1, <3>2, BooksAreSettled
    <3>6. ReceivedBy(blockStart) =
            blockStart.pool + blockStart.claimed + blockStart.refunded + before
      BY <3>2 DEF ReceivedBy
    <3>7. PICK out \in Int :
            out = (totalClaimedWei - blockStart.claimed)
                    + (totalRefundedWei - blockStart.refunded) + (now1 - before)
      BY <1>4, <2>3, <3>2
    <3>8. credited' = balance - blockStart.pool + out
      BY <2>2, <3>4, <3>7
    <3>9. QED
      BY <3>5, <3>6, <3>7, <3>8, <2>3, <3>2, <1>4
  <2>5. ReceivedBy(blockStart) + swept <= Received
        /\ blockStart.forwarder <= sweptByOthers + swept
    BY <1>9 DEF SweepIInv, BlockIsSound
  <2>6. swept <= credited' /\ credited' \in Int
    BY <2>4, <2>5, <1>5
  <2>7. SweepShapes'
    BY <2>1, <2>6, <1>1, <1>5, <1>6 DEF SweepShapes, SweepSteps
  <2>8. ReadingIsSound'
    BY <2>1, <2>5, <2>6, <1>1, <1>5 DEF ReadingIsSound
  <2>9. QED
    BY <1>2, <1>8, <2>7, <2>8 DEF SweepIInv
<1>10. CASE sweepStep # "mined"
  <2>1. UNCHANGED <<pinned, sweepStep, swept>>
    BY <1>10 DEF EndSweepBlock
  <2>2. SweepShapes'
    BY <2>1, <1>1, <1>5, <1>6 DEF SweepIInv, SweepShapes, credited
  <2>3. ReadingIsSound'
    BY <2>1 DEF SweepIInv, ReadingIsSound, credited
  <2>4. QED
    BY <1>2, <1>8, <2>2, <2>3 DEF SweepIInv
<1>11. QED
  BY <1>9, <1>10

-----------------------------------------------------------------------------
(* Sweep: the theorems *)

(* Nothing is swept, read or paid at first.                                *)
LEMMA SweepInitEstablishes == SweepInit => SweepIInv
<1> SUFFICES ASSUME SweepInit PROVE SweepIInv
  OBVIOUS
<1>1. /\ IInv /\ Init /\ forwarderBalance = 0 /\ sweptByOthers = 0
      /\ blockStart = Ledger /\ sweepStep = "idle" /\ swept = 0 /\ pinned = NoBlock
  BY InitEstablishesIInv DEF SweepInit
<1>2. /\ Ledger = [pool |-> 0, forwarder |-> 0, claimed |-> 0, refunded |-> 0, toppedUp |-> FALSE]
      /\ Received = 0
  <2>1. /\ balance = 0 /\ totalClaimedWei = 0 /\ totalRefundedWei = 0
        /\ proceedsIn = 0 /\ totalActiveFundedWei = 0 /\ totalRefundableWei = 0
        /\ topUpSubmitted = FALSE
    BY <1>1 DEF Init
  <2>2. Received = 0
    BY <2>1 DEF Received
  <2>3. QED
    BY <2>1, <2>2, <1>1 DEF Ledger
<1>3. SweepShapes
  <2>1. credited = 0
    BY <1>1 DEF credited, NoBlock
  <2>2. blockStart \in Ledgers
    BY <1>1, <1>2 DEF Ledgers
  <2>3. QED
    BY <2>1, <2>2, <1>1 DEF SweepShapes, SweepSteps, NoBlock
<1>4. BlockIsSound
  BY <1>1, <1>2 DEF BlockIsSound, ReceivedBy
<1>5. ReadingIsSound
  BY <1>1 DEF ReadingIsSound, Read
<1>6. QED
  BY <1>1, <1>3, <1>4, <1>5 DEF SweepIInv

(* Every step of the pool, of the forwarder and of the command keeps the   *)
(* invariant.                                                              *)
LEMMA SweepNextKeeps == SweepIInv /\ [SweepNext]_sweepSystemVars => SweepIInv'
<1> SUFFICES ASSUME SweepIInv, [SweepNext]_sweepSystemVars PROVE SweepIInv'
  OBVIOUS
<1>1. ASSUME PoolPayout \/ (SweepPoolStep /\ UNCHANGED forwarderBalance),
             UNCHANGED <<rewardsPaid, sweptByOthers, blockStart, sweepVars>>
      PROVE  SweepIInv'
  BY <1>1, SweepPoolStepKeeps
<1>2. ASSUME NEW value \in Amounts, RewardArrives(value) PROVE SweepIInv'
  BY <1>2, RewardKeeps
<1>3. CASE SweepByAnother
  BY <1>3, OtherSweepKeeps
<1>4. CASE SendSweep \/ MineSweepRevert
  BY <1>4, NothingSweptKeeps
<1>5. CASE MineSweep
  BY <1>5, MineSweepKeeps
<1>6. CASE EndSweepBlock
  BY <1>6, EndSweepBlockKeeps
<1>7. CASE Conclude
  BY <1>7, ConcludeKeeps
<1>8. CASE UNCHANGED sweepSystemVars
  BY <1>8, SweepStutterKeeps
<1>9. QED
  BY <1>1, <1>2, <1>3, <1>4, <1>5, <1>6, <1>7, <1>8 DEF SweepNext

(* In every reachable state, for every pool, every forwarder, listed or    *)
(* not, and every set of accounts, the block of a sweep is accounted for:  *)
(* what the pool was paid in it, and what left the forwarder.              *)
THEOREM SweepInvariantHolds == SweepSpec => []SweepIInv
BY SweepInitEstablishes, SweepNextKeeps, PTL DEF SweepSpec

(* A sweep that forwarded everything is never reported as one that did not *)
(* reach the pool (assertSweepWasCredited in common.ts), whatever else     *)
(* moved ETH in its block.                                                 *)
THEOREM SweepsAreCredited == SweepSpec => []NoFalseShortfall
<1>1. SweepIInv => NoFalseShortfall
  BY DEF SweepIInv, ReadingIsSound, NoFalseShortfall
<1>2. QED
  BY <1>1, SweepInvariantHolds, PTL

(* The message that the forwarder kept part of what it held means that     *)
(* somebody else swept that part earlier in the block, and nothing else.   *)
THEOREM ShortSweepsAreExplained == SweepSpec => []ShortSweepWasShared
<1>1. SweepIInv => ShortSweepWasShared
  <2>1. SUFFICES ASSUME SweepIInv, sweepStep = "forwardedTooLittle"
                 PROVE  /\ pinned.sweptByOthers > 0
                        /\ swept + pinned.sweptByOthers >= pinned.forwarderBefore
    BY DEF ShortSweepWasShared
  <2>2. /\ swept \in Nat /\ pinned.forwarderBefore \in Nat /\ pinned.sweptByOthers \in Nat
        /\ pinned.forwarderBefore <= swept + pinned.sweptByOthers
        /\ swept < pinned.forwarderBefore
    BY <2>1 DEF SweepIInv, SweepShapes, ReadingIsSound, Read
  <2>3. QED
    BY <2>2
<1>2. QED
  BY <1>1, SweepInvariantHolds, PTL

-----------------------------------------------------------------------------
(* Exit: the inductive invariant *)

Steps ==
  {"start", "identified", "checking", "checked", "refused", "quoted", "sent",
   "requested", "reverted"}

Fees == [read : Nat, cap : Nat, byDefault : BOOLEAN, mined : Nat]

Shapes ==
  /\ now <= MaxTime
  /\ validator \in [activationEpoch : Nat, slashed : BOOLEAN, exiting : BOOLEAN]
  /\ exitFee \in ExitFees
  /\ requests \in Seq(Runners)
  /\ step \in [Runners -> Steps]
  /\ DOMAIN subject = Runners /\ DOMAIN preflight = Runners /\ DOMAIN answers = Runners
  /\ fees \in [Runners -> Fees] /\ DOMAIN outcome = Runners

AboutPools(r) == subject[r].validator = "pools"

(* A file that names the pool's validator lets no other one be checked.    *)
SubjectIsSound(r) == subject[r].file = "pools" => AboutPools(r)

(* However old, an answer that calls the pool's validator active tells its *)
(* activation epoch, which stays what it is.                               *)
AnswersAreSound(r) ==
  /\ step[r] \in {"start", "identified"} => answers[r] = NoAnswers
  /\ answers[r].slot.asked => answers[r].slot.slot \in Nat /\ answers[r].slot.slot <= now
  /\ AboutPools(r) /\ answers[r].validator.asked /\ answers[r].validator.active =>
       /\ Active(validator)
       /\ answers[r].validator.fields.activationEpoch = validator.activationEpoch

(* Once it may exit, it may exit for good, unless it is exiting.           *)
Mature == Active(validator) /\ EpochOf(now) >= validator.activationEpoch + SHARD_COMMITTEE_PERIOD

PreflightIsSound(r) ==
  preflight[r] = "passed" =>
    /\ step[r] \notin {"start", "identified", "checking"}
    /\ AboutPools(r) => Mature

OutcomeIsSound(r) ==
  /\ outcome[r] # "none" => step[r] = "requested"
  /\ preflight[r] = "passed" /\ AboutPools(r) /\ outcome[r] = "dropped" => validator.exiting

(* What was signed stays allowed; only the fee can refuse it.              *)
SignedIsSound(r) ==
  /\ step[r] = "sent" => predepositSubmitted /\ canRequestExit(r)
  /\ step[r] \in {"quoted", "sent", "reverted"} /\ fees[r].byDefault =>
       fees[r].cap = 2 * fees[r].read
  /\ step[r] = "reverted" => fees[r].mined > fees[r].cap

RunIsSound(r) ==
  /\ SubjectIsSound(r)
  /\ AnswersAreSound(r)
  /\ PreflightIsSound(r)
  /\ OutcomeIsSound(r)
  /\ SignedIsSound(r)

(* Who has a request queued has nothing left to do.                        *)
QueueIsSound == \A i \in DOMAIN requests : step[requests[i]] = "requested"

ExitIInv ==
  /\ IInv
  /\ Shapes
  /\ \A r \in Runners : RunIsSound(r)
  /\ QueueIsSound

-----------------------------------------------------------------------------
(* Exit: what time and the pool do not take back *)

(* Epochs are natural numbers, no later than their slots, and in order.    *)
LEMMA EpochsGrow ==
  ASSUME NEW early \in Nat, NEW late \in Nat, early <= late
  PROVE  /\ EpochOf(early) \in Nat /\ EpochOf(late) \in Nat
         /\ EpochOf(early) <= EpochOf(late) /\ EpochOf(late) <= late
<1>1. PICK n \in Nat \ {0} : n = SLOTS_PER_EPOCH
  BY ExitAssumption
<1>2. PICK x \in Nat, y \in Nat : x = early \div n /\ y = late \div n
  BY RoundedDown
<1>3. n * x <= early /\ n * y <= late /\ late < n * (y + 1)
  BY <1>2, RoundedDown
<1>4. x <= y
  <2>1. SUFFICES ASSUME y + 1 <= x PROVE FALSE
    OBVIOUS
  <2>2. n * (y + 1) <= n * x /\ n * (y + 1) \in Nat /\ n * x \in Nat
    BY <2>1, ScaleMonotone, ProductType
  <2>3. QED
    BY <2>2, <1>3
<1>5. y <= late
  <2>1. 1 * y <= n * y
    BY ScaleMonotone, ProductType
  <2>2. n * y \in Nat
    BY ProductType
  <2>3. QED
    BY <2>1, <2>2, <1>3
<1>6. QED
  BY <1>1, <1>2, <1>4, <1>5 DEF EpochOf

(* What no step of the world around a run undoes.                          *)
WorldGoesOn ==
  /\ now' >= now /\ now' <= MaxTime /\ now' \in Nat
  /\ Active(validator) => validator'.activationEpoch = validator.activationEpoch
  /\ validator.exiting => validator'.exiting
  /\ predepositSubmitted => predepositSubmitted'
  /\ \A r \in Runners : canRequestExit(r) => canRequestExit(r)'

(* The time and the validator as numbers.                                  *)
LEMMA WorldFacts ==
  ASSUME ExitIInv
  PROVE  /\ now \in Nat /\ now <= MaxTime /\ MaxTime \in Nat
         /\ EpochOf(now) \in Nat /\ EpochOf(now) <= now
         /\ validator.activationEpoch \in Nat
         /\ SHARD_COMMITTEE_PERIOD \in Nat /\ FAR_FUTURE_EPOCH \in Nat
         /\ Active(validator) => validator.activationEpoch # FAR_FUTURE_EPOCH
<1>1. now \in Nat /\ now <= MaxTime /\ MaxTime \in Nat /\ validator.activationEpoch \in Nat
  BY BoundsAssumption DEF ExitIInv, Shapes, IInv, TypeOK
<1>2. EpochOf(now) \in Nat /\ EpochOf(now) <= now
  BY <1>1, EpochsGrow
<1>3. QED
  BY <1>1, <1>2, ExitAssumption DEF Active

(* An activated validator stays one, and one that may exit may exit later. *)
LEMMA StaysMature ==
  ASSUME ExitIInv, WorldGoesOn
  PROVE  /\ Active(validator) => Active(validator)'
         /\ Mature => Mature'
<1>1. /\ now \in Nat /\ validator.activationEpoch \in Nat /\ SHARD_COMMITTEE_PERIOD \in Nat
  BY WorldFacts
<1>2. now' \in Nat /\ now <= now'
  BY <1>1 DEF WorldGoesOn
<1>3. /\ EpochOf(now) \in Nat /\ EpochOf(now') \in Nat /\ EpochOf(now) <= EpochOf(now')
  BY <1>1, <1>2, EpochsGrow
<1>4. ASSUME Active(validator)
      PROVE  /\ Active(validator)'
             /\ validator'.activationEpoch = validator.activationEpoch
  BY <1>1, <1>3, <1>4 DEF WorldGoesOn, Active, EpochOf
<1>5. ASSUME Mature PROVE Mature'
  <2>1. EpochOf(now') >= validator'.activationEpoch + SHARD_COMMITTEE_PERIOD
    BY <1>1, <1>3, <1>4, <1>5 DEF Mature
  <2>2. QED
    BY <2>1, <1>4, <1>5 DEF Mature, EpochOf
<1>6. QED
  BY <1>4, <1>5

(* A run that a step does not touch stays sound as the world goes on.      *)
LEMMA RunStays ==
  ASSUME ExitIInv, WorldGoesOn, NEW r \in Runners,
         UNCHANGED <<step[r], subject[r], preflight[r], answers[r], fees[r], outcome[r]>>
  PROVE  RunIsSound(r)'
<1>0. RunIsSound(r)
  BY DEF ExitIInv
<1>1. SubjectIsSound(r)' /\ AboutPools(r)' = AboutPools(r)
  BY <1>0 DEF RunIsSound, SubjectIsSound, AboutPools
<1>2. AnswersAreSound(r)'
  <2>1. answers[r].slot.asked => answers[r].slot.slot \in Nat /\ answers[r].slot.slot <= now'
    <3>1. ASSUME answers[r].slot.asked
          PROVE  answers[r].slot.slot \in Nat /\ answers[r].slot.slot <= now
      BY <1>0, <3>1 DEF RunIsSound, AnswersAreSound
    <3>2. now \in Nat /\ now' \in Nat /\ now <= now'
      BY WorldFacts DEF WorldGoesOn
    <3>3. QED
      BY <3>1, <3>2
  <2>2. ASSUME AboutPools(r), answers[r].validator.asked, answers[r].validator.active
        PROVE  /\ Active(validator)'
               /\ answers[r].validator.fields.activationEpoch = validator'.activationEpoch
    BY <2>2, <1>0, StaysMature DEF RunIsSound, AnswersAreSound, WorldGoesOn
  <2>3. step[r] \in {"start", "identified"} => answers[r] = NoAnswers
    BY <1>0 DEF RunIsSound, AnswersAreSound
  <2>4. QED
    BY <1>1, <2>1, <2>2, <2>3 DEF AnswersAreSound, NoAnswers, NotAsked
<1>3. PreflightIsSound(r)'
  BY <1>0, <1>1, StaysMature DEF RunIsSound, PreflightIsSound
<1>4. OutcomeIsSound(r)'
  BY <1>0, <1>1 DEF RunIsSound, OutcomeIsSound, WorldGoesOn
<1>5. SignedIsSound(r)'
  BY <1>0 DEF RunIsSound, SignedIsSound, WorldGoesOn
<1>6. QED
  BY <1>1, <1>2, <1>3, <1>4, <1>5 DEF RunIsSound

-----------------------------------------------------------------------------
(* Exit: the steps of the pool and of the consensus layer *)

(* A step of the pool that writes no credits takes no permission away.     *)
LEMMA CreditsStay ==
  ASSUME ExitIInv, UNCHANGED <<now, validator, creditedWeiOf>>,
         predepositSubmitted => predepositSubmitted'
  PROVE  WorldGoesOn
<1>1. now \in Nat /\ now <= MaxTime
  BY WorldFacts
<1>2. \A r \in Runners : canRequestExit(r) => canRequestExit(r)'
  BY DEF canRequestExit
<1>3. now' >= now /\ now' <= MaxTime /\ now' \in Nat
  BY <1>1
<1>4. QED
  BY <1>2, <1>3 DEF WorldGoesOn

(* The pool takes back neither the predeposit nor a credit: credits are    *)
(* written once, where there were none.                                    *)
LEMMA PoolGoesOn ==
  ASSUME ExitIInv, PoolStep, UNCHANGED validator
  PROVE  IInv' /\ WorldGoesOn
<1>0. IInv
  BY DEF ExitIInv
<1>1. PoolStep => Next
  BY DEF PoolStep, Next, CallReturns
<1>2. IInv'
  BY <1>0, <1>1, NextKeepsIInv
<1>3. ASSUME NEW sender \in Accounts, NEW value \in Amounts, commitAndPredeposit(sender, value)
      PROVE  WorldGoesOn
  BY <1>3, CreditsStay DEF commitAndPredeposit
<1>4. ASSUME NEW sender \in Accounts, NEW ps \in ParticipantLists, NEW ts \in TargetLists,
             openFundingAttempt(sender, ps, ts)
      PROVE  WorldGoesOn
  BY <1>4, CreditsStay DEF openFundingAttempt
<1>5. ASSUME NEW sender \in Accounts, NEW value \in Amounts, fund(sender, value)
      PROVE  WorldGoesOn
  BY <1>5, CreditsStay DEF fund, creditFunding
<1>6. ASSUME closeExpiredFundingAttempt PROVE WorldGoesOn
  BY <1>6, CreditsStay DEF closeExpiredFundingAttempt
<1>7. ASSUME NEW sender \in Accounts, topUpValidator(sender)
      PROVE  WorldGoesOn
  <2>1. UNCHANGED <<now, validator, predepositSubmitted>> /\ ~ topUpSubmitted
    BY <1>7 DEF topUpValidator
  <2>2. creditedWeiOf = NoWei
    BY <1>0, <2>1 DEF IInv, CreditFacts
  <2>3. \A r \in Runners : canRequestExit(r) => canRequestExit(r)'
    BY <2>2, ExitAssumption DEF NoWei, canRequestExit, Addresses
  <2>4. now \in Nat /\ now <= MaxTime
    BY WorldFacts
  <2>5. QED
    BY <2>1, <2>3, <2>4 DEF WorldGoesOn
<1>8. ASSUME commitReturns \/ topUpReturns \/ payoutReturns
      PROVE  WorldGoesOn
  BY <1>8, CreditsStay DEF commitReturns, topUpReturns, payoutReturns
<1>9. ASSUME NEW sender \in Accounts, exitReturns(sender)
      PROVE  WorldGoesOn
  BY <1>9, CreditsStay DEF exitReturns
<1>10. QED
  BY <1>2, <1>3, <1>4, <1>5, <1>6, <1>7, <1>8, <1>9 DEF PoolStep

(* No run takes part in a step of the pool.                                *)
LEMMA PoolKeeps ==
  ASSUME ExitIInv, PoolStep, UNCHANGED <<externalVars, commandVars>>
  PROVE  ExitIInv'
<1>1. UNCHANGED <<validator, exitFee, requests, step, subject, preflight, answers, fees, outcome>>
  BY DEF externalVars, commandVars
<1>2. IInv' /\ WorldGoesOn
  BY <1>1, PoolGoesOn
<1>3. Shapes'
  BY <1>1, <1>2 DEF ExitIInv, Shapes, WorldGoesOn
<1>4. \A r \in Runners : RunIsSound(r)'
  BY <1>1, <1>2, RunStays
<1>5. QueueIsSound'
  BY <1>1 DEF ExitIInv, QueueIsSound
<1>6. QED
  BY <1>2, <1>3, <1>4, <1>5 DEF ExitIInv

(* Activation, slashing and a voluntary exit leave the epoch of an active  *)
(* validator, and an exit, as they are.                                    *)
LEMMA ValidatorKeeps ==
  ASSUME ExitIInv, Activate \/ Slash \/ VoluntaryExit
  PROVE  ExitIInv'
<1>1. /\ UNCHANGED vars
      /\ UNCHANGED <<exitFee, requests, step, subject, preflight, answers, fees, outcome>>
  BY DEF Activate, Slash, VoluntaryExit, commandVars
<1>2. IInv' /\ UNCHANGED <<now, predepositSubmitted, creditedWeiOf>>
  BY <1>1, StutterKeepsIInv DEF ExitIInv, vars
<1>3. /\ now \in Nat /\ now <= MaxTime /\ EpochOf(now) \in Nat
      /\ validator \in [activationEpoch : Nat, slashed : BOOLEAN, exiting : BOOLEAN]
      /\ Active(validator) => validator.activationEpoch # FAR_FUTURE_EPOCH
  BY WorldFacts DEF ExitIInv, Shapes
<1>4. /\ validator' \in [activationEpoch : Nat, slashed : BOOLEAN, exiting : BOOLEAN]
      /\ Active(validator) => validator'.activationEpoch = validator.activationEpoch
      /\ validator.exiting => validator'.exiting
  <2>1. CASE Activate
    BY <2>1, <1>3 DEF Activate
  <2>2. CASE Slash
    BY <2>2, <1>3 DEF Slash
  <2>3. CASE VoluntaryExit
    BY <2>3, <1>3 DEF VoluntaryExit
  <2>4. QED
    BY <2>1, <2>2, <2>3
<1>5. WorldGoesOn
  <2>1. \A r \in Runners : canRequestExit(r)' <=> canRequestExit(r)
    BY <1>2 DEF canRequestExit
  <2>2. QED
    BY <1>2, <1>3, <1>4, <2>1 DEF WorldGoesOn
<1>6. Shapes'
  BY <1>1, <1>2, <1>3, <1>4 DEF ExitIInv, Shapes
<1>7. \A r \in Runners : RunIsSound(r)'
  BY <1>1, <1>5, RunStays
<1>8. QueueIsSound'
  BY <1>1 DEF ExitIInv, QueueIsSound
<1>9. QED
  BY <1>2, <1>6, <1>7, <1>8 DEF ExitIInv

(* When the block ends, a request that is dropped although the validator   *)
(* may exit was not the first: that one made the validator exit.           *)
LEMMA EndBlockKeeps ==
  ASSUME ExitIInv, EndBlock
  PROVE  ExitIInv'
<1>1. PICK n \in 0 .. Len(requests) : ProcessRequests(n)
  BY DEF EndBlock
<1>2. /\ Tick /\ exitFee' \in ExitFees
      /\ UNCHANGED <<step, subject, preflight, answers, fees>>
      /\ now' = now + 1 /\ now < MaxTime
      /\ UNCHANGED <<predepositSubmitted, creditedWeiOf>>
  BY DEF EndBlock, Tick
<1>3. IInv'
  BY <1>2, TickKeepsIInv DEF ExitIInv
<1>4. /\ now \in Nat /\ MaxTime \in Nat /\ requests \in Seq(Runners) /\ Len(requests) \in Nat
      /\ validator \in [activationEpoch : Nat, slashed : BOOLEAN, exiting : BOOLEAN]
  BY WorldFacts DEF ExitIInv, Shapes
<1>5. /\ validator' \in [activationEpoch : Nat, slashed : BOOLEAN, exiting : BOOLEAN]
      /\ validator'.activationEpoch = validator.activationEpoch
      /\ validator'.exiting = (validator.exiting \/ (n > 0 /\ Eligible))
  BY <1>1, <1>4 DEF ProcessRequests
<1>6. WorldGoesOn
  <2>1. \A r \in Runners : canRequestExit(r)' <=> canRequestExit(r)
    BY <1>2 DEF canRequestExit
  <2>2. QED
    BY <1>2, <1>4, <1>5, <2>1 DEF WorldGoesOn
<1>7. \A i \in 1 .. n : i \in DOMAIN requests /\ step[requests[i]] = "requested"
  BY <1>1, <1>4 DEF ExitIInv, QueueIsSound
<1>8. Shapes'
  <2>1. requests' \in Seq(Runners)
    BY <1>1, <1>4, SubSeqProperties DEF ProcessRequests
  <2>2. DOMAIN outcome' = Runners
    BY <1>1 DEF ProcessRequests
  <2>3. QED
    BY <2>1, <2>2, <1>2, <1>4, <1>5 DEF ExitIInv, Shapes
<1>9. ASSUME NEW r \in Runners PROVE RunIsSound(r)'
  <2>0. RunIsSound(r)
    BY DEF ExitIInv
  <2>1. CASE ~ \E i \in 1 .. n : requests[i] = r
    <3>1. outcome'[r] = outcome[r]
      BY <2>1, <1>1 DEF ProcessRequests
    <3>2. QED
      BY <3>1, <1>2, <1>6, RunStays
  <2>2. CASE \E i \in 1 .. n : requests[i] = r
    <3>1. step[r] = "requested" /\ n > 0
      BY <2>2, <1>1, <1>4, <1>7
    <3>2. outcome'[r] = (IF requests[1] = r /\ Eligible THEN "honoured" ELSE "dropped")
      BY <2>2, <1>1 DEF ProcessRequests
    <3>3. AboutPools(r)' = AboutPools(r) /\ SubjectIsSound(r)'
      BY <2>0, <1>2 DEF RunIsSound, SubjectIsSound, AboutPools
    <3>4. AnswersAreSound(r)'
      <4>1. answers[r].slot.asked => answers[r].slot.slot \in Nat /\ answers[r].slot.slot <= now'
        <5>1. ASSUME answers[r].slot.asked
              PROVE  answers[r].slot.slot \in Nat /\ answers[r].slot.slot <= now
          BY <2>0, <5>1 DEF RunIsSound, AnswersAreSound
        <5>2. QED
          BY <5>1, <1>2, <1>4
      <4>2. ASSUME AboutPools(r), answers[r].validator.asked, answers[r].validator.active
            PROVE  /\ Active(validator)'
                   /\ answers[r].validator.fields.activationEpoch = validator'.activationEpoch
        BY <4>2, <2>0, <1>5, <1>6, StaysMature DEF RunIsSound, AnswersAreSound
      <4>3. QED
        BY <3>1, <3>3, <4>1, <4>2, <1>2 DEF AnswersAreSound
    <3>5. PreflightIsSound(r)'
      BY <2>0, <3>3, <1>2, <1>6, StaysMature DEF RunIsSound, PreflightIsSound
    <3>6. OutcomeIsSound(r)'
      <4>1. ASSUME preflight[r] = "passed", AboutPools(r)
            PROVE  validator'.exiting
        <5>1. Mature
          BY <4>1, <2>0 DEF RunIsSound, PreflightIsSound
        <5>2. Eligible \/ validator.exiting
          BY <5>1 DEF Mature, Eligible
        <5>3. QED
          BY <5>2, <3>1, <1>5
      <4>2. QED
        BY <4>1, <3>1, <3>3, <1>2 DEF OutcomeIsSound
    <3>7. SignedIsSound(r)'
      BY <3>1, <1>2 DEF SignedIsSound
    <3>8. QED
      BY <3>3, <3>4, <3>5, <3>6, <3>7 DEF RunIsSound
  <2>3. QED
    BY <2>1, <2>2
<1>10. QueueIsSound'
  <2>1. requests' = SubSeq(requests, n + 1, Len(requests))
    BY <1>1 DEF ProcessRequests
  <2>2. \A i \in DOMAIN requests' : \E j \in DOMAIN requests : requests'[i] = requests[j]
    BY <2>1, <1>1, <1>4, SubSeqProperties
  <2>3. QED
    BY <2>2, <1>2 DEF ExitIInv, QueueIsSound
<1>11. QED
  BY <1>3, <1>8, <1>9, <1>10 DEF ExitIInv

-----------------------------------------------------------------------------
(* Exit: the steps of the runs *)

(* What a step of one run leaves to the others, when it changes nothing of *)
(* the world: the run itself and the queue are left to show.               *)
LEMMA OthersKeep ==
  ASSUME ExitIInv, NEW r \in Runners, UNCHANGED <<vars, externalVars>>,
         step' \in [Runners -> Steps], RunIsSound(r)', step[r] # "requested",
         DOMAIN subject' = Runners, DOMAIN preflight' = Runners, DOMAIN answers' = Runners,
         fees' \in [Runners -> Fees], DOMAIN outcome' = Runners,
         \A q \in Runners \ {r} :
           UNCHANGED <<step[q], subject[q], preflight[q], answers[q], fees[q], outcome[q]>>
  PROVE  ExitIInv'
<1>1. IInv' /\ UNCHANGED <<now, predepositSubmitted, creditedWeiOf>>
      /\ UNCHANGED <<validator, exitFee, requests>>
  BY StutterKeepsIInv DEF ExitIInv, vars, externalVars
<1>2. Shapes'
  BY <1>1 DEF ExitIInv, Shapes
<1>3. WorldGoesOn
  BY <1>1, CreditsStay
<1>4. \A q \in Runners : RunIsSound(q)'
  <2>1. ASSUME NEW q \in Runners, q # r PROVE RunIsSound(q)'
    <3>1. UNCHANGED <<step[q], subject[q], preflight[q], answers[q], fees[q], outcome[q]>>
      BY <2>1
    <3>2. QED
      BY <3>1, <1>3, RunStays
  <2>2. QED
    BY <2>1
<1>5. QueueIsSound'
  <2>1. ASSUME NEW i \in DOMAIN requests PROVE step'[requests[i]] = "requested"
    <3>1. requests[i] \in Runners /\ step[requests[i]] = "requested"
      BY DEF ExitIInv, Shapes, QueueIsSound
    <3>2. requests[i] # r
      BY <3>1
    <3>3. QED
      BY <3>1, <3>2
  <2>2. QED
    BY <2>1, <1>1 DEF QueueIsSound
<1>6. QED
  BY <1>1, <1>2, <1>4, <1>5 DEF ExitIInv

(* The parts of a run's record, and what a step may still find in them.    *)
LEMMA RunFacts ==
  ASSUME ExitIInv, NEW r \in Runners
  PROVE  /\ step \in [Runners -> Steps]
         /\ DOMAIN subject = Runners /\ DOMAIN preflight = Runners /\ DOMAIN answers = Runners
         /\ fees \in [Runners -> Fees] /\ DOMAIN outcome = Runners
         /\ SubjectIsSound(r) /\ AnswersAreSound(r) /\ PreflightIsSound(r)
         /\ OutcomeIsSound(r) /\ SignedIsSound(r)
BY DEF ExitIInv, Shapes, RunIsSound

(* Naming the validator: a readable file agrees with the answer.           *)
LEMMA ReadPubkeyKeeps ==
  ASSUME ExitIInv, NEW r \in Runners, ReadPubkey(r)
  PROVE  ExitIInv'
<1>1. /\ UNCHANGED <<vars, externalVars, preflight, answers, fees, outcome>>
      /\ step[r] = "start"
  BY DEF ReadPubkey, Asks
<1>2. PICK reported \in {"pools", "stray"}, file \in {"pools", "stray", "unreadable"} :
        IF LocalPubkeyAgrees(file, reported)
        THEN /\ subject' = [subject EXCEPT ![r] = [validator |-> reported, file |-> file]]
             /\ step' = [step EXCEPT ![r] = "identified"]
        ELSE step' = [step EXCEPT ![r] = "refused"] /\ UNCHANGED subject
  BY DEF ReadPubkey, GoTo
<1>3. /\ step \in [Runners -> Steps]
      /\ DOMAIN subject = Runners /\ DOMAIN preflight = Runners /\ DOMAIN answers = Runners
      /\ fees \in [Runners -> Fees] /\ DOMAIN outcome = Runners
      /\ SubjectIsSound(r) /\ AnswersAreSound(r) /\ PreflightIsSound(r)
      /\ OutcomeIsSound(r) /\ SignedIsSound(r)
  BY RunFacts
<1>4. /\ step' \in [Runners -> Steps] /\ step'[r] \in {"identified", "refused"}
      /\ DOMAIN subject' = Runners
      /\ \A q \in Runners \ {r} : UNCHANGED <<step[q], subject[q]>>
  BY <1>2, <1>3 DEF Steps
<1>5. SubjectIsSound(r)'
  <2>1. CASE LocalPubkeyAgrees(file, reported)
    <3>1. subject'[r] = [validator |-> reported, file |-> file]
      BY <2>1, <1>2, <1>3
    <3>2. file = "pools" => reported = "pools"
      BY <2>1 DEF LocalPubkeyAgrees
    <3>3. QED
      BY <3>1, <3>2 DEF SubjectIsSound, AboutPools
  <2>2. CASE ~ LocalPubkeyAgrees(file, reported)
    BY <2>2, <1>2, <1>3 DEF SubjectIsSound, AboutPools
  <2>3. QED
    BY <2>1, <2>2
<1>6. answers[r] = NoAnswers /\ preflight[r] # "passed" /\ outcome[r] = "none"
  BY <1>1, <1>3 DEF AnswersAreSound, PreflightIsSound, OutcomeIsSound
<1>7. RunIsSound(r)'
  <2>1. AnswersAreSound(r)' /\ PreflightIsSound(r)'
    BY <1>1, <1>6 DEF AnswersAreSound, PreflightIsSound, NoAnswers, NotAsked
  <2>2. OutcomeIsSound(r)' /\ SignedIsSound(r)'
    BY <1>1, <1>4, <1>6 DEF OutcomeIsSound, SignedIsSound
  <2>3. QED
    BY <1>5, <2>1, <2>2 DEF RunIsSound
<1>8. QED
  BY <1>1, <1>3, <1>4, <1>7, OthersKeep

(* Starting the checks, or going on without a beacon node.                 *)
LEMMA StartKeeps ==
  ASSUME ExitIInv, NEW r \in Runners, Start(r)
  PROVE  ExitIInv'
<1>1. /\ UNCHANGED <<vars, externalVars, subject, answers, fees, outcome>>
      /\ step[r] = "identified"
  BY DEF Start
<1>2. \/ step' = [step EXCEPT ![r] = "checking"] /\ UNCHANGED preflight
      \/ step' = [step EXCEPT ![r] = "checked"] /\ preflight' = [preflight EXCEPT ![r] = "skipped"]
  BY DEF Start, GoTo
<1>3. /\ step \in [Runners -> Steps]
      /\ DOMAIN subject = Runners /\ DOMAIN preflight = Runners /\ DOMAIN answers = Runners
      /\ fees \in [Runners -> Fees] /\ DOMAIN outcome = Runners
      /\ SubjectIsSound(r) /\ AnswersAreSound(r) /\ PreflightIsSound(r)
      /\ OutcomeIsSound(r) /\ SignedIsSound(r)
  BY RunFacts
<1>4. preflight[r] # "passed" /\ answers[r] = NoAnswers /\ outcome[r] = "none"
  BY <1>1, <1>3 DEF PreflightIsSound, AnswersAreSound, OutcomeIsSound
<1>5. /\ step' \in [Runners -> Steps] /\ step'[r] \in {"checking", "checked"}
      /\ DOMAIN preflight' = Runners /\ preflight'[r] # "passed"
      /\ \A q \in Runners \ {r} : UNCHANGED <<step[q], preflight[q]>>
  BY <1>2, <1>3, <1>4 DEF Steps
<1>6. RunIsSound(r)'
  <2>1. SubjectIsSound(r)' /\ AnswersAreSound(r)' /\ PreflightIsSound(r)'
    BY <1>1, <1>3, <1>4, <1>5
    DEF SubjectIsSound, AboutPools, AnswersAreSound, PreflightIsSound, NoAnswers, NotAsked
  <2>2. OutcomeIsSound(r)' /\ SignedIsSound(r)'
    BY <1>1, <1>4, <1>5 DEF OutcomeIsSound, SignedIsSound
  <2>3. QED
    BY <2>1, <2>2 DEF RunIsSound
<1>7. QED
  BY <1>1, <1>3, <1>5, <1>6, OthersKeep

(* The head slot is that of the moment it is asked for.                    *)
LEMMA AskHeadSlotKeeps ==
  ASSUME ExitIInv, NEW r \in Runners, AskHeadSlot(r)
  PROVE  ExitIInv'
<1>1. /\ UNCHANGED <<vars, externalVars, step, subject, preflight, fees, outcome>>
      /\ step[r] = "checking" /\ now' = now /\ validator' = validator
      /\ answers' = [answers EXCEPT ![r].slot = [asked |-> TRUE, slot |-> now]]
  BY DEF AskHeadSlot, Asks, vars, externalVars
<1>2. /\ step \in [Runners -> Steps]
      /\ DOMAIN subject = Runners /\ DOMAIN preflight = Runners /\ DOMAIN answers = Runners
      /\ fees \in [Runners -> Fees] /\ DOMAIN outcome = Runners
      /\ SubjectIsSound(r) /\ AnswersAreSound(r) /\ PreflightIsSound(r)
      /\ OutcomeIsSound(r) /\ SignedIsSound(r)
  BY RunFacts
<1>3. PICK answer : answer = answers[r]
  OBVIOUS
<1>4. answers' = [answers EXCEPT ![r] = [answer EXCEPT !.slot = [asked |-> TRUE, slot |-> now]]]
  BY <1>1, <1>3
<1>5. /\ answers'[r].validator = answer.validator
      /\ answers'[r].slot.slot = now \/ answers'[r].slot = answer.slot
      /\ DOMAIN answers' = Runners
      /\ \A q \in Runners \ {r} : UNCHANGED answers[q]
  BY <1>2, <1>4
<1>6. AnswersAreSound(r)'
  <2>1. now \in Nat /\ now <= now
    BY WorldFacts
  <2>2. answers'[r].slot.asked => answers'[r].slot.slot \in Nat /\ answers'[r].slot.slot <= now
    BY <2>1, <1>2, <1>3, <1>5 DEF AnswersAreSound
  <2>3. AboutPools(r)' = AboutPools(r) /\ Active(validator)' = Active(validator)
    BY <1>1 DEF AboutPools, Active, EpochOf
  <2>4. AboutPools(r) /\ answer.validator.asked /\ answer.validator.active =>
          /\ Active(validator)
          /\ answer.validator.fields.activationEpoch = validator.activationEpoch
    BY <1>2, <1>3 DEF AnswersAreSound
  <2>5. QED
    BY <2>2, <2>3, <2>4, <1>1, <1>5 DEF AnswersAreSound
<1>7. RunIsSound(r)'
  <2>1. SubjectIsSound(r)' /\ AboutPools(r)' = AboutPools(r) /\ Mature' = Mature
    BY <1>1, <1>2 DEF SubjectIsSound, AboutPools, Mature, Active, EpochOf
  <2>2. PreflightIsSound(r)' /\ OutcomeIsSound(r)'
    BY <1>1, <1>2, <2>1 DEF PreflightIsSound, OutcomeIsSound
  <2>3. SignedIsSound(r)'
    BY <1>1 DEF SignedIsSound
  <2>4. QED
    BY <1>6, <2>1, <2>2, <2>3 DEF RunIsSound
<1>8. QED
  BY <1>1, <1>2, <1>5, <1>7, OthersKeep

(* What the node says of the pool's validator is what it is at the moment. *)
LEMMA AskValidatorKeeps ==
  ASSUME ExitIInv, NEW r \in Runners, AskValidator(r)
  PROVE  ExitIInv'
<1>1. /\ UNCHANGED <<vars, externalVars, step, subject, preflight, fees, outcome>>
      /\ step[r] = "checking" /\ now' = now /\ validator' = validator
  BY DEF AskValidator, Asks, vars, externalVars
<1>2. /\ step \in [Runners -> Steps]
      /\ DOMAIN subject = Runners /\ DOMAIN preflight = Runners /\ DOMAIN answers = Runners
      /\ fees \in [Runners -> Fees] /\ DOMAIN outcome = Runners
      /\ SubjectIsSound(r) /\ AnswersAreSound(r) /\ PreflightIsSound(r)
      /\ OutcomeIsSound(r) /\ SignedIsSound(r)
  BY RunFacts
<1>3. PICK answer \in Answers(r) : answers' = [answers EXCEPT ![r].validator = answer]
  BY DEF AskValidator
<1>4. PICK before : before = answers[r]
  OBVIOUS
<1>5. answers' = [answers EXCEPT ![r] = [before EXCEPT !.validator = answer]]
  BY <1>3, <1>4
<1>6. /\ answers'[r].slot = before.slot
      /\ answers'[r].validator = answer \/ answers'[r].validator = before.validator
      /\ DOMAIN answers' = Runners
      /\ \A q \in Runners \ {r} : UNCHANGED answers[q]
  BY <1>2, <1>5
<1>7. AnswersAreSound(r)'
  <2>1. AboutPools(r)' = AboutPools(r) /\ Active(validator)' = Active(validator)
    BY <1>1 DEF AboutPools, Active, EpochOf
  <2>2. ASSUME AboutPools(r), answer.active
        PROVE  Active(validator) /\ answer.fields.activationEpoch = validator.activationEpoch
    BY <2>2 DEF Answers, AboutPools
  <2>3. AboutPools(r) /\ before.validator.asked /\ before.validator.active =>
          /\ Active(validator)
          /\ before.validator.fields.activationEpoch = validator.activationEpoch
    BY <1>2, <1>4 DEF AnswersAreSound
  <2>4. before.slot.asked => before.slot.slot \in Nat /\ before.slot.slot <= now
    BY <1>2, <1>4 DEF AnswersAreSound
  <2>5. QED
    BY <2>1, <2>2, <2>3, <2>4, <1>1, <1>6 DEF AnswersAreSound
<1>8. RunIsSound(r)'
  <2>1. SubjectIsSound(r)' /\ AboutPools(r)' = AboutPools(r) /\ Mature' = Mature
    BY <1>1, <1>2 DEF SubjectIsSound, AboutPools, Mature, Active, EpochOf
  <2>2. PreflightIsSound(r)' /\ OutcomeIsSound(r)'
    BY <1>1, <1>2, <2>1 DEF PreflightIsSound, OutcomeIsSound
  <2>3. SignedIsSound(r)'
    BY <1>1 DEF SignedIsSound
  <2>4. QED
    BY <1>7, <2>1, <2>2, <2>3 DEF RunIsSound
<1>9. QED
  BY <1>1, <1>2, <1>6, <1>8, OthersKeep

(* Deciding: answers that pass describe a validator that may exit by now,  *)
(* if it is the pool's.                                                    *)
LEMMA DecidePreflightKeeps ==
  ASSUME ExitIInv, NEW r \in Runners, DecidePreflight(r)
  PROVE  ExitIInv'
<1>1. /\ UNCHANGED <<vars, externalVars, subject, fees, outcome>>
      /\ step[r] = "checking" /\ now' = now /\ validator' = validator
      /\ answers[r].slot.asked /\ answers[r].validator.asked
      /\ answers' = [answers EXCEPT ![r] = NoAnswers]
  BY DEF DecidePreflight, vars, externalVars
<1>2. /\ step \in [Runners -> Steps]
      /\ DOMAIN subject = Runners /\ DOMAIN preflight = Runners /\ DOMAIN answers = Runners
      /\ fees \in [Runners -> Fees] /\ DOMAIN outcome = Runners
      /\ SubjectIsSound(r) /\ AnswersAreSound(r) /\ PreflightIsSound(r)
      /\ OutcomeIsSound(r) /\ SignedIsSound(r)
  BY RunFacts
<1>3. preflight[r] # "passed" /\ outcome[r] = "none"
  BY <1>1, <1>2 DEF PreflightIsSound, OutcomeIsSound
<1>4. /\ \/ /\ ReadyForExit(answers[r].slot, answers[r].validator)
            /\ step' = [step EXCEPT ![r] = "checked"]
            /\ preflight' = [preflight EXCEPT ![r] = "passed"]
         \/ step' = [step EXCEPT ![r] = "refused"] /\ UNCHANGED preflight
  BY DEF DecidePreflight, GoTo
<1>5. /\ step' \in [Runners -> Steps] /\ step'[r] \in {"checked", "refused"}
      /\ DOMAIN preflight' = Runners /\ DOMAIN answers' = Runners
      /\ answers'[r] = NoAnswers
      /\ \A q \in Runners \ {r} : UNCHANGED <<step[q], preflight[q], answers[q]>>
  BY <1>1, <1>2, <1>4 DEF Steps
<1>6. SubjectIsSound(r)' /\ AboutPools(r)' = AboutPools(r) /\ Mature' = Mature
  BY <1>1, <1>2 DEF SubjectIsSound, AboutPools, Mature, Active, EpochOf
<1>7. ASSUME ReadyForExit(answers[r].slot, answers[r].validator), AboutPools(r)
      PROVE  Mature
  <2>1. /\ answers[r].slot.slot \in Nat /\ answers[r].slot.slot <= now
        /\ Active(validator)
        /\ answers[r].validator.fields.activationEpoch = validator.activationEpoch
    BY <1>1, <1>2, <1>7 DEF AnswersAreSound, ReadyForExit
  <2>2. /\ now \in Nat /\ validator.activationEpoch \in Nat /\ SHARD_COMMITTEE_PERIOD \in Nat
    BY WorldFacts
  <2>3. /\ EpochOf(answers[r].slot.slot) \in Nat /\ EpochOf(now) \in Nat
        /\ EpochOf(answers[r].slot.slot) <= EpochOf(now)
    BY <2>1, <2>2, EpochsGrow
  <2>4. EpochOf(answers[r].slot.slot) >= validator.activationEpoch + SHARD_COMMITTEE_PERIOD
    BY <2>1, <1>7 DEF ReadyForExit, ExitEligible
  <2>5. EpochOf(now) >= validator.activationEpoch + SHARD_COMMITTEE_PERIOD
    BY <2>2, <2>3, <2>4
  <2>6. QED
    BY <2>1, <2>5 DEF Mature
<1>8. PreflightIsSound(r)'
  <2>1. step'[r] \notin {"start", "identified", "checking"}
    BY <1>5
  <2>2. preflight'[r] = "passed" /\ AboutPools(r) => Mature
    BY <1>2, <1>3, <1>4, <1>7
  <2>3. QED
    BY <2>1, <2>2, <1>6 DEF PreflightIsSound
<1>9. AnswersAreSound(r)' /\ OutcomeIsSound(r)' /\ SignedIsSound(r)'
  BY <1>1, <1>3, <1>5
  DEF AnswersAreSound, OutcomeIsSound, SignedIsSound, NoAnswers, NotAsked
<1>10. QED
  <2>1. RunIsSound(r)'
    BY <1>6, <1>8, <1>9 DEF RunIsSound
  <2>2. QED
    BY <2>1, <1>1, <1>2, <1>5, OthersKeep

(* The four steps after the checks leave subject, preflight, answers and   *)
(* outcome alone.                                                          *)
LEMMA CheckedStays ==
  ASSUME ExitIInv, NEW r \in Runners, UNCHANGED <<now, validator>>,
         UNCHANGED <<subject, preflight, answers, outcome>>,
         step[r] \in {"checked", "quoted", "sent"},
         step'[r] \in {"refused", "quoted", "sent", "requested", "reverted"}
  PROVE  SubjectIsSound(r)' /\ AnswersAreSound(r)' /\ PreflightIsSound(r)' /\ OutcomeIsSound(r)'
<1>1. SubjectIsSound(r) /\ AnswersAreSound(r) /\ PreflightIsSound(r) /\ OutcomeIsSound(r)
  BY RunFacts
<1>2. /\ SubjectIsSound(r)' /\ AboutPools(r)' = AboutPools(r) /\ Mature' = Mature
      /\ Active(validator)' = Active(validator)
  BY <1>1 DEF SubjectIsSound, AboutPools, Mature, Active, EpochOf
<1>3. outcome[r] = "none"
  BY <1>1 DEF OutcomeIsSound
<1>4. AnswersAreSound(r)'
  BY <1>1, <1>2 DEF AnswersAreSound
<1>5. PreflightIsSound(r)' /\ OutcomeIsSound(r)'
  BY <1>1, <1>2, <1>3 DEF PreflightIsSound, OutcomeIsSound
<1>6. QED
  BY <1>2, <1>4, <1>5

(* The fee and the cap that goes with it.                                  *)
LEMMA ReadFeeKeeps ==
  ASSUME ExitIInv, NEW r \in Runners, ReadFee(r)
  PROVE  ExitIInv'
<1>1. /\ UNCHANGED <<vars, externalVars, subject, preflight, answers, outcome>>
      /\ step[r] = "checked" /\ now' = now /\ validator' = validator
  BY DEF ReadFee, Asks, vars, externalVars
<1>2. /\ step \in [Runners -> Steps]
      /\ DOMAIN subject = Runners /\ DOMAIN preflight = Runners /\ DOMAIN answers = Runners
      /\ fees \in [Runners -> Fees] /\ DOMAIN outcome = Runners
      /\ SubjectIsSound(r) /\ AnswersAreSound(r) /\ PreflightIsSound(r)
      /\ OutcomeIsSound(r) /\ SignedIsSound(r)
  BY RunFacts
<1>3. PICK byDefault \in BOOLEAN :
        \E cap \in IF byDefault THEN {DefaultCap(exitFee)} ELSE Caps :
          \/ GoTo(r, "refused") /\ UNCHANGED fees
          \/ /\ GoTo(r, "quoted")
             /\ fees' = [fees EXCEPT ![r] =
                  [read |-> exitFee, cap |-> cap, byDefault |-> byDefault, mined |-> 0]]
  BY DEF ReadFee
<1>4. PICK cap \in IF byDefault THEN {DefaultCap(exitFee)} ELSE Caps :
        \/ step' = [step EXCEPT ![r] = "refused"] /\ UNCHANGED fees
        \/ /\ step' = [step EXCEPT ![r] = "quoted"]
           /\ fees' = [fees EXCEPT ![r] =
                [read |-> exitFee, cap |-> cap, byDefault |-> byDefault, mined |-> 0]]
  BY <1>3 DEF GoTo
<1>5. /\ exitFee \in Nat /\ cap \in Nat /\ (byDefault => cap = 2 * exitFee)
  BY <1>4, ExitAssumption, AmountsAssumption DEF ExitIInv, Shapes, DefaultCap
<1>6. /\ step' \in [Runners -> Steps] /\ step'[r] \in {"refused", "quoted"}
      /\ fees' \in [Runners -> Fees]
      /\ \A q \in Runners \ {r} : UNCHANGED <<step[q], fees[q]>>
  BY <1>2, <1>4, <1>5 DEF Steps, Fees
<1>7. SignedIsSound(r)'
  BY <1>2, <1>4, <1>5, <1>6 DEF SignedIsSound
<1>8. RunIsSound(r)'
  BY <1>1, <1>6, <1>7, CheckedStays DEF RunIsSound
<1>9. QED
  BY <1>1, <1>2, <1>6, <1>8, OthersKeep

(* What is signed is allowed.                                              *)
LEMMA EstimateKeeps ==
  ASSUME ExitIInv, NEW r \in Runners, EstimateAndSend(r)
  PROVE  ExitIInv'
<1>1. /\ UNCHANGED <<vars, externalVars, subject, preflight, answers, fees, outcome>>
      /\ step[r] = "quoted" /\ now' = now /\ validator' = validator
      /\ predepositSubmitted' = predepositSubmitted /\ creditedWeiOf' = creditedWeiOf
  BY DEF EstimateAndSend, Asks, vars, externalVars
<1>2. /\ step \in [Runners -> Steps]
      /\ DOMAIN subject = Runners /\ DOMAIN preflight = Runners /\ DOMAIN answers = Runners
      /\ fees \in [Runners -> Fees] /\ DOMAIN outcome = Runners
      /\ SubjectIsSound(r) /\ AnswersAreSound(r) /\ PreflightIsSound(r)
      /\ OutcomeIsSound(r) /\ SignedIsSound(r)
  BY RunFacts
<1>3. step' = [step EXCEPT ![r] = IF Accepted(r) THEN "sent" ELSE "refused"]
  BY DEF EstimateAndSend, GoTo
<1>4. /\ step' \in [Runners -> Steps] /\ step'[r] \in {"sent", "refused"}
      /\ step'[r] = "sent" => Accepted(r)
      /\ \A q \in Runners \ {r} : UNCHANGED step[q]
  BY <1>2, <1>3 DEF Steps
<1>5. canRequestExit(r)' <=> canRequestExit(r)
  BY <1>1 DEF canRequestExit
<1>6. SignedIsSound(r)'
  BY <1>1, <1>2, <1>4, <1>5 DEF SignedIsSound, Accepted
<1>7. RunIsSound(r)'
  BY <1>1, <1>4, <1>6, CheckedStays DEF RunIsSound
<1>8. QED
  BY <1>1, <1>2, <1>4, <1>7, OthersKeep

(* A signed request that reverts does so for the fee.                      *)
LEMMA MineRevertKeeps ==
  ASSUME ExitIInv, NEW r \in Runners, MineRevert(r)
  PROVE  ExitIInv'
<1>1. /\ UNCHANGED <<vars, externalVars, subject, preflight, answers, outcome>>
      /\ step[r] = "sent" /\ now' = now /\ validator' = validator
      /\ ~ Accepted(r) /\ step' = [step EXCEPT ![r] = "reverted"]
      /\ fees' = [fees EXCEPT ![r].mined = exitFee]
  BY DEF MineRevert, Asks, GoTo, vars, externalVars
<1>2. /\ step \in [Runners -> Steps]
      /\ DOMAIN subject = Runners /\ DOMAIN preflight = Runners /\ DOMAIN answers = Runners
      /\ fees \in [Runners -> Fees] /\ DOMAIN outcome = Runners
      /\ SubjectIsSound(r) /\ AnswersAreSound(r) /\ PreflightIsSound(r)
      /\ OutcomeIsSound(r) /\ SignedIsSound(r)
  BY RunFacts
<1>3. PICK quote : quote = fees[r]
  OBVIOUS
<1>4. /\ quote \in Fees /\ (quote.byDefault => quote.cap = 2 * quote.read)
      /\ exitFee \in Nat /\ exitFee > quote.cap
  <2>1. /\ predepositSubmitted /\ canRequestExit(r)
        /\ quote \in Fees /\ (quote.byDefault => quote.cap = 2 * quote.read)
    BY <1>1, <1>2, <1>3 DEF SignedIsSound
  <2>2. exitFee \in Nat /\ quote.cap \in Nat
    BY <2>1, AmountsAssumption DEF ExitIInv, Shapes, Fees
  <2>3. QED
    BY <2>1, <2>2, <1>1, <1>3 DEF Accepted
<1>5. fees' = [fees EXCEPT ![r] = [quote EXCEPT !.mined = exitFee]]
  BY <1>1, <1>3
<1>6. /\ step' \in [Runners -> Steps] /\ step'[r] = "reverted"
      /\ fees' \in [Runners -> Fees]
      /\ \A q \in Runners \ {r} : UNCHANGED <<step[q], fees[q]>>
  BY <1>1, <1>2, <1>4, <1>5 DEF Steps, Fees
<1>7. SignedIsSound(r)'
  <2>1. /\ fees'[r].read = quote.read /\ fees'[r].cap = quote.cap
        /\ fees'[r].byDefault = quote.byDefault /\ fees'[r].mined = exitFee
    BY <1>2, <1>4, <1>5 DEF Fees
  <2>2. QED
    BY <2>1, <1>4, <1>6 DEF SignedIsSound
<1>8. RunIsSound(r)'
  BY <1>1, <1>6, <1>7, CheckedStays DEF RunIsSound
<1>9. QED
  BY <1>1, <1>2, <1>6, <1>8, OthersKeep

(* A request is queued once, when its run has nothing left to do.          *)
LEMMA MineRequestKeeps ==
  ASSUME ExitIInv, NEW r \in Runners, MineRequest(r)
  PROVE  ExitIInv'
<1>1. /\ requestExit(r, fees[r].cap, exitFee, fees[r].cap)
      /\ step[r] = "sent" /\ step' = [step EXCEPT ![r] = "requested"]
      /\ requests' = Append(requests, r)
      /\ fees' = [fees EXCEPT ![r] = NoFees]
      /\ UNCHANGED <<validator, exitFee, subject, preflight, answers, outcome>>
  BY DEF MineRequest, Asks, GoTo
<1>2. /\ step \in [Runners -> Steps]
      /\ DOMAIN subject = Runners /\ DOMAIN preflight = Runners /\ DOMAIN answers = Runners
      /\ fees \in [Runners -> Fees] /\ DOMAIN outcome = Runners
      /\ SubjectIsSound(r) /\ AnswersAreSound(r) /\ PreflightIsSound(r)
      /\ OutcomeIsSound(r) /\ SignedIsSound(r)
  BY RunFacts
<1>3. UNCHANGED <<now, predepositSubmitted, creditedWeiOf>>
  BY <1>1 DEF requestExit
<1>4. IInv'
  <2>1. r \in Accounts /\ fees[r].cap \in Nat /\ exitFee \in Nat /\ IInv
    BY <1>2, ExitAssumption, AmountsAssumption DEF ExitIInv, Shapes, Fees
  <2>2. QED
    BY <1>1, <2>1, RequestExitKeepsIInv
<1>5. WorldGoesOn
  BY <1>1, <1>3, CreditsStay
<1>6. /\ step' \in [Runners -> Steps] /\ step'[r] = "requested"
      /\ fees' \in [Runners -> Fees]
      /\ \A q \in Runners \ {r} : UNCHANGED <<step[q], fees[q]>>
  BY <1>1, <1>2 DEF Steps, Fees, NoFees
<1>7. requests \in Seq(Runners) /\ requests' \in Seq(Runners)
  BY <1>1 DEF ExitIInv, Shapes
<1>8. Shapes'
  BY <1>1, <1>2, <1>3, <1>6, <1>7 DEF ExitIInv, Shapes
<1>9. \A q \in Runners : RunIsSound(q)'
  <2>1. RunIsSound(r)'
    <3>1. SignedIsSound(r)'
      BY <1>6 DEF SignedIsSound
    <3>2. QED
      BY <3>1, <1>1, <1>3, <1>6, CheckedStays DEF RunIsSound
  <2>2. ASSUME NEW q \in Runners, q # r PROVE RunIsSound(q)'
    <3>1. UNCHANGED <<step[q], subject[q], preflight[q], answers[q], fees[q], outcome[q]>>
      BY <2>2, <1>1, <1>6
    <3>2. QED
      BY <3>1, <1>5, RunStays
  <2>3. QED
    BY <2>1, <2>2
<1>10. QueueIsSound'
  <2>1. \A i \in DOMAIN requests' :
          requests'[i] = r \/ (i \in DOMAIN requests /\ requests'[i] = requests[i])
    BY <1>1, <1>7
  <2>2. \A i \in DOMAIN requests : requests[i] \in Runners /\ step[requests[i]] = "requested"
    BY <1>7 DEF ExitIInv, QueueIsSound
  <2>3. \A q \in Runners : step[q] = "requested" => step'[q] = "requested"
    BY <1>6
  <2>4. QED
    BY <2>1, <2>2, <2>3, <1>6 DEF QueueIsSound
<1>11. QED
  BY <1>4, <1>8, <1>9, <1>10 DEF ExitIInv

-----------------------------------------------------------------------------
(* Exit: the theorems *)

(* At first nothing is deposited, asked or queued.                         *)
LEMMA ExitInitEstablishes == ExitInit => ExitIInv
<1> SUFFICES ASSUME ExitInit PROVE ExitIInv
  OBVIOUS
<1>1. /\ IInv /\ Init
      /\ validator = [activationEpoch |-> FAR_FUTURE_EPOCH, slashed |-> FALSE, exiting |-> FALSE]
      /\ exitFee \in ExitFees /\ requests = <<>>
      /\ step = [r \in Runners |-> "start"]
      /\ subject = [r \in Runners |-> NoSubject]
      /\ preflight = [r \in Runners |-> "none"]
      /\ answers = [r \in Runners |-> NoAnswers]
      /\ fees = [r \in Runners |-> NoFees]
      /\ outcome = [r \in Runners |-> "none"]
  BY InitEstablishesIInv DEF ExitInit
<1>2. Shapes
  <2>1. now <= MaxTime
    BY <1>1, BoundsAssumption DEF Init
  <2>2. validator \in [activationEpoch : Nat, slashed : BOOLEAN, exiting : BOOLEAN]
    BY <1>1, ExitAssumption
  <2>3. fees \in [Runners -> Fees] /\ step \in [Runners -> Steps] /\ requests \in Seq(Runners)
    BY <1>1 DEF Fees, NoFees, Steps
  <2>4. QED
    BY <2>1, <2>2, <2>3, <1>1 DEF Shapes
<1>3. ASSUME NEW r \in Runners PROVE RunIsSound(r)
  <2>1. /\ step[r] = "start" /\ subject[r] = NoSubject /\ preflight[r] = "none"
        /\ answers[r] = NoAnswers /\ outcome[r] = "none"
    BY <1>1
  <2>2. SubjectIsSound(r) /\ AnswersAreSound(r)
    BY <2>1 DEF SubjectIsSound, AnswersAreSound, NoSubject, NoAnswers, NotAsked
  <2>3. PreflightIsSound(r) /\ OutcomeIsSound(r) /\ SignedIsSound(r)
    BY <2>1 DEF PreflightIsSound, OutcomeIsSound, SignedIsSound
  <2>4. QED
    BY <2>2, <2>3 DEF RunIsSound
<1>4. QueueIsSound
  BY <1>1 DEF QueueIsSound
<1>5. QED
  BY <1>1, <1>2, <1>3, <1>4 DEF ExitIInv

(* A stuttering step changes nothing the invariant speaks of.              *)
LEMMA StutterKeeps == ExitIInv /\ UNCHANGED allVars => ExitIInv'
<1> SUFFICES ASSUME ExitIInv, UNCHANGED allVars PROVE ExitIInv'
  OBVIOUS
<1>1. /\ UNCHANGED vars
      /\ UNCHANGED <<validator, exitFee, requests, step, subject, preflight, answers, fees, outcome>>
  BY DEF allVars, externalVars, commandVars
<1>2. IInv' /\ UNCHANGED <<now, predepositSubmitted, creditedWeiOf>>
  BY <1>1, StutterKeepsIInv DEF ExitIInv, vars
<1>3. \A r \in Runners : RunIsSound(r)'
  BY <1>1, <1>2, CreditsStay, RunStays
<1>4. Shapes' /\ QueueIsSound'
  BY <1>1, <1>2 DEF ExitIInv, Shapes, QueueIsSound
<1>5. QED
  BY <1>2, <1>3, <1>4 DEF ExitIInv

(* Every step of the pool, the consensus layer and the runs keeps the      *)
(* invariant.                                                              *)
LEMMA ExitNextKeeps == ExitIInv /\ [ExitNext]_allVars => ExitIInv'
<1> SUFFICES ASSUME ExitIInv, [ExitNext]_allVars PROVE ExitIInv'
  OBVIOUS
<1>1. ASSUME PoolStep, UNCHANGED <<externalVars, commandVars>> PROVE ExitIInv'
  BY <1>1, PoolKeeps
<1>2. CASE Activate \/ Slash \/ VoluntaryExit
  BY <1>2, ValidatorKeeps
<1>3. CASE EndBlock
  BY <1>3, EndBlockKeeps
<1>4. ASSUME NEW r \in Runners, RunStep(r) PROVE ExitIInv'
  BY <1>4, ReadPubkeyKeeps, StartKeeps, AskHeadSlotKeeps, AskValidatorKeeps,
     DecidePreflightKeeps, ReadFeeKeeps, EstimateKeeps, MineRequestKeeps, MineRevertKeeps
  DEF RunStep
<1>5. CASE UNCHANGED allVars
  BY <1>5, StutterKeeps
<1>6. QED
  BY <1>1, <1>2, <1>3, <1>4, <1>5 DEF ExitNext

(* In every reachable state, for every number of runs, every fee, cap and  *)
(* length of an epoch, what a run knows and has signed is sound.           *)
THEOREM ExitInvariantHolds == ExitSpec => []ExitIInv
BY ExitInitEstablishes, ExitNextKeeps, PTL DEF ExitSpec

(* A request that passed the preflight (readBeaconValidatorPreflight and   *)
(* assertBeaconValidatorReadyForExit in common.ts) is dropped only when    *)
(* the validator is exiting already, however old the answers were.         *)
THEOREM CheckedRequestsCount == ExitSpec => []CheckedRequestsAreNotLost
<1>1. ExitIInv => CheckedRequestsAreNotLost
  <2>1. SUFFICES ASSUME ExitIInv, NEW r \in Runners,
                        preflight[r] = "passed", outcome[r] = "dropped",
                        "pools" \in {subject[r].file, subject[r].validator}
                 PROVE  validator.exiting
    BY DEF CheckedRequestsAreNotLost
  <2>2. SubjectIsSound(r) /\ OutcomeIsSound(r)
    BY <2>1, RunFacts
  <2>3. AboutPools(r)
    BY <2>1, <2>2 DEF SubjectIsSound, AboutPools
  <2>4. QED
    BY <2>1, <2>2, <2>3 DEF OutcomeIsSound
<1>2. QED
  BY <1>1, ExitInvariantHolds, PTL

(* A signed exit request (scripts/request-exit.ts) reverts only when the   *)
(* fee rose above its cap, with the default cap only when it more than     *)
(* doubled: no step of the pool takes the caller's right to exit away.     *)
THEOREM RevertsAreFeeSpikes == ExitSpec => []OnlyAFeeSpikeReverts
<1>1. ExitIInv => OnlyAFeeSpikeReverts
  <2>1. SUFFICES ASSUME ExitIInv, NEW r \in Runners, step[r] = "reverted"
                 PROVE  /\ fees[r].mined > fees[r].cap
                        /\ fees[r].byDefault => fees[r].mined > 2 * fees[r].read
    BY DEF OnlyAFeeSpikeReverts
  <2>2. SignedIsSound(r)
    BY <2>1, RunFacts
  <2>3. QED
    BY <2>1, <2>2 DEF SignedIsSound
<1>2. QED
  BY <1>1, ExitInvariantHolds, PTL
=================================================================================
