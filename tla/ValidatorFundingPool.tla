------------------------ MODULE ValidatorFundingPool ------------------------
(***************************************************************************)
(* contracts/ValidatorFundingPool.sol: one pool, its accounts, the deposit *)
(* contract and the withdrawal-request predeploy it calls, the ETH that    *)
(* reaches it and the block clock.                                         *)
(*                                                                         *)
(* A transaction that reverts changes nothing, so only the steps that      *)
(* succeed are actions.  A handler that calls out of the pool is split at  *)
(* the call: the code before it pushes a frame on calls, and while the     *)
(* frame is open the callee may enter the pool again, by any handler its   *)
(* guards allow; the code after the call runs when the frame is popped.    *)
(* Time is block.timestamp, which moves between transactions only.         *)
(*                                                                         *)
(* An operator whose name ends in _Mutant is the operator after it with    *)
(* one slip; the checks use it to show that a property can fail.           *)
(***************************************************************************)
EXTENDS Integers, Sequences, FiniteSets, WeiSums

CONSTANTS
  Accounts,          \* externally owned accounts and contracts that call
  operator,          \* the account fixed at deployment
  Pool,              \* address(this)
  ZeroAddress,       \* address(0)
  PREDEPOSIT_WEI, TOP_UP_WEI, VALIDATOR_DEPOSIT_WEI,
  MAX_PARTICIPANTS,
  fundingWindowDuration,
  ParticipantLists,  \* lists of addresses openFundingAttempt is called with
  TargetLists,       \* lists of targets it is called with
  Amounts,           \* values of msg.value, and of arriving ETH
  ExitFees,          \* fees the predeploy may ask, and maxFee arguments
  MaxTime,           \* bound on the clock
  MaxAttempts,       \* bound on the number of attempts opened
  MaxProceeds,       \* bound on the ETH that arrives as proceeds
  MaxExits,          \* bound on the number of exit requests
  MaxDepth           \* bound on the open frames

Addresses == Accounts \cup {Pool}

ASSUME AddressesAssumption ==
  /\ IsFiniteSet(Accounts)
  /\ operator \in Accounts
  /\ Pool \notin Accounts
  /\ ZeroAddress \notin Addresses

ASSUME AmountsAssumption ==
  /\ PREDEPOSIT_WEI \in Nat \ {0}
  /\ TOP_UP_WEI \in Nat \ {0}
  /\ VALIDATOR_DEPOSIT_WEI = PREDEPOSIT_WEI + TOP_UP_WEI
  /\ Amounts \subseteq Nat
  /\ ExitFees \subseteq Nat

ASSUME AttemptsAssumption ==
  /\ MAX_PARTICIPANTS \in Nat
  /\ fundingWindowDuration \in Nat \ {0}
  /\ ParticipantLists \subseteq Seq(Addresses \cup {ZeroAddress})
  /\ TargetLists \subseteq Seq(Nat)

ASSUME BoundsAssumption ==
  /\ MaxTime \in Nat
  /\ MaxAttempts \in Nat
  /\ MaxProceeds \in Nat
  /\ MaxExits \in Nat
  /\ MaxDepth \in Nat

VARIABLES
  state, fundingAttempt, fundingDeadline,
  participants, participantIndexPlusOne, fundingTargetWeiOf,
  activeFundedWeiOf, totalActiveFundedWei,
  refundableWeiOf, totalRefundableWei, totalRefundedWei,
  creditedWeiOf, totalCreditedWei, claimedWeiOf, totalClaimedWei,
  predepositSubmitted, topUpSubmitted, exitRequestAttemptCount,
  reentrancyLock,
  calls,          \* the open external calls, outermost first
  balance,        \* address(this).balance
  deposited,      \* what the deposit contract received from the pool
  topUpRootValid, \* whether it will accept the committed top-up data
  now,            \* block.timestamp
  proceedsIn      \* history: ETH received that is no funding or fee

lifecycleVars == <<state, fundingAttempt, fundingDeadline>>
attemptVars == <<participants, participantIndexPlusOne, fundingTargetWeiOf>>
activeVars == <<activeFundedWeiOf, totalActiveFundedWei>>
refundVars == <<refundableWeiOf, totalRefundableWei, totalRefundedWei>>
creditVars == <<creditedWeiOf, totalCreditedWei>>
claimVars == <<claimedWeiOf, totalClaimedWei>>
validatorVars == <<predepositSubmitted, topUpSubmitted, deposited, topUpRootValid>>
callVars == <<reentrancyLock, calls>>
environmentVars == <<now, proceedsIn>>
vars == <<lifecycleVars, attemptVars, activeVars, refundVars, creditVars,
          claimVars, validatorVars, exitRequestAttemptCount, callVars,
          balance, environmentVars>>

NoWei == [a \in Addresses |-> 0]

Init ==
  /\ state = "Uninitialized" /\ fundingAttempt = 0 /\ fundingDeadline = 0
  /\ participants = <<>>
  /\ participantIndexPlusOne = NoWei /\ fundingTargetWeiOf = NoWei
  /\ activeFundedWeiOf = NoWei /\ totalActiveFundedWei = 0
  /\ refundableWeiOf = NoWei /\ totalRefundableWei = 0 /\ totalRefundedWei = 0
  /\ creditedWeiOf = NoWei /\ totalCreditedWei = 0
  /\ claimedWeiOf = NoWei /\ totalClaimedWei = 0
  /\ predepositSubmitted = FALSE /\ topUpSubmitted = FALSE
  /\ deposited = 0 /\ topUpRootValid = FALSE
  /\ exitRequestAttemptCount = 0
  /\ reentrancyLock = 0 /\ calls = <<>>
  /\ balance = 0 /\ now = 0 /\ proceedsIn = 0

-----------------------------------------------------------------------------
(* External calls and the reentrancy lock *)

NotEntered_Mutant == TRUE
NotEntered == reentrancyLock = 0

(* nonReentrant up to the external call of its body *)
Enter(kind, excess) ==
  /\ Len(calls) < MaxDepth
  /\ reentrancyLock' = 1
  /\ calls' = Append(calls, [kind |-> kind, excess |-> excess])

Returning(kind) == calls # <<>> /\ calls[Len(calls)].kind = kind

LockAfter_Mutant(kind) == IF kind = "claim" THEN 1 ELSE 0
LockAfter(kind) == 0

(* nonReentrant after it *)
Leave(kind) ==
  /\ reentrancyLock' = LockAfter(kind)
  /\ calls' = SubSeq(calls, 1, Len(calls) - 1)

ValidRecipient_Mutant(recipient) == recipient # ZeroAddress
ValidRecipient(recipient) == recipient \notin {ZeroAddress, Pool}

(* _sendEth: receive() takes the ETH back if the pool pays itself *)
SendEth(recipient, amount) ==
  /\ amount <= balance
  /\ recipient = Pool => state = "ToppedUp"
  /\ balance' = IF recipient = Pool THEN balance ELSE balance - amount

-----------------------------------------------------------------------------
(* Views *)

isParticipant(a) == participantIndexPlusOne[a] # 0

ParticipantSet == {participants[i] : i \in DOMAIN participants}

(* What a participant pays in itself: the operator's target includes the   *)
(* predeposit.                                                             *)
RequiredWei_Mutant(a) == fundingTargetWeiOf[a]
RequiredWei(a) ==
  IF a = operator /\ fundingTargetWeiOf[a] # 0
  THEN fundingTargetWeiOf[a] - PREDEPOSIT_WEI
  ELSE fundingTargetWeiOf[a]

fundingRemainingWeiOf(a) ==
  IF RequiredWei(a) <= activeFundedWeiOf[a] THEN 0
  ELSE RequiredWei(a) - activeFundedWeiOf[a]

grossPoolProceeds_Mutant == balance + totalClaimedWei
grossPoolProceeds == balance + totalClaimedWei - totalRefundableWei

Entitled(a) == (grossPoolProceeds * creditedWeiOf[a]) \div totalCreditedWei

claimable(a) ==
  IF \/ state # "ToppedUp"
     \/ creditedWeiOf[a] = 0
     \/ Entitled(a) <= claimedWeiOf[a]
  THEN 0
  ELSE Entitled(a) - claimedWeiOf[a]

canRequestExit(a) == a = operator \/ creditedWeiOf[a] # 0

-----------------------------------------------------------------------------
(* commitAndPredeposit *)

(* msg.value goes on to the deposit contract at once.  Only the predeposit *)
(* root is checked now: whether the committed top-up data will ever be     *)
(* accepted is not known to the pool.  predepositSubmitted also stands for *)
(* the committed pubkey, written with it.                                  *)
commitAndPredeposit(sender, value) ==
  /\ sender = operator
  /\ NotEntered
  /\ state = "Uninitialized"
  /\ value = PREDEPOSIT_WEI
  /\ predepositSubmitted' = TRUE
  /\ topUpRootValid' \in BOOLEAN
  /\ deposited' = deposited + PREDEPOSIT_WEI
  /\ Enter("commit", 0)
  /\ UNCHANGED <<lifecycleVars, attemptVars, activeVars, refundVars, creditVars,
                 claimVars, topUpSubmitted, exitRequestAttemptCount, balance,
                 environmentVars>>

commitReturns ==
  /\ Returning("commit")
  /\ state' = "Predeposited"
  /\ Leave("commit")
  /\ UNCHANGED <<fundingAttempt, fundingDeadline, attemptVars, activeVars,
                 refundVars, creditVars, claimVars, validatorVars,
                 exitRequestAttemptCount, balance, environmentVars>>

-----------------------------------------------------------------------------
(* openFundingAttempt *)

(* The checks of _setFundingAttempt, element by element: an element is a   *)
(* duplicate if it repeats an earlier one or is still indexed.             *)
ValidAttempt(ps, ts) ==
  /\ ps # <<>> /\ Len(ps) <= MAX_PARTICIPANTS /\ Len(ps) = Len(ts)
  /\ \A i \in DOMAIN ps :
       /\ ps[i] # ZeroAddress
       /\ ~ isParticipant(ps[i])
       /\ \A j \in 1 .. i - 1 : ps[j] # ps[i]
       /\ ts[i] # 0
       /\ ps[i] = operator => ts[i] >= PREDEPOSIT_WEI
  /\ \E i \in DOMAIN ps : ps[i] = operator
  /\ SumOver(ts, DOMAIN ts) = VALIDATOR_DEPOSIT_WEI

(* f with value(i) written at each address ps[i]. *)
WrittenAt(f, ps, value) ==
  [a \in Addresses |->
     IF \E i \in DOMAIN ps : ps[i] = a
     THEN value[CHOOSE i \in DOMAIN ps : ps[i] = a]
     ELSE f[a]]

openFundingAttempt(sender, ps, ts) ==
  /\ sender = operator
  /\ state = "Predeposited"
  /\ fundingAttempt < MaxAttempts
  /\ now + fundingWindowDuration < MaxTime
  /\ ValidAttempt(ps, ts)
  /\ participants' = participants \o ps
  /\ participantIndexPlusOne' =
       WrittenAt(participantIndexPlusOne, ps, [i \in DOMAIN ps |-> i])
  /\ fundingTargetWeiOf' = WrittenAt(fundingTargetWeiOf, ps, ts)
  /\ fundingDeadline' = now + fundingWindowDuration
  /\ fundingAttempt' = fundingAttempt + 1
  /\ state' = "Funding"
  /\ UNCHANGED <<activeVars, refundVars, creditVars, claimVars, validatorVars,
                 exitRequestAttemptCount, callVars, balance, environmentVars>>

-----------------------------------------------------------------------------
(* fund, receive *)

WithinDeadline == now <= fundingDeadline

CanFund_Mutant(sender, value) ==
  state = "Funding" /\ WithinDeadline /\ isParticipant(sender) /\ value # 0
CanFund(sender, value) ==
  /\ state = "Funding"
  /\ WithinDeadline
  /\ isParticipant(sender)
  /\ value # 0
  /\ value <= fundingRemainingWeiOf(sender)

(* _fund *)
creditFunding(sender, value) ==
  /\ CanFund(sender, value)
  /\ activeFundedWeiOf' = [activeFundedWeiOf EXCEPT ![sender] = @ + value]
  /\ totalActiveFundedWei' = totalActiveFundedWei + value
  /\ balance' = balance + value
  /\ UNCHANGED <<lifecycleVars, attemptVars, refundVars, creditVars, claimVars,
                 validatorVars, exitRequestAttemptCount, callVars, environmentVars>>

fund(sender, value) == creditFunding(sender, value)

(* ETH that no participant is credited for. *)
EtherIn(value) ==
  /\ proceedsIn + value <= MaxProceeds
  /\ balance' = balance + value
  /\ proceedsIn' = proceedsIn + value
  /\ UNCHANGED <<lifecycleVars, attemptVars, activeVars, refundVars, creditVars,
                 claimVars, validatorVars, exitRequestAttemptCount, callVars, now>>

receive(sender, value) ==
  \/ state = "Funding" /\ creditFunding(sender, value)
  \/ state = "ToppedUp" /\ EtherIn(value)

(* Consensus withdrawals, coinbase payments and forced transfers run no    *)
(* code of the pool and come in any state.                                 *)
silentEther(value) == EtherIn(value)

-----------------------------------------------------------------------------
(* closeExpiredFundingAttempt *)

CanClose_Mutant == state = "Funding" /\ now > fundingDeadline /\ totalActiveFundedWei # 0
CanClose_EarlyMutant == state = "Funding" /\ now >= fundingDeadline
CanClose == state = "Funding" /\ now > fundingDeadline

(* A mapping with the participants' entries deleted. *)
DeletedFor(f) == [a \in Addresses |-> IF a \in ParticipantSet THEN 0 ELSE f[a]]

IndexAfterClose_Mutant == participantIndexPlusOne
IndexAfterClose == DeletedFor(participantIndexPlusOne)

ParticipantsAfterClose_Mutant == participants
ParticipantsAfterClose == <<>>

ActiveTotalAfterClose_Mutant == totalActiveFundedWei
ActiveTotalAfterClose == 0

RefundableAfterClose_Mutant ==
  [a \in Addresses |-> IF a \in ParticipantSet THEN activeFundedWeiOf[a]
                       ELSE refundableWeiOf[a]]
RefundableAfterClose ==
  [a \in Addresses |-> IF a \in ParticipantSet
                       THEN refundableWeiOf[a] + activeFundedWeiOf[a]
                       ELSE refundableWeiOf[a]]

(* The loop over _participants, taken at once: no address occurs twice. *)
closeExpiredFundingAttempt ==
  /\ CanClose
  /\ refundableWeiOf' = RefundableAfterClose
  /\ totalRefundableWei' = totalRefundableWei + SumOver(activeFundedWeiOf, ParticipantSet)
  /\ activeFundedWeiOf' = DeletedFor(activeFundedWeiOf)
  /\ fundingTargetWeiOf' = DeletedFor(fundingTargetWeiOf)
  /\ participantIndexPlusOne' = IndexAfterClose
  /\ participants' = ParticipantsAfterClose
  /\ totalActiveFundedWei' = ActiveTotalAfterClose
  /\ fundingDeadline' = 0
  /\ state' = "Predeposited"
  /\ UNCHANGED <<fundingAttempt, totalRefundedWei, creditVars, claimVars,
                 validatorVars, exitRequestAttemptCount, callVars, balance,
                 environmentVars>>

-----------------------------------------------------------------------------
(* topUpValidator *)

ParticipantTargets == [i \in DOMAIN participants |-> fundingTargetWeiOf[participants[i]]]

FundingComplete_Mutant == balance >= TOP_UP_WEI
FundingComplete == totalActiveFundedWei = TOP_UP_WEI

topUpValidator(sender) ==
  /\ sender = operator
  /\ NotEntered
  /\ state = "Funding"
  /\ WithinDeadline
  /\ FundingComplete
  /\ balance >= TOP_UP_WEI + totalRefundableWei
  /\ ~ topUpSubmitted
  /\ creditedWeiOf' = WrittenAt(creditedWeiOf, participants, ParticipantTargets)
  /\ totalCreditedWei' = totalCreditedWei + SumOver(ParticipantTargets, DOMAIN participants)
  /\ totalCreditedWei' = VALIDATOR_DEPOSIT_WEI
  /\ topUpSubmitted' = TRUE
  /\ topUpRootValid
  /\ deposited' = deposited + TOP_UP_WEI
  /\ balance' = balance - TOP_UP_WEI
  /\ Enter("topUp", 0)
  /\ UNCHANGED <<lifecycleVars, attemptVars, activeVars, refundVars, claimVars,
                 predepositSubmitted, topUpRootValid, exitRequestAttemptCount,
                 environmentVars>>

topUpReturns ==
  /\ Returning("topUp")
  /\ state' = "ToppedUp"
  /\ Leave("topUp")
  /\ UNCHANGED <<fundingAttempt, fundingDeadline, attemptVars, activeVars,
                 refundVars, creditVars, claimVars, validatorVars,
                 exitRequestAttemptCount, balance, environmentVars>>

-----------------------------------------------------------------------------
(* requestExit *)

(* During the call of the predeploy the pool holds the caller's change. *)
requestExit(sender, value, fee, maxFee) ==
  /\ NotEntered
  /\ predepositSubmitted
  /\ canRequestExit(sender)
  /\ fee <= maxFee
  /\ fee <= value
  /\ exitRequestAttemptCount < MaxExits
  /\ balance' = balance + value - fee
  /\ Enter("exit", value - fee)
  /\ UNCHANGED <<lifecycleVars, attemptVars, activeVars, refundVars, creditVars,
                 claimVars, validatorVars, exitRequestAttemptCount, environmentVars>>

Change == calls[Len(calls)].excess

(* The change leaves the pool, to whoever called: the frame does not keep  *)
(* the caller, because accounts have no balance here.                      *)
exitReturns(sender) ==
  /\ Returning("exit")
  /\ exitRequestAttemptCount' = exitRequestAttemptCount + 1
  /\ \/ /\ Change = 0
        /\ Leave("exit")
        /\ UNCHANGED balance
     \/ /\ Change # 0
        /\ SendEth(sender, Change)
        /\ calls' = [calls EXCEPT ![Len(calls)] = [kind |-> "change", excess |-> 0]]
        /\ UNCHANGED reentrancyLock
  /\ UNCHANGED <<lifecycleVars, attemptVars, activeVars, refundVars, creditVars,
                 claimVars, validatorVars, environmentVars>>

-----------------------------------------------------------------------------
(* refundTo, claimTo *)

RefundAllowed_Mutant == NotEntered /\ state # "ToppedUp"
RefundAllowed == NotEntered

refundTo(sender, recipient) ==
  /\ RefundAllowed
  /\ ValidRecipient(recipient)
  /\ refundableWeiOf[sender] # 0
  /\ refundableWeiOf' = [refundableWeiOf EXCEPT ![sender] = 0]
  /\ totalRefundableWei' = totalRefundableWei - refundableWeiOf[sender]
  /\ totalRefundedWei' = totalRefundedWei + refundableWeiOf[sender]
  /\ SendEth(recipient, refundableWeiOf[sender])
  /\ Enter("refund", 0)
  /\ UNCHANGED <<lifecycleVars, attemptVars, activeVars, creditVars, claimVars,
                 validatorVars, exitRequestAttemptCount, environmentVars>>

claimTo(sender, recipient) ==
  /\ NotEntered
  /\ state = "ToppedUp"
  /\ ValidRecipient(recipient)
  /\ claimable(sender) # 0
  /\ claimedWeiOf' = [claimedWeiOf EXCEPT ![sender] = @ + claimable(sender)]
  /\ totalClaimedWei' = totalClaimedWei + claimable(sender)
  /\ SendEth(recipient, claimable(sender))
  /\ Enter("claim", 0)
  /\ UNCHANGED <<lifecycleVars, attemptVars, activeVars, refundVars, creditVars,
                 validatorVars, exitRequestAttemptCount, environmentVars>>

(* The end of refundTo, of claimTo, and of requestExit when it gave change. *)
payoutReturns ==
  /\ \E kind \in {"refund", "claim", "change"} : Returning(kind) /\ Leave(kind)
  /\ UNCHANGED <<lifecycleVars, attemptVars, activeVars, refundVars, creditVars,
                 claimVars, validatorVars, exitRequestAttemptCount, balance,
                 environmentVars>>

-----------------------------------------------------------------------------
(* The system *)

Tick ==
  /\ calls = <<>>
  /\ now < MaxTime
  /\ now' = now + 1
  /\ UNCHANGED <<lifecycleVars, attemptVars, activeVars, refundVars, creditVars,
                 claimVars, validatorVars, exitRequestAttemptCount, callVars,
                 balance, proceedsIn>>

CallReturns ==
  \/ commitReturns
  \/ topUpReturns
  \/ \E sender \in Accounts : exitReturns(sender)
  \/ payoutReturns

Recipients == Addresses \cup {ZeroAddress}

Next ==
  \/ \E sender \in Accounts, value \in Amounts : commitAndPredeposit(sender, value)
  \/ \E sender \in Accounts, ps \in ParticipantLists, ts \in TargetLists :
       openFundingAttempt(sender, ps, ts)
  \/ \E sender \in Accounts, value \in Amounts : fund(sender, value)
  \/ \E sender \in Accounts, value \in Amounts : receive(sender, value)
  \/ \E value \in Amounts : silentEther(value)
  \/ closeExpiredFundingAttempt
  \/ \E sender \in Accounts : topUpValidator(sender)
  \/ \E sender \in Accounts, value \in Amounts, fee \in ExitFees, maxFee \in ExitFees :
       requestExit(sender, value, fee, maxFee)
  \/ \E sender \in Accounts, recipient \in Recipients : refundTo(sender, recipient)
  \/ \E sender \in Accounts, recipient \in Recipients : claimTo(sender, recipient)
  \/ CallReturns
  \/ Tick

Spec == Init /\ [][Next]_vars

(* The clock advances, a transaction that started ends, someone closes an  *)
(* expired attempt (anyone may), and owners collect what they are owed.    *)
Fairness ==
  /\ WF_vars(Tick)
  /\ WF_vars(CallReturns)
  /\ WF_vars(closeExpiredFundingAttempt)
  /\ \A a \in Accounts : WF_vars(refundTo(a, a)) /\ WF_vars(claimTo(a, a))

FairSpec == Spec /\ Fairness

-----------------------------------------------------------------------------
(* Properties *)

Frame == [kind : {"commit", "topUp", "exit", "change", "refund", "claim"}, excess : Nat]

(* Every variable has its type; a participant list never grows beyond the  *)
(* 32 entries the loops of close and top-up are bounded by.                *)
TypeOK ==
  /\ state \in {"Uninitialized", "Predeposited", "Funding", "ToppedUp"}
  /\ fundingAttempt \in Nat /\ fundingDeadline \in Nat
  /\ participants \in Seq(Addresses) /\ Len(participants) <= MAX_PARTICIPANTS
  /\ participantIndexPlusOne \in [Addresses -> Nat]
  /\ fundingTargetWeiOf \in [Addresses -> Nat]
  /\ activeFundedWeiOf \in [Addresses -> Nat] /\ totalActiveFundedWei \in Nat
  /\ refundableWeiOf \in [Addresses -> Nat]
  /\ totalRefundableWei \in Nat /\ totalRefundedWei \in Nat
  /\ creditedWeiOf \in [Addresses -> Nat] /\ totalCreditedWei \in Nat
  /\ claimedWeiOf \in [Addresses -> Nat] /\ totalClaimedWei \in Nat
  /\ predepositSubmitted \in BOOLEAN /\ topUpSubmitted \in BOOLEAN
  /\ deposited \in Nat /\ topUpRootValid \in BOOLEAN
  /\ exitRequestAttemptCount \in Nat
  /\ reentrancyLock \in {0, 1} /\ calls \in Seq(Frame)
  /\ balance \in Nat /\ now \in Nat /\ proceedsIn \in Nat

(* The running totals the contract keeps beside its mappings are the sums  *)
(* of the mappings: no handler updates one and forgets the other.          *)
LedgersAddUp ==
  /\ totalActiveFundedWei = SumOver(activeFundedWeiOf, Addresses)
  /\ totalRefundableWei = SumOver(refundableWeiOf, Addresses)
  /\ totalCreditedWei = SumOver(creditedWeiOf, Addresses)
  /\ totalClaimedWei = SumOver(claimedWeiOf, Addresses)

(* The change of an exit request whose predeploy call is open. *)
HeldIn(frames) ==
  SumOver([i \in DOMAIN frames |-> IF frames[i].kind = "exit" THEN frames[i].excess ELSE 0],
          DOMAIN frames)
HeldChange == HeldIn(calls)

(* Conservation of ETH, at every point a callee can observe: what the pool *)
(* holds, deposited and paid out on claims is what came in as proceeds, as *)
(* funding not yet refunded, as the predeposit and as exit-fee change.     *)
BalanceExplained ==
  balance + deposited + totalClaimedWei =
    proceedsIn + totalActiveFundedWei + totalRefundableWei + HeldChange
      + (IF predepositSubmitted THEN PREDEPOSIT_WEI ELSE 0)

(* The pool can always pay, at once, everything it owes: the refunds of    *)
(* every earlier attempt with the funding of the open one, or, after the   *)
(* top-up, with what every participant can claim.  So no snapshot and no   *)
(* payout ever fails for lack of ETH.                                      *)
Solvent ==
  IF topUpSubmitted
  THEN totalRefundableWei + SumOver([a \in Addresses |-> claimable(a)], Addresses) <= balance
  ELSE totalRefundableWei + totalActiveFundedWei <= balance

(* Claim timing does not change anyone's cumulative entitlement: whenever  *)
(* no call is open, what an account claimed and may still claim is its     *)
(* pro-rata share of everything that ever arrived as proceeds, whoever     *)
(* claimed before and in whatever order.                                   *)
Share(a) == (proceedsIn * creditedWeiOf[a]) \div VALIDATOR_DEPOSIT_WEI

ClaimsMatchShares ==
  state = "ToppedUp" /\ calls = <<>> =>
    \A a \in Addresses : claimedWeiOf[a] + claimable(a) = Share(a)

(* Nobody holds economic weight that was not paid for: from the moment the *)
(* credits are written, an account's credit is what it funded in the       *)
(* attempt that topped up, and the operator's also its predeposit.         *)
CreditsAreBacked ==
  topUpSubmitted =>
    \A a \in Addresses :
      creditedWeiOf[a] = activeFundedWeiOf[a] + (IF a = operator THEN PREDEPOSIT_WEI ELSE 0)

(* The list, the index and the targets describe one attempt: an address is *)
(* indexed at its place in the list, has a target if and only if it is     *)
(* listed, and funded at most what it must; between attempts nothing is    *)
(* left of the previous one.                                               *)
AttemptIsConsistent ==
  /\ \A i \in DOMAIN participants : participantIndexPlusOne[participants[i]] = i
  /\ \A a \in Addresses :
       /\ participantIndexPlusOne[a] # 0 <=> a \in ParticipantSet
       /\ fundingTargetWeiOf[a] # 0 <=> a \in ParticipantSet
       /\ activeFundedWeiOf[a] <= RequiredWei(a)
  /\ state \in {"Uninitialized", "Predeposited"} =>
       participants = <<>> /\ fundingDeadline = 0 /\ totalActiveFundedWei = 0
  /\ state \in {"Funding", "ToppedUp"} =>
       /\ SumOver(ParticipantTargets, DOMAIN participants) = VALIDATOR_DEPOSIT_WEI
       /\ fundingTargetWeiOf[operator] >= PREDEPOSIT_WEI

(* The lock admits one frame, and an open frame pins the phase its handler *)
(* checked: no call from inside the deposit of the top-up can close the    *)
(* attempt, fund it further or deposit twice.                              *)
CallDiscipline ==
  /\ Len(calls) = reentrancyLock
  /\ \A i \in DOMAIN calls :
       /\ calls[i].kind = "commit" => state = "Uninitialized"
       /\ calls[i].kind = "topUp" => state = "Funding" /\ topUpSubmitted /\ WithinDeadline
       /\ calls[i].kind = "claim" => state = "ToppedUp"
  /\ predepositSubmitted <=>
       state # "Uninitialized" \/ \E i \in DOMAIN calls : calls[i].kind = "commit"
  /\ topUpSubmitted <=>
       state = "ToppedUp" \/ \E i \in DOMAIN calls : calls[i].kind = "topUp"

(* Before the top-up no credit and no claim exists; from it on the credits *)
(* are the targets, paid in full, and the validator has its whole deposit. *)
CreditFacts ==
  /\ deposited = (IF predepositSubmitted THEN PREDEPOSIT_WEI ELSE 0)
                   + (IF topUpSubmitted THEN TOP_UP_WEI ELSE 0)
  /\ ~ topUpSubmitted =>
       /\ creditedWeiOf = NoWei /\ totalCreditedWei = 0
       /\ claimedWeiOf = NoWei /\ totalClaimedWei = 0
  /\ topUpSubmitted =>
       /\ totalCreditedWei = VALIDATOR_DEPOSIT_WEI
       /\ totalActiveFundedWei = TOP_UP_WEI
       /\ \A a \in Addresses :
            /\ creditedWeiOf[a] = fundingTargetWeiOf[a]
            /\ activeFundedWeiOf[a] = RequiredWei(a)

(* No account was paid more than its share of the proceeds. *)
ClaimsWithinShares ==
  \A a \in Addresses :
    VALIDATOR_DEPOSIT_WEI * claimedWeiOf[a] <= proceedsIn * creditedWeiOf[a]

(* The inductive invariant of the proofs: everything above, together. *)
IInv ==
  /\ TypeOK
  /\ LedgersAddUp
  /\ AttemptIsConsistent
  /\ CallDiscipline
  /\ CreditFacts
  /\ BalanceExplained
  /\ ClaimsWithinShares

(* A refund that is owed is taken back only by paying it, once and whole:  *)
(* a step that lowers what an account is owed clears it and sends exactly  *)
(* that much out of the pool.                                              *)
RefundsPaidWhole ==
  [][\A a \in Addresses :
       refundableWeiOf'[a] < refundableWeiOf[a] =>
         /\ refundableWeiOf'[a] = 0
         /\ balance' = balance - refundableWeiOf[a]
         /\ totalRefundedWei' = totalRefundedWei + refundableWeiOf[a]]_vars

(* Every funding attempt ends: topped up, or closed once it expires. *)
AttemptsEnd == state = "Funding" ~> state # "Funding"

(* Whatever happens to later attempts, a refund that is owed is paid. *)
RefundsArePaid ==
  \A a \in Accounts : refundableWeiOf[a] # 0 ~> refundableWeiOf[a] = 0

(* Proceeds do not stay locked: whoever can claim is eventually paid up to *)
(* its entitlement.                                                        *)
ClaimsArePaid ==
  \A a \in Accounts : claimable(a) # 0 ~> claimable(a) = 0
=============================================================================
