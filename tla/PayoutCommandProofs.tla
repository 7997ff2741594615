-------------------------- MODULE PayoutCommandProofs --------------------------
(***************************************************************************)
(* However many claims and refunds of one participant overlap, whatever    *)
(* device signs, whatever recipient it shows and whatever replaces what it *)
(* signed: what the runs report, and what may be paid less than printed.   *)
(***************************************************************************)
EXTENDS PayoutCommand, ValidatorFundingPoolProofs

USE DEF lifecycleVars, attemptVars, activeVars, refundVars, creditVars,
        claimVars, validatorVars, callVars, environmentVars

-----------------------------------------------------------------------------
(* The inductive invariant *)

Inputs ==
  [function : Functions \cup {"none"}, recipient : Addresses \cup {ZeroAddress, "sender"}]

Transactions ==
  [to : Addresses, value : {0}, envelope : {"plain", "delegating"}, input : Inputs]

Pending == [run : Runs, from : Accounts, tx : Transactions]

Signed == {"sent", "paid", "fatal"}
Planned == {"printed", "estimated"} \cup Signed
Steps == {"start", "nothing", "refused"} \cup Planned

Printed ==
  [function : Functions \cup {"none"}, recipient : Addresses \cup {ZeroAddress}, amount : Nat]

Shapes ==
  /\ step \in [Runs -> Steps]
  /\ printed \in [Runs -> Printed]
  /\ DOMAIN signed = Runs /\ DOMAIN receipt = Runs
  /\ mempool \in Seq(Pending)

HasReceipt(r) == receipt[r] # NotMined
Waiting(r) == step[r] = "sent" /\ ~ HasReceipt(r)

(* A pending transaction is that of a run that waits for it; one that took *)
(* the nonce of another is not what the run composed.                      *)
IsAwaited(p) ==
  /\ Waiting(p.run)
  /\ p.tx # signed[p.run] => p.tx # Composed(p.run)

MempoolIsSound ==
  /\ \A i \in DOMAIN mempool : IsAwaited(mempool[i])
  /\ \A i, j \in DOMAIN mempool : mempool[i].run = mempool[j].run => i = j

(* What leaves the device is a payout of the printed function; a call for  *)
(* the participant itself names no recipient.                              *)
PlanIsSound(r) ==
  /\ step[r] \in Planned => printed[r].function \in Functions
  /\ step[r] \in Signed =>
       /\ signed[r] \in Transactions
       /\ signed[r] = [Composed(r) EXCEPT !.input = signed[r].input]
       /\ signed[r].input.function = printed[r].function
       /\ signed[r].input.recipient # participant

IsPayout(event, mined, from) ==
  /\ event.name = mined.input.function /\ event.name \in Functions
  /\ event.participant = from
  /\ event.recipient = PaidBy(mined, from)

ReceiptIsSound(r) ==
  HasReceipt(r) =>
    /\ step[r] \in Signed
    /\ receipt[r].mined \in Transactions
    /\ receipt[r].replaced <=> receipt[r].mined # signed[r]
    /\ receipt[r].replaced => receipt[r].mined # Composed(r)
    /\ receipt[r].event # NoEvent =>
         /\ receipt[r].status = "success"
         /\ IsPayout(receipt[r].event, receipt[r].mined, receipt[r].from)

VerdictIsSound(r) ==
  step[r] \in {"paid", "fatal"} =>
    /\ HasReceipt(r)
    /\ step[r] = "paid" <=>
         senderVerified(receipt[r], signed[r], participant) /\ ReachedRecipient(r)

(* What the pool owes the participant; it can only be lowered by paying.   *)
Enough(function, amount) ==
  IF function = "claim"
  THEN state = "ToppedUp" /\ amount + claimedWeiOf[participant] <= Share(participant)
  ELSE amount <= refundableWeiOf[participant]

PaidFor(q, function) ==
  /\ HasReceipt(q) /\ receipt[q].event # NoEvent
  /\ receipt[q].event.name = function
  /\ receipt[q].event.participant = participant

(* What was printed is still owed, or another run was paid from it.        *)
PromiseStands(r) ==
  step[r] \in Planned /\ ~ HasReceipt(r) =>
    \/ Enough(printed[r].function, printed[r].amount)
    \/ \E q \in Runs \ {r} : PaidFor(q, printed[r].function)

ShortfallHasACause(r) ==
  PaidFor(r, printed[r].function) /\ receipt[r].event.amount < printed[r].amount =>
    \E q \in Runs \ {r} : PaidFor(q, printed[r].function)

RunIsSound(r) ==
  /\ PlanIsSound(r)
  /\ ReceiptIsSound(r)
  /\ VerdictIsSound(r)
  /\ PromiseStands(r)
  /\ ShortfallHasACause(r)

PayoutIInv ==
  /\ IInv
  /\ Shapes
  /\ MempoolIsSound
  /\ \A r \in Runs : RunIsSound(r)

-----------------------------------------------------------------------------
(* What the pool owes the participant *)

(* Integer division keeps an order. *)
LEMMA DivMonotone ==
  ASSUME NEW x \in Nat, NEW y \in Nat, NEW n \in Nat \ {0}, x <= y
  PROVE  x \div n <= y \div n
<1>1. /\ x \div n \in Nat /\ n * (x \div n) <= x
      /\ y \div n \in Nat /\ y < n * ((y \div n) + 1)
  BY RoundedDown
<1>2. PICK p \in Nat, q \in Nat : p = x \div n /\ q = y \div n
  BY <1>1
<1>3. n * p <= x /\ y < n * (q + 1)
  BY <1>1, <1>2
<1>4. ASSUME q + 1 <= p PROVE FALSE
  <2>1. n * (q + 1) <= n * p
    BY <1>4
  <2>2. n * (q + 1) \in Nat /\ n * p \in Nat
    BY ProductType
  <2>3. QED
    BY <1>3, <2>1, <2>2
<1>5. QED
  BY <1>2, <1>4

(* An amount that is owed is owed after the step. *)
Lasting(function) ==
  \A amount \in Nat : Enough(function, amount) => Enough(function, amount)'

(* A refund that is owed stays, unless it is paid. *)
LEMMA RefundLasts ==
  ASSUME IInv, IInv', refundableWeiOf[participant] <= refundableWeiOf'[participant]
  PROVE  Lasting("refund")
<1>1. participant \in Addresses
  BY PayoutAssumption DEF Addresses
<1>2. refundableWeiOf[participant] \in Nat /\ refundableWeiOf'[participant] \in Nat
  BY <1>1 DEF IInv, TypeOK
<1>3. QED
  BY <1>2 DEF Lasting, Enough

(* More proceeds do not lower a share, so that a claim stays too. *)
LEMMA ClaimLasts ==
  ASSUME IInv, IInv',
         state = "ToppedUp" =>
           /\ state' = "ToppedUp"
           /\ claimedWeiOf'[participant] = claimedWeiOf[participant]
           /\ creditedWeiOf' = creditedWeiOf /\ proceedsIn <= proceedsIn'
  PROVE  Lasting("claim")
<1> SUFFICES ASSUME state = "ToppedUp", NEW amount \in Nat,
                    amount + claimedWeiOf[participant] <= Share(participant)
             PROVE  amount + claimedWeiOf[participant] <= Share(participant)'
  BY DEF Lasting, Enough
<1>1. participant \in Addresses
  BY PayoutAssumption DEF Addresses
<1>2. PICK n, c, x, y : /\ n = VALIDATOR_DEPOSIT_WEI /\ c = creditedWeiOf[participant]
                        /\ x = proceedsIn /\ y = proceedsIn'
  OBVIOUS
<1>3. n \in Nat \ {0} /\ c \in Nat /\ x \in Nat /\ y \in Nat /\ x <= y
  <2>1. n \in Nat \ {0}
    BY <1>2, AmountsAssumption
  <2>2. c \in Nat /\ x \in Nat /\ y \in Nat
    BY <1>1, <1>2 DEF IInv, TypeOK
  <2>3. x <= y
    BY <1>2
  <2>4. QED
    BY <2>1, <2>2, <2>3
<1>4. x * c \in Nat /\ y * c \in Nat /\ x * c <= y * c
  BY <1>3, ProductType
<1>5. /\ (x * c) \div n \in Nat /\ (y * c) \div n \in Nat
      /\ (x * c) \div n <= (y * c) \div n
  BY <1>3, <1>4, DivMonotone, RoundedDown
<1>6. Share(participant) = (x * c) \div n /\ Share(participant)' = (y * c) \div n
  BY <1>2 DEF Share
<1>7. claimedWeiOf[participant] \in Nat
  BY <1>1 DEF IInv, TypeOK
<1>8. QED
  BY <1>5, <1>6, <1>7

(* A step that changes nothing. *)
LEMMA QuietPool ==
  ASSUME IInv, UNCHANGED vars
  PROVE  IInv' /\ \A function : Lasting(function)
<1>1. IInv'
  BY StutterKeepsIInv
<1>2. UNCHANGED <<state, refundableWeiOf, claimedWeiOf, creditedWeiOf, proceedsIn>>
  BY DEF vars
<1>3. QED
  BY <1>1, <1>2 DEF Lasting, Enough, Share

(* Others pay in, are paid and move the pool on; nothing of it is at the   *)
(* cost of the participant.                                                *)
LEMMA OthersFacts ==
  ASSUME IInv, OthersStep
  PROVE  IInv' /\ UNCHANGED commandVars /\ \A function \in Functions : Lasting(function)
<1>1. UNCHANGED commandVars /\ participant \in Addresses /\ Others \subseteq Accounts
  BY PayoutAssumption DEF OthersStep, Addresses, Others
<1>2. /\ state \in {"Uninitialized", "Predeposited", "Funding", "ToppedUp"}
      /\ refundableWeiOf \in [Addresses -> Nat] /\ activeFundedWeiOf \in [Addresses -> Nat]
      /\ proceedsIn \in Nat /\ TypeOK /\ CallDiscipline
  BY DEF IInv, TypeOK
<1> DEFINE goal == IInv' /\ Lasting("refund") /\ Lasting("claim")
<1>3. ASSUME NEW sender \in Others, NEW value \in Amounts, commitAndPredeposit(sender, value)
      PROVE  goal
  <2>1. IInv'
    BY <1>1, <1>3, CommitKeepsIInv, AmountsAssumption
  <2>2. UNCHANGED <<state, refundableWeiOf, claimedWeiOf, creditedWeiOf, proceedsIn>>
    BY <1>3 DEF commitAndPredeposit
  <2>3. QED
    BY <1>1, <1>2, <2>1, <2>2, RefundLasts, ClaimLasts
<1>4. ASSUME NEW sender \in Others, NEW ps \in ParticipantLists, NEW ts \in TargetLists,
             openFundingAttempt(sender, ps, ts)
      PROVE  goal
  <2>1. IInv'
    BY <1>1, <1>4, OpenKeepsIInv
  <2>2. UNCHANGED <<refundableWeiOf, claimedWeiOf, creditedWeiOf, proceedsIn>> /\ state # "ToppedUp"
    BY <1>4 DEF openFundingAttempt
  <2>3. QED
    BY <1>1, <1>2, <2>1, <2>2, RefundLasts, ClaimLasts
<1>5. ASSUME NEW sender \in Accounts, NEW value \in Amounts, fund(sender, value)
      PROVE  goal
  <2>1. IInv'
    BY <1>5, CreditFundingKeepsIInv, AmountsAssumption DEF fund
  <2>2. UNCHANGED <<state, refundableWeiOf, claimedWeiOf, creditedWeiOf, proceedsIn>>
    BY <1>5 DEF fund, creditFunding
  <2>3. QED
    BY <1>1, <1>2, <2>1, <2>2, RefundLasts, ClaimLasts
<1>6. ASSUME NEW value \in Amounts, silentEther(value)
      PROVE  goal
  <2>1. IInv' /\ value \in Nat
    BY <1>6, EtherInKeepsIInv, AmountsAssumption DEF silentEther
  <2>2. /\ UNCHANGED <<state, refundableWeiOf, claimedWeiOf, creditedWeiOf>>
        /\ proceedsIn' = proceedsIn + value
    BY <1>6 DEF silentEther, EtherIn
  <2>3. QED
    BY <1>1, <1>2, <2>1, <2>2, RefundLasts, ClaimLasts
<1>7. ASSUME closeExpiredFundingAttempt PROVE goal
  <2>1. IInv'
    BY <1>7, CloseKeepsIInv
  <2>2. state # "ToppedUp" /\ refundableWeiOf' = RefundableAfterClose
    BY <1>7 DEF closeExpiredFundingAttempt, CanClose
  <2>3. refundableWeiOf[participant] <= refundableWeiOf'[participant]
    BY <1>1, <1>2, <2>2 DEF RefundableAfterClose
  <2>4. QED
    BY <2>1, <2>2, <2>3, RefundLasts, ClaimLasts
<1>8. ASSUME NEW sender \in Others, topUpValidator(sender) PROVE goal
  <2>1. IInv'
    BY <1>1, <1>8, TopUpKeepsIInv
  <2>2. UNCHANGED <<state, refundableWeiOf, claimedWeiOf, proceedsIn>> /\ state # "ToppedUp"
    BY <1>8 DEF topUpValidator
  <2>3. QED
    BY <1>1, <1>2, <2>1, <2>2, RefundLasts, ClaimLasts
<1>9. ASSUME NEW sender \in Others, refundTo(sender, sender) PROVE goal
  <2>1. IInv'
    BY <1>1, <1>9, RefundKeepsIInv DEF Recipients, Addresses
  <2>2. /\ UNCHANGED <<state, claimedWeiOf, creditedWeiOf, proceedsIn>>
        /\ refundableWeiOf' = [refundableWeiOf EXCEPT ![sender] = 0]
    BY <1>9 DEF refundTo
  <2>3. refundableWeiOf[participant] = refundableWeiOf'[participant]
    BY <1>1, <1>2, <2>2 DEF Others
  <2>4. QED
    BY <1>1, <1>2, <2>1, <2>2, <2>3, RefundLasts, ClaimLasts
<1>10. ASSUME NEW sender \in Others, claimTo(sender, sender) PROVE goal
  <2>1. IInv'
    BY <1>1, <1>10, ClaimKeepsIInv DEF Recipients, Addresses
  <2>2. /\ UNCHANGED <<state, refundableWeiOf, creditedWeiOf, proceedsIn>>
        /\ claimedWeiOf' = [claimedWeiOf EXCEPT ![sender] = @ + claimable(sender)]
    BY <1>10 DEF claimTo
  <2>3. claimedWeiOf[participant] = claimedWeiOf'[participant]
    BY <1>1, <2>2 DEF Others, IInv, TypeOK
  <2>4. QED
    BY <1>1, <1>2, <2>1, <2>2, <2>3, RefundLasts, ClaimLasts
<1>11. ASSUME commitReturns PROVE goal
  <2>1. IInv'
    BY <1>11, CommitReturnsKeepsIInv
  <2>2. UNCHANGED <<refundableWeiOf, claimedWeiOf, creditedWeiOf, proceedsIn>>
    BY <1>11 DEF commitReturns
  <2>3. state = "Uninitialized"
    BY <1>2, <1>11, OnlyFrame DEF commitReturns, CallDiscipline
  <2>4. QED
    BY <1>1, <1>2, <2>1, <2>2, <2>3, RefundLasts, ClaimLasts
<1>12. ASSUME topUpReturns PROVE goal
  <2>1. IInv'
    BY <1>12, TopUpReturnsKeepsIInv
  <2>2. /\ UNCHANGED <<refundableWeiOf, claimedWeiOf, creditedWeiOf, proceedsIn>>
        /\ state' = "ToppedUp"
    BY <1>12 DEF topUpReturns
  <2>3. QED
    BY <1>1, <1>2, <2>1, <2>2, RefundLasts, ClaimLasts
<1>13. ASSUME payoutReturns PROVE goal
  <2>1. IInv'
    BY <1>13, PayoutReturnsKeepsIInv
  <2>2. UNCHANGED <<state, refundableWeiOf, claimedWeiOf, creditedWeiOf, proceedsIn>>
    BY <1>13 DEF payoutReturns
  <2>3. QED
    BY <1>1, <1>2, <2>1, <2>2, RefundLasts, ClaimLasts
<1>14. ASSUME Tick PROVE goal
  <2>1. IInv'
    BY <1>14, TickKeepsIInv
  <2>2. UNCHANGED <<state, refundableWeiOf, claimedWeiOf, creditedWeiOf, proceedsIn>>
    BY <1>14 DEF Tick
  <2>3. QED
    BY <1>1, <1>2, <2>1, <2>2, RefundLasts, ClaimLasts
<1>15. goal
  BY <1>3, <1>4, <1>5, <1>6, <1>7, <1>8, <1>9, <1>10, <1>11, <1>12, <1>13, <1>14 DEF OthersStep
<1>16. QED
  BY <1>1, <1>15 DEF Functions

-----------------------------------------------------------------------------
(* Runs that a step leaves alone *)

LeavesRun(r) ==
  /\ step'[r] = step[r] /\ printed'[r] = printed[r]
  /\ signed'[r] = signed[r] /\ receipt'[r] = receipt[r]

(* What is owed lasts through the step, unless the step is the payment.    *)
OwedOrPaid ==
  \A function \in Functions :
    Lasting(function) \/ \E s \in Runs : ~ HasReceipt(s) /\ PaidFor(s, function)'

ReceiptsLast == \A q \in Runs : HasReceipt(q) => receipt'[q] = receipt[q]

(* A payment is not taken back. *)
LEMMA PaymentsLast ==
  ASSUME ReceiptsLast, NEW q \in Runs, NEW function, PaidFor(q, function)
  PROVE  PaidFor(q, function)'
BY DEF ReceiptsLast, PaidFor, HasReceipt

(* What a run has established survives the steps of everyone else. *)
LEMMA RunStays ==
  ASSUME Shapes, NEW r \in Runs, RunIsSound(r), ReceiptsLast, OwedOrPaid, LeavesRun(r)
  PROVE  RunIsSound(r)'
<1>1. Composed(r)' = Composed(r)
  BY DEF Composed, Calldata, LeavesRun
<1>2. PlanIsSound(r)'
  BY <1>1 DEF RunIsSound, PlanIsSound, LeavesRun
<1>3. ReceiptIsSound(r)'
  BY <1>1 DEF RunIsSound, ReceiptIsSound, HasReceipt, LeavesRun, IsPayout, PaidBy
<1>4. VerdictIsSound(r)'
  BY DEF RunIsSound, VerdictIsSound, HasReceipt, LeavesRun, ReachedRecipient
<1>5. PICK f, a : f = printed[r].function /\ a = printed[r].amount
  OBVIOUS
<1>6. printed'[r].function = f /\ printed'[r].amount = a /\ a \in Nat
  BY <1>5 DEF LeavesRun, Shapes, Printed
<1>7. PromiseStands(r)'
  <2> SUFFICES ASSUME step'[r] \in Planned, ~ HasReceipt(r)'
               PROVE  Enough(f, a)' \/ \E q \in Runs \ {r} : PaidFor(q, f)'
    BY <1>6 DEF PromiseStands, Enough, PaidFor
  <2>1. step[r] \in Planned /\ ~ HasReceipt(r) /\ f \in Functions
    BY <1>5 DEF LeavesRun, HasReceipt, RunIsSound, PlanIsSound
  <2>2. Enough(f, a) \/ \E q \in Runs \ {r} : PaidFor(q, f)
    BY <1>5, <2>1 DEF RunIsSound, PromiseStands
  <2>3. CASE \E q \in Runs \ {r} : PaidFor(q, f)
    BY <2>3, PaymentsLast
  <2>4. CASE Enough(f, a)
    <3>1. Lasting(f) \/ \E s \in Runs : PaidFor(s, f)'
      BY <2>1 DEF OwedOrPaid
    <3>2. ~ PaidFor(r, f)'
      BY DEF PaidFor
    <3>3. QED
      BY <1>6, <2>4, <3>1, <3>2 DEF Lasting
  <2>5. QED
    BY <2>2, <2>3, <2>4
<1>8. ShortfallHasACause(r)'
  <2> SUFFICES ASSUME PaidFor(r, f)', receipt'[r].event.amount < a
               PROVE  \E q \in Runs \ {r} : PaidFor(q, f)'
    BY <1>6 DEF ShortfallHasACause, PaidFor
  <2>1. PaidFor(r, f) /\ receipt[r].event.amount < a
    BY DEF PaidFor, HasReceipt, LeavesRun
  <2>2. PICK q \in Runs \ {r} : PaidFor(q, f)
    BY <1>5, <2>1 DEF RunIsSound, ShortfallHasACause
  <2>3. QED
    BY <2>2, PaymentsLast
<1>9. QED
  BY <1>2, <1>3, <1>4, <1>7, <1>8 DEF RunIsSound

(* A pending transaction is that of a run that waits for it. *)
LEMMA PendingFacts ==
  ASSUME Shapes, MempoolIsSound, NEW i \in DOMAIN mempool
  PROVE  /\ mempool[i] \in Pending /\ mempool[i].run \in Runs /\ Waiting(mempool[i].run)
         /\ mempool[i].from \in Accounts /\ mempool[i].tx \in Transactions
         /\ IsAwaited(mempool[i])
<1>1. mempool[i] \in Pending
  BY DEF Shapes
<1>2. QED
  BY <1>1 DEF MempoolIsSound, Pending, IsAwaited

(* Only its own run can stop waiting for it. *)
LEMMA StillAwaited ==
  ASSUME NEW p, IsAwaited(p), LeavesRun(p.run)
  PROVE  IsAwaited(p)'
BY DEF IsAwaited, Waiting, HasReceipt, Composed, Calldata, LeavesRun

(* A step of a run that neither signs nor has signed concerns that run. *)
LEMMA RunMoves ==
  ASSUME PayoutIInv, NEW r \in Runs, UNCHANGED <<vars, mempool, receipt>>,
         step[r] \notin Signed, step'[r] \notin Signed, Shapes',
         \A q \in Runs \ {r} : LeavesRun(q),
         PlanIsSound(r)', PromiseStands(r)'
  PROVE  PayoutIInv'
<1>1. /\ IInv' /\ OwedOrPaid /\ ReceiptsLast
      /\ Shapes /\ MempoolIsSound /\ \A q \in Runs : RunIsSound(q)
  BY QuietPool DEF PayoutIInv, OwedOrPaid, ReceiptsLast
<1>2. ASSUME NEW q \in Runs PROVE RunIsSound(q)'
  <2>1. CASE q # r
    BY <1>1, <2>1, RunStays
  <2>2. CASE q = r
    <3>1. ~ HasReceipt(r) /\ ~ HasReceipt(r)'
      BY <1>1 DEF RunIsSound, ReceiptIsSound, HasReceipt
    <3>2. ReceiptIsSound(r)' /\ VerdictIsSound(r)' /\ ShortfallHasACause(r)'
      BY <3>1 DEF ReceiptIsSound, VerdictIsSound, ShortfallHasACause, PaidFor, Signed
    <3>3. QED
      BY <2>2, <3>2 DEF RunIsSound
  <2>3. QED
    BY <2>1, <2>2
<1>3. MempoolIsSound'
  <2>1. ASSUME NEW i \in DOMAIN mempool PROVE IsAwaited(mempool[i])'
    <3>1. PICK p : p = mempool[i]
      OBVIOUS
    <3>2. p.run \in Runs /\ Waiting(p.run) /\ IsAwaited(p)
      BY <1>1, <3>1, PendingFacts
    <3>3. p.run # r
      BY <3>2 DEF Waiting, Signed
    <3>4. IsAwaited(p)'
      BY <3>2, <3>3, StillAwaited
    <3>5. mempool'[i] = p
      BY <3>1
    <3>6. QED
      BY <3>4, <3>5 DEF IsAwaited, Waiting, HasReceipt, Composed, Calldata
  <2>2. QED
    BY <1>1, <2>1 DEF MempoolIsSound
<1>4. QED
  BY <1>1, <1>2, <1>3 DEF PayoutIInv

-----------------------------------------------------------------------------
(* One run, up to the signature *)

(* With no call open, what is claimable is what is owed of the share. *)
LEMMA PayableIsOwed ==
  ASSUME IInv, calls = <<>>, NEW function \in Functions, Payable(function, participant) # 0
  PROVE  /\ Payable(function, participant) \in Nat
         /\ Enough(function, Payable(function, participant))
<1>1. participant \in Addresses
  BY PayoutAssumption DEF Addresses
<1>2. refundableWeiOf[participant] \in Nat /\ claimedWeiOf[participant] \in Nat
  BY <1>1 DEF IInv, TypeOK
<1>3. CASE function = "claim"
  <2>1. Payable(function, participant) = claimable(participant) /\ claimable(participant) # 0
    BY <1>3 DEF Payable
  <2>2. /\ state = "ToppedUp" /\ ~ (Entitled(participant) <= claimedWeiOf[participant])
        /\ claimable(participant) = Entitled(participant) - claimedWeiOf[participant]
    BY <2>1 DEF claimable
  <2>3. Entitled(participant) = Share(participant) /\ Share(participant) \in Nat
    BY <1>1, <2>2, GrossIsProceeds
  <2>4. QED
    BY <1>2, <1>3, <2>1, <2>2, <2>3 DEF Enough
<1>4. CASE function = "refund"
  BY <1>2, <1>4 DEF Payable, Enough
<1>5. QED
  BY <1>3, <1>4 DEF Functions

(* What a run prints is owed when it is printed. *)
LEMMA ReadBalanceKeeps == ASSUME PayoutIInv, NEW r \in Runs, ReadBalance(r) PROVE PayoutIInv'
<1>1. /\ step[r] = "start" /\ calls = <<>> /\ Shapes /\ IInv
      /\ UNCHANGED <<vars, signed, mempool, receipt>>
  BY DEF PayoutIInv, ReadBalance, Asks
<1>2. PICK function \in Functions, recipient \in RecipientChoices :
        IF Payable(function, participant) = 0
        THEN GoTo(r, "nothing") /\ UNCHANGED printed
        ELSE /\ printed' = [printed EXCEPT ![r] =
                  [function |-> function, recipient |-> recipient,
                   amount |-> Payable(function, participant)]]
             /\ GoTo(r, "printed")
  BY DEF ReadBalance
<1>3. PICK amount : amount = Payable(function, participant)
  OBVIOUS
<1>4. step[r] \notin Signed
  BY <1>1 DEF Signed
<1>5. CASE amount = 0
  <2>1. /\ Shapes' /\ step'[r] = "nothing" /\ \A q \in Runs \ {r} : LeavesRun(q)
    BY <1>1, <1>2, <1>3, <1>5 DEF Shapes, Steps, LeavesRun, GoTo
  <2>2. PlanIsSound(r)' /\ PromiseStands(r)' /\ step'[r] \notin Signed
    BY <2>1 DEF PlanIsSound, PromiseStands, Planned, Signed
  <2>3. QED
    BY <1>1, <1>4, <2>1, <2>2, RunMoves
<1>6. CASE amount # 0
  <2>1. amount \in Nat /\ Enough(function, amount)
    BY <1>1, <1>3, <1>6, PayableIsOwed
  <2>2. PICK print : print = [function |-> function, recipient |-> recipient, amount |-> amount]
    OBVIOUS
  <2>3. print \in Printed /\ print.function = function /\ print.amount = amount
    BY <2>1, <2>2, PayoutAssumption DEF Printed
  <2>4. printed' = [printed EXCEPT ![r] = print] /\ step' = [step EXCEPT ![r] = "printed"]
    BY <1>2, <1>3, <1>6, <2>2 DEF GoTo
  <2>5. /\ Shapes' /\ step'[r] = "printed" /\ printed'[r] = print
        /\ \A q \in Runs \ {r} : LeavesRun(q)
    BY <1>1, <2>3, <2>4 DEF Shapes, Steps, Planned, LeavesRun
  <2>6. Enough(function, amount)'
    BY <1>1, <2>1, QuietPool DEF Lasting
  <2>7. PromiseStands(r)'
    BY <2>3, <2>5, <2>6 DEF PromiseStands, Enough
  <2>8. PlanIsSound(r)' /\ step'[r] \notin Signed
    BY <2>3, <2>5 DEF PlanIsSound, Signed
  <2>9. QED
    BY <1>1, <1>4, <2>5, <2>7, <2>8, RunMoves
<1>7. QED
  BY <1>5, <1>6

(* An estimate sends nothing. *)
LEMMA EstimateKeeps == ASSUME PayoutIInv, NEW r \in Runs, Estimate(r) PROVE PayoutIInv'
<1>1. /\ step[r] = "printed" /\ Shapes /\ IInv /\ RunIsSound(r)
      /\ UNCHANGED <<vars, signed, mempool, receipt>>
      /\ \/ GoTo(r, "estimated") /\ UNCHANGED printed
         \/ GoTo(r, "refused") /\ printed' = [printed EXCEPT ![r] = Nothing]
  BY DEF PayoutIInv, Estimate, Asks
<1>2. participant \in Addresses
  BY PayoutAssumption DEF Addresses
<1>3. step[r] \notin Signed
  BY <1>1 DEF Signed
<1>4. CASE GoTo(r, "estimated") /\ UNCHANGED printed
  <2>1. Shapes' /\ step'[r] = "estimated" /\ \A q \in Runs \ {r} : LeavesRun(q)
    BY <1>1, <1>4 DEF Shapes, Steps, Planned, LeavesRun, GoTo
  <2>2. PlanIsSound(r)' /\ step'[r] \notin Signed
    BY <1>1, <1>4, <2>1 DEF RunIsSound, PlanIsSound, Planned, Signed
  <2>3. PromiseStands(r)'
    BY <1>1, <1>4, <2>1
       DEF RunIsSound, PromiseStands, Planned, Enough, PaidFor, HasReceipt, Share, vars
  <2>4. QED
    BY <1>1, <1>3, <2>1, <2>2, <2>3, RunMoves
<1>5. CASE GoTo(r, "refused") /\ printed' = [printed EXCEPT ![r] = Nothing]
  <2>1. Nothing \in Printed
    BY <1>2 DEF Nothing, Printed
  <2>2. Shapes' /\ step'[r] = "refused" /\ \A q \in Runs \ {r} : LeavesRun(q)
    BY <1>1, <1>5, <2>1 DEF Shapes, Steps, LeavesRun, GoTo
  <2>3. PlanIsSound(r)' /\ PromiseStands(r)' /\ step'[r] \notin Signed
    BY <2>2 DEF PlanIsSound, PromiseStands, Planned, Signed
  <2>4. QED
    BY <1>1, <1>3, <2>2, <2>3, RunMoves
<1>6. QED
  BY <1>1, <1>4, <1>5

-----------------------------------------------------------------------------
(* The signature and the receipt *)

(* What is composed has its four fields, and a call that says who it pays. *)
LEMMA ComposedFacts ==
  ASSUME Shapes, NEW r \in Runs, printed[r].function \in Functions,
         NEW recipient \in Addresses \cup {ZeroAddress}
  PROVE  /\ Calldata(printed[r].function, recipient) \in Inputs
         /\ Calldata(printed[r].function, recipient).function = printed[r].function
         /\ Calldata(printed[r].function, recipient).recipient # participant
         /\ [Composed(r) EXCEPT !.input = Calldata(printed[r].function, recipient)] \in Transactions
<1>1. participant \in Addresses
  BY PayoutAssumption DEF Addresses
<1>2. PICK input : input = Calldata(printed[r].function, recipient)
  OBVIOUS
<1>3. /\ input \in Inputs /\ input.function = printed[r].function
      /\ input.recipient # participant
  BY <1>1, <1>2, SenderAssumption DEF Calldata, Inputs
<1>4. [Composed(r) EXCEPT !.input = input] =
        [to |-> Pool, value |-> 0, envelope |-> "plain", input |-> input]
  BY DEF Composed
<1>5. [Composed(r) EXCEPT !.input = input] \in Transactions
  BY <1>3, <1>4 DEF Transactions, Addresses
<1>6. QED
  BY <1>2, <1>3, <1>5

(* A run that signs has one transaction in the mempool. *)
LEMMA SignAndBroadcastKeeps ==
  ASSUME PayoutIInv, NEW r \in Runs, SignAndBroadcast(r) PROVE PayoutIInv'
<1>1. /\ step[r] = "estimated" /\ step' = [step EXCEPT ![r] = "sent"]
      /\ UNCHANGED <<vars, printed, receipt>>
  BY DEF SignAndBroadcast, GoTo
<1>2. /\ IInv' /\ Shapes /\ MempoolIsSound /\ OwedOrPaid /\ ReceiptsLast
      /\ \A q \in Runs : RunIsSound(q)
  BY <1>1, QuietPool DEF PayoutIInv, OwedOrPaid, ReceiptsLast
<1>3. /\ ~ HasReceipt(r) /\ printed[r].function \in Functions
      /\ printed[r].recipient \in Addresses \cup {ZeroAddress}
  <2>1. RunIsSound(r) /\ step[r] \notin Signed /\ step[r] \in Planned
    BY <1>1, <1>2 DEF Signed, Planned
  <2>2. QED
    BY <1>2, <2>1 DEF RunIsSound, ReceiptIsSound, PlanIsSound, Shapes, Printed
<1>4. PICK key \in Keys, recipient \in {printed[r].recipient} \cup RecipientChoices :
        LET tx == [Composed(r) EXCEPT !.input = Calldata(printed[r].function, recipient)]
        IN /\ signed' = [signed EXCEPT ![r] = tx]
           /\ mempool' = Append(mempool, [run |-> r, from |-> key, tx |-> tx])
  BY DEF SignAndBroadcast
<1>5. PICK input : input = Calldata(printed[r].function, recipient)
  OBVIOUS
<1>6. PICK tx : tx = [Composed(r) EXCEPT !.input = input]
  OBVIOUS
<1>7. /\ tx \in Transactions /\ input \in Inputs
      /\ input.function = printed[r].function /\ input.recipient # participant
  BY <1>2, <1>3, <1>4, <1>5, <1>6, ComposedFacts, PayoutAssumption
<1>8. tx.input = input
  BY <1>6 DEF Composed
<1>9. PICK p : p = [run |-> r, from |-> key, tx |-> tx]
  OBVIOUS
<1>10. p \in Pending /\ p.run = r /\ p.tx = tx
  BY <1>4, <1>7, <1>9, PayoutAssumption DEF Pending
<1>11. signed' = [signed EXCEPT ![r] = tx] /\ mempool' = Append(mempool, p)
  BY <1>4, <1>5, <1>6, <1>9
<1>12. /\ mempool' \in Seq(Pending)
       /\ DOMAIN mempool' = DOMAIN mempool \cup {Len(mempool) + 1}
       /\ \A i \in DOMAIN mempool : mempool'[i] = mempool[i]
       /\ mempool'[Len(mempool) + 1] = p
  BY <1>2, <1>10, <1>11, Appended DEF Shapes
<1>13. /\ Shapes' /\ step'[r] = "sent" /\ signed'[r] = tx /\ receipt'[r] = receipt[r]
       /\ printed'[r] = printed[r]
       /\ \A q \in Runs \ {r} : LeavesRun(q)
  BY <1>1, <1>2, <1>11, <1>12 DEF Shapes, Steps, Planned, Signed, LeavesRun
<1>14. Composed(r)' = Composed(r)
  BY <1>13 DEF Composed, Calldata
<1>15. ASSUME NEW i \in DOMAIN mempool
       PROVE  mempool'[i] = mempool[i] /\ mempool[i].run # r /\ IsAwaited(mempool[i])'
  <2>1. PICK e : e = mempool[i]
    OBVIOUS
  <2>2. e.run \in Runs /\ Waiting(e.run) /\ IsAwaited(e)
    BY <1>2, <2>1, PendingFacts
  <2>3. mempool'[i] = e /\ e.run # r
    BY <1>1, <1>12, <2>1, <2>2 DEF Waiting
  <2>4. IsAwaited(e)'
    BY <1>13, <2>2, <2>3, StillAwaited
  <2>5. QED
    BY <2>1, <2>3, <2>4 DEF IsAwaited, Waiting, HasReceipt, Composed, Calldata
<1>16. MempoolIsSound'
  <2>1. IsAwaited(p)'
    BY <1>3, <1>10, <1>13 DEF IsAwaited, Waiting, HasReceipt
  <2>2. ASSUME NEW i \in DOMAIN mempool', i \notin DOMAIN mempool PROVE IsAwaited(mempool[i])'
    <3>1. mempool'[i] = p
      BY <1>12, <2>2
    <3>2. QED
      BY <2>1, <3>1 DEF IsAwaited, Waiting, HasReceipt, Composed, Calldata
  <2>3. \A i \in DOMAIN mempool' : IsAwaited(mempool[i])'
    BY <1>15, <2>2
  <2>4. \A i, j \in DOMAIN mempool' : mempool'[i].run = mempool'[j].run => i = j
    BY <1>2, <1>10, <1>12, <1>15 DEF MempoolIsSound
  <2>5. QED
    BY <2>3, <2>4 DEF MempoolIsSound
<1>17. RunIsSound(r)'
  <2>1. PlanIsSound(r)'
    BY <1>3, <1>6, <1>7, <1>8, <1>13, <1>14 DEF PlanIsSound
  <2>2. ReceiptIsSound(r)' /\ VerdictIsSound(r)' /\ ShortfallHasACause(r)'
    BY <1>3, <1>13 DEF ReceiptIsSound, VerdictIsSound, ShortfallHasACause, PaidFor, HasReceipt
  <2>3. PromiseStands(r)'
    BY <1>1, <1>2, <1>3, <1>13
       DEF RunIsSound, PromiseStands, Planned, Enough, PaidFor, HasReceipt, Share, vars
  <2>4. QED
    BY <2>1, <2>2, <2>3 DEF RunIsSound
<1>18. \A q \in Runs : RunIsSound(q)'
  BY <1>2, <1>13, <1>17, RunStays
<1>19. QED
  BY <1>2, <1>13, <1>16, <1>18 DEF PayoutIInv

(* A run that concludes has a receipt, and nothing pending. *)
LEMMA ConcludeKeeps == ASSUME PayoutIInv, NEW r \in Runs, Conclude(r) PROVE PayoutIInv'
<1> DEFINE verdict == IF senderVerified(receipt[r], signed[r], participant) /\ ReachedRecipient(r)
                      THEN "paid" ELSE "fatal"
<1>1. /\ step[r] = "sent" /\ HasReceipt(r) /\ step' = [step EXCEPT ![r] = verdict]
      /\ UNCHANGED <<vars, printed, signed, mempool, receipt>>
  BY DEF Conclude, GoTo, Asks, HasReceipt
<1>2. /\ IInv' /\ Shapes /\ MempoolIsSound /\ OwedOrPaid /\ ReceiptsLast
      /\ \A q \in Runs : RunIsSound(q)
  BY <1>1, QuietPool DEF PayoutIInv, OwedOrPaid, ReceiptsLast
<1>3. Shapes' /\ step'[r] = verdict /\ \A q \in Runs \ {r} : LeavesRun(q)
  BY <1>1, <1>2 DEF Shapes, Steps, Planned, Signed, LeavesRun
<1>4. MempoolIsSound'
  <2>1. ASSUME NEW i \in DOMAIN mempool PROVE IsAwaited(mempool[i])'
    <3>1. PICK p : p = mempool[i]
      OBVIOUS
    <3>2. p.run \in Runs /\ Waiting(p.run) /\ IsAwaited(p)
      BY <1>2, <3>1, PendingFacts
    <3>3. p.run # r
      BY <1>1, <3>2 DEF Waiting
    <3>4. IsAwaited(p)'
      BY <1>3, <3>2, <3>3, StillAwaited
    <3>5. mempool'[i] = p
      BY <1>1, <3>1
    <3>6. QED
      BY <3>4, <3>5 DEF IsAwaited, Waiting, HasReceipt, Composed, Calldata
  <2>2. QED
    BY <1>1, <1>2, <2>1 DEF MempoolIsSound
<1>5. RunIsSound(r)'
  <2>1. RunIsSound(r)
    BY <1>2
  <2>2. PlanIsSound(r)'
    BY <1>1, <1>3, <2>1 DEF RunIsSound, PlanIsSound, Planned, Signed, Composed, Calldata
  <2>3. ReceiptIsSound(r)'
    BY <1>1, <1>3, <2>1
       DEF RunIsSound, ReceiptIsSound, HasReceipt, Signed, Composed, Calldata, IsPayout, PaidBy
  <2>4. VerdictIsSound(r)'
    BY <1>1, <1>3 DEF VerdictIsSound, HasReceipt, ReachedRecipient
  <2>5. PromiseStands(r)'
    BY <1>1 DEF PromiseStands, HasReceipt
  <2>6. ShortfallHasACause(r)'
    BY <1>1, <2>1 DEF RunIsSound, ShortfallHasACause, PaidFor, HasReceipt
  <2>7. QED
    BY <2>2, <2>3, <2>4, <2>5, <2>6 DEF RunIsSound
<1>6. \A q \in Runs : RunIsSound(q)'
  BY <1>2, <1>3, <1>5, RunStays
<1>7. QED
  BY <1>2, <1>3, <1>4, <1>6 DEF PayoutIInv

-----------------------------------------------------------------------------
(* The pending transactions *)

(* What takes the nonce is a transaction, and none that the run composed:  *)
(* a cancellation goes elsewhere, the other function is another call, and  *)
(* an envelope that delegates is not the one composed.                     *)
LEMMA ReplacementFacts ==
  ASSUME Shapes, NEW p \in Pending, PlanIsSound(p.run), step[p.run] \in Signed,
         p.tx = signed[p.run], NEW tx \in Replacements(p)
  PROVE  tx \in Transactions /\ tx # Composed(p.run)
<1>1. p.run \in Runs /\ p.from \in Accounts /\ p.tx \in Transactions
  BY DEF Pending
<1>2. PICK old : old = p.tx.input
  OBVIOUS
<1>3. /\ p.tx = [to |-> Pool, value |-> 0, envelope |-> "plain", input |-> old]
      /\ old \in Inputs /\ old.function = printed[p.run].function
      /\ old.function \in Functions
  BY <1>1, <1>2 DEF PlanIsSound, Composed, Transactions, Planned
<1>4. \/ tx = [p.tx EXCEPT !.to = p.from, !.input = [function |-> "none", recipient |-> "sender"]]
      \/ tx = [p.tx EXCEPT !.input.function = IF @ = "claim" THEN "refund" ELSE "claim"]
      \/ tx = [p.tx EXCEPT !.envelope = "delegating"]
  BY DEF Replacements
<1>5. CASE tx = [p.tx EXCEPT !.to = p.from, !.input = [function |-> "none", recipient |-> "sender"]]
  <2>1. tx = [to |-> p.from, value |-> 0, envelope |-> "plain",
              input |-> [function |-> "none", recipient |-> "sender"]]
    <3>1. PICK from, none, signedTx : /\ from = p.from /\ signedTx = p.tx
                                      /\ none = [function |-> "none", recipient |-> "sender"]
      OBVIOUS
    <3>2. tx = [signedTx EXCEPT !.to = from, !.input = none]
      BY <1>5, <3>1
    <3>3. signedTx = [to |-> Pool, value |-> 0, envelope |-> "plain", input |-> old]
      BY <1>3, <3>1
    <3>4. tx = [to |-> from, value |-> 0, envelope |-> "plain", input |-> none]
      BY <3>2, <3>3
    <3>5. QED
      BY <3>1, <3>4
  <2>2. p.from # Pool
    BY <1>1, AddressesAssumption
  <2>3. [function |-> "none", recipient |-> "sender"] \in Inputs
    BY DEF Inputs
  <2>4. tx \in Transactions
    BY <1>1, <2>1, <2>3 DEF Transactions, Addresses
  <2>5. tx.to # Composed(p.run).to
    BY <2>1, <2>2 DEF Composed
  <2>6. QED
    BY <2>4, <2>5
<1>6. CASE tx = [p.tx EXCEPT !.input.function = IF @ = "claim" THEN "refund" ELSE "claim"]
  <2>1. PICK new : new = [old EXCEPT !.function = IF @ = "claim" THEN "refund" ELSE "claim"]
    OBVIOUS
  <2>2. new \in Inputs /\ new.function # printed[p.run].function
    <3>1. PICK f : f = old.function
      OBVIOUS
    <3>2. PICK g : g = IF f = "claim" THEN "refund" ELSE "claim"
      OBVIOUS
    <3>3. f \in Functions /\ g \in Functions /\ g # f
      BY <1>3, <3>1, <3>2 DEF Functions
    <3>4. new = [old EXCEPT !.function = g]
      BY <2>1, <3>1, <3>2
    <3>5. new = [function |-> g, recipient |-> old.recipient] /\ old.recipient \in Addresses \cup {ZeroAddress, "sender"}
      BY <1>3, <3>4 DEF Inputs
    <3>6. QED
      BY <1>3, <3>1, <3>3, <3>5 DEF Inputs
  <2>3. tx = [to |-> Pool, value |-> 0, envelope |-> "plain", input |-> new]
    BY <1>3, <1>6, <2>1
  <2>4. tx \in Transactions
    BY <2>2, <2>3 DEF Transactions, Addresses
  <2>5. tx # Composed(p.run)
    BY <2>2, <2>3 DEF Composed, Calldata
  <2>6. QED
    BY <2>4, <2>5
<1>7. CASE tx = [p.tx EXCEPT !.envelope = "delegating"]
  <2>1. tx = [to |-> Pool, value |-> 0, envelope |-> "delegating", input |-> old]
    BY <1>3, <1>7
  <2>2. QED
    BY <1>3, <2>1 DEF Transactions, Addresses, Composed
<1>8. QED
  BY <1>4, <1>5, <1>6, <1>7

(* A replacement is pending in the place of what was signed. *)
LEMMA ReplaceKeeps == ASSUME PayoutIInv, NEW i \in DOMAIN mempool, Replace(i) PROVE PayoutIInv'
<1>1. UNCHANGED <<vars, step, printed, signed, receipt>> /\ mempool[i].tx = signed[mempool[i].run]
  BY DEF Replace
<1>2. PICK tx \in Replacements(mempool[i]) : mempool' = [mempool EXCEPT ![i].tx = tx]
  BY DEF Replace
<1>3. /\ IInv' /\ Shapes /\ MempoolIsSound /\ OwedOrPaid /\ ReceiptsLast
      /\ \A q \in Runs : RunIsSound(q)
  BY <1>1, QuietPool DEF PayoutIInv, OwedOrPaid, ReceiptsLast
<1>4. /\ mempool[i] \in Pending /\ mempool[i].run \in Runs /\ Waiting(mempool[i].run)
  BY <1>3, PendingFacts
<1>5. tx \in Transactions /\ tx # Composed(mempool[i].run)
  <2>1. PlanIsSound(mempool[i].run) /\ step[mempool[i].run] \in Signed
    BY <1>3, <1>4 DEF RunIsSound, Waiting, Signed
  <2>2. QED
    BY <1>1, <1>2, <1>3, <1>4, <2>1, ReplacementFacts
<1>6. PICK p : p = [run |-> mempool[i].run, from |-> mempool[i].from, tx |-> tx]
  OBVIOUS
<1>7. p \in Pending /\ p.run = mempool[i].run /\ p.tx = tx
  BY <1>4, <1>5, <1>6 DEF Pending
<1>8. mempool' = [mempool EXCEPT ![i] = p]
  <2>1. [mempool[i] EXCEPT !.tx = tx] = p
    BY <1>4, <1>6 DEF Pending
  <2>2. QED
    BY <1>2, <2>1
<1>9. /\ mempool' \in Seq(Pending) /\ DOMAIN mempool' = DOMAIN mempool
      /\ mempool'[i] = p /\ \A j \in DOMAIN mempool \ {i} : mempool'[j] = mempool[j]
  BY <1>3, <1>7, <1>8 DEF Shapes
<1>10. Shapes' /\ \A q \in Runs : LeavesRun(q)
  BY <1>1, <1>3, <1>9 DEF Shapes, LeavesRun
<1>11. MempoolIsSound'
  <2>1. ASSUME NEW j \in DOMAIN mempool' PROVE IsAwaited(mempool[j])'
    <3>1. PICK e : e = mempool'[j]
      OBVIOUS
    <3>2. IsAwaited(e) /\ e.run \in Runs
      <4>1. CASE j = i
        <5>1. e = p
          BY <1>9, <3>1, <4>1
        <5>2. QED
          BY <1>4, <1>5, <1>7, <5>1 DEF IsAwaited
      <4>2. CASE j # i
        BY <1>3, <1>9, <2>1, <3>1, <4>2, PendingFacts
      <4>3. QED
        BY <4>1, <4>2
    <3>3. IsAwaited(e)'
      BY <1>10, <3>2, StillAwaited
    <3>4. QED
      BY <3>1, <3>3 DEF IsAwaited, Waiting, HasReceipt, Composed, Calldata
  <2>2. \A j \in DOMAIN mempool : mempool'[j].run = mempool[j].run
    BY <1>7, <1>9
  <2>3. QED
    BY <1>3, <1>9, <2>1, <2>2 DEF MempoolIsSound
<1>12. \A q \in Runs : RunIsSound(q)'
  BY <1>3, <1>10, RunStays
<1>13. QED
  BY <1>3, <1>10, <1>11, <1>12 DEF PayoutIInv

(* A transaction is mined for the run that waits for it; if it pays the    *)
(* participant, it pays what is owed.                                      *)
LEMMA MinedKeeps ==
  ASSUME PayoutIInv, NEW i \in DOMAIN mempool, NEW status, NEW event,
         Mined(i, status, event), IInv',
         event # NoEvent =>
           /\ status = "success"
           /\ IsPayout(event, mempool[i].tx, mempool[i].from)
           /\ event.participant = participant =>
                \A amount \in Nat : Enough(event.name, amount) => ~ (event.amount < amount),
         \A function \in Functions :
           \/ Lasting(function)
           \/ event # NoEvent /\ event.name = function /\ event.participant = participant
  PROVE  PayoutIInv'
<1>p. PICK p : p = mempool[i]
  OBVIOUS
<1> DEFINE r == p.run
<1>m. PICK mined : mined = [status |-> status, from |-> p.from, replaced |-> p.tx # signed[r],
                            mined |-> p.tx, event |-> event]
  OBVIOUS
<1>1. /\ receipt' = [receipt EXCEPT ![r] = mined]
      /\ mempool' = Without(mempool, i)
      /\ UNCHANGED <<step, printed, signed>>
  BY <1>p, <1>m DEF Mined, Without
<1>2. /\ Shapes /\ MempoolIsSound /\ \A q \in Runs : RunIsSound(q)
  BY DEF PayoutIInv
<1>3. /\ r \in Runs /\ Waiting(r) /\ p.tx \in Transactions
      /\ p.tx # signed[r] => p.tx # Composed(r)
  BY <1>p, <1>2, PendingFacts DEF IsAwaited
<1>4. /\ receipt'[r] = mined /\ DOMAIN receipt' = Runs
      /\ \A q \in Runs \ {r} : receipt'[q] = receipt[q]
  BY <1>1, <1>2, <1>3 DEF Shapes
<1>5. /\ mined.status = status /\ mined.from = p.from /\ mined.mined = p.tx
      /\ mined.replaced = (p.tx # signed[r]) /\ mined.event = event
      /\ mined # NotMined
  <2>1. mined.from = p.from /\ DOMAIN mined # DOMAIN NotMined
    <3>1. "from" \in DOMAIN mined /\ "from" \notin DOMAIN NotMined
      BY <1>m DEF NotMined
    <3>2. QED
      BY <1>m, <3>1
  <2>2. QED
    BY <1>m, <2>1
<1>6. HasReceipt(r)' /\ ~ HasReceipt(r) /\ step[r] = "sent" /\ step'[r] = "sent"
  BY <1>1, <1>3, <1>4, <1>5 DEF HasReceipt, Waiting
<1>7. ReceiptsLast /\ \A q \in Runs \ {r} : LeavesRun(q)
  BY <1>1, <1>4, <1>6 DEF LeavesRun, ReceiptsLast
<1>8. \A function : PaidFor(r, function)' <=>
        event # NoEvent /\ event.name = function /\ event.participant = participant
  BY <1>4, <1>5, <1>6 DEF PaidFor
<1>9. OwedOrPaid
  BY <1>3, <1>6, <1>8 DEF OwedOrPaid
<1>10. Composed(r)' = Composed(r) /\ RunIsSound(r)
  BY <1>1, <1>2, <1>3 DEF Composed, Calldata
<1>11. RunIsSound(r)'
  <2>1. PlanIsSound(r)'
    BY <1>1, <1>6, <1>10 DEF RunIsSound, PlanIsSound, Planned, Signed
  <2>2. ReceiptIsSound(r)'
    <3>1. event # NoEvent => status = "success" /\ IsPayout(event, p.tx, p.from)
      BY <1>p
    <3>2. /\ receipt'[r].mined = p.tx /\ receipt'[r].event = event /\ receipt'[r].from = p.from
          /\ receipt'[r].status = status /\ receipt'[r].replaced = (p.tx # signed[r])
          /\ signed'[r] = signed[r]
      BY <1>1, <1>4, <1>5
    <3>3. step'[r] \in Signed
      BY <1>6 DEF Signed
    <3>4. QED
      BY <1>3, <1>10, <3>1, <3>2, <3>3 DEF ReceiptIsSound, IsPayout, PaidBy
  <2>3. VerdictIsSound(r)' /\ PromiseStands(r)'
    BY <1>6 DEF VerdictIsSound, PromiseStands
  <2>4. ShortfallHasACause(r)'
    <3>1. PICK f, a : f = printed[r].function /\ a = printed[r].amount
      OBVIOUS
    <3>2. a \in Nat /\ printed'[r].function = f /\ printed'[r].amount = a
      BY <1>1, <1>2, <1>3, <3>1 DEF Shapes, Printed
    <3>3. SUFFICES ASSUME PaidFor(r, f)', event.amount < a
                   PROVE  \E q \in Runs \ {r} : PaidFor(q, f)'
      BY <1>4, <1>5, <3>2 DEF ShortfallHasACause, PaidFor
    <3>4. event # NoEvent /\ event.name = f /\ event.participant = participant
      BY <1>8, <3>3
    <3>5. ~ Enough(f, a)
      BY <3>2, <3>3, <3>4
    <3>6. step[r] \in Planned
      BY <1>6 DEF Planned, Signed
    <3>7. PICK q \in Runs \ {r} : PaidFor(q, f)
      BY <1>6, <1>10, <3>1, <3>5, <3>6 DEF RunIsSound, PromiseStands
    <3>8. QED
      BY <1>7, <3>7, PaymentsLast
  <2>5. QED
    BY <2>1, <2>2, <2>3, <2>4 DEF RunIsSound
<1>12. \A q \in Runs : RunIsSound(q)'
  BY <1>2, <1>7, <1>9, <1>11, RunStays
<1>13. /\ mempool' \in Seq(Pending)
       /\ \A j \in DOMAIN mempool' :
            \E k \in DOMAIN mempool : k = (IF j < i THEN j ELSE j + 1) /\ mempool'[j] = mempool[k]
       /\ \A j \in DOMAIN mempool' : j \in Int
       /\ i \in Int
  <2>1. mempool \in Seq(Pending)
    BY <1>2 DEF Shapes
  <2>2. i \in Int
    BY <2>1
  <2>3. QED
    BY <1>1, <2>1, <2>2, Removed
<1>14. MempoolIsSound'
  <2>1. ASSUME NEW j \in DOMAIN mempool' PROVE IsAwaited(mempool[j])'
    <3>1. PICK k \in DOMAIN mempool : k # i /\ mempool'[j] = mempool[k]
      BY <1>13, <2>1
    <3>2. PICK e : e = mempool[k]
      OBVIOUS
    <3>3. e.run \in Runs /\ e.run # r /\ IsAwaited(e)
      BY <1>p, <1>2, <3>1, <3>2, PendingFacts DEF MempoolIsSound
    <3>4. IsAwaited(e)'
      BY <1>7, <3>3, StillAwaited
    <3>5. QED
      BY <3>1, <3>2, <3>4 DEF IsAwaited, Waiting, HasReceipt, Composed, Calldata
  <2>2. ASSUME NEW j \in DOMAIN mempool', NEW l \in DOMAIN mempool', mempool'[j].run = mempool'[l].run
        PROVE  j = l
    <3>1. PICK k \in DOMAIN mempool : k = (IF j < i THEN j ELSE j + 1) /\ mempool'[j] = mempool[k]
      BY <1>13, <2>2
    <3>2. PICK n \in DOMAIN mempool : n = (IF l < i THEN l ELSE l + 1) /\ mempool'[l] = mempool[n]
      BY <1>13, <2>2
    <3>3. k = n
      BY <1>2, <2>2, <3>1, <3>2 DEF MempoolIsSound
    <3>4. QED
      BY <1>13, <2>2, <3>1, <3>2, <3>3
  <2>3. QED
    BY <2>1, <2>2 DEF MempoolIsSound
<1>15. Shapes'
  BY <1>1, <1>2, <1>4, <1>13 DEF Shapes
<1>16. QED
  BY <1>12, <1>14, <1>15 DEF PayoutIInv

(* Whom a transaction pays is someone the pool can be told to pay. *)
LEMMA PaidByType ==
  ASSUME NEW tx \in Transactions, NEW sender \in Accounts
  PROVE  PaidBy(tx, sender) \in Recipients
BY DEF Transactions, Inputs, PaidBy, Recipients, Addresses

(* A payout that is accepted pays all that is payable, and takes nothing   *)
(* from the participant but what it is paid.                               *)
LEMMA MinePayoutKeeps ==
  ASSUME PayoutIInv, NEW i \in DOMAIN mempool, MinePayout(i) PROVE PayoutIInv'
<1>1. PICK sender, tx : sender = mempool[i].from /\ tx = mempool[i].tx
  OBVIOUS
<1>2. PICK event : event = PayoutEvent(sender, tx)
  OBVIOUS
<1>3. Execute(sender, tx) /\ Mined(i, "success", event)
  BY <1>1, <1>2 DEF MinePayout
<1>4. IInv /\ sender \in Accounts /\ tx \in Transactions
  BY <1>1, PendingFacts DEF PayoutIInv
<1>5. PICK recipient \in Recipients : recipient = PaidBy(tx, sender)
  BY <1>4, PaidByType
<1>6. tx.input.function \in Functions
  BY <1>3 DEF Execute, Functions
<1>7. IsPayout(event, tx, sender) /\ event.amount = Payable(tx.input.function, sender)
  BY <1>2, <1>6 DEF PayoutEvent, IsPayout
<1>8. participant \in Addresses /\ sender \in Addresses
  BY <1>4, PayoutAssumption DEF Addresses
<1>9. ASSUME tx.input.function = "claim"
      PROVE  /\ IInv' /\ Lasting("refund")
             /\ sender # participant => Lasting("claim")
             /\ sender = participant =>
                  \A amount \in Nat : Enough("claim", amount) => ~ (event.amount < amount)
  <2>1. claimTo(sender, recipient)
    BY <1>3, <1>5, <1>9 DEF Execute
  <2>2. IInv'
    BY <1>4, <2>1, ClaimKeepsIInv
  <2>3. /\ UNCHANGED <<state, refundableWeiOf, creditedWeiOf, proceedsIn>>
        /\ claimedWeiOf' = [claimedWeiOf EXCEPT ![sender] = @ + claimable(sender)]
    BY <2>1 DEF claimTo
  <2>4. /\ refundableWeiOf[participant] \in Nat /\ claimedWeiOf[participant] \in Nat
        /\ claimedWeiOf \in [Addresses -> Nat] /\ proceedsIn \in Nat
    BY <1>4, <1>8 DEF IInv, TypeOK
  <2>5. Lasting("refund")
    BY <1>4, <2>2, <2>3, <2>4, RefundLasts
  <2>6. ASSUME sender # participant PROVE Lasting("claim")
    <3>1. claimedWeiOf'[participant] = claimedWeiOf[participant]
      BY <1>8, <2>3, <2>4, <2>6
    <3>2. QED
      BY <1>4, <2>2, <2>3, <2>4, <3>1, ClaimLasts
  <2>7. ASSUME sender = participant, NEW amount \in Nat, Enough("claim", amount)
        PROVE  ~ (event.amount < amount)
    <3>1. event.amount = claimable(participant)
      BY <1>7, <1>9, <2>7 DEF Payable
    <3>2. /\ claimable(participant) = Share(participant) - claimedWeiOf[participant]
          /\ Share(participant) \in Nat
      BY <1>4, <2>1, <2>7, ClaimReachesShare
    <3>3. amount + claimedWeiOf[participant] <= Share(participant)
      BY <2>7 DEF Enough
    <3>4. QED
      BY <2>4, <2>7, <3>1, <3>2, <3>3
  <2>8. QED
    BY <2>2, <2>5, <2>6, <2>7
<1>10. ASSUME tx.input.function = "refund"
       PROVE  /\ IInv' /\ Lasting("claim")
              /\ sender # participant => Lasting("refund")
              /\ sender = participant =>
                   \A amount \in Nat : Enough("refund", amount) => ~ (event.amount < amount)
  <2>1. refundTo(sender, recipient)
    BY <1>3, <1>5, <1>10 DEF Execute
  <2>2. IInv'
    BY <1>4, <2>1, RefundKeepsIInv
  <2>3. /\ UNCHANGED <<state, claimedWeiOf, creditedWeiOf, proceedsIn>>
        /\ refundableWeiOf' = [refundableWeiOf EXCEPT ![sender] = 0]
    BY <2>1 DEF refundTo
  <2>4. refundableWeiOf \in [Addresses -> Nat] /\ proceedsIn \in Nat
    BY <1>4 DEF IInv, TypeOK
  <2>5. Lasting("claim")
    BY <1>4, <2>2, <2>3, <2>4, ClaimLasts
  <2>6. ASSUME sender # participant PROVE Lasting("refund")
    <3>1. refundableWeiOf[participant] \in Nat
      BY <1>8, <2>4
    <3>2. refundableWeiOf'[participant] = refundableWeiOf[participant]
      BY <1>8, <2>3, <2>4, <2>6
    <3>3. QED
      BY <1>4, <2>2, <3>1, <3>2, RefundLasts
  <2>7. ASSUME sender = participant, NEW amount \in Nat, Enough("refund", amount)
        PROVE  ~ (event.amount < amount)
    <3>1. event.amount = refundableWeiOf[participant] /\ refundableWeiOf[participant] \in Nat
      BY <1>7, <1>8, <1>10, <2>4, <2>7 DEF Payable
    <3>2. amount <= refundableWeiOf[participant]
      BY <2>7 DEF Enough
    <3>3. QED
      BY <2>7, <3>1, <3>2
  <2>8. QED
    BY <2>2, <2>5, <2>6, <2>7
<1>11. /\ event.name = tx.input.function /\ event.participant = sender
       /\ event.name = "claim" \/ event.name = "refund"
       /\ event # NoEvent
  BY <1>6, <1>7 DEF IsPayout, Functions, NoEvent
<1>12. IInv'
  BY <1>9, <1>10, <1>11
<1>13. event.participant = participant =>
         \A amount \in Nat : Enough(event.name, amount) => ~ (event.amount < amount)
  BY <1>9, <1>10, <1>11
<1>14. \A function \in Functions :
         \/ Lasting(function)
         \/ event # NoEvent /\ event.name = function /\ event.participant = participant
  BY <1>9, <1>10, <1>11 DEF Functions
<1>15. IsPayout(event, mempool[i].tx, mempool[i].from)
  BY <1>1, <1>7
<1>16. QED
  BY <1>3, <1>12, <1>13, <1>14, <1>15, MinedKeeps

(* What is not accepted, or does not go to the pool, pays nobody. *)
LEMMA MineNothingKeeps ==
  ASSUME PayoutIInv, NEW i \in DOMAIN mempool, MineRevert(i) \/ MineCancellation(i)
  PROVE  PayoutIInv'
<1>1. UNCHANGED vars
  BY DEF MineRevert, MineCancellation
<1>2. IInv' /\ \A function : Lasting(function)
  BY <1>1, QuietPool DEF PayoutIInv
<1>3. CASE MineRevert(i)
  <2>1. Mined(i, "reverted", NoEvent)
    BY <1>3 DEF MineRevert
  <2>2. QED
    BY <1>2, <2>1, MinedKeeps
<1>4. CASE MineCancellation(i)
  <2>1. Mined(i, "success", NoEvent)
    BY <1>4 DEF MineCancellation
  <2>2. QED
    BY <1>2, <2>1, MinedKeeps
<1>5. QED
  BY <1>3, <1>4

-----------------------------------------------------------------------------
(* The inductive invariant is one *)

(* No run has started. *)
LEMMA PayoutInitEstablishes == PayoutInit => PayoutIInv
<1> SUFFICES ASSUME PayoutInit PROVE PayoutIInv
  OBVIOUS
<1>1. IInv
  BY InitEstablishesIInv DEF PayoutInit
<1>2. Shapes
  <2>1. Nothing \in Printed
    BY PayoutAssumption DEF Nothing, Printed, Addresses
  <2>2. mempool \in Seq(Pending)
    BY DEF PayoutInit
  <2>3. QED
    BY <2>1, <2>2 DEF PayoutInit, Shapes, Steps
<1>3. MempoolIsSound
  BY DEF PayoutInit, MempoolIsSound
<1>4. \A r \in Runs : ~ HasReceipt(r) /\ step[r] = "start"
  BY DEF PayoutInit, HasReceipt
<1>5. \A r \in Runs : RunIsSound(r)
  BY <1>4 DEF RunIsSound, PlanIsSound, ReceiptIsSound, VerdictIsSound, PromiseStands,
              ShortfallHasACause, PaidFor, Planned, Signed
<1>6. QED
  BY <1>1, <1>2, <1>3, <1>5 DEF PayoutIInv

(* A step that leaves every run as it is. *)
LEMMA AllRunsStay ==
  ASSUME PayoutIInv, IInv', \A function \in Functions : Lasting(function), UNCHANGED commandVars
  PROVE  PayoutIInv'
<1>1. UNCHANGED <<step, printed, signed, mempool, receipt>>
  BY DEF commandVars
<1>2. /\ Shapes /\ OwedOrPaid /\ ReceiptsLast /\ \A q \in Runs : LeavesRun(q)
      /\ \A q \in Runs : RunIsSound(q)
  BY <1>1 DEF PayoutIInv, OwedOrPaid, ReceiptsLast, LeavesRun
<1>3. Shapes' /\ MempoolIsSound'
  BY <1>1 DEF PayoutIInv, Shapes, MempoolIsSound, IsAwaited, Waiting, HasReceipt, Composed, Calldata
<1>4. \A q \in Runs : RunIsSound(q)'
  BY <1>2, RunStays
<1>5. QED
  BY <1>3, <1>4 DEF PayoutIInv

(* Every step of the pool, of the runs and of the mempool preserves it. *)
LEMMA PayoutNextKeeps == PayoutIInv /\ [PayoutNext]_allVars => PayoutIInv'
<1> SUFFICES ASSUME PayoutIInv, [PayoutNext]_allVars PROVE PayoutIInv'
  OBVIOUS
<1>1. CASE OthersStep
  BY <1>1, OthersFacts, AllRunsStay DEF PayoutIInv
<1>2. ASSUME NEW r \in Runs, RunStep(r) PROVE PayoutIInv'
  BY <1>2, ReadBalanceKeeps, EstimateKeeps, SignAndBroadcastKeeps, ConcludeKeeps DEF RunStep
<1>3. ASSUME NEW i \in DOMAIN mempool,
             Replace(i) \/ MinePayout(i) \/ MineRevert(i) \/ MineCancellation(i)
      PROVE  PayoutIInv'
  BY <1>3, ReplaceKeeps, MinePayoutKeeps, MineNothingKeeps
<1>4. CASE UNCHANGED allVars
  <2>1. UNCHANGED vars /\ UNCHANGED commandVars
    BY <1>4 DEF allVars
  <2>2. QED
    BY <2>1, QuietPool, AllRunsStay DEF PayoutIInv
<1>5. QED
  BY <1>1, <1>2, <1>3, <1>4 DEF PayoutNext

(* It holds in every reachable state of the pool and the runs. *)
THEOREM PayoutInvariantHolds == PayoutSpec => []PayoutIInv
BY PayoutInitEstablishes, PayoutNextKeeps, PTL DEF PayoutSpec

-----------------------------------------------------------------------------
(* What follows *)

(* Two transactions that agree in the fields the check compares are one. *)
LEMMA SameFields ==
  ASSUME NEW a \in Transactions, NEW b \in Transactions, differingSemanticFields(a, b) = {}
  PROVE  a = b
<1>1. a.to = b.to /\ a.value = b.value /\ a.input = b.input /\ a.envelope = b.envelope
  BY DEF differingSemanticFields, SemanticFields
<1>2. QED
  BY <1>1 DEF Transactions

(* What was signed, if it pays the recipient that was printed, is what was *)
(* composed.                                                               *)
LEMMA PrintedRecipientIsPaid ==
  ASSUME Shapes, NEW r \in Runs, PlanIsSound(r), step[r] \in Signed,
         PaidBy(signed[r], participant) = printed[r].recipient
  PROVE  signed[r] = Composed(r)
<1>1. PICK input, f, recipient : /\ input = signed[r].input /\ f = printed[r].function
                                 /\ recipient = printed[r].recipient
  OBVIOUS
<1>2. /\ input \in Inputs /\ signed[r] = [Composed(r) EXCEPT !.input = input]
      /\ input.function = f /\ input.recipient # participant
  BY <1>1 DEF PlanIsSound, Transactions
<1>3. recipient = IF input.recipient = "sender" THEN participant ELSE input.recipient
  BY <1>1 DEF PaidBy
<1>4. input.recipient = IF recipient = participant THEN "sender" ELSE recipient
  BY <1>2, <1>3
<1>5. input = Calldata(f, recipient)
  BY <1>2, <1>4 DEF Calldata, Inputs
<1>6. QED
  BY <1>1, <1>2, <1>5 DEF Composed

(* A run reports its payout exactly when what it composed was mined as its *)
(* participant's and paid: no other recipient, device, function, envelope  *)
(* or cancellation passes for it, and none of its own payouts is refused.  *)
THEOREM PayoutReportsAreRight == PayoutSpec => []PayoutVerdictsAreRight
<1>1. PayoutIInv => PayoutVerdictsAreRight
  <2> SUFFICES ASSUME PayoutIInv, NEW r \in Runs, step[r] \in {"paid", "fatal"}
               PROVE  step[r] = "paid" <=>
                        /\ receipt[r].event # NoEvent
                        /\ receipt[r].from = participant
                        /\ receipt[r].mined = Composed(r)
    BY DEF PayoutVerdictsAreRight
  <2>1. Shapes /\ PlanIsSound(r) /\ ReceiptIsSound(r) /\ VerdictIsSound(r)
    BY DEF PayoutIInv, RunIsSound
  <2>2. /\ HasReceipt(r) /\ receipt[r].mined \in Transactions /\ signed[r] \in Transactions
        /\ step[r] \in Signed /\ step[r] \in Planned /\ printed[r].function \in Functions
    BY <2>1 DEF PlanIsSound, ReceiptIsSound, VerdictIsSound, Planned, Signed
  <2>3. ASSUME senderVerified(receipt[r], signed[r], participant), ReachedRecipient(r)
        PROVE  /\ receipt[r].event # NoEvent
               /\ receipt[r].from = participant
               /\ receipt[r].mined = Composed(r)
    <3>1. receipt[r].event # NoEvent /\ receipt[r].from = participant
      BY <2>2, <2>3 DEF senderVerified, ReachedRecipient, NoEvent, Functions
    <3>2. receipt[r].mined = signed[r]
      <4>1. CASE receipt[r].replaced
        <5>1. differingSemanticFields(signed[r], receipt[r].mined) = {}
          BY <2>3, <4>1 DEF senderVerified, acceptableReplacement
        <5>2. QED
          BY <2>2, <5>1, SameFields
      <4>2. CASE ~ receipt[r].replaced
        BY <2>1, <2>2, <4>2 DEF ReceiptIsSound
      <4>3. QED
        BY <4>1, <4>2
    <3>3. PaidBy(signed[r], participant) = printed[r].recipient
      BY <2>1, <2>2, <2>3, <3>1, <3>2 DEF ReceiptIsSound, IsPayout, ReachedRecipient
    <3>4. signed[r] = Composed(r)
      BY <2>1, <2>2, <3>3, PrintedRecipientIsPaid
    <3>5. QED
      BY <3>1, <3>2, <3>4
  <2>4. ASSUME receipt[r].event # NoEvent, receipt[r].from = participant,
               receipt[r].mined = Composed(r)
        PROVE  senderVerified(receipt[r], signed[r], participant) /\ ReachedRecipient(r)
    <3>1. ~ receipt[r].replaced /\ receipt[r].status = "success"
          /\ IsPayout(receipt[r].event, Composed(r), participant)
      BY <2>1, <2>2, <2>4 DEF ReceiptIsSound
    <3>2. senderVerified(receipt[r], signed[r], participant)
      BY <2>4, <3>1 DEF senderVerified
    <3>3. PICK recipient \in Addresses \cup {ZeroAddress} : recipient = printed[r].recipient
      BY <2>1 DEF Shapes, Printed
    <3>4. PaidBy(Composed(r), participant) = recipient
      BY <3>3, SenderAssumption DEF Composed, Calldata, PaidBy
    <3>5. Composed(r).input.function = printed[r].function
      BY DEF Composed, Calldata
    <3>6. ReachedRecipient(r)
      BY <3>1, <3>3, <3>4, <3>5 DEF ReachedRecipient, IsPayout
    <3>7. QED
      BY <3>2, <3>6
  <2>5. QED
    BY <2>1, <2>3, <2>4 DEF VerdictIsSound
<1>2. QED
  BY <1>1, PayoutInvariantHolds, PTL

(* A run that reports its payout paid what it printed, or another of the   *)
(* participant's runs was paid from the same balance: nothing others do to *)
(* the pool can make a payout fall short.                                  *)
THEOREM ShortfallsAreOnesOwn == PayoutSpec => []ShortPayoutsHaveACause
<1>1. PayoutIInv => ShortPayoutsHaveACause
  <2> SUFFICES ASSUME PayoutIInv, NEW r \in Runs, step[r] = "paid",
                      receipt[r].event.amount < printed[r].amount
               PROVE  \E q \in Runs \ {r} : PaidFor(q, printed[r].function)
    BY DEF ShortPayoutsHaveACause, PaidFor, HasReceipt
  <2>1. PlanIsSound(r) /\ VerdictIsSound(r) /\ ShortfallHasACause(r)
    BY DEF PayoutIInv, RunIsSound
  <2>2. HasReceipt(r) /\ ReachedRecipient(r) /\ printed[r].function \in Functions
    BY <2>1 DEF PlanIsSound, VerdictIsSound, Planned, Signed
  <2>3. PaidFor(r, printed[r].function)
    BY <2>2 DEF PaidFor, ReachedRecipient, NoEvent, Functions
  <2>4. QED
    BY <2>1, <2>3 DEF ShortfallHasACause
<1>2. QED
  BY <1>1, PayoutInvariantHolds, PTL

=============================================================================
