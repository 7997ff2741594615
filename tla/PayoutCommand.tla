---------------------------- MODULE PayoutCommand ----------------------------
(***************************************************************************)
(* scripts/claim.ts and scripts/refund.ts, which are one program but for   *)
(* the balance they read and the function they call: runs of either for    *)
(* one participant, beside everybody else's use of the pool.               *)
(*                                                                         *)
(* As in FundCommand a run reads the chain between two transactions, and   *)
(* what it signed waits, may be replaced at its nonce, and is mined in     *)
(* nonce order.  The recipient is an argument the device does not show, so *)
(* what is signed may name another recipient than the run printed.         *)
(***************************************************************************)
EXTENDS ValidatorFundingPool, SenderVerifiedReceipt

CONSTANTS
  Runs,         \* runs of the two commands
  participant,  \* the account they sign for
  Keys,         \* the accounts of the devices that may be connected
  RecipientChoices \* what RECIPIENT may name; the participant if unset

ASSUME PayoutAssumption ==
  /\ participant \in Accounts /\ Keys \subseteq Accounts
  /\ RecipientChoices \subseteq Addresses \cup {ZeroAddress}

(* What stands for a call that names no recipient is no address.           *)
ASSUME SenderAssumption == "sender" \notin Addresses \cup {ZeroAddress}

VARIABLES
  step,     \* of each run: how far it is
  printed,  \* what printPayoutRecipient printed: function, recipient, amount
  signed,   \* the transaction that left the device
  mempool,  \* the pending transactions, as signed or replaced
  receipt   \* of each run: what was mined at the nonce it used

commandVars == <<step, printed, signed, mempool, receipt>>
allVars == <<vars, commandVars>>

Functions == {"claim", "refund"}
Nothing == [function |-> "none", recipient |-> participant, amount |-> 0]
NoTransaction == [to |-> ZeroAddress]
NotMined == [status |-> "none"]

PayoutInit ==
  /\ Init
  /\ step = [r \in Runs |-> "start"]
  /\ printed = [r \in Runs |-> Nothing]
  /\ signed = [r \in Runs |-> NoTransaction]
  /\ mempool = <<>>
  /\ receipt = [r \in Runs |-> NotMined]

GoTo(r, next) == step' = [step EXCEPT ![r] = next]

-----------------------------------------------------------------------------
(* One run, up to the signature *)

Asks(r, at) == step[r] = at /\ calls = <<>>

(* claimable(signer), refundableWeiOf(signer) *)
Payable(function, account) ==
  IF function = "claim" THEN claimable(account) ELSE refundableWeiOf[account]

(* A run with nothing to pay says so and sends nothing. *)
ReadBalance(r) ==
  /\ Asks(r, "start")
  /\ \E function \in Functions, recipient \in RecipientChoices :
       IF Payable(function, participant) = 0
       THEN GoTo(r, "nothing") /\ UNCHANGED printed
       ELSE /\ printed' = [printed EXCEPT ![r] =
                 [function |-> function, recipient |-> recipient,
                  amount |-> Payable(function, participant)]]
            /\ GoTo(r, "printed")
  /\ UNCHANGED <<vars, signed, mempool, receipt>>

(* claim() and refund() for the signer, claimTo and refundTo for others: a *)
(* call without a recipient pays whoever sends it.                         *)
Calldata(function, recipient) ==
  [function |-> function,
   recipient |-> IF recipient = participant THEN "sender" ELSE recipient]

Composed(r) ==
  [to |-> Pool, value |-> 0, envelope |-> "plain",
   input |-> Calldata(printed[r].function, printed[r].recipient)]

PaidBy(tx, sender) == IF tx.input.recipient = "sender" THEN sender ELSE tx.input.recipient

(* What the pool does with it, unless the recipient refuses the ETH. *)
Accepted(sender, tx) ==
  /\ tx.to = Pool
  /\ Payable(tx.input.function, sender) # 0
  /\ ValidRecipient(PaidBy(tx, sender))

(* resolveTransactionFields: a payout that would revert now is not signed. *)
Estimate(r) ==
  /\ Asks(r, "printed")
  /\ IF Accepted(participant, Composed(r))
     THEN GoTo(r, "estimated") /\ UNCHANGED printed
     ELSE GoTo(r, "refused") /\ printed' = [printed EXCEPT ![r] = Nothing]
  /\ UNCHANGED <<vars, signed, mempool, receipt>>

(* By the participant's device or the one that is connected, and with the  *)
(* recipient that was printed or one that took its place on the way.       *)
SignAndBroadcast(r) ==
  /\ step[r] = "estimated"
  /\ \E key \in Keys, recipient \in {printed[r].recipient} \cup RecipientChoices :
       LET tx == [Composed(r) EXCEPT !.input = Calldata(printed[r].function, recipient)]
       IN /\ signed' = [signed EXCEPT ![r] = tx]
          /\ mempool' = Append(mempool, [run |-> r, from |-> key, tx |-> tx])
  /\ GoTo(r, "sent")
  /\ UNCHANGED <<vars, printed, receipt>>

-----------------------------------------------------------------------------
(* The pending transactions *)

(* At the same nonce: a cancellation, the other function, or the payout in *)
(* an envelope that also delegates the account.                            *)
Replacements(p) ==
  {[p.tx EXCEPT !.to = p.from, !.input = [function |-> "none", recipient |-> "sender"]],
   [p.tx EXCEPT !.input.function = IF @ = "claim" THEN "refund" ELSE "claim"],
   [p.tx EXCEPT !.envelope = "delegating"]}

Replace(i) ==
  /\ mempool[i].tx = signed[mempool[i].run]
  /\ \E tx \in Replacements(mempool[i]) : mempool' = [mempool EXCEPT ![i].tx = tx]
  /\ UNCHANGED <<vars, step, printed, signed, receipt>>

Execute(sender, tx) ==
  \/ tx.input.function = "claim" /\ claimTo(sender, PaidBy(tx, sender))
  \/ tx.input.function = "refund" /\ refundTo(sender, PaidBy(tx, sender))

NoEvent == [name |-> "none"]

(* Claimed, Refunded *)
PayoutEvent(sender, tx) ==
  [name |-> tx.input.function, participant |-> sender,
   recipient |-> PaidBy(tx, sender), amount |-> Payable(tx.input.function, sender)]

Mined(i, status, event) ==
  LET p == mempool[i]
  IN /\ receipt' = [receipt EXCEPT ![p.run] =
          [status |-> status, from |-> p.from, replaced |-> p.tx # signed[p.run],
           mined |-> p.tx, event |-> event]]
     /\ mempool' = SubSeq(mempool, 1, i - 1) \o SubSeq(mempool, i + 1, Len(mempool))
     /\ UNCHANGED <<step, printed, signed>>

Minable(i) ==
  /\ calls = <<>>
  /\ \A j \in 1 .. i - 1 : mempool[j].from # mempool[i].from

(* The payout's call to its recipient is open afterwards. *)
MinePayout(i) ==
  /\ Minable(i)
  /\ Accepted(mempool[i].from, mempool[i].tx)
  /\ Execute(mempool[i].from, mempool[i].tx)
  /\ Mined(i, "success", PayoutEvent(mempool[i].from, mempool[i].tx))

(* Nothing is owed, or the recipient refuses the ETH. *)
MineRevert(i) ==
  /\ Minable(i)
  /\ mempool[i].tx.to = Pool
  /\ Mined(i, "reverted", NoEvent)
  /\ UNCHANGED vars

MineCancellation(i) ==
  /\ Minable(i)
  /\ mempool[i].tx.to # Pool
  /\ Mined(i, "success", NoEvent)
  /\ UNCHANGED vars

-----------------------------------------------------------------------------
(* The receipt *)

ReachedRecipient_Mutant(r) ==
  receipt[r].event.name = printed[r].function /\ receipt[r].event.participant = participant
(* assertPayoutReachedRecipient: one event of the function, for the signer *)
(* and to the recipient printed.  The amount is reported only.             *)
ReachedRecipient(r) ==
  /\ receipt[r].event.name = printed[r].function
  /\ receipt[r].event.participant = participant
  /\ receipt[r].event.recipient = printed[r].recipient

Conclude(r) ==
  /\ Asks(r, "sent") /\ receipt[r] # NotMined
  /\ GoTo(r, IF senderVerified(receipt[r], signed[r], participant) /\ ReachedRecipient(r)
             THEN "paid" ELSE "fatal")
  /\ UNCHANGED <<vars, printed, signed, mempool, receipt>>

-----------------------------------------------------------------------------
(* The system *)

(* The participant's own payouts are the runs' only; it may fund.          *)
Others == Accounts \ {participant}

OthersStep ==
  /\ \/ \E sender \in Others, value \in Amounts : commitAndPredeposit(sender, value)
     \/ \E sender \in Others, ps \in ParticipantLists, ts \in TargetLists :
          openFundingAttempt(sender, ps, ts)
     \/ \E sender \in Accounts, value \in Amounts : fund(sender, value)
     \/ \E value \in Amounts : silentEther(value)
     \/ closeExpiredFundingAttempt
     \/ \E sender \in Others : topUpValidator(sender)
     \/ \E sender \in Others : refundTo(sender, sender)
     \/ \E sender \in Others : claimTo(sender, sender)
     \/ commitReturns
     \/ topUpReturns
     \/ payoutReturns
     \/ Tick
  /\ UNCHANGED commandVars

RunStep(r) ==
  \/ ReadBalance(r)
  \/ Estimate(r)
  \/ SignAndBroadcast(r)
  \/ Conclude(r)

PayoutNext ==
  \/ OthersStep
  \/ \E r \in Runs : RunStep(r)
  \/ \E i \in DOMAIN mempool :
       Replace(i) \/ MinePayout(i) \/ MineRevert(i) \/ MineCancellation(i)

PayoutSpec == PayoutInit /\ [][PayoutNext]_allVars

-----------------------------------------------------------------------------
(* Properties *)

(* A run reports its payout exactly when the transaction it composed was   *)
(* mined as its participant's and paid: a recipient that was substituted,  *)
(* a device that was swapped, a replacement or a cancellation is fatal.    *)
PayoutVerdictsAreRight ==
  \A r \in Runs :
    step[r] \in {"paid", "fatal"} =>
      (step[r] = "paid" <=>
         /\ receipt[r].event # NoEvent
         /\ receipt[r].from = participant
         /\ receipt[r].mined = Composed(r))

(* The amount printed is a promise others cannot break: whatever they      *)
(* claim, refund, close, top up or send between the print and the payout,  *)
(* less is paid only if another run was paid from the same balance.        *)
ShortPayoutsHaveACause ==
  \A r \in Runs :
    step[r] = "paid" /\ receipt[r].event.amount < printed[r].amount =>
      \E q \in Runs \ {r} :
        /\ receipt[q] # NotMined /\ receipt[q].event # NoEvent
        /\ receipt[q].event.name = printed[r].function
        /\ receipt[q].event.participant = participant
=============================================================================
