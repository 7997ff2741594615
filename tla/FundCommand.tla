---------------------------- MODULE FundCommand ----------------------------
(***************************************************************************)
(* scripts/fund.ts running beside the pool: one or more runs of the        *)
(* command for the same signer, the transactions they sign, and everyone   *)
(* else's transactions in between.                                         *)
(*                                                                         *)
(* A run reads the chain, from an honest endpoint, only between two        *)
(* transactions; every read is a step of its own, and the reads of the     *)
(* last re-read come in any order.  A pending transaction waits as long as *)
(* it likes, may be replaced at its nonce, and is mined after the earlier  *)
(* ones of its sender.                                                     *)
(***************************************************************************)
EXTENDS ValidatorFundingPool, SenderVerifiedReceipt

CONSTANTS
  Runs,    \* runs of the command
  funder,  \* the account the runs sign for
  Keys,    \* the accounts of the devices that may be connected
  Inputs,  \* "empty" for a plain transfer, "fund()" for calldata
  Pins     \* what the EXPECTED_* variables of a run may accept

ASSUME FunderAssumption == funder \in Accounts /\ Keys \subseteq Accounts
ASSUME RunsAssumption ==
  /\ IsFiniteSet(Runs)
  /\ \A pin \in Pins : DOMAIN pin \subseteq {"attempt", "deadline", "target", "operatorTarget"}

VARIABLES
  step,      \* of each run: how far it is
  pins,      \* the EXPECTED_* variables of its environment
  reviewed,  \* the attempt its review printed, and those its terms were read in
  payment,   \* the transaction it composes
  fieldsRead, \* what its review, or its last re-read, has found in order
  mempool,   \* the pending transactions, as signed or replaced
  receipt    \* of each run: what was mined at the nonce it used

reviewVars == <<pins, reviewed, payment>>
commandVars == <<step, reviewVars, fieldsRead, mempool, receipt>>
allVars == <<vars, commandVars>>

Fields == {"state", "attempt", "remaining", "deadline", "target", "operatorTarget"}
NotReviewed == [attempt |-> 0, terms |-> {}]
Nothing == [to |-> Pool, value |-> 0, input |-> "empty", envelope |-> "plain"]
NotMined == [status |-> "none"]

CommandInit ==
  /\ Init
  /\ step = [r \in Runs |-> "start"]
  /\ pins \in [Runs -> Pins]
  /\ reviewed = [r \in Runs |-> NotReviewed]
  /\ payment = [r \in Runs |-> Nothing]
  /\ fieldsRead = [r \in Runs |-> {}]
  /\ mempool = <<>>
  /\ receipt = [r \in Runs |-> NotMined]

GoTo(r, next) == step' = [step EXCEPT ![r] = next]

(* The process exits with nothing sent. *)
Refuse(r) ==
  /\ GoTo(r, "refused")
  /\ reviewed' = [reviewed EXCEPT ![r] = NotReviewed]
  /\ payment' = [payment EXCEPT ![r] = Nothing]
  /\ fieldsRead' = [fieldsRead EXCEPT ![r] = {}]
  /\ UNCHANGED pins

-----------------------------------------------------------------------------
(* One run, up to the signature *)

(* A step at which the run asks the endpoint something. *)
Asks(r, at) == step[r] = at /\ calls = <<>>

Terms ==
  [attempt |-> fundingAttempt, deadline |-> fundingDeadline,
   target |-> fundingTargetWeiOf[funder], operatorTarget |-> fundingTargetWeiOf[operator]]

Accepts_Mutant(r, name, value) ==
  name \in DOMAIN pins[r] \ {"operatorTarget"} => value \in pins[r][name]
(* assertFundingPins, one variable: unset, it accepts anything. *)
Accepts(r, name, value) == name \in DOMAIN pins[r] => value \in pins[r][name]

(* printAndCheckFundingReview: the number of the attempt, then its         *)
(* deadline, then the targets as the participants are listed, which an     *)
(* attempt in between may reorder.  The variables are compared at the end; *)
(* a value that will be refused is refused at once.                        *)
ReviewedTerms == {"deadline", "target", "operatorTarget"}

ReviewAttempt(r) ==
  /\ Asks(r, "start")
  /\ reviewed' = [reviewed EXCEPT ![r].attempt = fundingAttempt]
  /\ GoTo(r, "reviewing")
  /\ UNCHANGED <<vars, pins, payment, fieldsRead, mempool, receipt>>

ReviewTerm(r, name) ==
  /\ Asks(r, "reviewing")
  /\ name \in ReviewedTerms \ fieldsRead[r]
  /\ name # "deadline" => "deadline" \in fieldsRead[r]
  /\ IF Accepts(r, "attempt", reviewed[r].attempt) /\ Accepts(r, name, Terms[name])
     THEN /\ reviewed' = [reviewed EXCEPT ![r].terms = @ \cup {fundingAttempt}]
          /\ fieldsRead' = [fieldsRead EXCEPT ![r] = @ \cup {name}]
          /\ UNCHANGED <<step, pins, payment>>
     ELSE Refuse(r)
  /\ UNCHANGED <<vars, mempool, receipt>>

(* The cap, and AMOUNT_WEI, FUND_VIA_TRANSFER. *)
ChooseAmount(r) ==
  /\ Asks(r, "reviewing") /\ fieldsRead[r] = ReviewedTerms
  /\ \/ fundingRemainingWeiOf(funder) = 0 /\ Refuse(r)
     \/ \E amount \in 1 .. fundingRemainingWeiOf(funder), input \in Inputs :
          /\ payment' = [payment EXCEPT ![r] = [Nothing EXCEPT !.value = amount, !.input = input]]
          /\ GoTo(r, "chosen")
          /\ fieldsRead' = [fieldsRead EXCEPT ![r] = {}]
          /\ UNCHANGED <<pins, reviewed>>
  /\ UNCHANGED <<vars, mempool, receipt>>

(* What the pool does with a payment of sender. *)
AcceptedAsFunding(sender, tx) == tx.to = Pool /\ CanFund(sender, tx.value)
AcceptedAsProceeds(tx) ==
  tx.to = Pool /\ tx.input = "empty" /\ state = "ToppedUp"

(* resolveTransactionFields: a call that would revert now is not signed. *)
Estimate(r) ==
  /\ Asks(r, "chosen")
  /\ IF AcceptedAsFunding(funder, payment[r]) \/ AcceptedAsProceeds(payment[r])
     THEN GoTo(r, "estimated") /\ UNCHANGED <<reviewVars, fieldsRead>>
     ELSE Refuse(r)
  /\ UNCHANGED <<vars, mempool, receipt>>

SameAttempt_Mutant(r) == TRUE
SameAttempt(r) == fundingAttempt = reviewed[r].attempt

(* assertStillFundable.  A value that will be refused is refused at once:  *)
(* nothing the other reads return can save the run.  The deadline and the  *)
(* timestamp it is compared with are two reads; if they pass, they pass at *)
(* a moment between the two, and the model reads both then.                *)
FieldPasses(r, field) ==
  /\ field = "state" => state = "Funding"
  /\ field = "attempt" => SameAttempt(r)
  /\ field = "remaining" => payment[r].value <= fundingRemainingWeiOf(funder)
  /\ field = "deadline" => now < fundingDeadline
  /\ field \in DOMAIN Terms => Accepts(r, field, Terms[field])

(* The targets decide nothing unless they are pinned. *)
FieldsToRead(r) ==
  {"state", "attempt", "remaining", "deadline"}
    \cup ({"target", "operatorTarget"} \cap DOMAIN pins[r])

ReReadField(r, field) ==
  /\ Asks(r, "estimated")
  /\ field \in FieldsToRead(r) \ fieldsRead[r]
  /\ field = "operatorTarget" => FieldsToRead(r) = fieldsRead[r] \cup {field}
  /\ IF FieldPasses(r, field)
     THEN /\ fieldsRead' = [fieldsRead EXCEPT ![r] = @ \cup {field}]
          /\ UNCHANGED <<step, reviewVars>>
     ELSE Refuse(r)
  /\ UNCHANGED <<vars, mempool, receipt>>

(* The signature is the funder's, or that of the device that is connected. *)
SignAndBroadcast(r) ==
  /\ step[r] = "estimated" /\ fieldsRead[r] = FieldsToRead(r)
  /\ \E key \in Keys :
       mempool' = Append(mempool, [run |-> r, from |-> key, tx |-> payment[r]])
  /\ GoTo(r, "sent")
  /\ fieldsRead' = [fieldsRead EXCEPT ![r] = {}]
  /\ UNCHANGED <<vars, reviewVars, receipt>>

-----------------------------------------------------------------------------
(* The pending transactions *)

(* What the owner of the key may send at the same nonce, beside the same   *)
(* transaction repriced: a cancellation, another amount, or the payment in *)
(* an envelope that also delegates the account.                            *)
Replacements(p) ==
  {[p.tx EXCEPT !.to = p.from, !.value = 0, !.input = "empty"],
   [p.tx EXCEPT !.value = IF @ = 1 THEN 2 ELSE 1],
   [p.tx EXCEPT !.envelope = "delegating"]}

Replace(i) ==
  /\ mempool[i].tx = payment[mempool[i].run]
  /\ \E tx \in Replacements(mempool[i]) :
       mempool' = [mempool EXCEPT ![i].tx = tx]
  /\ UNCHANGED <<vars, step, reviewVars, fieldsRead, receipt>>

FirstOfItsSender(i) == \A j \in 1 .. i - 1 : mempool[j].from # mempool[i].from

(* The pool's code runs on the transaction; the receipt says what came of  *)
(* it, and in which attempt.                                               *)
Execute(from, tx) ==
  IF AcceptedAsFunding(from, tx) THEN creditFunding(from, tx.value)
  ELSE IF AcceptedAsProceeds(tx) THEN EtherIn(tx.value)
  ELSE UNCHANGED vars

Event(from, tx) ==
  IF AcceptedAsFunding(from, tx) THEN "ParticipantFunded"
  ELSE IF AcceptedAsProceeds(tx) THEN "EthReceivedViaCall"
  ELSE "none"

Mine(i) ==
  LET p == mempool[i]
      event == Event(p.from, p.tx)
  IN /\ calls = <<>>
     /\ FirstOfItsSender(i)
     /\ Execute(p.from, p.tx)
     /\ receipt' = [receipt EXCEPT ![p.run] =
          [status |-> IF event = "none" /\ p.tx.to = Pool THEN "reverted" ELSE "success",
           from |-> p.from, replaced |-> p.tx # payment[p.run], mined |-> p.tx,
           event |-> event, attempt |-> fundingAttempt,
           terms |-> [name \in DOMAIN pins[p.run] |-> Terms[name]]]]
     /\ mempool' = SubSeq(mempool, 1, i - 1) \o SubSeq(mempool, i + 1, Len(mempool))
     /\ UNCHANGED <<step, reviewVars, fieldsRead>>

-----------------------------------------------------------------------------
(* The receipt *)

(* A run that gives up waiting is one that takes no further step; its      *)
(* transaction stays pending.                                              *)
WasCredited_Mutant(r) == receipt[r].event # "none"
(* assertFundingWasCredited: one ParticipantFunded, for the signer, of the *)
(* amount.  The event's attempt is not looked at.                          *)
WasCredited(r) ==
  /\ receipt[r].event = "ParticipantFunded"
  /\ receipt[r].from = funder
  /\ receipt[r].mined.value = payment[r].value

Conclude(r) ==
  /\ step[r] = "sent" /\ receipt[r] # NotMined
  /\ GoTo(r, IF senderVerified(receipt[r], payment[r], funder) /\ WasCredited(r)
             THEN "funded" ELSE "fatal")
  /\ UNCHANGED <<vars, reviewVars, fieldsRead, mempool, receipt>>

-----------------------------------------------------------------------------
(* The system *)

(* Everyone else.  The funder's own transactions are the runs' only.       *)
(* Refunds, claims and exit requests change nothing a run reads and are    *)
(* left out.                                                               *)
Others == Accounts \ {funder}

OthersStep ==
  /\ \/ \E sender \in Others, value \in Amounts : commitAndPredeposit(sender, value)
     \/ \E sender \in Others, ps \in ParticipantLists, ts \in TargetLists :
          openFundingAttempt(sender, ps, ts)
     \/ \E sender \in Others, value \in Amounts : fund(sender, value)
     \/ closeExpiredFundingAttempt
     \/ \E sender \in Others : topUpValidator(sender)
     \/ commitReturns
     \/ topUpReturns
     \/ Tick
  /\ UNCHANGED commandVars

RunStep(r) ==
  \/ ReviewAttempt(r)
  \/ \E name \in ReviewedTerms : ReviewTerm(r, name)
  \/ ChooseAmount(r)
  \/ Estimate(r)
  \/ \E field \in Fields : ReReadField(r, field)
  \/ SignAndBroadcast(r)
  \/ Conclude(r)

CommandNext ==
  \/ OthersStep
  \/ \E r \in Runs : RunStep(r)
  \/ \E i \in DOMAIN mempool : Replace(i) \/ Mine(i)

CommandSpec == CommandInit /\ [][CommandNext]_allVars

-----------------------------------------------------------------------------
(* Properties *)

MinedAs(r, event) == receipt[r] # NotMined /\ receipt[r].event = event

(* A verdict is right, whatever was replaced, delayed or signed by another *)
(* device: a run reports success exactly when the transaction it composed  *)
(* was mined, for its signer, and credited.                                *)
VerdictsAreRight ==
  \A r \in Runs :
    step[r] \in {"funded", "fatal"} =>
      (step[r] = "funded" <=>
         /\ MinedAs(r, "ParticipantFunded")
         /\ receipt[r].from = funder
         /\ receipt[r].mined = payment[r])

(* Reported funding is on the pool's books: what the successful runs say   *)
(* they paid, together, the pool holds for the funder.                     *)
ReportedFundingIsHeld ==
  SumOver([r \in Runs |-> IF step[r] = "funded" THEN payment[r].value ELSE 0], Runs)
    <= activeFundedWeiOf[funder] + refundableWeiOf[funder]

(* Two ways in, with an honest endpoint: a transfer the funder signed ends *)
(* as proceeds only if an attempt later than the reviewed one topped up,   *)
(* or if another run of the same signer was credited in the reviewed one,  *)
(* and then the funder is credited and recovers its share.                 *)
DonationsHaveTwoCauses ==
  \A r \in Runs :
    MinedAs(r, "EthReceivedViaCall") /\ receipt[r].from = funder =>
      /\ payment[r].input = "empty"
      /\ \/ receipt[r].attempt > reviewed[r].attempt
         \/ /\ creditedWeiOf[funder] # 0
            /\ \E q \in Runs \ {r} :
                 /\ MinedAs(q, "ParticipantFunded")
                 /\ receipt[q].from = funder
                 /\ receipt[q].attempt = reviewed[r].attempt

(* What a run printed for review is one attempt, though the number and     *)
(* each of the terms are read apart and attempts come and go: if they are  *)
(* not all of one attempt, nothing is signed.                              *)
SignedReviewIsOfOneAttempt ==
  \A r \in Runs :
    step[r] \in {"sent", "funded", "fatal"} => reviewed[r].terms = {reviewed[r].attempt}

(* The declared terms bind: what was funded in the attempt that was        *)
(* reviewed is of the targets and the deadline the EXPECTED_* variables    *)
(* accept, whatever an earlier attempt had.                                *)
DeclaredTermsAreFunded ==
  \A r \in Runs :
    step[r] = "funded" /\ receipt[r].attempt = reviewed[r].attempt =>
      \A name \in DOMAIN pins[r] : receipt[r].terms[name] \in pins[r][name]

(* SECURITY.md: the funding attempt that was reviewed is the funding       *)
(* attempt that is funded.                                                 *)
FundedIsTheReviewedAttempt ==
  \A r \in Runs : step[r] = "funded" => receipt[r].attempt = reviewed[r].attempt
=============================================================================
