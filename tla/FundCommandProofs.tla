-------------------------- MODULE FundCommandProofs --------------------------
(***************************************************************************)
(* Whatever everyone else does to the pool between two reads of a run, and *)
(* whatever becomes of the transactions that are signed: what the runs     *)
(* report, what they sign and where the funder's ETH ends up.  Proved for  *)
(* any number of runs, any declarations and any pool.                      *)
(***************************************************************************)
EXTENDS FundCommand, ValidatorFundingPoolProofs

USE DEF lifecycleVars, attemptVars, activeVars, refundVars, creditVars,
        claimVars, validatorVars, callVars, environmentVars

-----------------------------------------------------------------------------
(* The inductive invariant *)

Transactions ==
  [to : Addresses, value : Nat, input : Inputs \cup {"empty"}, envelope : {"plain", "delegating"}]

Pending == [run : Runs, from : Accounts, tx : Transactions]

Signed == {"sent", "funded", "fatal"}
Composed == {"chosen", "estimated"} \cup Signed
Steps == {"start", "reviewing", "refused"} \cup Composed

Reviews == [attempt : Nat, terms : SUBSET Nat]

Shapes ==
  /\ step \in [Runs -> Steps]
  /\ pins \in [Runs -> Pins]
  /\ reviewed \in [Runs -> Reviews]
  /\ payment \in [Runs -> Transactions]
  /\ fieldsRead \in [Runs -> SUBSET Fields]
  /\ mempool \in Seq(Pending)
  /\ DOMAIN receipt = Runs

Mined(r) == receipt[r] # NotMined
Waiting(r) == step[r] = "sent" /\ ~ Mined(r)

(* A pending transaction is that of a run that waits for it, and of no     *)
(* other; if it goes to the pool, with the calldata the run composed.      *)
MempoolIsSound ==
  /\ \A i \in DOMAIN mempool :
       /\ Waiting(mempool[i].run)
       /\ mempool[i].tx.to = Pool => mempool[i].tx.input = payment[mempool[i].run].input
  /\ \A i, j \in DOMAIN mempool : mempool[i].run = mempool[j].run => i = j

CreditedIn(r, n) ==
  /\ MinedAs(r, "ParticipantFunded")
  /\ receipt[r].from = funder
  /\ receipt[r].attempt = n

ReceiptIsSound(r) ==
  Mined(r) =>
    /\ step[r] \in Signed
    /\ receipt[r].mined \in Transactions
    /\ receipt[r].replaced <=> receipt[r].mined # payment[r]
    /\ receipt[r].event # "none" =>
         /\ receipt[r].status = "success"
         /\ receipt[r].mined.input = payment[r].input
    /\ receipt[r].event = "EthReceivedViaCall" => receipt[r].mined.input = "empty"
    /\ receipt[r].attempt \in Nat
    /\ reviewed[r].attempt <= receipt[r].attempt /\ receipt[r].attempt <= fundingAttempt

VerdictIsSound(r) ==
  step[r] \in {"funded", "fatal"} =>
    /\ Mined(r)
    /\ step[r] = "funded" <=> senderVerified(receipt[r], payment[r], funder) /\ WasCredited(r)

(* The reads of a review are of attempts that do not go back, so that one  *)
(* later look at the number settles that all were of one.                  *)
ReviewIsSound(r) ==
  /\ reviewed[r].attempt <= fundingAttempt
  /\ \A n \in reviewed[r].terms : reviewed[r].attempt <= n /\ n <= fundingAttempt
  /\ step[r] = "start" => reviewed[r].terms = {}
  /\ step[r] = "reviewing" => fieldsRead[r] \subseteq ReviewedTerms
  /\ step[r] \in Composed \/ fieldsRead[r] # {} => reviewed[r].terms # {}
  /\ step[r] \in Composed => payment[r].value # 0
  /\ fieldsRead[r] # {} => step[r] \in {"reviewing", "estimated"}
  /\ "attempt" \in fieldsRead[r] \/ step[r] \in Signed =>
       reviewed[r].terms = {reviewed[r].attempt}

(* The reviewed attempt is open, or has topped up. *)
Stands(r) == state \in {"Funding", "ToppedUp"} /\ fundingAttempt = reviewed[r].attempt

(* What a run has read, and no longer reads, holds in the reviewed attempt *)
(* for as long as it stands.                                               *)
HasRead(r, field) == field \in fieldsRead[r] \/ Waiting(r)

TermsStillHold(r) ==
  Stands(r) =>
    \A name \in DOMAIN pins[r] : HasRead(r, name) => Terms[name] \in pins[r][name]

MinedTermsHeld(r) ==
  MinedAs(r, "ParticipantFunded") /\ receipt[r].attempt = reviewed[r].attempt =>
    \A name \in DOMAIN pins[r] : receipt[r].terms[name] \in pins[r][name]

FunderStillOwes(r) ==
  Stands(r) /\ HasRead(r, "remaining") =>
    /\ fundingTargetWeiOf[funder] # 0
    /\ \/ fundingRemainingWeiOf(funder) # 0
       \/ \E q \in Runs \ {r} : CreditedIn(q, reviewed[r].attempt)

DonationHasACause(r) ==
  MinedAs(r, "EthReceivedViaCall") /\ receipt[r].from = funder =>
    \/ receipt[r].attempt > reviewed[r].attempt
    \/ /\ creditedWeiOf[funder] # 0
       /\ \E q \in Runs \ {r} : CreditedIn(q, reviewed[r].attempt)

RunIsSound(r) ==
  /\ ReceiptIsSound(r)
  /\ VerdictIsSound(r)
  /\ ReviewIsSound(r)
  /\ TermsStillHold(r)
  /\ MinedTermsHeld(r)
  /\ FunderStillOwes(r)
  /\ DonationHasACause(r)

(* What the funder was credited for, run by run, is on the pool's books. *)
Credit == [r \in Runs |->
  IF MinedAs(r, "ParticipantFunded") /\ receipt[r].from = funder THEN receipt[r].mined.value ELSE 0]

Held == activeFundedWeiOf[funder] + refundableWeiOf[funder]

CreditsAreHeld == SumOver(Credit, Runs) <= Held

CommandIInv ==
  /\ IInv
  /\ Shapes
  /\ MempoolIsSound
  /\ \A r \in Runs : RunIsSound(r)
  /\ CreditsAreHeld

-----------------------------------------------------------------------------
(* What the pool may do between two steps of a run *)

(* Attempts do not come back; the terms of one do not change while it      *)
(* stands; credits are not taken away.                                     *)
AttemptGoesOn == fundingAttempt' = fundingAttempt /\ state' \in {"Funding", "ToppedUp"}

PoolGoesOn ==
  /\ fundingAttempt <= fundingAttempt'
  /\ AttemptGoesOn =>
       /\ state \in {"Funding", "ToppedUp"}
       /\ fundingDeadline' = fundingDeadline
       /\ fundingTargetWeiOf' = fundingTargetWeiOf
  /\ creditedWeiOf[funder] # 0 => creditedWeiOf'[funder] # 0

FunderIsLeftAlone ==
  /\ Held <= Held'
  /\ AttemptGoesOn => activeFundedWeiOf'[funder] = activeFundedWeiOf[funder]

(* The funder has an account in the ledgers, and the pool has none of its  *)
(* own that signs.                                                         *)
LEMMA FunderFacts ==
  ASSUME TypeOK
  PROVE  /\ funder \in Addresses /\ Held \in Nat
         /\ activeFundedWeiOf[funder] \in Nat /\ refundableWeiOf[funder] \in Nat
BY FunderAssumption DEF Addresses, TypeOK, Held

(* Nobody else's transaction moves what is held for the funder, other than *)
(* from the attempt that closes to what is refundable.                     *)
LEMMA OthersLeaveFunder ==
  ASSUME IInv, OthersStep
  PROVE  /\ IInv' /\ PoolGoesOn /\ FunderIsLeftAlone
         /\ UNCHANGED commandVars
<1>0. /\ TypeOK /\ funder \in Addresses /\ Held \in Nat
      /\ activeFundedWeiOf[funder] \in Nat /\ refundableWeiOf[funder] \in Nat
      /\ Others \subseteq Accounts /\ Others \subseteq Addresses
  BY FunderFacts DEF IInv, Others, Addresses
<1>1. UNCHANGED commandVars
  BY DEF OthersStep
<1>2. IInv'
  BY <1>0, NextKeepsIInv DEF OthersStep, Next, CallReturns
<1> DEFINE goal == PoolGoesOn /\ FunderIsLeftAlone
<1>3. ASSUME NEW sender \in Others, NEW value \in Amounts, commitAndPredeposit(sender, value)
      PROVE goal
  BY <1>0, <1>3 DEF commitAndPredeposit, PoolGoesOn, FunderIsLeftAlone, AttemptGoesOn, Held, TypeOK
<1>4. ASSUME NEW sender \in Others, NEW ps \in ParticipantLists, NEW ts \in TargetLists,
             openFundingAttempt(sender, ps, ts)
      PROVE goal
  BY <1>0, <1>4 DEF openFundingAttempt, PoolGoesOn, FunderIsLeftAlone, AttemptGoesOn, Held, TypeOK
<1>5. ASSUME NEW sender \in Others, NEW value \in Amounts, fund(sender, value)
      PROVE goal
  <2>1. activeFundedWeiOf'[funder] = activeFundedWeiOf[funder]
    BY <1>0, <1>5 DEF fund, creditFunding, TypeOK, Others
  <2>2. UNCHANGED <<lifecycleVars, fundingTargetWeiOf, refundableWeiOf, creditedWeiOf>>
    BY <1>5 DEF fund, creditFunding
  <2>3. QED
    BY <1>0, <2>1, <2>2 DEF PoolGoesOn, FunderIsLeftAlone, AttemptGoesOn, Held, TypeOK
<1>6. ASSUME closeExpiredFundingAttempt PROVE goal
  <2>1. state' = "Predeposited" /\ fundingAttempt' = fundingAttempt /\ creditedWeiOf' = creditedWeiOf
    BY <1>6 DEF closeExpiredFundingAttempt
  <2>2. activeFundedWeiOf'[funder] + refundableWeiOf'[funder] = Held
    BY <1>0, <1>6 DEF closeExpiredFundingAttempt, DeletedFor, RefundableAfterClose, Held
  <2>3. QED
    BY <1>0, <2>1, <2>2 DEF PoolGoesOn, FunderIsLeftAlone, AttemptGoesOn, Held, TypeOK
<1>7. ASSUME NEW sender \in Others, topUpValidator(sender)
      PROVE goal
  <2>1. creditedWeiOf[funder] = 0
    BY <1>0, <1>7, NoWeiFacts DEF topUpValidator, IInv, CreditFacts
  <2>2. QED
    BY <1>0, <1>7, <2>1 DEF topUpValidator, PoolGoesOn, FunderIsLeftAlone, AttemptGoesOn, Held, TypeOK
<1>8. ASSUME commitReturns PROVE goal
  BY <1>0, <1>8 DEF commitReturns, PoolGoesOn, FunderIsLeftAlone, AttemptGoesOn, Held, TypeOK
<1>9. ASSUME topUpReturns PROVE goal
  <2>1. state = "Funding"
    BY <1>0, <1>9, OnlyFrame DEF topUpReturns, IInv, CallDiscipline
  <2>2. QED
    BY <1>0, <1>9, <2>1 DEF topUpReturns, PoolGoesOn, FunderIsLeftAlone, AttemptGoesOn, Held, TypeOK
<1>10. ASSUME Tick PROVE goal
  BY <1>0, <1>10 DEF Tick, PoolGoesOn, FunderIsLeftAlone, AttemptGoesOn, Held, TypeOK
<1>11. QED
  BY <1>1, <1>2, <1>3, <1>4, <1>5, <1>6, <1>7, <1>8, <1>9, <1>10 DEF OthersStep

-----------------------------------------------------------------------------
(* Receipts and runs that a step leaves alone *)

(* Two transactions that agree in the fields the check compares are one. *)
LEMMA SameFields ==
  ASSUME NEW a \in Transactions, NEW b \in Transactions, differingSemanticFields(a, b) = {}
  PROVE  a = b
<1>1. a.to = b.to /\ a.value = b.value /\ a.input = b.input /\ a.envelope = b.envelope
  BY DEF differingSemanticFields, SemanticFields
<1>2. QED
  BY <1>1 DEF Transactions

LeavesRun(r) ==
  /\ pins' = pins
  /\ step'[r] = step[r] /\ reviewed'[r] = reviewed[r] /\ payment'[r] = payment[r]
  /\ fieldsRead'[r] = fieldsRead[r] /\ receipt'[r] = receipt[r]

ReceiptsLast == \A q \in Runs : Mined(q) => receipt'[q] = receipt[q]

(* The funder owes what it owed, or a run of its own paid. *)
FunderPaysByRuns ==
  AttemptGoesOn =>
    \/ activeFundedWeiOf'[funder] = activeFundedWeiOf[funder]
    \/ \E q \in Runs : ~ Mined(q) /\ CreditedIn(q, fundingAttempt)'

(* A receipt that credited a run's attempt goes on doing so.               *)
LEMMA CreditsLast ==
  ASSUME ReceiptsLast, NEW q \in Runs, NEW n, CreditedIn(q, n)
  PROVE  CreditedIn(q, n)'
BY DEF ReceiptsLast, CreditedIn, MinedAs, Mined

(* What a run has established survives the steps of everyone else. *)
LEMMA RunStays ==
  ASSUME TypeOK, TypeOK', Shapes, NEW r \in Runs, RunIsSound(r),
         PoolGoesOn, ReceiptsLast, FunderPaysByRuns, LeavesRun(r)
  PROVE  RunIsSound(r)'
<1>0. /\ fundingAttempt \in Nat /\ fundingAttempt' \in Nat /\ fundingAttempt <= fundingAttempt'
      /\ reviewed[r].attempt \in Nat /\ reviewed[r].terms \subseteq Nat
      /\ creditedWeiOf[funder] # 0 => creditedWeiOf'[funder] # 0
  BY DEF TypeOK, Shapes, PoolGoesOn, Reviews
<1>1. ReceiptIsSound(r)'
  BY <1>0 DEF RunIsSound, ReceiptIsSound, LeavesRun, Mined
<1>2. VerdictIsSound(r)'
  BY DEF RunIsSound, VerdictIsSound, LeavesRun, Mined, WasCredited
<1>3. ReviewIsSound(r)'
  BY <1>0 DEF RunIsSound, ReviewIsSound, LeavesRun
<1>4. ASSUME Stands(r)'
      PROVE  Stands(r) /\ AttemptGoesOn /\ Terms' = Terms /\ fundingTargetWeiOf' = fundingTargetWeiOf
  <2>1. AttemptGoesOn
    BY <1>0, <1>4 DEF Stands, RunIsSound, ReviewIsSound, LeavesRun, AttemptGoesOn
  <2>2. QED
    BY <1>4, <2>1 DEF Stands, AttemptGoesOn, PoolGoesOn, Terms, LeavesRun
<1>5. TermsStillHold(r)'
  BY <1>4 DEF RunIsSound, TermsStillHold, HasRead, Waiting, Mined, LeavesRun
<1>6. MinedTermsHeld(r)'
  BY DEF RunIsSound, MinedTermsHeld, MinedAs, LeavesRun
<1>7. FunderStillOwes(r)'
  <2> SUFFICES ASSUME Stands(r)', HasRead(r, "remaining")'
               PROVE  /\ fundingTargetWeiOf'[funder] # 0
                      /\ \/ fundingRemainingWeiOf(funder)' # 0
                         \/ \E q \in Runs \ {r} : CreditedIn(q, reviewed[r].attempt)'
    BY DEF FunderStillOwes, LeavesRun
  <2>1. Stands(r) /\ HasRead(r, "remaining") /\ fundingTargetWeiOf' = fundingTargetWeiOf /\ AttemptGoesOn
    BY <1>4 DEF HasRead, Waiting, Mined, LeavesRun
  <2>2. /\ fundingTargetWeiOf[funder] # 0
        /\ \/ fundingRemainingWeiOf(funder) # 0
           \/ \E q \in Runs \ {r} : CreditedIn(q, reviewed[r].attempt)
    BY <2>1 DEF RunIsSound, FunderStillOwes
  <2>3. CASE activeFundedWeiOf'[funder] = activeFundedWeiOf[funder]
    <3>1. fundingRemainingWeiOf(funder)' = fundingRemainingWeiOf(funder)
      BY <2>1, <2>3 DEF fundingRemainingWeiOf, RequiredWei
    <3>2. \A q \in Runs : CreditedIn(q, reviewed[r].attempt) => CreditedIn(q, reviewed[r].attempt)'
      BY CreditsLast DEF CreditedIn, LeavesRun
    <3>3. QED
      BY <2>1, <2>2, <3>1, <3>2
  <2>4. CASE \E q \in Runs : ~ Mined(q) /\ CreditedIn(q, fundingAttempt)'
    <3>1. PICK q \in Runs : ~ Mined(q) /\ CreditedIn(q, fundingAttempt)'
      BY <2>4
    <3>2. q # r
      BY <2>1, <3>1 DEF CreditedIn, MinedAs, Mined, LeavesRun
    <3>3. fundingAttempt' = reviewed[r].attempt
      BY <2>1 DEF Stands, AttemptGoesOn
    <3>4. CreditedIn(q, reviewed[r].attempt)'
      BY <3>1, <3>3 DEF CreditedIn, LeavesRun
    <3>5. QED
      BY <2>1, <2>2, <3>2, <3>4 DEF LeavesRun
  <2>5. QED
    BY <2>1, <2>3, <2>4 DEF FunderPaysByRuns
<1>8. DonationHasACause(r)'
  <2>1. \A q \in Runs : \A n \in Nat : CreditedIn(q, n) => CreditedIn(q, n)'
    BY CreditsLast
  <2>2. QED
    BY <1>0, <2>1 DEF RunIsSound, DonationHasACause, MinedAs, LeavesRun, CreditedIn
<1>9. QED
  BY <1>1, <1>2, <1>3, <1>5, <1>6, <1>7, <1>8 DEF RunIsSound

-----------------------------------------------------------------------------
(* The steps of a run *)

(* While a run reads, the pool does nothing. *)
LEMMA QuietPool ==
  ASSUME IInv, UNCHANGED vars, receipt' = receipt
  PROVE  /\ IInv' /\ PoolGoesOn /\ ReceiptsLast /\ FunderPaysByRuns
         /\ Held' = Held
<1>1. IInv'
  BY StutterKeepsIInv
<1>2. TypeOK
  BY DEF IInv
<1>3. QED
  BY <1>1, <1>2 DEF vars, PoolGoesOn, ReceiptsLast, FunderPaysByRuns, AttemptGoesOn, Held, TypeOK

(* A run that has signed nothing has nothing mined. *)
LEMMA UnsignedIsUnmined ==
  ASSUME NEW r \in Runs, RunIsSound(r), step[r] \notin Signed
  PROVE  ~ Mined(r)
BY DEF RunIsSound, ReceiptIsSound

(* What the mempool holds is the transaction of a run that waits.          *)
LEMMA PendingFacts ==
  ASSUME Shapes, MempoolIsSound, NEW i \in DOMAIN mempool
  PROVE  /\ mempool[i] \in Pending
         /\ mempool[i].run \in Runs /\ mempool[i].from \in Accounts
         /\ mempool[i].tx \in Transactions
         /\ Waiting(mempool[i].run)
<1>1. mempool[i] \in Pending
  BY DEF Shapes
<1>2. QED
  BY <1>1 DEF MempoolIsSound, Pending

(* A step of a run that neither signs nor has signed concerns that run. *)
LEMMA RunMoves ==
  ASSUME CommandIInv, NEW r \in Runs, UNCHANGED <<vars, pins, mempool, receipt>>,
         step[r] \notin Signed, step'[r] \notin Signed, Shapes',
         \A q \in Runs \ {r} : LeavesRun(q),
         ReviewIsSound(r)', TermsStillHold(r)', FunderStillOwes(r)'
  PROVE  CommandIInv'
<1>1. /\ IInv' /\ PoolGoesOn /\ ReceiptsLast /\ FunderPaysByRuns /\ Held' = Held
      /\ Shapes /\ MempoolIsSound /\ TypeOK /\ TypeOK' /\ CreditsAreHeld
      /\ \A q \in Runs : RunIsSound(q)
  BY QuietPool DEF CommandIInv, IInv
<1>2. ASSUME NEW q \in Runs PROVE RunIsSound(q)'
  <2>1. CASE q # r
    BY <1>1, <2>1, RunStays
  <2>2. CASE q = r
    <3>1. ~ Mined(r) /\ ~ Mined(r)'
      BY <1>1, UnsignedIsUnmined DEF Mined
    <3>2. QED
      BY <2>2, <3>1 DEF RunIsSound, ReceiptIsSound, VerdictIsSound, MinedTermsHeld,
                        DonationHasACause, MinedAs, Mined, Signed
  <2>3. QED
    BY <2>1, <2>2
<1>3. MempoolIsSound'
  <2> SUFFICES ASSUME NEW i \in DOMAIN mempool
               PROVE  /\ Waiting(mempool[i].run)'
                      /\ mempool[i].tx.to = Pool =>
                           mempool[i].tx.input = payment'[mempool[i].run].input
    BY <1>1 DEF MempoolIsSound
  <2>1. mempool[i].run \in Runs /\ Waiting(mempool[i].run)
    BY <1>1, PendingFacts
  <2>2. mempool[i].run # r
    BY <2>1 DEF Waiting, Signed
  <2>3. QED
    BY <1>1, <2>1, <2>2 DEF MempoolIsSound, LeavesRun, Waiting, Mined
<1>4. CreditsAreHeld'
  <2>1. Credit' = Credit
    BY DEF Credit, MinedAs
  <2>2. QED
    BY <1>1, <2>1 DEF CreditsAreHeld
<1>5. QED
  BY <1>1, <1>2, <1>3, <1>4 DEF CommandIInv

(* An assignment to the entry of one run. *)
LEMMA OneEntry ==
  ASSUME NEW S, NEW f \in [Runs -> S], NEW r \in Runs, NEW v \in S
  PROVE  /\ [f EXCEPT ![r] = v] \in [Runs -> S]
         /\ [f EXCEPT ![r] = v][r] = v
         /\ \A q \in Runs \ {r} : [f EXCEPT ![r] = v][q] = f[q]
OBVIOUS

(* The entries of a run that has not signed or reviewed have their types.  *)
LEMMA NothingIsATransaction == Nothing \in Transactions /\ NotReviewed \in Reviews
BY DEF Nothing, NotReviewed, Reviews, Transactions, Addresses

(* A run that refuses forgets what it reviewed. *)
LEMMA RefuseKeeps ==
  ASSUME CommandIInv, NEW r \in Runs, step[r] \notin Signed,
         Refuse(r), UNCHANGED <<vars, mempool, receipt>>
  PROVE  CommandIInv'
<1>1. Shapes /\ TypeOK /\ TypeOK' /\ RunIsSound(r)
  BY QuietPool DEF CommandIInv, IInv
<1>2. /\ step' = [step EXCEPT ![r] = "refused"]
      /\ reviewed' = [reviewed EXCEPT ![r] = NotReviewed]
      /\ payment' = [payment EXCEPT ![r] = Nothing]
      /\ fieldsRead' = [fieldsRead EXCEPT ![r] = {}]
      /\ pins' = pins
  BY DEF Refuse, GoTo
<1>3. Shapes' /\ step'[r] = "refused" /\ reviewed'[r] = NotReviewed /\ fieldsRead'[r] = {}
      /\ \A q \in Runs \ {r} : LeavesRun(q)
  BY <1>1, <1>2, NothingIsATransaction DEF Shapes, Steps, LeavesRun
<1>4. ReviewIsSound(r)' /\ TermsStillHold(r)' /\ FunderStillOwes(r)'
  BY <1>1, <1>3 DEF ReviewIsSound, TermsStillHold, FunderStillOwes, HasRead, Waiting,
                    NotReviewed, TypeOK, Composed, Signed
<1>5. step'[r] \notin Signed
  BY <1>3 DEF Signed
<1>6. QED
  BY <1>2, <1>3, <1>4, <1>5, RunMoves

(* The number of the attempt is read before its terms.                     *)
LEMMA ReviewAttemptKeeps == ASSUME CommandIInv, NEW r \in Runs, ReviewAttempt(r) PROVE CommandIInv'
<1>1. Shapes /\ TypeOK /\ TypeOK' /\ RunIsSound(r)
  BY QuietPool DEF CommandIInv, IInv, ReviewAttempt
<1>2. /\ step' = [step EXCEPT ![r] = "reviewing"] /\ step[r] = "start"
      /\ reviewed' = [reviewed EXCEPT ![r].attempt = fundingAttempt]
      /\ UNCHANGED <<vars, pins, payment, fieldsRead, mempool, receipt>>
  BY DEF ReviewAttempt, GoTo, Asks
<1>3. /\ Shapes' /\ step'[r] = "reviewing" /\ reviewed'[r].attempt = fundingAttempt
      /\ reviewed'[r].terms = reviewed[r].terms
      /\ fundingAttempt' = fundingAttempt /\ fieldsRead'[r] = fieldsRead[r]
      /\ \A q \in Runs \ {r} : LeavesRun(q)
  <2>1. fundingAttempt \in Nat /\ fundingAttempt' = fundingAttempt
    BY <1>1, <1>2 DEF TypeOK, vars
  <2>2. /\ reviewed' \in [Runs -> Reviews] /\ \A q \in Runs \ {r} : reviewed'[q] = reviewed[q]
        /\ reviewed'[r].attempt = fundingAttempt /\ reviewed'[r].terms = reviewed[r].terms
    BY <1>1, <1>2, <2>1 DEF Shapes, Reviews
  <2>3. QED
    BY <1>1, <1>2, <2>1, <2>2 DEF Shapes, Steps, LeavesRun
<1>4. fieldsRead[r] = {} /\ reviewed[r].terms = {}
  BY <1>1, <1>2 DEF RunIsSound, ReviewIsSound
<1>5. ReviewIsSound(r)' /\ TermsStillHold(r)' /\ FunderStillOwes(r)'
  BY <1>1, <1>3, <1>4 DEF ReviewIsSound, TermsStillHold, FunderStillOwes, HasRead, Waiting,
                    TypeOK, Composed, Signed
<1>6. step[r] \notin Signed /\ step'[r] \notin Signed
  BY <1>2, <1>3 DEF Signed
<1>7. QED
  BY <1>2, <1>3, <1>5, <1>6, RunMoves

(* The terms are read after it, each maybe of a later attempt.             *)
LEMMA ReviewTermKeeps ==
  ASSUME CommandIInv, NEW r \in Runs, NEW name \in ReviewedTerms, ReviewTerm(r, name)
  PROVE  CommandIInv'
<1>1. Shapes /\ TypeOK /\ TypeOK' /\ RunIsSound(r)
  BY QuietPool DEF CommandIInv, IInv, ReviewTerm
<1>2. step[r] = "reviewing" /\ step[r] \notin Signed /\ UNCHANGED <<vars, mempool, receipt>>
  BY DEF ReviewTerm, Asks, Signed
<1>3. CASE Refuse(r)
  BY <1>2, <1>3, RefuseKeeps
<1>4. CASE ~ Refuse(r)
  <2>1. /\ Accepts(r, name, Terms[name])
        /\ reviewed' = [reviewed EXCEPT ![r].terms = @ \cup {fundingAttempt}]
        /\ fieldsRead' = [fieldsRead EXCEPT ![r] = @ \cup {name}]
        /\ UNCHANGED <<step, pins, payment>>
    BY <1>4 DEF ReviewTerm
  <2>2. reviewed[r] \in Reviews /\ fundingAttempt \in Nat /\ name \in Fields
    BY <1>1 DEF Shapes, TypeOK, ReviewedTerms, Fields
  <2>3. /\ reviewed' \in [Runs -> Reviews] /\ \A q \in Runs \ {r} : reviewed'[q] = reviewed[q]
        /\ reviewed'[r].attempt = reviewed[r].attempt
        /\ reviewed'[r].terms = reviewed[r].terms \cup {fundingAttempt}
    BY <1>1, <2>1, <2>2 DEF Shapes, Reviews
  <2>4. /\ Shapes' /\ step'[r] = "reviewing" /\ payment'[r] = payment[r] /\ pins' = pins
        /\ fieldsRead'[r] = fieldsRead[r] \cup {name}
        /\ \A q \in Runs \ {r} : LeavesRun(q)
    BY <1>1, <1>2, <2>1, <2>2, <2>3 DEF Shapes, LeavesRun
  <2>5. fundingAttempt' = fundingAttempt /\ Terms' = Terms /\ (Stands(r)' <=> Stands(r))
    BY <1>2, <2>3 DEF vars, Terms, Stands
  <2>6. /\ fieldsRead[r] \subseteq ReviewedTerms /\ reviewed[r].attempt <= fundingAttempt
        /\ \A n \in reviewed[r].terms : reviewed[r].attempt <= n /\ n <= fundingAttempt
    BY <1>1, <1>2 DEF RunIsSound, ReviewIsSound
  <2>7. "attempt" \notin fieldsRead'[r] /\ "remaining" \notin fieldsRead'[r]
        /\ fieldsRead'[r] \subseteq ReviewedTerms
    BY <2>4, <2>6 DEF ReviewedTerms
  <2>8. ReviewIsSound(r)'
    BY <2>2, <2>3, <2>4, <2>5, <2>6, <2>7 DEF ReviewIsSound, Composed, Signed
  <2>9. TermsStillHold(r)'
    <3> SUFFICES ASSUME Stands(r), NEW declared \in DOMAIN pins[r],
                        declared \in fieldsRead[r] \cup {name}
                 PROVE  Terms[declared] \in pins[r][declared]
      BY <1>2, <2>4, <2>5 DEF TermsStillHold, HasRead, Waiting
    <3>1. CASE declared \in fieldsRead[r]
      BY <1>1, <3>1 DEF RunIsSound, TermsStillHold, HasRead
    <3>2. CASE declared = name
      BY <2>1, <3>2 DEF Accepts
    <3>3. QED
      BY <3>1, <3>2
  <2>10. FunderStillOwes(r)'
    BY <2>4, <2>7 DEF FunderStillOwes, HasRead, Waiting
  <2>11. step'[r] \notin Signed
    BY <2>4 DEF Signed
  <2>12. QED
    BY <1>2, <2>1, <2>4, <2>8, <2>9, <2>10, <2>11, RunMoves
<1>5. QED
  BY <1>3, <1>4

(* The amount is at most what is missing when it is chosen.                *)
LEMMA ChooseAmountKeeps == ASSUME CommandIInv, NEW r \in Runs, ChooseAmount(r) PROVE CommandIInv'
<1>1. Shapes /\ TypeOK /\ TypeOK' /\ RunIsSound(r)
  BY QuietPool DEF CommandIInv, IInv, ChooseAmount
<1>2. step[r] = "reviewing" /\ fieldsRead[r] # {} /\ step[r] \notin Signed /\ UNCHANGED <<vars, mempool, receipt>>
  BY DEF ChooseAmount, Asks, Signed, ReviewedTerms
<1>3. CASE Refuse(r)
  BY <1>2, <1>3, RefuseKeeps
<1>4. ASSUME NEW amount \in 1 .. fundingRemainingWeiOf(funder), NEW input \in Inputs,
             payment' = [payment EXCEPT ![r] = [Nothing EXCEPT !.value = amount, !.input = input]],
             GoTo(r, "chosen"), fieldsRead' = [fieldsRead EXCEPT ![r] = {}],
             UNCHANGED <<pins, reviewed>>
      PROVE  CommandIInv'
  <2>1. /\ [Nothing EXCEPT !.value = amount, !.input = input] \in Transactions
        /\ [Nothing EXCEPT !.value = amount, !.input = input].value = amount
        /\ amount # 0
    <3>1. fundingRemainingWeiOf(funder) \in Int
      <4>1. fundingTargetWeiOf[funder] \in Nat /\ activeFundedWeiOf[funder] \in Nat
        BY <1>1, FunderFacts DEF TypeOK
      <4>2. QED
        BY <4>1, AmountsAssumption DEF fundingRemainingWeiOf, RequiredWei
    <3>2. amount \in Nat /\ amount # 0
      BY <3>1
    <3>3. QED
      BY <3>2 DEF Nothing, Transactions, Addresses
  <2>2. /\ Shapes' /\ step'[r] = "chosen" /\ payment'[r].value # 0
        /\ reviewed'[r] = reviewed[r] /\ fieldsRead'[r] = {}
        /\ fundingAttempt' = fundingAttempt
        /\ \A q \in Runs \ {r} : LeavesRun(q)
    <3>1. /\ payment' \in [Runs -> Transactions] /\ payment'[r].value # 0
          /\ \A q \in Runs \ {r} : payment'[q] = payment[q]
      <4> DEFINE chosen == [Nothing EXCEPT !.value = amount, !.input = input]
      <4>1. chosen \in Transactions /\ chosen.value # 0 /\ payment' = [payment EXCEPT ![r] = chosen]
        BY <1>4, <2>1
      <4> HIDE DEF chosen
      <4>2. QED
        BY <1>1, <4>1, OneEntry DEF Shapes
    <3>2. QED
      BY <1>1, <1>2, <1>4, <3>1 DEF Shapes, Steps, Composed, LeavesRun, GoTo, vars
  <2>3. ReviewIsSound(r)' /\ TermsStillHold(r)' /\ FunderStillOwes(r)'
    BY <1>1, <1>2, <2>2 DEF RunIsSound, ReviewIsSound, TermsStillHold, FunderStillOwes, HasRead,
                            Waiting, Composed, Signed
  <2>4. step'[r] \notin Signed
    BY <2>2 DEF Signed
  <2>5. QED
    BY <1>2, <1>4, <2>2, <2>3, <2>4, RunMoves
<1>5. QED
  BY <1>3, <1>4 DEF ChooseAmount

(* Only a call that would succeed now is signed.                           *)
LEMMA EstimateKeeps == ASSUME CommandIInv, NEW r \in Runs, Estimate(r) PROVE CommandIInv'
<1>1. Shapes /\ TypeOK /\ TypeOK' /\ RunIsSound(r)
  BY QuietPool DEF CommandIInv, IInv, Estimate
<1>2. step[r] = "chosen" /\ step[r] \notin Signed /\ UNCHANGED <<vars, mempool, receipt>>
  BY DEF Estimate, Asks, Signed
<1>3. CASE Refuse(r)
  BY <1>2, <1>3, RefuseKeeps
<1>4. CASE ~ Refuse(r)
  <2>1. GoTo(r, "estimated") /\ UNCHANGED <<pins, reviewed, payment, fieldsRead>>
    BY <1>4 DEF Estimate, reviewVars
  <2>2. /\ Shapes' /\ step'[r] = "estimated" /\ payment'[r] = payment[r]
        /\ reviewed'[r] = reviewed[r] /\ fieldsRead'[r] = fieldsRead[r]
        /\ fundingAttempt' = fundingAttempt
        /\ \A q \in Runs \ {r} : LeavesRun(q)
    BY <1>1, <1>2, <2>1 DEF Shapes, Steps, Composed, LeavesRun, GoTo, vars
  <2>3. ReviewIsSound(r)' /\ TermsStillHold(r)' /\ FunderStillOwes(r)'
    BY <1>1, <1>2, <2>2 DEF RunIsSound, ReviewIsSound, TermsStillHold, FunderStillOwes, HasRead,
                            Waiting, Composed, Signed
  <2>4. step'[r] \notin Signed
    BY <2>2 DEF Signed
  <2>5. QED
    BY <1>2, <2>1, <2>2, <2>3, <2>4, RunMoves
<1>5. QED
  BY <1>3, <1>4

(* A field that is found in order is so in the attempt that stands; and a  *)
(* funder that still owes something has a target.                          *)
LEMMA ReReadFieldKeeps ==
  ASSUME CommandIInv, NEW r \in Runs, NEW field \in Fields, ReReadField(r, field)
  PROVE  CommandIInv'
<1>1. Shapes /\ TypeOK /\ TypeOK' /\ RunIsSound(r)
  BY QuietPool DEF CommandIInv, IInv, ReReadField
<1>2. step[r] = "estimated" /\ step[r] \notin Signed /\ UNCHANGED <<vars, mempool, receipt>>
  BY DEF ReReadField, Asks, Signed
<1>3. CASE Refuse(r)
  BY <1>2, <1>3, RefuseKeeps
<1>4. CASE ~ Refuse(r)
  <2>1. /\ FieldPasses(r, field)
        /\ fieldsRead' = [fieldsRead EXCEPT ![r] = @ \cup {field}]
        /\ UNCHANGED <<step, pins, reviewed, payment>>
    BY <1>4 DEF ReReadField, reviewVars
  <2>2. /\ Shapes' /\ step'[r] = "estimated" /\ payment'[r] = payment[r]
        /\ reviewed'[r] = reviewed[r] /\ fieldsRead'[r] = fieldsRead[r] \cup {field}
        /\ pins' = pins
        /\ \A q \in Runs \ {r} : LeavesRun(q)
    BY <1>1, <1>2, <2>1 DEF Shapes, LeavesRun
  <2>3. /\ fundingAttempt' = fundingAttempt /\ Terms' = Terms
        /\ Stands(r)' <=> Stands(r)
        /\ fundingTargetWeiOf' = fundingTargetWeiOf
        /\ fundingRemainingWeiOf(funder)' = fundingRemainingWeiOf(funder)
    BY <1>2, <2>1 DEF vars, Terms, Stands, fundingRemainingWeiOf, RequiredWei
  <2>4. ReviewIsSound(r)'
    <3>1. field = "attempt" => reviewed[r].terms = {reviewed[r].attempt}
      <4>1. /\ reviewed[r].attempt \in Nat /\ reviewed[r].terms \subseteq Nat
            /\ fundingAttempt \in Nat
        BY <1>1 DEF Shapes, TypeOK, Reviews
      <4>2. /\ reviewed[r].terms # {}
            /\ \A n \in reviewed[r].terms : reviewed[r].attempt <= n /\ n <= fundingAttempt
        BY <1>1, <1>2 DEF RunIsSound, ReviewIsSound, Composed
      <4>3. field = "attempt" => fundingAttempt = reviewed[r].attempt
        BY <2>1 DEF FieldPasses, SameAttempt
      <4>4. QED
        BY <4>1, <4>2, <4>3
    <3>2. QED
      BY <1>1, <1>2, <2>2, <2>3, <3>1 DEF RunIsSound, ReviewIsSound, Composed, Signed
  <2>5. TermsStillHold(r)'
    <3> SUFFICES ASSUME Stands(r), NEW name \in DOMAIN pins[r], name \in fieldsRead[r] \cup {field}
                 PROVE  Terms[name] \in pins[r][name]
      BY <1>2, <2>2, <2>3 DEF TermsStillHold, HasRead, Waiting
    <3>1. CASE name \in fieldsRead[r]
      BY <1>1, <3>1 DEF RunIsSound, TermsStillHold, HasRead
    <3>2. CASE name = field
      <4>1. name \in DOMAIN Terms
        BY <1>1, RunsAssumption DEF Terms, Shapes
      <4>2. QED
        BY <2>1, <3>2, <4>1 DEF FieldPasses, Accepts
    <3>3. QED
      BY <3>1, <3>2
  <2>6. FunderStillOwes(r)'
    <3> SUFFICES ASSUME Stands(r), "remaining" \in fieldsRead[r] \cup {field}
                 PROVE  /\ fundingTargetWeiOf[funder] # 0
                        /\ \/ fundingRemainingWeiOf(funder) # 0
                           \/ \E q \in Runs \ {r} : CreditedIn(q, reviewed[r].attempt)
      BY <1>2, <2>2, <2>3 DEF FunderStillOwes, HasRead, Waiting, CreditedIn, MinedAs
    <3>1. CASE "remaining" \in fieldsRead[r]
      BY <1>1, <3>1 DEF RunIsSound, FunderStillOwes, HasRead
    <3>2. CASE field = "remaining"
      <4>1. payment[r].value <= fundingRemainingWeiOf(funder)
        BY <2>1, <3>2 DEF FieldPasses
      <4>2. payment[r].value \in Nat /\ payment[r].value # 0
        BY <1>1, <1>2 DEF RunIsSound, ReviewIsSound, Composed, Shapes, Transactions
      <4>3. fundingRemainingWeiOf(funder) # 0
        BY <4>1, <4>2
      <4>4. fundingTargetWeiOf[funder] # 0
        BY <1>1, <4>3, FunderFacts DEF fundingRemainingWeiOf, RequiredWei
      <4>5. QED
        BY <4>3, <4>4
    <3>3. QED
      BY <3>1, <3>2
  <2>7. step'[r] \notin Signed
    BY <1>2, <2>2
  <2>8. QED
    BY <1>2, <2>1, <2>2, <2>4, <2>5, <2>6, <2>7, RunMoves
<1>5. QED
  BY <1>3, <1>4

(* A run signs once all it read is in order; it waits for what it signed,  *)
(* and for nothing it signed before.                                       *)
LEMMA SignAndBroadcastKeeps ==
  ASSUME CommandIInv, NEW r \in Runs, SignAndBroadcast(r)
  PROVE  CommandIInv'
<1>1. /\ step[r] = "estimated" /\ fieldsRead[r] = FieldsToRead(r)
      /\ step' = [step EXCEPT ![r] = "sent"]
      /\ fieldsRead' = [fieldsRead EXCEPT ![r] = {}]
      /\ UNCHANGED <<vars, pins, reviewed, payment, receipt>>
  BY DEF SignAndBroadcast, GoTo, reviewVars
<1>2. PICK key \in Keys :
        mempool' = Append(mempool, [run |-> r, from |-> key, tx |-> payment[r]])
  BY DEF SignAndBroadcast
<1>3. /\ IInv' /\ PoolGoesOn /\ ReceiptsLast /\ FunderPaysByRuns /\ Held' = Held
      /\ Shapes /\ MempoolIsSound /\ TypeOK /\ TypeOK' /\ CreditsAreHeld
      /\ \A q \in Runs : RunIsSound(q)
  BY <1>1, QuietPool DEF CommandIInv, IInv
<1> DEFINE p == [run |-> r, from |-> key, tx |-> payment[r]]
<1>4. p \in Pending /\ p.run = r /\ p.tx = payment[r]
  BY <1>3, FunderAssumption DEF Shapes, Pending
<1> HIDE DEF p
<1>5. /\ mempool' \in Seq(Pending)
      /\ DOMAIN mempool' = DOMAIN mempool \cup {Len(mempool) + 1}
      /\ \A i \in DOMAIN mempool : mempool'[i] = mempool[i]
      /\ mempool'[Len(mempool) + 1] = p
      /\ Len(mempool) + 1 \notin DOMAIN mempool
  <2>1. mempool \in Seq(Pending) /\ mempool' = Append(mempool, p)
    BY <1>2, <1>3 DEF Shapes, p
  <2>2. QED
    BY <1>4, <2>1, Appended
<1>6. Shapes' /\ step'[r] = "sent" /\ fieldsRead'[r] = {} /\ pins' = pins /\ reviewed' = reviewed
      /\ payment' = payment /\ \A q \in Runs \ {r} : LeavesRun(q)
  BY <1>1, <1>3, <1>5 DEF Shapes, Steps, Composed, Signed, LeavesRun
<1>7. ~ Mined(r) /\ receipt' = receipt
  BY <1>1, <1>3, UnsignedIsUnmined DEF Signed
<1>8. MempoolIsSound'
  <2> DEFINE waits(q) == step'[q] = "sent" /\ receipt[q] = NotMined
  <2>1. \A i \in DOMAIN mempool : waits(mempool[i].run) /\ mempool[i].run # r
    <3> SUFFICES ASSUME NEW i \in DOMAIN mempool
                 PROVE  waits(mempool[i].run) /\ mempool[i].run # r
      OBVIOUS
    <3>1. mempool[i].run \in Runs /\ Waiting(mempool[i].run)
      BY <1>3, PendingFacts
    <3>2. mempool[i].run # r
      BY <1>1, <3>1 DEF Waiting
    <3>3. QED
      BY <1>6, <3>1, <3>2 DEF Waiting, Mined, LeavesRun
  <2>2. waits(r)
    BY <1>6, <1>7 DEF Mined
  <2>3. \A i \in DOMAIN mempool' :
          /\ waits(mempool'[i].run)
          /\ mempool'[i].tx.to = Pool => mempool'[i].tx.input = payment[mempool'[i].run].input
    <3>1. \A i \in DOMAIN mempool :
            mempool[i].tx.to = Pool => mempool[i].tx.input = payment[mempool[i].run].input
      BY <1>3 DEF MempoolIsSound
    <3> HIDE DEF waits
    <3>2. QED
      BY <1>4, <1>5, <2>1, <2>2, <3>1
  <2>4. \A i, j \in DOMAIN mempool' : mempool'[i].run = mempool'[j].run => i = j
    BY <1>3, <1>4, <1>5, <2>1 DEF MempoolIsSound
  <2>5. QED
    BY <1>6, <1>7, <2>3, <2>4 DEF MempoolIsSound, Waiting, Mined
<1>9. RunIsSound(r)'
  <2>1. RunIsSound(r) /\ reviewed[r].terms = {reviewed[r].attempt}
    BY <1>1, <1>3 DEF RunIsSound, ReviewIsSound, FieldsToRead
  <2>2. fundingAttempt' = fundingAttempt /\ Terms' = Terms /\ (Stands(r)' <=> Stands(r))
        /\ fundingTargetWeiOf' = fundingTargetWeiOf
        /\ fundingRemainingWeiOf(funder)' = fundingRemainingWeiOf(funder)
    BY <1>1 DEF vars, Terms, Stands, fundingRemainingWeiOf, RequiredWei
  <2>3. ReviewIsSound(r)'
    BY <1>1, <1>6, <2>1, <2>2 DEF RunIsSound, ReviewIsSound, Composed, Signed
  <2>4. TermsStillHold(r)'
    <3>1. \A name \in DOMAIN pins[r] : name \in fieldsRead[r]
      <4>1. pins[r] \in Pins
        BY <1>3 DEF Shapes
      <4>2. QED
        BY <1>1, <4>1, RunsAssumption DEF FieldsToRead
    <3>2. QED
      BY <1>6, <2>1, <2>2, <3>1 DEF RunIsSound, TermsStillHold, HasRead
  <2>5. FunderStillOwes(r)'
    <3>1. "remaining" \in fieldsRead[r]
      BY <1>1 DEF FieldsToRead
    <3>2. QED
      BY <1>6, <1>7, <2>1, <2>2, <3>1
         DEF RunIsSound, FunderStillOwes, HasRead, CreditedIn, MinedAs
  <2>6. QED
    BY <1>6, <1>7, <2>3, <2>4, <2>5
       DEF RunIsSound, ReceiptIsSound, VerdictIsSound, MinedTermsHeld, DonationHasACause, MinedAs, Mined
<1>10. \A q \in Runs : RunIsSound(q)'
  BY <1>3, <1>6, <1>9, RunStays
<1>11. CreditsAreHeld'
  BY <1>3, <1>7 DEF CreditsAreHeld, Credit, MinedAs
<1>12. QED
  BY <1>3, <1>6, <1>8, <1>10, <1>11 DEF CommandIInv

(* A run that concludes has a receipt, and nothing pending. *)
LEMMA ConcludeKeeps == ASSUME CommandIInv, NEW r \in Runs, Conclude(r) PROVE CommandIInv'
<1> DEFINE verdict == IF senderVerified(receipt[r], payment[r], funder) /\ WasCredited(r)
                      THEN "funded" ELSE "fatal"
<1>1. /\ step[r] = "sent" /\ Mined(r) /\ step' = [step EXCEPT ![r] = verdict]
      /\ UNCHANGED <<vars, pins, reviewed, payment, fieldsRead, mempool, receipt>>
  BY DEF Conclude, GoTo, reviewVars, Mined
<1>2. /\ IInv' /\ PoolGoesOn /\ ReceiptsLast /\ FunderPaysByRuns /\ Held' = Held
      /\ Shapes /\ MempoolIsSound /\ TypeOK /\ TypeOK' /\ CreditsAreHeld
      /\ \A q \in Runs : RunIsSound(q)
  BY <1>1, QuietPool DEF CommandIInv, IInv
<1>3. Shapes' /\ step'[r] = verdict /\ \A q \in Runs \ {r} : LeavesRun(q)
  BY <1>1, <1>2 DEF Shapes, Steps, Composed, Signed, LeavesRun
<1>4. MempoolIsSound'
  <2> SUFFICES ASSUME NEW i \in DOMAIN mempool PROVE Waiting(mempool[i].run)'
    BY <1>1, <1>2 DEF MempoolIsSound
  <2>1. mempool[i].run \in Runs /\ Waiting(mempool[i].run)
    BY <1>2, PendingFacts
  <2>2. QED
    BY <1>1, <1>3, <2>1 DEF Waiting, Mined, LeavesRun
<1>5. RunIsSound(r)'
  <2>1. RunIsSound(r) /\ fieldsRead'[r] = {} /\ fundingAttempt' = fundingAttempt
        /\ creditedWeiOf' = creditedWeiOf
    BY <1>1, <1>2 DEF RunIsSound, ReviewIsSound, vars
  <2>2. ReceiptIsSound(r)'
    BY <1>1, <1>3, <2>1 DEF RunIsSound, ReceiptIsSound, Mined, Signed
  <2>3. VerdictIsSound(r)'
    BY <1>1, <1>3 DEF VerdictIsSound, Mined, WasCredited
  <2>4. ReviewIsSound(r)'
    BY <1>1, <1>3, <2>1 DEF RunIsSound, ReviewIsSound, Composed, Signed
  <2>5. TermsStillHold(r)' /\ FunderStillOwes(r)'
    BY <1>1, <1>3, <2>1 DEF TermsStillHold, FunderStillOwes, HasRead, Waiting
  <2>6. MinedTermsHeld(r)'
    BY <1>1, <2>1 DEF RunIsSound, MinedTermsHeld, MinedAs
  <2>7. DonationHasACause(r)'
    BY <1>1, <2>1 DEF RunIsSound, DonationHasACause, MinedAs, CreditedIn
  <2>8. QED
    BY <2>2, <2>3, <2>4, <2>5, <2>6, <2>7 DEF RunIsSound
<1>6. \A q \in Runs : RunIsSound(q)'
  BY <1>2, <1>3, <1>5, RunStays
<1>7. CreditsAreHeld'
  BY <1>1, <1>2 DEF CreditsAreHeld, Credit, MinedAs
<1>8. QED
  BY <1>2, <1>3, <1>4, <1>6, <1>7 DEF CommandIInv

-----------------------------------------------------------------------------
(* The pending transactions *)

(* Whatever replaces a transaction carries its calldata or leaves the pool *)
(* alone.                                                                  *)
LEMMA ReplacementFacts ==
  ASSUME NEW p \in Pending, NEW tx \in Replacements(p)
  PROVE  tx \in Transactions /\ (tx.to = Pool => tx.input = p.tx.input)
<1>1. /\ p.from \in Addresses /\ p.from # Pool /\ p.tx \in Transactions
      /\ p.tx = [to |-> p.tx.to, value |-> p.tx.value, input |-> p.tx.input, envelope |-> p.tx.envelope]
  BY AddressesAssumption DEF Pending, Addresses, Transactions
<1>2. \/ tx = [p.tx EXCEPT !.to = p.from, !.value = 0, !.input = "empty"]
      \/ tx = [p.tx EXCEPT !.value = IF @ = 1 THEN 2 ELSE 1]
      \/ tx = [p.tx EXCEPT !.envelope = "delegating"]
  BY DEF Replacements
<1>3. CASE tx = [p.tx EXCEPT !.to = p.from, !.value = 0, !.input = "empty"]
  BY <1>1, <1>3 DEF Transactions
<1>4. CASE tx = [p.tx EXCEPT !.value = IF @ = 1 THEN 2 ELSE 1]
  BY <1>1, <1>4 DEF Transactions
<1>5. CASE tx = [p.tx EXCEPT !.envelope = "delegating"]
  BY <1>1, <1>5 DEF Transactions
<1>6. QED
  BY <1>2, <1>3, <1>4, <1>5

(* A replacement takes the place of a pending transaction at its nonce.    *)
LEMMA ReplaceKeeps == ASSUME CommandIInv, NEW i \in DOMAIN mempool, Replace(i) PROVE CommandIInv'
<1>1. /\ mempool[i].tx = payment[mempool[i].run]
      /\ UNCHANGED <<vars, step, pins, reviewed, payment, fieldsRead, receipt>>
  BY DEF Replace, reviewVars
<1>2. PICK tx \in Replacements(mempool[i]) : mempool' = [mempool EXCEPT ![i].tx = tx]
  BY DEF Replace
<1>3. /\ IInv' /\ PoolGoesOn /\ ReceiptsLast /\ FunderPaysByRuns /\ Held' = Held
      /\ Shapes /\ MempoolIsSound /\ TypeOK /\ TypeOK' /\ CreditsAreHeld
      /\ \A q \in Runs : RunIsSound(q)
  BY <1>1, QuietPool DEF CommandIInv, IInv
<1>4. mempool[i] \in Pending /\ tx \in Transactions /\ (tx.to = Pool => tx.input = mempool[i].tx.input)
  BY <1>3, PendingFacts, ReplacementFacts
<1>5. /\ mempool' \in Seq(Pending) /\ DOMAIN mempool' = DOMAIN mempool
      /\ mempool'[i].run = mempool[i].run /\ mempool'[i].tx = tx
      /\ \A j \in DOMAIN mempool \ {i} : mempool'[j] = mempool[j]
  <2> DEFINE p == [mempool[i] EXCEPT !.tx = tx]
  <2>1. p \in Pending /\ p.run = mempool[i].run /\ p.tx = tx
    BY <1>4 DEF Pending
  <2>2. mempool' = [mempool EXCEPT ![i] = p]
    BY <1>2
  <2> HIDE DEF p
  <2>3. mempool \in Seq(Pending)
    BY <1>3 DEF Shapes
  <2>4. QED
    BY <2>1, <2>2, <2>3
<1>6. Shapes' /\ \A q \in Runs : LeavesRun(q)
  BY <1>1, <1>3, <1>5 DEF Shapes, LeavesRun
<1>7. MempoolIsSound'
  <2>1. \A j \in DOMAIN mempool' :
          /\ mempool'[j].run = mempool[j].run
          /\ mempool'[j].tx.to = Pool => mempool'[j].tx.input = payment[mempool[j].run].input
    BY <1>1, <1>3, <1>4, <1>5 DEF MempoolIsSound
  <2>2. QED
    BY <1>1, <1>3, <1>5, <2>1 DEF MempoolIsSound, Waiting, Mined
<1>8. \A q \in Runs : RunIsSound(q)'
  BY <1>3, <1>6, RunStays
<1>9. CreditsAreHeld'
  BY <1>1, <1>3 DEF CreditsAreHeld, Credit, MinedAs
<1>10. QED
  BY <1>3, <1>6, <1>7, <1>8, <1>9 DEF CommandIInv

(* What was credited is an amount. *)
LEMMA CreditType ==
  ASSUME \A q \in Runs : ReceiptIsSound(q), NEW q \in Runs
  PROVE  Credit[q] \in Nat
<1>1. MinedAs(q, "ParticipantFunded") => receipt[q].mined \in Transactions
  BY DEF ReceiptIsSound, MinedAs, Mined
<1>2. QED
  BY <1>1 DEF Credit, Transactions

(* What the pool does with a transaction that is mined: only a funding of  *)
(* the funder moves what is held for it, and by its value.                 *)
LEMMA ExecuteFacts ==
  ASSUME IInv, NEW from \in Accounts, NEW tx \in Transactions, Execute(from, tx)
  PROVE  /\ IInv' /\ PoolGoesOn
         /\ fundingAttempt' = fundingAttempt /\ creditedWeiOf' = creditedWeiOf
         /\ IF Event(from, tx) = "ParticipantFunded" /\ from = funder
            THEN Held' = Held + tx.value
            ELSE Held' = Held /\ activeFundedWeiOf'[funder] = activeFundedWeiOf[funder]
<1>0. /\ TypeOK /\ funder \in Addresses /\ Held \in Nat /\ tx.value \in Nat
      /\ activeFundedWeiOf \in [Addresses -> Nat] /\ refundableWeiOf[funder] \in Nat
      /\ fundingAttempt \in Nat /\ from \in Addresses
  BY FunderFacts DEF IInv, TypeOK, Transactions, Addresses
<1>1. CASE AcceptedAsFunding(from, tx)
  <2>1. creditFunding(from, tx.value) /\ Event(from, tx) = "ParticipantFunded"
    BY <1>1 DEF Execute, Event
  <2>2. IInv'
    BY <1>0, <2>1, CreditFundingKeepsIInv
  <2>3. /\ UNCHANGED <<lifecycleVars, fundingTargetWeiOf, refundableWeiOf, creditedWeiOf>>
        /\ activeFundedWeiOf' = [activeFundedWeiOf EXCEPT ![from] = @ + tx.value]
    BY <2>1 DEF creditFunding
  <2>4. PoolGoesOn
    BY <1>0, <2>3 DEF PoolGoesOn, AttemptGoesOn
  <2>5. activeFundedWeiOf'[funder] =
          IF from = funder THEN activeFundedWeiOf[funder] + tx.value ELSE activeFundedWeiOf[funder]
    BY <1>0, <2>3
  <2>6. QED
    BY <1>0, <2>1, <2>2, <2>3, <2>4, <2>5 DEF Held
<1>2. CASE ~ AcceptedAsFunding(from, tx) /\ AcceptedAsProceeds(tx)
  <2>1. EtherIn(tx.value) /\ Event(from, tx) = "EthReceivedViaCall"
    BY <1>2 DEF Execute, Event
  <2>2. IInv'
    BY <1>0, <2>1, EtherInKeepsIInv
  <2>3. UNCHANGED <<lifecycleVars, fundingTargetWeiOf, activeFundedWeiOf, refundableWeiOf, creditedWeiOf>>
    BY <2>1 DEF EtherIn
  <2>4. QED
    BY <1>0, <2>1, <2>2, <2>3 DEF PoolGoesOn, AttemptGoesOn, Held
<1>3. CASE ~ AcceptedAsFunding(from, tx) /\ ~ AcceptedAsProceeds(tx)
  <2>1. UNCHANGED vars /\ Event(from, tx) = "none"
    BY <1>3 DEF Execute, Event
  <2>2. IInv'
    BY <2>1, StutterKeepsIInv
  <2>3. QED
    BY <1>0, <2>1, <2>2 DEF vars, PoolGoesOn, AttemptGoesOn, Held
<1>4. QED
  BY <1>1, <1>2, <1>3

(* A transfer that the pool takes as proceeds in the attempt that was      *)
(* reviewed was paid for before, by another run.                           *)
LEMMA DonatedInReviewedAttempt ==
  ASSUME IInv, NEW r \in Runs, RunIsSound(r), Waiting(r), state = "ToppedUp",
         fundingAttempt = reviewed[r].attempt
  PROVE  /\ creditedWeiOf[funder] # 0
         /\ \E q \in Runs \ {r} : CreditedIn(q, reviewed[r].attempt)
<1>1. Stands(r) /\ HasRead(r, "remaining")
  BY DEF Stands, HasRead
<1>2. /\ fundingTargetWeiOf[funder] # 0
      /\ \/ fundingRemainingWeiOf(funder) # 0
         \/ \E q \in Runs \ {r} : CreditedIn(q, reviewed[r].attempt)
  BY <1>1 DEF RunIsSound, FunderStillOwes
<1>3. topUpSubmitted
  BY DEF IInv, CallDiscipline
<1>4. /\ creditedWeiOf[funder] = fundingTargetWeiOf[funder]
      /\ activeFundedWeiOf[funder] = RequiredWei(funder)
      /\ activeFundedWeiOf[funder] \in Nat
  BY <1>3, FunderFacts DEF IInv, CreditFacts
<1>5. fundingRemainingWeiOf(funder) = 0
  BY <1>4 DEF fundingRemainingWeiOf
<1>6. QED
  BY <1>2, <1>4, <1>5

(* Mining gives a run its receipt, and the pool what the transaction       *)
(* carries.                                                                *)
LEMMA MineKeeps == ASSUME CommandIInv, NEW i \in DOMAIN mempool, Mine(i) PROVE CommandIInv'
<1>p. PICK p : p = mempool[i]
  OBVIOUS
<1> DEFINE r == p.run
<1>e. PICK event : event = Event(p.from, p.tx)
  OBVIOUS
<1>m. PICK mined : mined =
                    [status |-> IF event = "none" /\ p.tx.to = Pool THEN "reverted" ELSE "success",
                     from |-> p.from, replaced |-> p.tx # payment[r], mined |-> p.tx,
                     event |-> event, attempt |-> fundingAttempt,
                     terms |-> [name \in DOMAIN pins[r] |-> Terms[name]]]
  OBVIOUS
<1>1. /\ Execute(p.from, p.tx)
      /\ receipt' = [receipt EXCEPT ![r] = mined]
      /\ mempool' = Without(mempool, i)
      /\ UNCHANGED <<step, pins, reviewed, payment, fieldsRead>>
  BY <1>p, <1>e, <1>m DEF Mine, Without, reviewVars
<1>2. /\ IInv /\ TypeOK /\ Shapes /\ MempoolIsSound /\ CreditsAreHeld
      /\ \A q \in Runs : RunIsSound(q)
  BY DEF CommandIInv, IInv
<1>3. /\ p \in Pending /\ r \in Runs /\ p.from \in Accounts /\ p.tx \in Transactions /\ Waiting(r)
      /\ p.tx.to = Pool => p.tx.input = payment[r].input
  BY <1>p, <1>2, PendingFacts DEF MempoolIsSound
<1>4. /\ IInv' /\ TypeOK' /\ PoolGoesOn
      /\ fundingAttempt' = fundingAttempt /\ creditedWeiOf' = creditedWeiOf
      /\ IF event = "ParticipantFunded" /\ p.from = funder
         THEN Held' = Held + p.tx.value
         ELSE Held' = Held /\ activeFundedWeiOf'[funder] = activeFundedWeiOf[funder]
  BY <1>e, <1>1, <1>2, <1>3, ExecuteFacts DEF IInv
<1>5. /\ event \in {"ParticipantFunded", "EthReceivedViaCall", "none"}
      /\ event # "none" => p.tx.to = Pool
      /\ event = "ParticipantFunded" => state = "Funding"
      /\ event = "EthReceivedViaCall" => state = "ToppedUp" /\ p.tx.input = "empty"
  BY <1>e DEF Event, AcceptedAsFunding, AcceptedAsProceeds, CanFund
<1>6. /\ receipt'[r] = mined /\ DOMAIN receipt' = Runs
      /\ \A q \in Runs \ {r} : receipt'[q] = receipt[q]
  BY <1>1, <1>2, <1>3 DEF Shapes
<1>7. /\ mined.from = p.from /\ mined.mined = p.tx /\ mined.event = event
      /\ mined.status = (IF event = "none" /\ p.tx.to = Pool THEN "reverted" ELSE "success")
      /\ mined.replaced = (p.tx # payment[r]) /\ mined.attempt = fundingAttempt
      /\ \A name \in DOMAIN pins[r] : mined.terms[name] = Terms[name]
      /\ mined # NotMined
  <2>1. mined.status # NotMined.status
    BY <1>m DEF NotMined
  <2>2. QED
    BY <1>m, <2>1
<1>8. Mined(r)' /\ ~ Mined(r) /\ step[r] = "sent" /\ step'[r] = "sent" /\ ReceiptsLast
  BY <1>1, <1>3, <1>6, <1>7 DEF Mined, Waiting, ReceiptsLast
<1>9. FunderPaysByRuns
  <2>1. CASE event = "ParticipantFunded" /\ p.from = funder
    <3>1. CreditedIn(r, fundingAttempt)'
      BY <1>4, <1>6, <1>7, <1>8, <2>1 DEF CreditedIn, MinedAs, Mined
    <3>2. QED
      BY <1>3, <1>8, <3>1 DEF FunderPaysByRuns
  <2>2. CASE ~ (event = "ParticipantFunded" /\ p.from = funder)
    BY <1>4, <2>2 DEF FunderPaysByRuns
  <2>3. QED
    BY <2>1, <2>2
<1>10. RunIsSound(r)'
  <2>1. RunIsSound(r) /\ fieldsRead'[r] = {} /\ ~ Waiting(r)'
    BY <1>1, <1>2, <1>3, <1>8 DEF RunIsSound, ReviewIsSound, Waiting
  <2>2. ReceiptIsSound(r)'
    <3>1. fundingAttempt \in Nat /\ reviewed[r].attempt <= fundingAttempt
      BY <1>2, <2>1 DEF RunIsSound, ReviewIsSound, TypeOK
    <3>2. event # "none" => mined.status = "success" /\ p.tx.input = payment[r].input
      BY <1>3, <1>5, <1>7
    <3>3. fundingAttempt <= fundingAttempt
      BY <3>1
    <3>4. QED
      BY <1>1, <1>3, <1>4, <1>5, <1>6, <1>7, <1>8, <3>1, <3>2, <3>3 DEF ReceiptIsSound, Signed
  <2>3. VerdictIsSound(r)'
    BY <1>8 DEF VerdictIsSound
  <2>4. ReviewIsSound(r)'
    BY <1>1, <1>4, <2>1 DEF RunIsSound, ReviewIsSound
  <2>5. TermsStillHold(r)' /\ FunderStillOwes(r)'
    BY <2>1 DEF TermsStillHold, FunderStillOwes, HasRead
  <2>6. MinedTermsHeld(r)'
    <3> SUFFICES ASSUME event = "ParticipantFunded", fundingAttempt = reviewed[r].attempt,
                        NEW name \in DOMAIN pins[r]
                 PROVE  Terms[name] \in pins[r][name]
      BY <1>1, <1>6, <1>7 DEF MinedTermsHeld, MinedAs
    <3>1. Stands(r)
      BY <1>5 DEF Stands
    <3>2. QED
      BY <1>3, <2>1, <3>1 DEF RunIsSound, TermsStillHold, HasRead
  <2>7. DonationHasACause(r)'
    <3> SUFFICES ASSUME event = "EthReceivedViaCall", ~ (fundingAttempt > reviewed[r].attempt)
                 PROVE  /\ creditedWeiOf[funder] # 0
                        /\ \E q \in Runs \ {r} : CreditedIn(q, reviewed[r].attempt)'
      BY <1>1, <1>4, <1>6, <1>7 DEF DonationHasACause, MinedAs
    <3>1. fundingAttempt = reviewed[r].attempt
      <4>1. fundingAttempt \in Nat /\ reviewed[r].attempt \in Nat
        BY <1>2, <1>3 DEF TypeOK, Shapes, Reviews
      <4>2. QED
        BY <2>1, <4>1 DEF RunIsSound, ReviewIsSound
    <3>2. /\ creditedWeiOf[funder] # 0
          /\ \E q \in Runs \ {r} : CreditedIn(q, reviewed[r].attempt)
      BY <1>2, <1>3, <1>5, <2>1, <3>1, DonatedInReviewedAttempt
    <3>3. \A q \in Runs : CreditedIn(q, reviewed[r].attempt) => CreditedIn(q, reviewed[r].attempt)'
      BY <1>1, <1>8, CreditsLast
    <3>4. QED
      BY <3>2, <3>3
  <2>8. QED
    BY <2>2, <2>3, <2>4, <2>5, <2>6, <2>7 DEF RunIsSound
<1>11. \A q \in Runs : RunIsSound(q)'
  <2>1. \A q \in Runs \ {r} : LeavesRun(q)
    BY <1>1, <1>6 DEF LeavesRun
  <2>2. QED
    BY <1>2, <1>4, <1>8, <1>9, <1>10, <2>1, RunStays
<1>12. /\ mempool' \in Seq(Pending)
       /\ \A j \in DOMAIN mempool' :
            \E k \in DOMAIN mempool : k = (IF j < i THEN j ELSE j + 1) /\ mempool'[j] = mempool[k]
       /\ \A j \in DOMAIN mempool' : j \in Int
       /\ i \in Int
  <2>1. mempool \in Seq(Pending) /\ i \in Int
    BY <1>2 DEF Shapes
  <2>2. QED
    BY <1>1, <2>1, Removed
<1>13. MempoolIsSound'
  <2>1. ASSUME NEW j \in DOMAIN mempool'
        PROVE  /\ step'[mempool'[j].run] = "sent" /\ receipt'[mempool'[j].run] = NotMined
               /\ mempool'[j].tx.to = Pool => mempool'[j].tx.input = payment'[mempool'[j].run].input
    <3>1. PICK k \in DOMAIN mempool : k # i /\ mempool'[j] = mempool[k]
      BY <1>12, <2>1
    <3>2. mempool[k].run \in Runs /\ mempool[k].run # r /\ Waiting(mempool[k].run)
      BY <1>p, <1>2, <3>1, PendingFacts DEF MempoolIsSound
    <3>3. mempool[k].tx.to = Pool => mempool[k].tx.input = payment[mempool[k].run].input
      BY <1>2 DEF MempoolIsSound
    <3>4. QED
      BY <1>1, <1>6, <3>1, <3>2, <3>3 DEF Waiting, Mined
  <2>2. ASSUME NEW j \in DOMAIN mempool', NEW l \in DOMAIN mempool', mempool'[j].run = mempool'[l].run
        PROVE  j = l
    <3>1. PICK k \in DOMAIN mempool : k = (IF j < i THEN j ELSE j + 1) /\ mempool'[j] = mempool[k]
      BY <1>12, <2>2
    <3>2. PICK n \in DOMAIN mempool : n = (IF l < i THEN l ELSE l + 1) /\ mempool'[l] = mempool[n]
      BY <1>12, <2>2
    <3>3. k = n
      BY <1>2, <2>2, <3>1, <3>2 DEF MempoolIsSound
    <3>4. QED
      BY <1>12, <2>2, <3>1, <3>2, <3>3
  <2>3. QED
    BY <2>1, <2>2 DEF MempoolIsSound, Waiting, Mined
<1>14. CreditsAreHeld'
  <2>1. PICK before, after : before = Credit /\ after = Credit'
    OBVIOUS
  <2>2. /\ before[r] = 0
        /\ after[r] = IF event = "ParticipantFunded" /\ p.from = funder THEN p.tx.value ELSE 0
        /\ \A q \in Runs \ {r} : after[q] = before[q]
    BY <1>3, <1>6, <1>7, <1>8, <2>1 DEF Credit, MinedAs, Mined
  <2>3. \A q \in Runs : before[q] \in Nat /\ after[q] \in Nat
    <3>1. \A q \in Runs : ReceiptIsSound(q)
      BY <1>2 DEF RunIsSound
    <3>2. \A q \in Runs : before[q] \in Nat
      BY <2>1, <3>1, CreditType
    <3>3. QED
      BY <1>3, <2>2, <3>2 DEF Transactions
  <2>4. SumOver(after, Runs) = SumOver(before, Runs) - before[r] + after[r]
    <3>1. IsFiniteSet(Runs) /\ r \in Runs
      BY <1>3, RunsAssumption
    <3> HIDE DEF r
    <3>2. QED
      BY <2>2, <2>3, <3>1, SumUpdate
  <2>5. SumOver(before, Runs) \in Nat /\ Held \in Nat
    BY <1>2, <2>3, SumType, RunsAssumption, FunderFacts
  <2>6. SumOver(before, Runs) <= Held
    BY <1>2, <2>1 DEF CreditsAreHeld
  <2>7. SumOver(after, Runs) <= Held'
    BY <1>3, <1>4, <2>2, <2>4, <2>5, <2>6 DEF Transactions
  <2>8. QED
    BY <2>1, <2>7 DEF CreditsAreHeld
<1>15. Shapes'
  BY <1>1, <1>2, <1>6, <1>12 DEF Shapes
<1>16. QED
  BY <1>4, <1>11, <1>13, <1>14, <1>15 DEF CommandIInv

-----------------------------------------------------------------------------
(* The inductive invariant is one *)

(* Other accounts change the pool, and no run.                             *)
LEMMA OthersKeep == ASSUME CommandIInv, OthersStep PROVE CommandIInv'
<1>1. /\ IInv' /\ PoolGoesOn /\ FunderIsLeftAlone /\ UNCHANGED commandVars
      /\ TypeOK /\ TypeOK'
  BY OthersLeaveFunder DEF CommandIInv, IInv
<1>2. UNCHANGED <<step, pins, reviewed, payment, fieldsRead, mempool, receipt>>
  BY <1>1 DEF commandVars, reviewVars
<1>3. /\ Shapes' /\ MempoolIsSound' /\ ReceiptsLast /\ FunderPaysByRuns
      /\ \A q \in Runs : LeavesRun(q)
  BY <1>1, <1>2 DEF CommandIInv, Shapes, MempoolIsSound, Waiting, Mined, ReceiptsLast,
                    FunderPaysByRuns, FunderIsLeftAlone, LeavesRun
<1>4. \A q \in Runs : RunIsSound(q)'
  BY <1>1, <1>3, RunStays DEF CommandIInv
<1>5. CreditsAreHeld'
  <2>1. Credit' = Credit
    BY <1>2 DEF Credit, MinedAs
  <2>2. SumOver(Credit, Runs) \in Nat /\ Held \in Nat /\ Held' \in Nat
    <3>1. \A q \in Runs : Credit[q] \in Nat
      BY CreditType DEF CommandIInv, RunIsSound
    <3>2. Held \in Nat /\ Held' \in Nat
      <4>1. funder \in Addresses /\ refundableWeiOf[funder] \in Nat /\ activeFundedWeiOf[funder] \in Nat
            /\ Held \in Nat
        BY <1>1, FunderFacts
      <4>2. activeFundedWeiOf' \in [Addresses -> Nat] /\ refundableWeiOf' \in [Addresses -> Nat]
        BY <1>1 DEF TypeOK
      <4>3. Held' \in Nat
        BY <4>1, <4>2 DEF Held
      <4>4. QED
        BY <4>1, <4>3
    <3>3. QED
      BY <3>1, <3>2, SumType, RunsAssumption
  <2>3. QED
    BY <1>1, <2>1, <2>2 DEF CommandIInv, CreditsAreHeld, FunderIsLeftAlone
<1>6. QED
  BY <1>1, <1>3, <1>4, <1>5 DEF CommandIInv

(* No run has started at first.                                            *)
LEMMA CommandInitEstablishes == CommandInit => CommandIInv
<1> SUFFICES ASSUME CommandInit PROVE CommandIInv
  OBVIOUS
<1>1. IInv /\ TypeOK
  BY InitEstablishesIInv DEF CommandInit, IInv
<1>2. Shapes
  BY NothingIsATransaction DEF CommandInit, Shapes, Steps, Fields
<1>3. MempoolIsSound
  BY DEF CommandInit, MempoolIsSound
<1>4. ASSUME NEW r \in Runs PROVE RunIsSound(r)
  <2>1. ~ Mined(r) /\ step[r] = "start" /\ fieldsRead[r] = {}
        /\ reviewed[r].attempt = 0 /\ reviewed[r].terms = {}
    BY DEF CommandInit, Mined, NotReviewed
  <2>2. 0 <= fundingAttempt
    BY <1>1 DEF TypeOK
  <2>3. QED
    BY <2>1, <2>2 DEF RunIsSound, ReceiptIsSound, VerdictIsSound, ReviewIsSound, TermsStillHold,
                      MinedTermsHeld, FunderStillOwes, DonationHasACause, MinedAs, Mined, HasRead,
                      Waiting, Composed, Signed
<1>5. CreditsAreHeld
  <2>1. \A r \in Runs : Credit[r] = 0
    BY DEF CommandInit, Credit, MinedAs
  <2>2. SumOver(Credit, Runs) = 0
    BY <2>1, SumZero
  <2>3. QED
    BY <1>1, <2>2, FunderFacts DEF CreditsAreHeld
<1>6. QED
  BY <1>1, <1>2, <1>3, <1>4, <1>5 DEF CommandIInv

(* Every step of the pool, the mempool and the runs keeps the invariant.   *)
LEMMA CommandNextKeeps == CommandIInv /\ [CommandNext]_allVars => CommandIInv'
<1> SUFFICES ASSUME CommandIInv, [CommandNext]_allVars PROVE CommandIInv'
  OBVIOUS
<1>1. ASSUME NEW r \in Runs, RunStep(r) PROVE CommandIInv'
  BY <1>1, ReviewAttemptKeeps, ReviewTermKeeps, ChooseAmountKeeps, EstimateKeeps, ReReadFieldKeeps,
     SignAndBroadcastKeeps, ConcludeKeeps DEF RunStep
<1>2. ASSUME NEW i \in DOMAIN mempool, Replace(i) \/ Mine(i) PROVE CommandIInv'
  BY <1>2, ReplaceKeeps, MineKeeps
<1>3. CASE UNCHANGED allVars
  <2>1. /\ UNCHANGED <<vars, step, pins, reviewed, payment, fieldsRead, mempool, receipt>>
    BY <1>3 DEF allVars, commandVars, reviewVars
  <2>2. /\ IInv' /\ PoolGoesOn /\ ReceiptsLast /\ FunderPaysByRuns /\ Held' = Held
        /\ TypeOK /\ TypeOK'
    BY <2>1, QuietPool DEF CommandIInv, IInv
  <2>3. Shapes' /\ MempoolIsSound' /\ CreditsAreHeld' /\ \A q \in Runs : LeavesRun(q)
    BY <2>1, <2>2 DEF CommandIInv, Shapes, MempoolIsSound, Waiting, Mined, CreditsAreHeld, Credit,
                      MinedAs, LeavesRun
  <2>4. QED
    BY <2>2, <2>3, RunStays DEF CommandIInv
<1>4. QED
  BY <1>1, <1>2, <1>3, OthersKeep DEF CommandNext

(* It holds in every reachable state of the pool and the runs. *)
THEOREM CommandInvariantHolds == CommandSpec => []CommandIInv
BY CommandInitEstablishes, CommandNextKeeps, PTL DEF CommandSpec

-----------------------------------------------------------------------------
(* What follows *)

(* A run reports success exactly when the transaction it composed was      *)
(* mined, for its signer, and credited: whatever was replaced, delayed or  *)
(* signed by another device.                                               *)
THEOREM FundVerdictsAreRight == CommandSpec => []VerdictsAreRight
<1>1. CommandIInv => VerdictsAreRight
  <2> SUFFICES ASSUME CommandIInv, NEW r \in Runs, step[r] \in {"funded", "fatal"}
               PROVE  step[r] = "funded" <=>
                        /\ MinedAs(r, "ParticipantFunded")
                        /\ receipt[r].from = funder
                        /\ receipt[r].mined = payment[r]
    BY DEF VerdictsAreRight
  <2>1. ReceiptIsSound(r) /\ VerdictIsSound(r) /\ payment[r] \in Transactions
    BY DEF CommandIInv, RunIsSound, Shapes
  <2>2. Mined(r) /\ receipt[r].mined \in Transactions
    BY <2>1 DEF ReceiptIsSound, VerdictIsSound
  <2>3. ASSUME senderVerified(receipt[r], payment[r], funder)
        PROVE  receipt[r].mined = payment[r]
    <3>1. CASE receipt[r].replaced
      BY <2>1, <2>2, <2>3, <3>1, SameFields
         DEF senderVerified, acceptableReplacement, differingSemanticFields
    <3>2. CASE ~ receipt[r].replaced
      BY <2>1, <2>2, <3>2 DEF ReceiptIsSound
    <3>3. QED
      BY <3>1, <3>2
  <2>4. QED
    BY <2>1, <2>2, <2>3 DEF ReceiptIsSound, VerdictIsSound, WasCredited, MinedAs, Mined, senderVerified
<1>2. QED
  BY <1>1, CommandInvariantHolds, PTL

(* What the successful runs say they paid, together, the pool holds for    *)
(* the funder, in the open attempt or to be refunded.                      *)
THEOREM ReportedIsHeld == CommandSpec => []ReportedFundingIsHeld
<1>1. CommandIInv /\ VerdictsAreRight => ReportedFundingIsHeld
  <2> SUFFICES ASSUME CommandIInv, VerdictsAreRight PROVE ReportedFundingIsHeld
    OBVIOUS
  <2> DEFINE reported == [r \in Runs |-> IF step[r] = "funded" THEN payment[r].value ELSE 0]
  <2>1. ASSUME NEW r \in Runs
        PROVE  reported[r] \in Nat /\ Credit[r] \in Nat /\ reported[r] <= Credit[r]
    <3>1. Credit[r] \in Nat
      BY CreditType DEF CommandIInv, RunIsSound
    <3>2. payment[r].value \in Nat
      BY DEF CommandIInv, Shapes, Transactions
    <3>3. step[r] = "funded" => Credit[r] = payment[r].value
      BY DEF VerdictsAreRight, Credit
    <3>4. QED
      BY <3>1, <3>2, <3>3
  <2> HIDE DEF reported
  <2>2. SumOver(reported, Runs) <= SumOver(Credit, Runs)
    BY <2>1, SumMonotone, RunsAssumption
  <2>3. /\ SumOver(reported, Runs) \in Nat /\ SumOver(Credit, Runs) \in Nat /\ Held \in Nat
        /\ SumOver(Credit, Runs) <= Held
    BY <2>1, SumType, RunsAssumption, FunderFacts DEF CommandIInv, IInv, CreditsAreHeld
  <2>4. SumOver(reported, Runs) <= Held
    BY <2>2, <2>3
  <2>5. QED
    BY <2>4 DEF ReportedFundingIsHeld, reported, Held
<1>2. QED
  BY <1>1, CommandInvariantHolds, FundVerdictsAreRight, PTL

(* A transfer of the funder ends as proceeds only if a later attempt       *)
(* topped up, or if another run of the same signer was credited in the     *)
(* reviewed one.                                                           *)
THEOREM DonationsAreExplained == CommandSpec => []DonationsHaveTwoCauses
<1>1. CommandIInv => DonationsHaveTwoCauses
  <2> SUFFICES ASSUME CommandIInv, NEW r \in Runs,
                      MinedAs(r, "EthReceivedViaCall"), receipt[r].from = funder
               PROVE  /\ payment[r].input = "empty"
                      /\ \/ receipt[r].attempt > reviewed[r].attempt
                         \/ /\ creditedWeiOf[funder] # 0
                            /\ \E q \in Runs \ {r} :
                                 /\ MinedAs(q, "ParticipantFunded")
                                 /\ receipt[q].from = funder
                                 /\ receipt[q].attempt = reviewed[r].attempt
    BY DEF DonationsHaveTwoCauses
  <2>1. RunIsSound(r)
    BY DEF CommandIInv
  <2>2. payment[r].input = "empty"
    BY <2>1 DEF RunIsSound, ReceiptIsSound, MinedAs, Mined
  <2>3. QED
    BY <2>1, <2>2 DEF RunIsSound, DonationHasACause, CreditedIn
<1>2. QED
  BY <1>1, CommandInvariantHolds, PTL

(* The number and the terms of a signed review are of one attempt.         *)
THEOREM ReviewsAreOfOneAttempt == CommandSpec => []SignedReviewIsOfOneAttempt
<1>1. CommandIInv => SignedReviewIsOfOneAttempt
  BY DEF CommandIInv, RunIsSound, ReviewIsSound, SignedReviewIsOfOneAttempt, Signed
<1>2. QED
  BY <1>1, CommandInvariantHolds, PTL

(* What is funded in the reviewed attempt is of the terms that the         *)
(* EXPECTED_* variables of the run accept.                                 *)
THEOREM DeclaredTermsBind == CommandSpec => []DeclaredTermsAreFunded
<1>1. CommandIInv /\ VerdictsAreRight => DeclaredTermsAreFunded
  BY DEF CommandIInv, RunIsSound, MinedTermsHeld, VerdictsAreRight, DeclaredTermsAreFunded
<1>2. QED
  BY <1>1, CommandInvariantHolds, FundVerdictsAreRight, PTL

=============================================================================
