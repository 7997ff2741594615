------------------------ MODULE OperatorCommandsProofs ------------------------
(***************************************************************************)
(* However many runs of the operator's commands overlap, with whatever     *)
(* files, nodes, devices and declarations, and whatever replaces what they *)
(* signed: what they report, what they commit and who signs.               *)
(***************************************************************************)
EXTENDS OperatorCommands, ValidatorFundingPoolProofs

USE DEF lifecycleVars, attemptVars, activeVars, refundVars, creditVars,
        claimVars, validatorVars, callVars, environmentVars

-----------------------------------------------------------------------------
(* The inductive invariant *)

Functions == {"commit", "open", "close", "topUp"}
Signed == {"sent", "done", "fatal"}
Planned == {"composed", "estimated"} \cup Signed
Steps == {"start", "connected", "refused", "wrongSigner", "funding"} \cup Planned

(* A transaction has its four fields, and an opening is of lists the       *)
(* operator may call with.                                                 *)
IsTransaction(tx) ==
  /\ tx = [to |-> tx.to, value |-> tx.value, envelope |-> tx.envelope, input |-> tx.input]
  /\ tx.input.function = "open" =>
       tx.input.participants \in ParticipantLists /\ tx.input.targets \in TargetLists

HasReceipt(r) == receipt[r] # NotMined
Waiting(r) == step[r] = "sent" /\ ~ HasReceipt(r)

Shapes ==
  /\ step \in [Runs -> Steps]
  /\ DOMAIN connection = Runs /\ DOMAIN plan = Runs /\ DOMAIN receipt = Runs
  /\ \E S : mempool \in Seq(S)

(* The pool is given its data once, and the root of the top-up is checked  *)
(* against those.                                                          *)
CommitmentIsKnown ==
  /\ ~ predepositSubmitted => committed = NothingCommitted
  /\ predepositSubmitted => topUpRootValid = TopUpAccepted(committed)

MempoolIsSound ==
  /\ \A i \in DOMAIN mempool :
       /\ mempool[i].run \in Runs /\ Waiting(mempool[i].run)
       /\ mempool[i] = [run |-> mempool[i].run, from |-> mempool[i].from, tx |-> mempool[i].tx]
       /\ IsTransaction(mempool[i].tx)
  /\ \A i, j \in DOMAIN mempool : mempool[i].run = mempool[j].run => i = j

(* What a run that chose its signer is connected to. *)
Usable(c) == c \in Connections /\ CanConfigure(c) /\ PinnedChainAnswers(c)

ConnectionIsSound(r) ==
  /\ connection[r] # Disconnected => Usable(connection[r])
  /\ step[r] \in {"connected", "composed", "wrongSigner", "funding"} => Usable(connection[r])
  /\ step[r] \in {"composed", "funding"} =>
       /\ connection[r].chainId = chain.chainId
       /\ plan[r].signer \in DeclaredSigners(connection[r])
  /\ step[r] = "wrongSigner" /\ connection[r].network = "ledger" =>
       DeclaredSigners(connection[r]) = {}

(* Valid under the chain's fork version, if that is the one declared.      *)
PredepositIsValid(data, declared) ==
  declared = chain.forkVersion =>
    verifyDepositSignature(data.pubkey, withdrawalCredentials, PREDEPOSIT_WEI,
                           data.signature, chain.forkVersion)

TopUpIsValid(data, declared) ==
  declared = chain.forkVersion =>
    verifyDepositSignature(data.pubkey, withdrawalCredentials, TOP_UP_WEI,
                           data.topUpSignature, chain.forkVersion)

(* A composed commit is sound whatever happens; a composed top-up is for   *)
(* the validator that is committed, and stays.                             *)
TransactionIsSound(tx, declared) ==
  /\ IsTransaction(tx) /\ tx.to = Pool
  /\ tx.input.function \in Functions
  /\ tx.input.function = "commit" =>
       /\ TopUpAccepted(tx.input)
       /\ Agrees(declared.pubkey, tx.input.pubkey)
       /\ PredepositIsValid(tx.input, declared.forkVersion)
  /\ tx.input.function = "topUp" => predepositSubmitted /\ committed.pubkey = declared

CommittedIsSound(declared) ==
  /\ predepositSubmitted /\ TopUpAccepted(committed)
  /\ PredepositIsValid(committed, declared)
  /\ TopUpIsValid(committed, declared)

PlanIsSound(r) ==
  /\ step[r] \in Planned => TransactionIsSound(plan[r].tx, plan[r].declared)
  /\ step[r] = "funding" => CommittedIsSound(plan[r].declared)

Made(r, function) ==
  /\ HasReceipt(r)
  /\ receipt[r].status = "success" /\ receipt[r].mined.to = Pool
  /\ receipt[r].mined.input.function = function

(* What the pool looks like once a call was made. *)
ReceiptIsSound(r) ==
  /\ HasReceipt(r) =>
       /\ step[r] \in Signed
       /\ IsTransaction(receipt[r].mined)
       /\ receipt[r].replaced <=> receipt[r].mined # plan[r].tx
       /\ receipt[r].attempt \in Nat /\ receipt[r].attempt <= fundingAttempt
  /\ Made(r, "commit") => predepositSubmitted /\ committed = receipt[r].mined.input
  /\ Made(r, "topUp") => topUpSubmitted
  /\ Made(r, "close") /\ receipt[r].attempt = fundingAttempt => state = "Predeposited"

VerdictIsSound(r) ==
  step[r] \in {"done", "fatal"} =>
    /\ HasReceipt(r)
    /\ step[r] = "done" <=> senderVerified(receipt[r], plan[r].tx, plan[r].signer)

RunIsSound(r) ==
  /\ ConnectionIsSound(r)
  /\ PlanIsSound(r)
  /\ ReceiptIsSound(r)
  /\ VerdictIsSound(r)

(* No step of the pool is made twice in an attempt, nor a deposit at all.  *)
CallsAreMadeOnce ==
  \A q, r \in Runs : \A function \in Functions :
    q # r /\ Made(q, function) /\ Made(r, function) =>
      function \in {"open", "close"} /\ receipt[q].attempt # receipt[r].attempt

OperatorIInv ==
  /\ IInv
  /\ Shapes
  /\ CommitmentIsKnown
  /\ MempoolIsSound
  /\ \A r \in Runs : RunIsSound(r)
  /\ CallsAreMadeOnce

-----------------------------------------------------------------------------
(* What the pool may do between two steps of a run *)

(* Deposits and attempts do not come back, and an attempt that is closed   *)
(* stays closed.                                                           *)
PoolGoesOn ==
  /\ fundingAttempt <= fundingAttempt'
  /\ predepositSubmitted => predepositSubmitted' /\ committed' = committed
  /\ topUpSubmitted => topUpSubmitted'
  /\ state = "Predeposited" /\ fundingAttempt' = fundingAttempt => state' = "Predeposited"

(* A step that commits nothing. *)
LEMMA SameCommitment ==
  ASSUME CommitmentIsKnown, UNCHANGED <<committed, predepositSubmitted, topUpRootValid>>
  PROVE  CommitmentIsKnown'
BY DEF CommitmentIsKnown, TopUpAccepted, DepositAccepted

(* Nothing was deposited before the commit. *)
LEMMA CommitFacts ==
  ASSUME IInv, NEW value \in Nat, NEW data, commitAndPredeposit(operator, value),
         topUpRootValid' = TopUpAccepted(data), committed' = data
  PROVE  /\ IInv' /\ PoolGoesOn /\ CommitmentIsKnown'
         /\ ~ predepositSubmitted /\ predepositSubmitted'
<1>1. IInv'
  BY CommitKeepsIInv, AddressesAssumption
<1>2. DOMAIN calls = {}
  BY DEF commitAndPredeposit, NotEntered, IInv, TypeOK, CallDiscipline
<1>3. ~ predepositSubmitted
  BY <1>2 DEF commitAndPredeposit, IInv, CallDiscipline
<1>4. fundingAttempt <= fundingAttempt
  BY DEF IInv, TypeOK
<1>5. QED
  BY <1>1, <1>3, <1>4 DEF commitAndPredeposit, PoolGoesOn, CommitmentIsKnown,
                          TopUpAccepted, DepositAccepted

(* An opening is of an attempt there was not before. *)
LEMMA OpenFacts ==
  ASSUME IInv, CommitmentIsKnown, NEW ps \in ParticipantLists, NEW ts \in TargetLists,
         openFundingAttempt(operator, ps, ts), UNCHANGED committed
  PROVE  /\ IInv' /\ PoolGoesOn /\ CommitmentIsKnown'
         /\ fundingAttempt < fundingAttempt'
<1>1. IInv'
  BY OpenKeepsIInv, AddressesAssumption
<1>2. UNCHANGED <<predepositSubmitted, topUpRootValid, topUpSubmitted>>
  BY DEF openFundingAttempt
<1>3. fundingAttempt \in Nat /\ fundingAttempt' = fundingAttempt + 1
  BY DEF openFundingAttempt, IInv, TypeOK
<1>4. QED
  BY <1>1, <1>2, <1>3, SameCommitment DEF PoolGoesOn

(* A closing leaves the pool as it is before an opening. *)
LEMMA CloseFacts ==
  ASSUME IInv, CommitmentIsKnown, closeExpiredFundingAttempt, UNCHANGED committed
  PROVE  /\ IInv' /\ PoolGoesOn /\ CommitmentIsKnown'
         /\ fundingAttempt' = fundingAttempt /\ state' = "Predeposited"
<1>1. IInv'
  BY CloseKeepsIInv
<1>2. /\ UNCHANGED <<predepositSubmitted, topUpRootValid, topUpSubmitted, fundingAttempt>>
      /\ state' = "Predeposited"
  BY DEF closeExpiredFundingAttempt
<1>3. fundingAttempt <= fundingAttempt
  BY DEF IInv, TypeOK
<1>4. QED
  BY <1>1, <1>2, <1>3, SameCommitment DEF PoolGoesOn

(* The 31 ETH are deposited once. *)
LEMMA TopUpFacts ==
  ASSUME IInv, CommitmentIsKnown, topUpValidator(operator), UNCHANGED committed
  PROVE  /\ IInv' /\ PoolGoesOn /\ CommitmentIsKnown'
         /\ ~ topUpSubmitted /\ topUpSubmitted'
<1>1. IInv'
  BY TopUpKeepsIInv, AddressesAssumption
<1>2. /\ UNCHANGED <<predepositSubmitted, topUpRootValid, fundingAttempt, state>>
      /\ ~ topUpSubmitted /\ topUpSubmitted'
  BY DEF topUpValidator
<1>3. fundingAttempt <= fundingAttempt
  BY DEF IInv, TypeOK
<1>4. QED
  BY <1>1, <1>2, <1>3, SameCommitment DEF PoolGoesOn

(* A step that changes nothing. *)
LEMMA QuietPool ==
  ASSUME IInv, CommitmentIsKnown, UNCHANGED <<vars, committed>>
  PROVE  IInv' /\ PoolGoesOn /\ CommitmentIsKnown' /\ fundingAttempt' = fundingAttempt
<1>1. IInv'
  BY StutterKeepsIInv
<1>2. UNCHANGED <<predepositSubmitted, topUpRootValid, topUpSubmitted, fundingAttempt, state>>
  BY DEF vars
<1>3. fundingAttempt <= fundingAttempt
  BY DEF IInv, TypeOK
<1>4. QED
  BY <1>1, <1>2, <1>3, SameCommitment DEF PoolGoesOn

(* The rest of the world. *)
LEMMA OthersFacts ==
  ASSUME IInv, CommitmentIsKnown, OthersStep
  PROVE  IInv' /\ PoolGoesOn /\ CommitmentIsKnown' /\ UNCHANGED commandVars
<1>1. UNCHANGED commandVars /\ fundingAttempt \in Nat
  BY DEF OthersStep, IInv, TypeOK
<1> DEFINE goal == IInv' /\ PoolGoesOn /\ CommitmentIsKnown'
<1>2. ASSUME NEW file \in OperatorsFiles, commitAndPredeposit(operator, PREDEPOSIT_WEI),
             topUpRootValid' = TopUpAccepted(Commitment(file)), committed' = Commitment(file)
      PROVE  goal
  <2>1. PICK data : data = Commitment(file)
    OBVIOUS
  <2>2. QED
    BY <1>2, <2>1, CommitFacts, AmountsAssumption
<1>3. ASSUME NEW ps \in ParticipantLists, NEW ts \in TargetLists,
             openFundingAttempt(operator, ps, ts), UNCHANGED committed
      PROVE  goal
  BY <1>3, OpenFacts
<1>4. ASSUME closeExpiredFundingAttempt, UNCHANGED committed PROVE goal
  BY <1>4, CloseFacts
<1>5. ASSUME topUpValidator(operator), UNCHANGED committed PROVE goal
  BY <1>5, TopUpFacts
<1>6. ASSUME NEW sender \in Accounts, NEW value \in Amounts, fund(sender, value), UNCHANGED committed
      PROVE  goal
  <2>1. IInv'
    BY <1>6, CreditFundingKeepsIInv, AmountsAssumption DEF fund
  <2>2. UNCHANGED <<state, fundingAttempt, predepositSubmitted, topUpSubmitted, topUpRootValid>>
    BY <1>6 DEF fund, creditFunding
  <2>3. QED
    BY <1>1, <1>6, <2>1, <2>2, SameCommitment DEF PoolGoesOn
<1>7. ASSUME commitReturns, UNCHANGED committed PROVE goal
  <2>1. IInv'
    BY <1>7, CommitReturnsKeepsIInv
  <2>2. /\ UNCHANGED <<fundingAttempt, predepositSubmitted, topUpSubmitted, topUpRootValid>>
        /\ state' = "Predeposited"
    BY <1>7 DEF commitReturns
  <2>3. QED
    BY <1>1, <1>7, <2>1, <2>2, SameCommitment DEF PoolGoesOn
<1>8. ASSUME topUpReturns, UNCHANGED committed PROVE goal
  <2>1. IInv'
    BY <1>8, TopUpReturnsKeepsIInv
  <2>2. UNCHANGED <<fundingAttempt, predepositSubmitted, topUpSubmitted, topUpRootValid>>
    BY <1>8 DEF topUpReturns
  <2>3. state = "Funding"
    BY <1>8, OnlyFrame DEF topUpReturns, IInv, CallDiscipline
  <2>4. QED
    BY <1>1, <1>8, <2>1, <2>2, <2>3, SameCommitment DEF PoolGoesOn
<1>9. ASSUME Tick, UNCHANGED committed PROVE goal
  <2>1. IInv'
    BY <1>9, TickKeepsIInv
  <2>2. UNCHANGED <<state, fundingAttempt, predepositSubmitted, topUpSubmitted, topUpRootValid>>
    BY <1>9 DEF Tick
  <2>3. QED
    BY <1>1, <1>9, <2>1, <2>2, SameCommitment DEF PoolGoesOn
<1>10. QED
  BY <1>1, <1>2, <1>3, <1>4, <1>5, <1>6, <1>7, <1>8, <1>9 DEF OthersStep

-----------------------------------------------------------------------------
(* Runs that a step leaves alone *)

LeavesRun(r) ==
  /\ step'[r] = step[r] /\ connection'[r] = connection[r]
  /\ plan'[r] = plan[r] /\ receipt'[r] = receipt[r]

(* What a run has established survives the steps of everyone else. *)
LEMMA RunStays ==
  ASSUME TypeOK, TypeOK', NEW r \in Runs, RunIsSound(r), PoolGoesOn, LeavesRun(r)
  PROVE  RunIsSound(r)'
<1>1. /\ fundingAttempt \in Nat /\ fundingAttempt' \in Nat /\ fundingAttempt <= fundingAttempt'
  BY DEF TypeOK, PoolGoesOn
<1>2. ConnectionIsSound(r)'
  BY DEF RunIsSound, ConnectionIsSound, LeavesRun, Usable, DeclaredSigners
<1>3. PlanIsSound(r)'
  <2>1. ASSUME NEW tx, NEW declared, TransactionIsSound(tx, declared)
        PROVE  TransactionIsSound(tx, declared)'
    BY <2>1 DEF TransactionIsSound, PoolGoesOn
  <2>2. ASSUME NEW declared, CommittedIsSound(declared)
        PROVE  CommittedIsSound(declared)'
    BY <2>2 DEF CommittedIsSound, PoolGoesOn
  <2>3. PICK tx, declared : tx = plan[r].tx /\ declared = plan[r].declared
    OBVIOUS
  <2>4. /\ step[r] \in Planned => TransactionIsSound(tx, declared)
        /\ step[r] = "funding" => CommittedIsSound(declared)
    BY <2>3 DEF RunIsSound, PlanIsSound
  <2>5. /\ step[r] \in Planned => TransactionIsSound(tx, declared)'
        /\ step[r] = "funding" => CommittedIsSound(declared)'
    BY <2>1, <2>2, <2>4
  <2>6. plan'[r].tx = tx /\ plan'[r].declared = declared /\ step'[r] = step[r]
    BY <2>3 DEF LeavesRun
  <2>7. TransactionIsSound(plan[r].tx, plan[r].declared)' <=> TransactionIsSound(tx, declared)'
    BY <2>6 DEF TransactionIsSound
  <2>8. CommittedIsSound(plan[r].declared)' <=> CommittedIsSound(declared)'
    BY <2>6 DEF CommittedIsSound
  <2>9. QED
    BY <2>5, <2>6, <2>7, <2>8 DEF PlanIsSound
<1>4. ReceiptIsSound(r)'
  <2>1. (HasReceipt(r)' <=> HasReceipt(r)) /\ \A function : Made(r, function)' <=> Made(r, function)
    BY DEF HasReceipt, Made, LeavesRun
  <2>2. Made(r, "close")' /\ receipt'[r].attempt = fundingAttempt' => state' = "Predeposited"
    BY <1>1, <2>1 DEF RunIsSound, ReceiptIsSound, Made, LeavesRun, PoolGoesOn
  <2>3. QED
    BY <1>1, <2>1, <2>2 DEF RunIsSound, ReceiptIsSound, LeavesRun, PoolGoesOn, IsTransaction
<1>5. VerdictIsSound(r)'
  BY DEF RunIsSound, VerdictIsSound, LeavesRun, HasReceipt
<1>6. QED
  BY <1>2, <1>3, <1>4, <1>5 DEF RunIsSound

(* What was made, and when, is written in the receipts. *)
LEMMA SameReceipts ==
  ASSUME CallsAreMadeOnce, receipt' = receipt
  PROVE  CallsAreMadeOnce'
BY DEF CallsAreMadeOnce, Made, HasReceipt

(* What the mempool holds is the transaction of a run that waits.          *)
LEMMA PendingFacts ==
  ASSUME MempoolIsSound, NEW i \in DOMAIN mempool
  PROVE  /\ mempool[i].run \in Runs /\ Waiting(mempool[i].run)
         /\ IsTransaction(mempool[i].tx)
         /\ mempool[i] = [run |-> mempool[i].run, from |-> mempool[i].from, tx |-> mempool[i].tx]
BY DEF MempoolIsSound

(* A step of a run that neither signs nor has signed concerns that run. *)
LEMMA RunMoves ==
  ASSUME OperatorIInv, NEW r \in Runs, UNCHANGED <<vars, committed, mempool, receipt>>,
         step[r] \notin Signed, step'[r] \notin Signed, Shapes',
         \A q \in Runs \ {r} : LeavesRun(q),
         ConnectionIsSound(r)', PlanIsSound(r)'
  PROVE  OperatorIInv'
<1>1. /\ IInv' /\ PoolGoesOn /\ CommitmentIsKnown' /\ fundingAttempt' = fundingAttempt
      /\ MempoolIsSound /\ TypeOK /\ TypeOK' /\ CallsAreMadeOnce'
      /\ \A q \in Runs : RunIsSound(q)
  BY QuietPool, SameReceipts DEF OperatorIInv, IInv
<1>2. ASSUME NEW q \in Runs PROVE RunIsSound(q)'
  <2>1. CASE q # r
    BY <1>1, <2>1, RunStays
  <2>2. CASE q = r
    <3>1. ~ HasReceipt(r) /\ ~ HasReceipt(r)'
      BY <1>1 DEF RunIsSound, ReceiptIsSound, HasReceipt
    <3>2. QED
      BY <2>2, <3>1 DEF RunIsSound, ReceiptIsSound, VerdictIsSound, Made, HasReceipt, Signed
  <2>3. QED
    BY <2>1, <2>2
<1>3. MempoolIsSound'
  <2>1. ASSUME NEW i \in DOMAIN mempool PROVE Waiting(mempool[i].run)'
    <3>1. mempool[i].run \in Runs /\ Waiting(mempool[i].run)
      BY <1>1, PendingFacts
    <3>2. mempool[i].run # r
      BY <3>1 DEF Waiting, Signed
    <3>3. QED
      BY <1>1, <3>1, <3>2 DEF LeavesRun, Waiting, HasReceipt
  <2>2. QED
    BY <1>1, <2>1 DEF MempoolIsSound, IsTransaction
<1>4. QED
  BY <1>1, <1>2, <1>3 DEF OperatorIInv

-----------------------------------------------------------------------------
(* The signer *)

(* An account that is accepted is one that the connection lists and that   *)
(* everything declared allows; on the device's network nothing but the     *)
(* declarations can be the reason for none.                                *)
LEMMA SignerFacts ==
  ASSUME NEW c, Usable(c)
  PROVE  /\ ActiveSignerAccepted(c, resolveSigningWallet(c)) =>
              resolveSigningWallet(c) \in DeclaredSigners(c)
         /\ c.network = "ledger" /\ ~ ActiveSignerAccepted(c, resolveSigningWallet(c)) =>
              DeclaredSigners(c) = {}
<1>1. c.nodeAccounts \in Seq(Accounts)
  BY ConnectionsAssumption DEF Usable
<1>2. CASE c.network = "ledger"
  <2>1. /\ ledgerAccounts(c) = <<c.ledgerAddress>> /\ ledgerAccounts(c) # <<>>
        /\ ReportedAccounts(c) = c.nodeAccounts \o <<c.ledgerAddress>>
        /\ c.ledgerAddress # NoSigner
    BY <1>2 DEF ledgerAccounts, ReportedAccounts, Usable, CanConfigure
  <2>2. c.ledgerAddress \in Reported(c)
    <3> DEFINE n == Len(c.nodeAccounts)
    <3>1. /\ n + 1 \in DOMAIN (c.nodeAccounts \o <<c.ledgerAddress>>)
          /\ (c.nodeAccounts \o <<c.ledgerAddress>>)[n + 1] = c.ledgerAddress
      BY <1>1
    <3>2. QED
      BY <2>1, <3>1 DEF Reported
  <2>3. resolveSigningWallet(c) = c.ledgerAddress
    BY <2>1, <2>2 DEF resolveSigningWallet
  <2>4. QED
    BY <1>2, <2>1, <2>2, <2>3 DEF ActiveSignerAccepted, DeclaredSigners
<1>3. CASE c.network # "ledger"
  <2>1. ledgerAccounts(c) = <<>>
    BY <1>3 DEF ledgerAccounts
  <2>2. ReportedAccounts(c) = <<c.privateKey>> \/ ReportedAccounts(c) = c.nodeAccounts \o <<>>
    BY <2>1 DEF ReportedAccounts
  <2>3. ReportedAccounts(c) # <<>> => 1 \in DOMAIN ReportedAccounts(c)
    BY <1>1, <2>2
  <2>4. ReportedAccounts(c) # <<>> => ReportedAccounts(c)[1] \in Reported(c)
    BY <2>3 DEF Reported
  <2>5. QED
    BY <1>3, <2>1, <2>4 DEF ActiveSignerAccepted, DeclaredSigners, resolveSigningWallet
<1>4. QED
  BY <1>2, <1>3

-----------------------------------------------------------------------------
(* One run, up to the signature *)

(* Connecting a signer moves nothing but the run.                          *)
LEMMA ConnectKeeps == ASSUME OperatorIInv, NEW r \in Runs, Connect(r) PROVE OperatorIInv'
<1>1. /\ Shapes /\ ConnectionIsSound(r) /\ step[r] = "start"
      /\ UNCHANGED <<vars, committed, plan, mempool, receipt>>
  BY DEF OperatorIInv, RunIsSound, Connect, Asks
<1>2. PICK c \in Connections :
        IF CanConfigure(c) /\ PinnedChainAnswers(c)
        THEN GoTo(r, "connected") /\ connection' = [connection EXCEPT ![r] = c]
        ELSE GoTo(r, "refused") /\ UNCHANGED connection
  BY DEF Connect
<1>3. /\ Shapes' /\ \A q \in Runs \ {r} : LeavesRun(q)
      /\ \/ step'[r] = "connected" /\ connection'[r] = c /\ Usable(c)
         \/ step'[r] = "refused" /\ connection'[r] = connection[r]
  BY <1>1, <1>2 DEF Shapes, Steps, LeavesRun, GoTo, Usable
<1>4. ConnectionIsSound(r)'
  BY <1>1, <1>3 DEF ConnectionIsSound, Usable
<1>5. PlanIsSound(r)' /\ step[r] \notin Signed /\ step'[r] \notin Signed
  BY <1>1, <1>3 DEF PlanIsSound, Planned, Signed
<1>6. QED
  BY <1>1, <1>3, <1>4, <1>5, RunMoves

(* A run that is refused, or has no account to sign with.                  *)
Ends(r) ==
  \E verdict \in {"refused", "wrongSigner"} :
    /\ GoTo(r, verdict)
    /\ connection' = [connection EXCEPT ![r] = IF verdict = "refused" THEN Disconnected ELSE @]
    /\ plan' = [plan EXCEPT ![r] = NoPlan]
    /\ verdict = "wrongSigner" =>
         ~ ActiveSignerAccepted(connection[r], resolveSigningWallet(connection[r]))

Chooses(r, tx, declared, next) ==
  /\ connection[r].chainId = chain.chainId
  /\ ActiveSignerAccepted(connection[r], resolveSigningWallet(connection[r]))
  /\ GoTo(r, next)
  /\ connection' = [connection EXCEPT ![r] = @]
  /\ plan' = [plan EXCEPT ![r] =
       [signer |-> resolveSigningWallet(connection[r]), tx |-> tx, declared |-> declared]]

(* A run that ends without a transaction has signed nothing.               *)
LEMMA EndsKeeps ==
  ASSUME OperatorIInv, NEW r \in Runs, step[r] = "connected", Ends(r),
         UNCHANGED <<vars, committed, mempool, receipt>>
  PROVE  OperatorIInv'
<1>1. Shapes /\ ConnectionIsSound(r) /\ Usable(connection[r])
  BY DEF OperatorIInv, RunIsSound, ConnectionIsSound
<1>2. /\ Shapes' /\ \A q \in Runs \ {r} : LeavesRun(q)
      /\ \/ step'[r] = "refused" /\ connection'[r] = Disconnected
         \/ /\ step'[r] = "wrongSigner" /\ connection'[r] = connection[r]
            /\ ~ ActiveSignerAccepted(connection[r], resolveSigningWallet(connection[r]))
  BY <1>1 DEF Ends, GoTo, Shapes, Steps, LeavesRun
<1>3. ConnectionIsSound(r)'
  <2>1. PICK c : c = connection[r]
    OBVIOUS
  <2>2. c.network = "ledger" /\ step'[r] = "wrongSigner" => DeclaredSigners(c) = {}
    BY <1>1, <1>2, <2>1, SignerFacts
  <2>3. QED
    BY <1>1, <1>2, <2>1, <2>2 DEF ConnectionIsSound, Usable, DeclaredSigners
<1>4. PlanIsSound(r)' /\ step[r] \notin Signed /\ step'[r] \notin Signed
  BY <1>2 DEF PlanIsSound, Planned, Signed
<1>5. QED
  BY <1>2, <1>3, <1>4, RunMoves

(* A run that goes on has a plan whose transaction is sound.               *)
LEMMA ChoosesKeeps ==
  ASSUME OperatorIInv, NEW r \in Runs, step[r] = "connected",
         NEW tx, NEW declared, NEW next \in {"composed", "funding"},
         Chooses(r, tx, declared, next),
         next = "composed" => TransactionIsSound(tx, declared),
         next = "funding" => CommittedIsSound(declared),
         UNCHANGED <<vars, committed, mempool, receipt>>
  PROVE  OperatorIInv'
<1>1. Shapes /\ ConnectionIsSound(r) /\ Usable(connection[r])
  BY DEF OperatorIInv, RunIsSound, ConnectionIsSound
<1>2. PICK c : c = connection[r]
  OBVIOUS
<1> DEFINE signer == resolveSigningWallet(c)
<1>3. signer \in DeclaredSigners(c) /\ c.chainId = chain.chainId /\ Usable(c)
  BY <1>1, <1>2, SignerFacts DEF Chooses
<1>4. /\ step' = [step EXCEPT ![r] = next] /\ connection' = [connection EXCEPT ![r] = @]
      /\ plan' = [plan EXCEPT ![r] = [signer |-> signer, tx |-> tx, declared |-> declared]]
  BY <1>2 DEF Chooses, GoTo
<1> HIDE DEF signer
<1>5. /\ Shapes' /\ \A q \in Runs \ {r} : LeavesRun(q)
      /\ step'[r] = next /\ connection'[r] = c /\ plan'[r].signer = signer
      /\ plan'[r].tx = tx /\ plan'[r].declared = declared
  BY <1>1, <1>2, <1>4 DEF Shapes, Steps, Planned, LeavesRun
<1>6. ConnectionIsSound(r)'
  BY <1>3, <1>5 DEF ConnectionIsSound, Usable, DeclaredSigners
<1>7. PlanIsSound(r)'
  <2>1. UNCHANGED <<committed, predepositSubmitted>>
    BY DEF vars
  <2>2. step'[r] \in Planned => TransactionIsSound(tx, declared)'
    BY <1>5, <2>1 DEF TransactionIsSound, Planned, Signed
  <2>3. step'[r] = "funding" => CommittedIsSound(declared)'
    BY <1>5, <2>1 DEF CommittedIsSound
  <2>4. TransactionIsSound(plan[r].tx, plan[r].declared)' <=> TransactionIsSound(tx, declared)'
    BY <1>5 DEF TransactionIsSound
  <2>5. CommittedIsSound(plan[r].declared)' <=> CommittedIsSound(declared)'
    BY <1>5 DEF CommittedIsSound
  <2>6. QED
    BY <2>2, <2>3, <2>4, <2>5 DEF PlanIsSound
<1>8. step[r] \notin Signed /\ step'[r] \notin Signed
  BY <1>5 DEF Signed
<1>9. QED
  BY <1>5, <1>6, <1>7, <1>8, RunMoves

(* The fork version a node reports is the chain's, if that is required.    *)
LEMMA RequiredIsReported ==
  ASSUME NEW in \in DepositInputs,
         ForkVersionAccepted(in.node, in.forkVersion, forkVersionPin),
         RequiredForkVersion(in.forkVersion, forkVersionPin) = chain.forkVersion
  PROVE  in.node.forkVersion = chain.forkVersion
BY ChainAssumption DEF ForkVersionAccepted, Agrees

(* What the checks of a file say of the commitment that is made of it. *)
LEMMA FitDataIsSound ==
  ASSUME NEW in \in DepositInputs, NEW data, data = Commitment(in.file),
         ForkVersionAccepted(in.node, in.forkVersion, forkVersionPin),
         DataFit(in.file, in.node, in.networkName)
  PROVE  /\ TopUpAccepted(data)
         /\ PredepositIsValid(data, RequiredForkVersion(in.forkVersion, forkVersionPin))
         /\ TopUpIsValid(data, RequiredForkVersion(in.forkVersion, forkVersionPin))
<1> DEFINE version == in.node.forkVersion
<1>1. /\ data.pubkey = Predeposit(in.file).pubkey
      /\ data.signature = Predeposit(in.file).signature
      /\ data.topUpSignature = TopUp(in.file).signature
      /\ data.topUpRoot = TopUp(in.file).root
  BY DEF Commitment
<1>2. /\ TopUp(in.file).pubkey = data.pubkey
      /\ data.topUpRoot =
           computeDepositDataRoot(data.pubkey, withdrawalCredentials, TOP_UP_WEI, data.topUpSignature)
      /\ verifyDepositSignature(data.pubkey, withdrawalCredentials, PREDEPOSIT_WEI,
                                data.signature, version)
      /\ verifyDepositSignature(data.pubkey, withdrawalCredentials, TOP_UP_WEI,
                                data.topUpSignature, version)
  BY <1>1 DEF DataFit, ValidDepositData
<1>3. TopUpAccepted(data)
  BY <1>2 DEF TopUpAccepted, DepositAccepted
<1>4. RequiredForkVersion(in.forkVersion, forkVersionPin) = chain.forkVersion => version = chain.forkVersion
  BY RequiredIsReported
<1>5. QED
  BY <1>2, <1>3, <1>4 DEF PredepositIsValid, TopUpIsValid

(* What commit-predeposit composes is a deposit whose data passed its      *)
(* checks.                                                                 *)
LEMMA PrepareCommitKeeps ==
  ASSUME OperatorIInv, NEW r \in Runs, PrepareCommit(r)
  PROVE  OperatorIInv'
<1>1. PICK in \in DepositInputs :
        LET fits == /\ BothFound(in.file, PREDEPOSIT_WEI, TOP_UP_WEI)
                    /\ Agrees(in.pubkey, Predeposit(in.file).pubkey)
                    /\ SameChain(in.node, chain)
                    /\ ForkVersionAccepted(in.node, in.forkVersion, forkVersionPin)
                    /\ DataFit(in.file, in.node, in.networkName)
        IN Compose(r, fits, {operator},
                   IF fits THEN Call(PREDEPOSIT_WEI, Commitment(in.file)) ELSE NoPlan,
                   [pubkey |-> in.pubkey,
                    forkVersion |-> RequiredForkVersion(in.forkVersion, forkVersionPin)])
  BY DEF PrepareCommit
<1>2. PICK data : data = Commitment(in.file)
  OBVIOUS
<1>3. PICK version : version = RequiredForkVersion(in.forkVersion, forkVersionPin)
  OBVIOUS
<1> DEFINE tx == Call(PREDEPOSIT_WEI, data)
           declared == [pubkey |-> in.pubkey, forkVersion |-> version]
<1>4. step[r] = "connected" /\ UNCHANGED <<vars, committed, mempool, receipt>>
  BY <1>1 DEF Compose, Proceed, Asks
<1>5. \/ Ends(r)
      \/ /\ Chooses(r, tx, declared, "composed")
         /\ Agrees(in.pubkey, Predeposit(in.file).pubkey)
         /\ ForkVersionAccepted(in.node, in.forkVersion, forkVersionPin)
         /\ DataFit(in.file, in.node, in.networkName)
  BY <1>1, <1>2, <1>3 DEF Compose, Proceed, Ends, Chooses
<1>6. ASSUME Chooses(r, tx, declared, "composed"),
             Agrees(in.pubkey, Predeposit(in.file).pubkey),
             ForkVersionAccepted(in.node, in.forkVersion, forkVersionPin),
             DataFit(in.file, in.node, in.networkName)
      PROVE  OperatorIInv'
  <2>1. TopUpAccepted(data) /\ PredepositIsValid(data, version)
    BY <1>2, <1>3, <1>6, FitDataIsSound
  <2>2. data.function = "commit" /\ Agrees(in.pubkey, data.pubkey)
    BY <1>2, <1>6 DEF Commitment
  <2>3. /\ tx = [to |-> tx.to, value |-> tx.value, envelope |-> tx.envelope, input |-> tx.input]
        /\ tx.to = Pool /\ tx.input = data
        /\ declared.pubkey = in.pubkey /\ declared.forkVersion = version
    BY DEF Call
  <2> HIDE DEF tx, declared
  <2>4. TransactionIsSound(tx, declared)
    BY <2>1, <2>2, <2>3 DEF TransactionIsSound, IsTransaction, Functions
  <2>5. QED
    BY <1>4, <1>6, <2>4, ChoosesKeeps
<1>7. QED
  BY <1>4, <1>5, <1>6, EndsKeeps

(* What open-funding-attempt composes opens what the environment declares. *)
LEMMA PrepareOpenKeeps == ASSUME OperatorIInv, NEW r \in Runs, PrepareOpen(r) PROVE OperatorIInv'
<1>1. PICK windowDeclared \in BOOLEAN, ps \in ParticipantLists, ts \in TargetLists :
        Compose(r, AllocationFits(windowDeclared, ps, ts), {operator}, Call(0, OpenAttempt(ps, ts)), Unset)
  BY DEF PrepareOpen
<1> DEFINE tx == Call(0, OpenAttempt(ps, ts))
<1>2. step[r] = "connected" /\ UNCHANGED <<vars, committed, mempool, receipt>>
  BY <1>1 DEF Compose, Proceed, Asks
<1>3. Ends(r) \/ Chooses(r, tx, Unset, "composed")
  BY <1>1 DEF Compose, Proceed, Ends, Chooses
<1>4. TransactionIsSound(tx, Unset)
  BY DEF Call, OpenAttempt, TransactionIsSound, IsTransaction, Functions
<1> HIDE DEF tx
<1>5. QED
  BY <1>2, <1>3, <1>4, EndsKeeps, ChoosesKeeps

(* Closing carries nothing.                                                *)
LEMMA PrepareCloseKeeps == ASSUME OperatorIInv, NEW r \in Runs, PrepareClose(r) PROVE OperatorIInv'
<1> DEFINE tx == Call(0, [function |-> "close"])
<1>1. step[r] = "connected" /\ UNCHANGED <<vars, committed, mempool, receipt>>
  BY DEF PrepareClose, Compose, Proceed, Asks
<1>2. Ends(r) \/ Chooses(r, tx, Unset, "composed")
  BY DEF PrepareClose, Compose, Proceed, Ends, Chooses
<1>3. TransactionIsSound(tx, Unset)
  BY DEF Call, TransactionIsSound, IsTransaction, Functions
<1> HIDE DEF tx
<1>4. QED
  BY <1>1, <1>2, <1>3, EndsKeeps, ChoosesKeeps

(* What agrees with a file on the operator's disk was committed. *)
LEMMA PrepareTopUpKeeps == ASSUME OperatorIInv, NEW r \in Runs, PrepareTopUp(r) PROVE OperatorIInv'
<1> DEFINE tx == Call(0, [function |-> "topUp"])
<1>1. PICK in \in DepositInputs :
        LET found == BothFound(in.file, PREDEPOSIT_WEI, TOP_UP_WEI)
        IN Compose(r, found /\ SameChain(in.node, chain) /\ CommittedPubkeyMatchesLocal(in.file),
                   {operator}, tx, IF found THEN Predeposit(in.file).pubkey ELSE Unset)
  BY DEF PrepareTopUp
<1>2. PICK pubkey : pubkey = Predeposit(in.file).pubkey
  OBVIOUS
<1>3. step[r] = "connected" /\ UNCHANGED <<vars, committed, mempool, receipt>>
  BY <1>1 DEF Compose, Proceed, Asks
<1>4. \/ Ends(r)
      \/ /\ Chooses(r, tx, pubkey, "composed")
         /\ BothFound(in.file, PREDEPOSIT_WEI, TOP_UP_WEI)
         /\ CommittedPubkeyMatchesLocal(in.file)
  BY <1>1, <1>2 DEF Compose, Proceed, Ends, Chooses
<1>5. ASSUME Chooses(r, tx, pubkey, "composed"),
             BothFound(in.file, PREDEPOSIT_WEI, TOP_UP_WEI), CommittedPubkeyMatchesLocal(in.file)
      PROVE  OperatorIInv'
  <2>1. pubkey # Unset /\ committed.pubkey = pubkey
    BY <1>2, <1>5, FilesAssumption DEF CommittedPubkeyMatchesLocal
  <2>2. predepositSubmitted
    BY <2>1 DEF OperatorIInv, CommitmentIsKnown, NothingCommitted
  <2>3. TransactionIsSound(tx, pubkey)
    BY <2>1, <2>2 DEF Call, TransactionIsSound, IsTransaction, Functions
  <2> HIDE DEF tx
  <2>4. QED
    BY <1>3, <1>5, <2>3, ChoosesKeeps
<1>6. QED
  BY <1>3, <1>4, <1>5, EndsKeeps

(* So was what agrees with the funder's copy. *)
LEMMA PrepareFundKeeps == ASSUME OperatorIInv, NEW r \in Runs, PrepareFund(r) PROVE OperatorIInv'
<1>1. PICK in \in DepositInputs :
        LET fits == /\ BothFound(in.file, PREDEPOSIT_WEI, TOP_UP_WEI)
                    /\ SameChain(in.node, chain)
                    /\ ForkVersionAccepted(in.node, in.forkVersion, forkVersionPin)
                    /\ DataFit(in.file, in.node, in.networkName)
                    /\ CommittedDataMatchesFile(in.file)
        IN Proceed(r, fits, Accounts, NoPlan,
                   RequiredForkVersion(in.forkVersion, forkVersionPin), "funding")
  BY DEF PrepareFund
<1>2. PICK version : version = RequiredForkVersion(in.forkVersion, forkVersionPin)
  OBVIOUS
<1>3. step[r] = "connected" /\ UNCHANGED <<vars, committed, mempool, receipt>>
  BY <1>1 DEF Proceed, Asks
<1>4. \/ Ends(r)
      \/ /\ Chooses(r, NoPlan, version, "funding")
         /\ BothFound(in.file, PREDEPOSIT_WEI, TOP_UP_WEI)
         /\ ForkVersionAccepted(in.node, in.forkVersion, forkVersionPin)
         /\ DataFit(in.file, in.node, in.networkName)
         /\ CommittedDataMatchesFile(in.file)
  BY <1>1, <1>2 DEF Proceed, Ends, Chooses
<1>5. ASSUME Chooses(r, NoPlan, version, "funding"),
             BothFound(in.file, PREDEPOSIT_WEI, TOP_UP_WEI),
             ForkVersionAccepted(in.node, in.forkVersion, forkVersionPin),
             DataFit(in.file, in.node, in.networkName), CommittedDataMatchesFile(in.file)
      PROVE  OperatorIInv'
  <2>1. PICK data : data = committed
    OBVIOUS
  <2>2. data = Commitment(in.file)
    BY <1>5, <2>1 DEF CommittedDataMatchesFile
  <2>3. TopUpAccepted(data) /\ PredepositIsValid(data, version) /\ TopUpIsValid(data, version)
    BY <1>2, <1>5, <2>2, FitDataIsSound
  <2>4. data.pubkey # Unset
    BY <1>5, <2>2, FilesAssumption DEF Commitment
  <2>5. predepositSubmitted
    BY <2>1, <2>4 DEF OperatorIInv, CommitmentIsKnown, NothingCommitted
  <2>6. CommittedIsSound(version)
    BY <2>1, <2>3, <2>5 DEF CommittedIsSound
  <2>7. PICK tx : tx = NoPlan
    OBVIOUS
  <2>8. QED
    BY <1>3, <1>5, <2>6, <2>7, ChoosesKeeps
<1>6. QED
  BY <1>3, <1>4, <1>5, EndsKeeps

(* What is sound when it is composed is so until it is signed. *)
LEMMA EstimateKeeps == ASSUME OperatorIInv, NEW r \in Runs, Estimate(r) PROVE OperatorIInv'
<1>1. /\ Shapes /\ PlanIsSound(r) /\ step[r] = "composed"
      /\ connection' = [connection EXCEPT ![r] = Disconnected]
      /\ UNCHANGED <<vars, committed, mempool, receipt>>
  BY DEF OperatorIInv, RunIsSound, Estimate, Asks
<1>2. /\ Shapes' /\ \A q \in Runs \ {r} : LeavesRun(q)
      /\ connection'[r] = Disconnected
      /\ \/ step'[r] = "estimated" /\ plan' = plan
         \/ step'[r] = "refused"
  BY <1>1 DEF Estimate, GoTo, Shapes, Steps, Planned, LeavesRun
<1>3. ConnectionIsSound(r)'
  BY <1>2 DEF ConnectionIsSound
<1>4. PlanIsSound(r)'
  <2>1. TransactionIsSound(plan[r].tx, plan[r].declared)
    BY <1>1 DEF PlanIsSound, Planned
  <2>2. step'[r] = "estimated" => TransactionIsSound(plan[r].tx, plan[r].declared)'
    BY <1>1, <1>2, <2>1 DEF TransactionIsSound, vars
  <2>3. QED
    BY <1>2, <2>2 DEF PlanIsSound, Planned, Signed
<1>5. step[r] \notin Signed /\ step'[r] \notin Signed
  BY <1>1, <1>2 DEF Signed
<1>6. QED
  BY <1>1, <1>2, <1>3, <1>4, <1>5, RunMoves

(* A run waits for what it signed, and for nothing it signed before. *)
LEMMA SignAndBroadcastKeeps ==
  ASSUME OperatorIInv, NEW r \in Runs, SignAndBroadcast(r)
  PROVE  OperatorIInv'
<1>1. /\ step[r] = "estimated" /\ step' = [step EXCEPT ![r] = "sent"]
      /\ UNCHANGED <<vars, committed, connection, plan, receipt>>
  BY DEF SignAndBroadcast, GoTo
<1>2. PICK key : mempool' = Append(mempool, [run |-> r, from |-> key, tx |-> plan[r].tx])
  BY DEF SignAndBroadcast
<1>3. /\ IInv' /\ PoolGoesOn /\ CommitmentIsKnown' /\ fundingAttempt' = fundingAttempt
      /\ Shapes /\ MempoolIsSound /\ TypeOK /\ TypeOK' /\ CallsAreMadeOnce'
      /\ \A q \in Runs : RunIsSound(q)
  BY <1>1, QuietPool, SameReceipts DEF OperatorIInv, IInv
<1>4. PICK p : p = [run |-> r, from |-> key, tx |-> plan[r].tx]
  OBVIOUS
<1>5. IsTransaction(plan[r].tx) /\ ~ HasReceipt(r)
  <2>1. RunIsSound(r)
    BY <1>3
  <2>2. QED
    BY <1>1, <2>1 DEF RunIsSound, PlanIsSound, ReceiptIsSound, TransactionIsSound, Planned, Signed
<1>6. /\ \E S : mempool' \in Seq(S)
      /\ DOMAIN mempool' = DOMAIN mempool \cup {Len(mempool) + 1}
      /\ \A i \in DOMAIN mempool : mempool'[i] = mempool[i]
      /\ mempool'[Len(mempool) + 1] = p
      /\ Len(mempool) + 1 \notin DOMAIN mempool
  <2>1. PICK S : mempool \in Seq(S)
    BY <1>3 DEF Shapes
  <2>2. PICK T : T = S \cup {p}
    OBVIOUS
  <2>3. mempool \in Seq(T) /\ p \in T
    BY <2>1, <2>2
  <2>4. mempool' = Append(mempool, p)
    BY <1>2, <1>4
  <2>5. QED
    BY <2>3, <2>4, Appended
<1>7. /\ Shapes' /\ step'[r] = "sent" /\ receipt' = receipt /\ plan' = plan
      /\ \A q \in Runs \ {r} : LeavesRun(q)
  BY <1>1, <1>3, <1>6 DEF Shapes, Steps, Planned, Signed, LeavesRun
<1>8. MempoolIsSound'
  <2>1. \A i \in DOMAIN mempool :
          /\ mempool[i].run \in Runs /\ mempool[i].run # r
          /\ step'[mempool[i].run] = "sent" /\ receipt[mempool[i].run] = NotMined
          /\ mempool[i] = [run |-> mempool[i].run, from |-> mempool[i].from, tx |-> mempool[i].tx]
          /\ IsTransaction(mempool[i].tx)
    <3> SUFFICES ASSUME NEW i \in DOMAIN mempool
                 PROVE  /\ mempool[i].run \in Runs /\ mempool[i].run # r
                        /\ step'[mempool[i].run] = "sent" /\ receipt[mempool[i].run] = NotMined
                        /\ mempool[i] = [run |-> mempool[i].run, from |-> mempool[i].from,
                                         tx |-> mempool[i].tx]
                        /\ IsTransaction(mempool[i].tx)
      OBVIOUS
    <3>1. /\ mempool[i].run \in Runs /\ Waiting(mempool[i].run) /\ IsTransaction(mempool[i].tx)
          /\ mempool[i] = [run |-> mempool[i].run, from |-> mempool[i].from, tx |-> mempool[i].tx]
      BY <1>3, PendingFacts
    <3>2. mempool[i].run # r
      BY <1>1, <3>1 DEF Waiting
    <3>3. QED
      BY <1>7, <3>1, <3>2 DEF Waiting, HasReceipt, LeavesRun
  <2>2. /\ p.run = r /\ IsTransaction(p.tx)
        /\ p = [run |-> p.run, from |-> p.from, tx |-> p.tx]
        /\ step'[r] = "sent" /\ receipt[r] = NotMined
    BY <1>4, <1>5, <1>7 DEF HasReceipt
  <2>3. \A i \in DOMAIN mempool' :
          /\ mempool'[i].run \in Runs
          /\ step'[mempool'[i].run] = "sent" /\ receipt[mempool'[i].run] = NotMined
          /\ mempool'[i] = [run |-> mempool'[i].run, from |-> mempool'[i].from,
                            tx |-> mempool'[i].tx]
          /\ IsTransaction(mempool'[i].tx)
    BY <1>6, <2>1, <2>2
  <2>4. \A i, j \in DOMAIN mempool' : mempool'[i].run = mempool'[j].run => i = j
    BY <1>3, <1>6, <2>1, <2>2 DEF MempoolIsSound
  <2>5. QED
    BY <1>7, <2>3, <2>4 DEF MempoolIsSound, Waiting, HasReceipt, IsTransaction
<1>9. RunIsSound(r)'
  <2>1. RunIsSound(r) /\ TransactionIsSound(plan[r].tx, plan[r].declared)
    BY <1>1, <1>3 DEF RunIsSound, PlanIsSound, Planned
  <2>2. ConnectionIsSound(r)'
    BY <1>1, <1>7, <2>1 DEF RunIsSound, ConnectionIsSound
  <2>3. PlanIsSound(r)'
    BY <1>1, <1>7, <2>1 DEF PlanIsSound, TransactionIsSound, vars
  <2>4. ReceiptIsSound(r)' /\ VerdictIsSound(r)'
    BY <1>5, <1>7 DEF ReceiptIsSound, VerdictIsSound, Made, HasReceipt
  <2>5. QED
    BY <2>2, <2>3, <2>4 DEF RunIsSound
<1>10. \A q \in Runs : RunIsSound(q)'
  BY <1>3, <1>7, <1>9, RunStays
<1>11. QED
  BY <1>3, <1>7, <1>8, <1>10 DEF OperatorIInv

(* A run that concludes has a receipt, and nothing pending. *)
LEMMA ConcludeKeeps == ASSUME OperatorIInv, NEW r \in Runs, Conclude(r) PROVE OperatorIInv'
<1> DEFINE verdict == IF senderVerified(receipt[r], plan[r].tx, plan[r].signer)
                      THEN "done" ELSE "fatal"
<1>1. /\ step[r] = "sent" /\ HasReceipt(r) /\ step' = [step EXCEPT ![r] = verdict]
      /\ UNCHANGED <<vars, committed, connection, plan, mempool, receipt>>
  BY DEF Conclude, GoTo, Asks, HasReceipt
<1>2. /\ IInv' /\ PoolGoesOn /\ CommitmentIsKnown' /\ fundingAttempt' = fundingAttempt
      /\ Shapes /\ MempoolIsSound /\ TypeOK /\ TypeOK' /\ CallsAreMadeOnce'
      /\ \A q \in Runs : RunIsSound(q)
  BY <1>1, QuietPool, SameReceipts DEF OperatorIInv, IInv
<1>3. Shapes' /\ step'[r] = verdict /\ \A q \in Runs \ {r} : LeavesRun(q)
  BY <1>1, <1>2 DEF Shapes, Steps, Planned, Signed, LeavesRun
<1>4. MempoolIsSound'
  <2>1. ASSUME NEW i \in DOMAIN mempool PROVE Waiting(mempool[i].run)'
    <3>1. mempool[i].run \in Runs /\ Waiting(mempool[i].run)
      BY <1>2, PendingFacts
    <3>2. QED
      BY <1>1, <1>3, <3>1 DEF Waiting, HasReceipt, LeavesRun
  <2>2. QED
    BY <1>1, <1>2, <2>1 DEF MempoolIsSound, IsTransaction
<1>5. RunIsSound(r)'
  <2>1. RunIsSound(r) /\ TransactionIsSound(plan[r].tx, plan[r].declared)
    BY <1>1, <1>2 DEF RunIsSound, PlanIsSound, Planned, Signed
  <2>2. ConnectionIsSound(r)'
    BY <1>1, <1>3, <2>1 DEF RunIsSound, ConnectionIsSound
  <2>3. PlanIsSound(r)'
    BY <1>1, <1>3, <2>1 DEF PlanIsSound, TransactionIsSound, vars
  <2>4. ReceiptIsSound(r)'
    BY <1>1, <1>3, <2>1 DEF RunIsSound, ReceiptIsSound, Made, HasReceipt, Signed, IsTransaction, vars
  <2>5. VerdictIsSound(r)'
    BY <1>1, <1>3 DEF VerdictIsSound, HasReceipt
  <2>6. QED
    BY <2>2, <2>3, <2>4, <2>5 DEF RunIsSound
<1>6. \A q \in Runs : RunIsSound(q)'
  BY <1>2, <1>3, <1>5, RunStays
<1>7. QED
  BY <1>2, <1>3, <1>4, <1>6 DEF OperatorIInv

-----------------------------------------------------------------------------
(* The pending transactions *)

(* Whatever takes the nonce is a transaction, and an opening of lists the  *)
(* operator may call with.                                                 *)
LEMMA ReplacementFacts ==
  ASSUME NEW p, IsTransaction(p.tx), NEW tx \in Replacements(p)
  PROVE  IsTransaction(tx)
<1>1. p.tx = [to |-> p.tx.to, value |-> p.tx.value, envelope |-> p.tx.envelope, input |-> p.tx.input]
  BY DEF IsTransaction
<1>2. \/ tx = [p.tx EXCEPT !.to = p.from, !.value = 0]
      \/ tx = [p.tx EXCEPT !.envelope = "delegating"]
      \/ \E input \in OtherInputs(p.tx.input.function) : tx = [p.tx EXCEPT !.input = input]
  BY DEF Replacements
<1>3. CASE tx = [p.tx EXCEPT !.to = p.from, !.value = 0]
  <2>1. tx = [to |-> p.from, value |-> 0, envelope |-> p.tx.envelope, input |-> p.tx.input]
    BY <1>1, <1>3
  <2>2. QED
    BY <2>1 DEF IsTransaction
<1>4. CASE tx = [p.tx EXCEPT !.envelope = "delegating"]
  <2>1. tx = [to |-> p.tx.to, value |-> p.tx.value, envelope |-> "delegating", input |-> p.tx.input]
    BY <1>1, <1>4
  <2>2. QED
    BY <2>1 DEF IsTransaction
<1>5. ASSUME NEW input \in OtherInputs(p.tx.input.function), tx = [p.tx EXCEPT !.input = input]
      PROVE  IsTransaction(tx)
  <2>1. tx = [to |-> p.tx.to, value |-> p.tx.value, envelope |-> p.tx.envelope, input |-> input]
    BY <1>1, <1>5
  <2>2. input.function = "open" =>
          input.participants \in ParticipantLists /\ input.targets \in TargetLists
    BY DEF OtherInputs, Commitment, OpenAttempt
  <2>3. QED
    BY <2>1, <2>2 DEF IsTransaction
<1>6. QED
  BY <1>2, <1>3, <1>4, <1>5

(* A replacement takes the place of a pending transaction at its nonce.    *)
LEMMA ReplaceKeeps == ASSUME OperatorIInv, NEW i \in DOMAIN mempool, Replace(i) PROVE OperatorIInv'
<1>1. UNCHANGED <<vars, committed, step, connection, plan, receipt>>
  BY DEF Replace
<1>2. PICK tx \in Replacements(mempool[i]) : mempool' = [mempool EXCEPT ![i].tx = tx]
  BY DEF Replace
<1>3. /\ IInv' /\ PoolGoesOn /\ CommitmentIsKnown' /\ fundingAttempt' = fundingAttempt
      /\ Shapes /\ MempoolIsSound /\ TypeOK /\ TypeOK' /\ CallsAreMadeOnce'
      /\ \A q \in Runs : RunIsSound(q)
  BY <1>1, QuietPool, SameReceipts DEF OperatorIInv, IInv
<1>4. IsTransaction(tx)
  BY <1>3, PendingFacts, ReplacementFacts
<1>5. /\ \E S : mempool' \in Seq(S)
      /\ DOMAIN mempool' = DOMAIN mempool
      /\ mempool'[i].run = mempool[i].run /\ mempool'[i].tx = tx
      /\ mempool'[i] = [run |-> mempool'[i].run, from |-> mempool'[i].from, tx |-> mempool'[i].tx]
      /\ \A j \in DOMAIN mempool \ {i} : mempool'[j] = mempool[j]
  <2>1. PICK p : p = [mempool[i] EXCEPT !.tx = tx]
    OBVIOUS
  <2>2. p = [run |-> mempool[i].run, from |-> mempool[i].from, tx |-> tx]
    BY <1>3, <2>1, PendingFacts
  <2>3. PICK S : mempool \in Seq(S)
    BY <1>3 DEF Shapes
  <2>4. PICK T : T = S \cup {p}
    OBVIOUS
  <2>5. mempool \in Seq(T) /\ p \in T
    BY <2>3, <2>4
  <2>6. mempool' = [mempool EXCEPT ![i] = p]
    BY <1>2, <2>1
  <2>7. mempool' \in Seq(T)
    BY <2>5, <2>6
  <2>8. QED
    BY <2>2, <2>3, <2>6, <2>7
<1>6. Shapes' /\ \A q \in Runs : LeavesRun(q)
  BY <1>1, <1>3, <1>5 DEF Shapes, LeavesRun
<1>7. MempoolIsSound'
  <2>1. \A j \in DOMAIN mempool' :
          /\ mempool'[j].run = mempool[j].run
          /\ mempool'[j] = [run |-> mempool'[j].run, from |-> mempool'[j].from,
                            tx |-> mempool'[j].tx]
          /\ IsTransaction(mempool'[j].tx)
    BY <1>3, <1>4, <1>5 DEF MempoolIsSound
  <2>2. QED
    BY <1>1, <1>3, <1>5, <2>1 DEF MempoolIsSound, Waiting, HasReceipt, IsTransaction
<1>8. \A q \in Runs : RunIsSound(q)'
  BY <1>3, <1>6, RunStays
<1>9. QED
  BY <1>3, <1>6, <1>7, <1>8 DEF OperatorIInv

(* What a successful call did to the pool, and that no other run has made  *)
(* it in the same attempt.                                                 *)
CallIsMade(sender, tx) ==
  /\ tx.input.function = "commit" => predepositSubmitted' /\ committed' = tx.input
  /\ tx.input.function = "topUp" => topUpSubmitted'
  /\ tx.input.function = "close" => state' = "Predeposited"
  /\ \A q \in Runs :
       tx.input.function \in Functions /\ Made(q, tx.input.function) =>
         tx.input.function \in {"open", "close"} /\ receipt[q].attempt # fundingAttempt'

(* What a mined transaction of the operator does to the pool is the call   *)
(* of its input.                                                           *)
LEMMA ExecuteFacts ==
  ASSUME IInv, CommitmentIsKnown, \A q \in Runs : ReceiptIsSound(q),
         NEW sender, NEW tx, IsTransaction(tx), Accepted(sender, tx), Execute(sender, tx)
  PROVE  IInv' /\ PoolGoesOn /\ CommitmentIsKnown' /\ CallIsMade(sender, tx)
<1>0. fundingAttempt \in Nat /\ (tx.input.function # "close" => sender = operator)
  BY DEF IInv, TypeOK, Execute, commitAndPredeposit, openFundingAttempt, topUpValidator
<1>1. CASE tx.input.function = "commit"
  <2>1. /\ commitAndPredeposit(operator, tx.value) /\ tx.value \in Nat
        /\ topUpRootValid' = TopUpAccepted(tx.input) /\ committed' = tx.input
    BY <1>0, <1>1, AmountsAssumption DEF Execute, commitAndPredeposit
  <2>2. PICK data : data = tx.input
    OBVIOUS
  <2>3. IInv' /\ PoolGoesOn /\ CommitmentIsKnown' /\ ~ predepositSubmitted /\ predepositSubmitted'
    BY <2>1, <2>2, CommitFacts
  <2>4. \A q \in Runs : ~ Made(q, "commit")
    BY <2>3 DEF ReceiptIsSound
  <2>5. QED
    BY <1>1, <2>1, <2>3, <2>4 DEF CallIsMade
<1>2. CASE tx.input.function = "open"
  <2>1. /\ openFundingAttempt(operator, tx.input.participants, tx.input.targets)
        /\ UNCHANGED committed
        /\ tx.input.participants \in ParticipantLists /\ tx.input.targets \in TargetLists
    BY <1>0, <1>2 DEF Execute, IsTransaction
  <2>2. IInv' /\ PoolGoesOn /\ CommitmentIsKnown' /\ fundingAttempt < fundingAttempt'
    BY <2>1, OpenFacts
  <2>3. fundingAttempt' \in Nat
    BY <2>2 DEF IInv, TypeOK
  <2>4. \A q \in Runs : Made(q, "open") =>
          receipt[q].attempt \in Nat /\ receipt[q].attempt <= fundingAttempt
    BY DEF ReceiptIsSound, Made
  <2>5. \A q \in Runs : Made(q, "open") => receipt[q].attempt # fundingAttempt'
    BY <1>0, <2>2, <2>3, <2>4
  <2>6. QED
    BY <1>2, <2>2, <2>5 DEF CallIsMade
<1>3. CASE tx.input.function = "close"
  <2>1. closeExpiredFundingAttempt /\ UNCHANGED committed /\ state = "Funding"
    BY <1>3 DEF Execute, closeExpiredFundingAttempt, CanClose
  <2>2. /\ IInv' /\ PoolGoesOn /\ CommitmentIsKnown'
        /\ fundingAttempt' = fundingAttempt /\ state' = "Predeposited"
    BY <2>1, CloseFacts
  <2>3. \A q \in Runs : Made(q, "close") => receipt[q].attempt # fundingAttempt
    BY <2>1 DEF ReceiptIsSound
  <2>4. QED
    BY <1>3, <2>2, <2>3 DEF CallIsMade
<1>4. CASE tx.input.function = "topUp"
  <2>1. topUpValidator(operator) /\ UNCHANGED committed
    BY <1>0, <1>4 DEF Execute
  <2>2. IInv' /\ PoolGoesOn /\ CommitmentIsKnown' /\ ~ topUpSubmitted /\ topUpSubmitted'
    BY <2>1, TopUpFacts
  <2>3. \A q \in Runs : ~ Made(q, "topUp")
    BY <2>2 DEF ReceiptIsSound
  <2>4. QED
    BY <1>4, <2>2, <2>3 DEF CallIsMade
<1>5. QED
  BY <1>1, <1>2, <1>3, <1>4 DEF Execute

(* A transaction is mined for the run that waits for it.                   *)
LEMMA MinedKeeps ==
  ASSUME OperatorIInv, NEW i \in DOMAIN mempool, NEW status,
         Mined(i, status), IInv', PoolGoesOn, CommitmentIsKnown',
         status = "success" /\ mempool[i].tx.to = Pool =>
           CallIsMade(mempool[i].from, mempool[i].tx)
  PROVE  OperatorIInv'
<1>p. PICK p : p = mempool[i]
  OBVIOUS
<1>a. PICK attempt : attempt = fundingAttempt'
  OBVIOUS
<1> DEFINE r == p.run
<1>m. PICK mined : mined = [status |-> status, from |-> p.from, replaced |-> p.tx # plan[r].tx,
                            mined |-> p.tx, attempt |-> attempt]
  OBVIOUS
<1>1. /\ receipt' = [receipt EXCEPT ![r] = mined]
      /\ mempool' = Without(mempool, i)
      /\ UNCHANGED <<step, connection, plan>>
  BY <1>p, <1>a, <1>m DEF Mined, Without
<1>2. /\ IInv /\ TypeOK /\ TypeOK' /\ Shapes /\ MempoolIsSound /\ CallsAreMadeOnce
      /\ \A q \in Runs : RunIsSound(q)
  BY DEF OperatorIInv, IInv
<1>3. r \in Runs /\ Waiting(r) /\ IsTransaction(p.tx)
  BY <1>p, <1>2, PendingFacts
<1>4. /\ receipt'[r] = mined /\ DOMAIN receipt' = Runs
      /\ \A q \in Runs \ {r} : receipt'[q] = receipt[q]
  BY <1>1, <1>2, <1>3 DEF Shapes
<1>5. /\ mined.status = status /\ mined.from = p.from /\ mined.mined = p.tx
      /\ mined.replaced = (p.tx # plan[r].tx) /\ mined.attempt = attempt
      /\ mined # NotMined
  <2>1. mined.from = p.from /\ DOMAIN mined # DOMAIN NotMined
    <3>1. "from" \in DOMAIN mined /\ "from" \notin DOMAIN NotMined
      BY <1>m DEF NotMined
    <3>2. QED
      BY <1>m, <3>1
  <2>2. QED
    BY <1>m, <2>1
<1>6. HasReceipt(r)' /\ ~ HasReceipt(r) /\ step[r] = "sent" /\ step'[r] = "sent"
  BY <1>1, <1>3, <1>4, <1>5 DEF HasReceipt, Waiting
<1>7. \A q \in Runs \ {r} : LeavesRun(q)
  BY <1>1, <1>4 DEF LeavesRun
<1>8. \A function : Made(r, function)' =>
        status = "success" /\ p.tx.to = Pool /\ p.tx.input.function = function
  BY <1>4, <1>5 DEF Made
<1>9. status = "success" /\ p.tx.to = Pool => CallIsMade(p.from, p.tx)
  BY <1>p
<1>10. RunIsSound(r)'
  <2>1. RunIsSound(r) /\ TransactionIsSound(plan[r].tx, plan[r].declared)
    BY <1>2, <1>3, <1>6 DEF RunIsSound, PlanIsSound, Planned, Signed
  <2>2. ConnectionIsSound(r)'
    BY <1>1, <1>6, <2>1 DEF RunIsSound, ConnectionIsSound
  <2>3. PlanIsSound(r)'
    BY <1>1, <1>6, <2>1 DEF PlanIsSound, TransactionIsSound, PoolGoesOn
  <2>4. ReceiptIsSound(r)'
    <3>1. attempt \in Nat /\ attempt <= fundingAttempt' /\ attempt = fundingAttempt'
      BY <1>2, <1>a DEF TypeOK
    <3>2. IsTransaction(receipt'[r].mined) /\ (receipt'[r].replaced <=> receipt'[r].mined # plan'[r].tx)
      BY <1>1, <1>3, <1>4, <1>5
    <3>3. Made(r, "commit")' => predepositSubmitted' /\ committed' = receipt'[r].mined.input
      BY <1>4, <1>5, <1>8, <1>9 DEF CallIsMade
    <3>4. /\ Made(r, "topUp")' => topUpSubmitted'
          /\ Made(r, "close")' => state' = "Predeposited"
      BY <1>8, <1>9 DEF CallIsMade
    <3>5. QED
      BY <1>4, <1>5, <1>6, <3>1, <3>2, <3>3, <3>4 DEF ReceiptIsSound, Signed, IsTransaction
  <2>5. VerdictIsSound(r)'
    BY <1>6 DEF VerdictIsSound
  <2>6. QED
    BY <2>2, <2>3, <2>4, <2>5 DEF RunIsSound
<1>11. \A q \in Runs : RunIsSound(q)'
  BY <1>2, <1>7, <1>10, RunStays
<1>12. /\ \E S : mempool' \in Seq(S)
       /\ \A j \in DOMAIN mempool' :
            \E k \in DOMAIN mempool : k = (IF j < i THEN j ELSE j + 1) /\ mempool'[j] = mempool[k]
       /\ \A j \in DOMAIN mempool' : j \in Int
       /\ i \in Int
  <2>1. PICK S : mempool \in Seq(S)
    BY <1>2 DEF Shapes
  <2>2. i \in Int
    BY <2>1
  <2>3. QED
    BY <1>1, <2>1, <2>2, Removed
<1>13. MempoolIsSound'
  <2>1. ASSUME NEW j \in DOMAIN mempool'
        PROVE  /\ mempool'[j].run \in Runs
               /\ step'[mempool'[j].run] = "sent" /\ receipt'[mempool'[j].run] = NotMined
               /\ mempool'[j] = [run |-> mempool'[j].run, from |-> mempool'[j].from,
                                 tx |-> mempool'[j].tx]
               /\ IsTransaction(mempool'[j].tx)
    <3>1. PICK k \in DOMAIN mempool : k # i /\ mempool'[j] = mempool[k]
      BY <1>12, <2>1
    <3>2. /\ mempool[k].run \in Runs /\ mempool[k].run # r
          /\ Waiting(mempool[k].run) /\ IsTransaction(mempool[k].tx)
          /\ mempool[k] = [run |-> mempool[k].run, from |-> mempool[k].from, tx |-> mempool[k].tx]
      BY <1>p, <1>2, <3>1, PendingFacts DEF MempoolIsSound
    <3>3. QED
      BY <1>1, <1>4, <3>1, <3>2 DEF Waiting, HasReceipt
  <2>2. ASSUME NEW j \in DOMAIN mempool', NEW l \in DOMAIN mempool', mempool'[j].run = mempool'[l].run
        PROVE  j = l
    <3>1. PICK k \in DOMAIN mempool : k = (IF j < i THEN j ELSE j + 1) /\ mempool'[j] = mempool[k]
      BY <1>12, <2>2
    <3>2. PICK n \in DOMAIN mempool : n = (IF l < i THEN l ELSE l + 1) /\ mempool'[l] = mempool[n]
      BY <1>12, <2>2
    <3>3. k = n
      BY <1>2, <2>2, <3>1, <3>2 DEF MempoolIsSound
    <3>4. QED
      BY <1>12, <2>2, <3>1, <3>2, <3>3
  <2>3. QED
    BY <2>1, <2>2 DEF MempoolIsSound, Waiting, HasReceipt, IsTransaction
<1>14. CallsAreMadeOnce'
  <2>1. \A q \in Runs \ {r} : \A function : Made(q, function)' <=> Made(q, function)
    BY <1>7 DEF LeavesRun, Made, HasReceipt
  <2>2. ASSUME NEW q \in Runs \ {r}, NEW function \in Functions, Made(q, function), Made(r, function)'
        PROVE  function \in {"open", "close"} /\ receipt[q].attempt # attempt
    <3>1. p.tx.input.function = function /\ CallIsMade(p.from, p.tx)
      BY <1>8, <1>9, <2>2
    <3>2. QED
      BY <1>a, <2>2, <3>1 DEF CallIsMade
  <2>3. SUFFICES ASSUME NEW q \in Runs, NEW s \in Runs, NEW function \in Functions, q # s,
                        Made(q, function)', Made(s, function)'
                 PROVE  function \in {"open", "close"} /\ receipt'[q].attempt # receipt'[s].attempt
    BY DEF CallsAreMadeOnce
  <2>4. CASE q = r
    BY <1>4, <1>5, <2>1, <2>2, <2>3, <2>4
  <2>5. CASE s = r
    BY <1>4, <1>5, <2>1, <2>2, <2>3, <2>5
  <2>6. CASE q # r /\ s # r
    BY <1>2, <1>4, <2>1, <2>3, <2>6 DEF CallsAreMadeOnce
  <2>7. QED
    BY <2>4, <2>5, <2>6
<1>15. Shapes'
  BY <1>1, <1>2, <1>4, <1>12 DEF Shapes
<1>16. QED
  BY <1>11, <1>13, <1>14, <1>15 DEF OperatorIInv

(* A mined call is made once, and its run gets the receipt.                *)
LEMMA MineCallKeeps == ASSUME OperatorIInv, NEW i \in DOMAIN mempool, MineCall(i) PROVE OperatorIInv'
<1>1. PICK sender, tx : sender = mempool[i].from /\ tx = mempool[i].tx
  OBVIOUS
<1>2. Accepted(sender, tx) /\ Execute(sender, tx) /\ Mined(i, "success")
  BY <1>1 DEF MineCall
<1>3. IInv /\ CommitmentIsKnown /\ IsTransaction(tx) /\ \A q \in Runs : ReceiptIsSound(q)
  BY <1>1, PendingFacts DEF OperatorIInv, RunIsSound
<1>4. IInv' /\ PoolGoesOn /\ CommitmentIsKnown' /\ CallIsMade(sender, tx)
  BY <1>2, <1>3, ExecuteFacts
<1>5. QED
  BY <1>1, <1>2, <1>4, MinedKeeps

(* What is not accepted, or does not go to the pool, makes no call. *)
LEMMA MineNothingKeeps ==
  ASSUME OperatorIInv, NEW i \in DOMAIN mempool, MineRevert(i) \/ MineCancellation(i)
  PROVE  OperatorIInv'
<1>1. UNCHANGED <<vars, committed>>
  BY DEF MineRevert, MineCancellation
<1>2. IInv' /\ PoolGoesOn /\ CommitmentIsKnown'
  BY <1>1, QuietPool DEF OperatorIInv
<1>3. CASE MineRevert(i)
  <2>1. Mined(i, "reverted")
    BY <1>3 DEF MineRevert
  <2>2. QED
    BY <1>2, <2>1, MinedKeeps
<1>4. CASE MineCancellation(i)
  <2>1. Mined(i, "success") /\ mempool[i].tx.to # Pool
    BY <1>4 DEF MineCancellation
  <2>2. QED
    BY <1>2, <2>1, MinedKeeps
<1>5. QED
  BY <1>3, <1>4

-----------------------------------------------------------------------------
(* The inductive invariant is one *)

(* No run has started at first.                                            *)
LEMMA OperatorInitEstablishes == OperatorInit => OperatorIInv
<1> SUFFICES ASSUME OperatorInit PROVE OperatorIInv
  OBVIOUS
<1>1. IInv /\ TypeOK
  BY InitEstablishesIInv DEF OperatorInit, IInv
<1>2. Shapes
  <2>1. mempool \in Seq({})
    BY DEF OperatorInit
  <2>2. QED
    BY <2>1 DEF OperatorInit, Shapes, Steps
<1>3. CommitmentIsKnown
  BY DEF OperatorInit, Init, CommitmentIsKnown
<1>4. MempoolIsSound
  BY DEF OperatorInit, MempoolIsSound
<1>5. \A r \in Runs : ~ HasReceipt(r) /\ step[r] = "start" /\ connection[r] = Disconnected
  BY DEF OperatorInit, HasReceipt
<1>6. \A r \in Runs : RunIsSound(r)
  BY <1>5 DEF RunIsSound, ConnectionIsSound, PlanIsSound, ReceiptIsSound, VerdictIsSound,
              Made, Planned, Signed
<1>7. CallsAreMadeOnce
  BY <1>5 DEF CallsAreMadeOnce, Made
<1>8. QED
  BY <1>1, <1>2, <1>3, <1>4, <1>6, <1>7 DEF OperatorIInv

(* Other accounts change the pool, and no run.                             *)
LEMMA OthersKeep == ASSUME OperatorIInv, OthersStep PROVE OperatorIInv'
<1>1. /\ IInv' /\ PoolGoesOn /\ CommitmentIsKnown' /\ TypeOK /\ TypeOK'
      /\ UNCHANGED <<step, connection, plan, mempool, receipt>>
  BY OthersFacts DEF OperatorIInv, IInv, commandVars
<1>2. Shapes' /\ MempoolIsSound' /\ CallsAreMadeOnce' /\ \A q \in Runs : LeavesRun(q)
  BY <1>1, SameReceipts DEF OperatorIInv, Shapes, MempoolIsSound, Waiting, HasReceipt,
                            IsTransaction, LeavesRun
<1>3. \A q \in Runs : RunIsSound(q)'
  BY <1>1, <1>2, RunStays DEF OperatorIInv
<1>4. QED
  BY <1>1, <1>2, <1>3 DEF OperatorIInv

(* Every step of the pool, the mempool and the runs keeps the invariant.   *)
LEMMA OperatorNextKeeps == OperatorIInv /\ [OperatorNext]_allVars => OperatorIInv'
<1> SUFFICES ASSUME OperatorIInv, [OperatorNext]_allVars PROVE OperatorIInv'
  OBVIOUS
<1>1. ASSUME NEW r \in Runs, RunStep(r) PROVE OperatorIInv'
  BY <1>1, ConnectKeeps, PrepareCommitKeeps, PrepareOpenKeeps, PrepareCloseKeeps, PrepareTopUpKeeps,
     PrepareFundKeeps, EstimateKeeps, SignAndBroadcastKeeps, ConcludeKeeps DEF RunStep
<1>2. ASSUME NEW i \in DOMAIN mempool,
             Replace(i) \/ MineCall(i) \/ MineRevert(i) \/ MineCancellation(i)
      PROVE  OperatorIInv'
  BY <1>2, ReplaceKeeps, MineCallKeeps, MineNothingKeeps
<1>3. CASE UNCHANGED allVars
  <2>1. UNCHANGED <<vars, committed, step, connection, plan, mempool, receipt>>
    BY <1>3 DEF allVars, commandVars
  <2>2. /\ IInv' /\ PoolGoesOn /\ CommitmentIsKnown' /\ TypeOK /\ TypeOK'
    BY <2>1, QuietPool DEF OperatorIInv, IInv
  <2>3. Shapes' /\ MempoolIsSound' /\ CallsAreMadeOnce' /\ \A q \in Runs : LeavesRun(q)
    BY <2>1, SameReceipts DEF OperatorIInv, Shapes, MempoolIsSound, Waiting, HasReceipt,
                              IsTransaction, LeavesRun
  <2>4. QED
    BY <2>2, <2>3, RunStays DEF OperatorIInv
<1>4. QED
  BY <1>1, <1>2, <1>3, OthersKeep DEF OperatorNext

(* It holds in every reachable state of the pool and the runs. *)
THEOREM OperatorInvariantHolds == OperatorSpec => []OperatorIInv
BY OperatorInitEstablishes, OperatorNextKeeps, PTL DEF OperatorSpec

-----------------------------------------------------------------------------
(* What follows *)

(* Two transactions that agree in the fields the check compares are one. *)
LEMMA SameFields ==
  ASSUME NEW a, NEW b, IsTransaction(a), IsTransaction(b), differingSemanticFields(a, b) = {}
  PROVE  a = b
<1>1. a.to = b.to /\ a.value = b.value /\ a.input = b.input /\ a.envelope = b.envelope
  BY DEF differingSemanticFields, SemanticFields
<1>2. /\ a = [to |-> a.to, value |-> a.value, envelope |-> a.envelope, input |-> a.input]
      /\ b = [to |-> b.to, value |-> b.value, envelope |-> b.envelope, input |-> b.input]
  BY DEF IsTransaction
<1>3. QED
  BY <1>1, <1>2

(* Success is reported exactly for the call that was composed, made by the *)
(* signer that was printed and accepted by the pool: whatever takes its    *)
(* nonce, and whoever's device signs.                                      *)
THEOREM OperatorReportsAreRight == OperatorSpec => []OperatorVerdictsAreRight
<1>1. OperatorIInv => OperatorVerdictsAreRight
  <2> SUFFICES ASSUME OperatorIInv, NEW r \in Runs, step[r] \in {"done", "fatal"}
               PROVE  step[r] = "done" <=>
                        /\ receipt[r].status = "success"
                        /\ receipt[r].from = plan[r].signer
                        /\ receipt[r].mined = plan[r].tx
    BY DEF OperatorVerdictsAreRight
  <2>1. PlanIsSound(r) /\ ReceiptIsSound(r) /\ VerdictIsSound(r)
    BY DEF OperatorIInv, RunIsSound
  <2>2. HasReceipt(r) /\ IsTransaction(receipt[r].mined) /\ IsTransaction(plan[r].tx)
    BY <2>1 DEF PlanIsSound, TransactionIsSound, ReceiptIsSound, VerdictIsSound, Planned, Signed
  <2>3. ASSUME senderVerified(receipt[r], plan[r].tx, plan[r].signer)
        PROVE  receipt[r].mined = plan[r].tx
    <3>1. CASE receipt[r].replaced
      <4>1. differingSemanticFields(plan[r].tx, receipt[r].mined) = {}
        BY <2>3, <3>1 DEF senderVerified, acceptableReplacement
      <4>2. QED
        BY <2>2, <4>1, SameFields
    <3>2. CASE ~ receipt[r].replaced
      BY <2>1, <2>2, <3>2 DEF ReceiptIsSound
    <3>3. QED
      BY <3>1, <3>2
  <2>4. QED
    BY <2>1, <2>2, <2>3 DEF ReceiptIsSound, VerdictIsSound, senderVerified
<1>2. QED
  BY <1>1, OperatorInvariantHolds, PTL

(* No two runs report the same predeposit, top-up, opening or closing. *)
THEOREM StepsAreReportedOnce == OperatorSpec => []OneReportPerStep
<1>1. OperatorIInv /\ OperatorVerdictsAreRight => OneReportPerStep
  <2> SUFFICES ASSUME OperatorIInv, OperatorVerdictsAreRight, NEW q \in Runs, NEW r \in Runs,
                      q # r, step[q] = "done", step[r] = "done",
                      plan[q].tx.input.function = plan[r].tx.input.function
               PROVE  /\ plan[r].tx.input.function \in {"open", "close"}
                      /\ receipt[q].attempt # receipt[r].attempt
    BY DEF OneReportPerStep
  <2>1. ASSUME NEW s \in {q, r}
        PROVE  /\ plan[s].tx.input.function \in Functions
               /\ Made(s, plan[s].tx.input.function)
    <3>1. PlanIsSound(s) /\ VerdictIsSound(s) /\ step[s] = "done"
      BY DEF OperatorIInv, RunIsSound
    <3>2. plan[s].tx.input.function \in Functions /\ plan[s].tx.to = Pool /\ HasReceipt(s)
      BY <3>1 DEF PlanIsSound, TransactionIsSound, VerdictIsSound, Planned, Signed
    <3>3. receipt[s].status = "success" /\ receipt[s].mined = plan[s].tx
      BY <3>1 DEF OperatorVerdictsAreRight
    <3>4. QED
      BY <3>2, <3>3 DEF Made
  <2>2. QED
    BY <2>1 DEF OperatorIInv, CallsAreMadeOnce
<1>2. QED
  BY <1>1, OperatorInvariantHolds, OperatorReportsAreRight, PTL

(* What a run that reports success committed is the declared validator's,  *)
(* will be taken by the deposit contract a second time, and is valid under *)
(* the required fork version; a reported top-up went to the validator of   *)
(* the file.                                                               *)
THEOREM IrreversibleStepsHold == OperatorSpec => []IrreversibleStepsAreSound
<1>1. OperatorIInv /\ OperatorVerdictsAreRight => IrreversibleStepsAreSound
  <2> SUFFICES ASSUME OperatorIInv, OperatorVerdictsAreRight, NEW r \in Runs, step[r] = "done"
               PROVE  /\ plan[r].tx.input.function = "commit" =>
                           /\ committed = plan[r].tx.input
                           /\ topUpRootValid
                           /\ Agrees(plan[r].declared.pubkey, committed.pubkey)
                           /\ PredepositIsValid(committed, plan[r].declared.forkVersion)
                      /\ plan[r].tx.input.function = "topUp" => committed.pubkey = plan[r].declared
    BY DEF IrreversibleStepsAreSound, PredepositIsValid
  <2>1. PlanIsSound(r) /\ ReceiptIsSound(r) /\ VerdictIsSound(r)
    BY DEF OperatorIInv, RunIsSound
  <2>2. TransactionIsSound(plan[r].tx, plan[r].declared) /\ HasReceipt(r)
    BY <2>1 DEF PlanIsSound, VerdictIsSound, Planned, Signed
  <2>3. receipt[r].status = "success" /\ receipt[r].mined = plan[r].tx
    BY DEF OperatorVerdictsAreRight
  <2>4. ASSUME plan[r].tx.input.function = "commit"
        PROVE  committed = plan[r].tx.input /\ topUpRootValid
    <3>1. Made(r, "commit")
      BY <2>2, <2>3, <2>4 DEF Made, TransactionIsSound
    <3>2. predepositSubmitted /\ committed = plan[r].tx.input
      BY <2>1, <2>3, <3>1 DEF ReceiptIsSound
    <3>3. topUpRootValid = TopUpAccepted(committed)
      BY <3>2 DEF OperatorIInv, CommitmentIsKnown
    <3>4. QED
      BY <2>2, <2>4, <3>2, <3>3 DEF TransactionIsSound
  <2>5. QED
    BY <2>2, <2>4 DEF TransactionIsSound
<1>2. QED
  BY <1>1, OperatorInvariantHolds, OperatorReportsAreRight, PTL

(* Whoever reaches the funding review has a valid commitment before it. *)
THEOREM FundedCommitmentsHold == OperatorSpec => []FundedCommitmentsAreSound
<1>1. OperatorIInv => FundedCommitmentsAreSound
  <2> SUFFICES ASSUME OperatorIInv, NEW r \in Runs, step[r] = "funding"
               PROVE  /\ topUpRootValid
                      /\ PredepositIsValid(committed, plan[r].declared)
                      /\ TopUpIsValid(committed, plan[r].declared)
    BY DEF FundedCommitmentsAreSound, PredepositIsValid, TopUpIsValid
  <2>1. CommittedIsSound(plan[r].declared)
    BY DEF OperatorIInv, RunIsSound, PlanIsSound
  <2>2. topUpRootValid = TopUpAccepted(committed)
    BY <2>1 DEF OperatorIInv, CommitmentIsKnown, CommittedIsSound
  <2>3. QED
    BY <2>1, <2>2 DEF CommittedIsSound
<1>2. QED
  BY <1>1, OperatorInvariantHolds, PTL

(* A number up to Number.MAX_SAFE_INTEGER is read as it is written, so     *)
(* that what Hardhat compares is what was declared.                        *)
LEMMA DeclaredChainAnswers ==
  ASSUME NEW c, Usable(c)
  PROVE  c.expectedChainId \in {NoChain, c.chainId}
BY DEF Usable, CanConfigure, ExpectedChainIdParses, PinnedChainAnswers, AsNumber

(* Runs speak to the declared chain and sign for a declared account. *)
THEOREM DeclarationsBind == OperatorSpec => []RunsSignAsDeclared
<1>1. OperatorIInv => RunsSignAsDeclared
  BY DeclaredChainAnswers DEF OperatorIInv, RunIsSound, ConnectionIsSound, RunsSignAsDeclared
<1>2. QED
  BY <1>1, OperatorInvariantHolds, PTL

=============================================================================
