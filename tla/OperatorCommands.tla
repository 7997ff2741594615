--------------------------- MODULE OperatorCommands ---------------------------
(***************************************************************************)
(* scripts/commit-predeposit.ts, open-funding-attempt.ts, top-up.ts and    *)
(* close-expired-funding-attempt.ts: runs of the four commands that move   *)
(* the pool from one state to the next, beside everybody else; and         *)
(* scripts/fund.ts up to its funding review, where FundCommand takes over. *)
(*                                                                         *)
(* What a run reads before its estimate never changes (its environment,    *)
(* the immutables, the beacon node's configuration, the committed pubkey   *)
(* once there is one), so it is read in one step; the deposit-data file    *)
(* may be another one for every run.  From the estimate on the chain moves *)
(* between any two steps, and what was signed waits, may be replaced at    *)
(* its nonce, and is mined in nonce order.                                 *)
(***************************************************************************)
EXTENDS ValidatorFundingPool, SenderVerifiedReceipt, DepositData, SignerSelection

CONSTANTS
  Runs,
  Connections,   \* what a run may be connected to and declare about it
  Keys,          \* accounts of devices that may take the signer's place
  DepositInputs, \* what DEPOSIT_DATA_FILE may hold, BEACON_NODE_URL answer with,
                 \* and the fork version, pubkey and network name declared beside them
  OperatorsFiles, \* what the operator commits in other runs and by other tools
  chain,         \* the chain's own configuration and genesis fork version
  forkVersionPin, \* CANONICAL_GENESIS_FORK_VERSION of the chain, if it has one
  withdrawalCredentials  \* the pool's

ASSUME OperatorAssumption ==
  \A file \in OperatorsFiles : BothFound(file, PREDEPOSIT_WEI, TOP_UP_WEI)
ASSUME ChainAssumption == chain.forkVersion # Unset
ASSUME ConnectionsAssumption == \A c \in Connections : c.nodeAccounts \in Seq(Accounts)

VARIABLES
  committed,  \* the data the pool was given with its predeposit
  step,       \* of each run: how far it is
  connection, \* what it is connected to, until it has chosen its signer
  plan,       \* the signer, the transaction composed, and what was declared
  mempool,    \* the pending transactions, as signed or replaced
  receipt     \* of each run: what was mined at the nonce it used

commandVars == <<step, connection, plan, mempool, receipt>>
allVars == <<vars, committed, commandVars>>

NothingCommitted == [pubkey |-> Unset]
NoPlan == [signer |-> NoSigner]
Disconnected == [network |-> "none"]
NotMined == [status |-> "none"]

OperatorInit ==
  /\ Init
  /\ committed = NothingCommitted
  /\ step = [r \in Runs |-> "start"]
  /\ connection = [r \in Runs |-> Disconnected]
  /\ plan = [r \in Runs |-> NoPlan]
  /\ mempool = <<>>
  /\ receipt = [r \in Runs |-> NotMined]

GoTo(r, next) == step' = [step EXCEPT ![r] = next]

-----------------------------------------------------------------------------
(* Deposit data *)

Predeposit(file) == EntryOf(file, PREDEPOSIT_WEI)
TopUp(file) == EntryOf(file, TOP_UP_WEI)

(* A pubkey that was read from a file is one.                              *)
ASSUME FilesAssumption ==
  \A in \in DepositInputs :
    BothFound(in.file, PREDEPOSIT_WEI, TOP_UP_WEI) => Predeposit(in.file).pubkey # Unset

(* The arguments of commitAndPredeposit. *)
Commitment(file) ==
  [function |-> "commit",
   pubkey |-> Predeposit(file).pubkey, signature |-> Predeposit(file).signature,
   root |-> Predeposit(file).root,
   topUpSignature |-> TopUp(file).signature, topUpRoot |-> TopUp(file).root]

(* The deposit contract computes the root of what it is given, the pool's  *)
(* credentials and the ETH that came with it.                              *)
DepositAccepted(pubkey, amount, signature, root) ==
  root = computeDepositDataRoot(pubkey, withdrawalCredentials, amount, signature)

PredepositAccepted(data) ==
  DepositAccepted(data.pubkey, PREDEPOSIT_WEI, data.signature, data.root)
TopUpAccepted(data) ==
  DepositAccepted(data.pubkey, TOP_UP_WEI, data.topUpSignature, data.topUpRoot)

CommittedPubkeyMatchesLocal_Mutant(file) == TRUE
(* assertCommittedPubkeyMatchesLocal *)
CommittedPubkeyMatchesLocal(file) ==
  /\ Predeposit(file).pubkey # Malformed
  /\ committed.pubkey = Predeposit(file).pubkey

CommittedDataMatchesFile_Mutant(file) ==
  committed.pubkey = Predeposit(file).pubkey /\ committed.root = Predeposit(file).root
(* fund compares all that was committed, the top-up's root and signature   *)
(* among it.                                                               *)
CommittedDataMatchesFile(file) == committed = Commitment(file)

DataFit_Mutant(file, node, networkName) ==
  /\ ValidDepositData(Predeposit(file), withdrawalCredentials, node.forkVersion,
                      Predeposit(file).pubkey, PREDEPOSIT_WEI, networkName)
  /\ ValidDepositData(TopUp(file), withdrawalCredentials, node.forkVersion,
                      TopUp(file).pubkey, TOP_UP_WEI, networkName)
(* The two entries, the second for the validator of the first, under the   *)
(* fork version the node reports.                                          *)
DataFit(file, node, networkName) ==
  /\ ValidDepositData(Predeposit(file), withdrawalCredentials, node.forkVersion,
                      Predeposit(file).pubkey, PREDEPOSIT_WEI, networkName)
  /\ ValidDepositData(TopUp(file), withdrawalCredentials, node.forkVersion,
                      Predeposit(file).pubkey, TOP_UP_WEI, networkName)

-----------------------------------------------------------------------------
(* One run, up to the signature *)

Asks(r, at) == step[r] = at /\ calls = <<>>

Call(value, input) == [to |-> Pool, value |-> value, envelope |-> "plain", input |-> input]

OpenAttempt(ps, ts) == [function |-> "open", participants |-> ps, targets |-> ts]

Connect(r) ==
  /\ Asks(r, "start")
  /\ \E c \in Connections :
       IF CanConfigure(c) /\ PinnedChainAnswers(c)
       THEN GoTo(r, "connected") /\ connection' = [connection EXCEPT ![r] = c]
       ELSE GoTo(r, "refused") /\ UNCHANGED connection
  /\ UNCHANGED <<vars, committed, plan, mempool, receipt>>

(* The run ends, or goes on with tx as the signer its connection selects:  *)
(* signers is who may sign this call.                                      *)
Proceed(r, inputsFit, signers, tx, declared, next) ==
  LET signer == resolveSigningWallet(connection[r])
      recordedChain == connection[r].chainId = chain.chainId
      verdict == IF ~ (inputsFit /\ recordedChain) THEN "refused"
                 ELSE IF ~ ActiveSignerAccepted(connection[r], signer) THEN "wrongSigner"
                 ELSE IF signer \notin signers THEN "refused" ELSE next
  IN /\ Asks(r, "connected")
     /\ GoTo(r, verdict)
     /\ connection' = [connection EXCEPT ![r] = IF verdict = "refused" THEN Disconnected ELSE @]
     /\ plan' = [plan EXCEPT ![r] =
          IF verdict = next
          THEN [signer |-> signer, tx |-> tx, declared |-> declared]
          ELSE NoPlan]
     /\ UNCHANGED <<vars, committed, mempool, receipt>>

Compose(r, inputsFit, signers, tx, declared) ==
  Proceed(r, inputsFit, signers, tx, declared, "composed")

PrepareCommit(r) ==
  \E in \in DepositInputs :
    LET fits == /\ BothFound(in.file, PREDEPOSIT_WEI, TOP_UP_WEI)
                /\ Agrees(in.pubkey, Predeposit(in.file).pubkey)
                /\ SameChain(in.node, chain)
                /\ ForkVersionAccepted(in.node, in.forkVersion, forkVersionPin)
                /\ DataFit(in.file, in.node, in.networkName)
    IN Compose(r, fits, {operator},
               IF fits THEN Call(PREDEPOSIT_WEI, Commitment(in.file)) ELSE NoPlan,
               [pubkey |-> in.pubkey,
                forkVersion |-> RequiredForkVersion(in.forkVersion, forkVersionPin)])

(* FUNDING_WINDOW_SECONDS must not be declared, PARTICIPANTS and           *)
(* FUNDING_TARGETS_GWEI must be, with equal length.                        *)
AllocationFits(windowDeclared, ps, ts) ==
  ~ windowDeclared /\ ps # <<>> /\ ts # <<>> /\ Len(ps) = Len(ts)

PrepareOpen(r) ==
  \E windowDeclared \in BOOLEAN, ps \in ParticipantLists, ts \in TargetLists :
    Compose(r, AllocationFits(windowDeclared, ps, ts), {operator}, Call(0, OpenAttempt(ps, ts)), Unset)

(* Anyone may close. *)
PrepareClose(r) == Compose(r, TRUE, Accounts, Call(0, [function |-> "close"]), Unset)

(* The beacon checks of the validator are those of BeaconPreflight. *)
PrepareTopUp(r) ==
  \E in \in DepositInputs :
    LET found == BothFound(in.file, PREDEPOSIT_WEI, TOP_UP_WEI)
    IN Compose(r, found /\ SameChain(in.node, chain) /\ CommittedPubkeyMatchesLocal(in.file),
               {operator}, Call(0, [function |-> "topUp"]),
               IF found THEN Predeposit(in.file).pubkey ELSE Unset)

(* Whoever funds has its own copy of the file. *)
PrepareFund(r) ==
  \E in \in DepositInputs :
    LET fits == /\ BothFound(in.file, PREDEPOSIT_WEI, TOP_UP_WEI)
                /\ SameChain(in.node, chain)
                /\ ForkVersionAccepted(in.node, in.forkVersion, forkVersionPin)
                /\ DataFit(in.file, in.node, in.networkName)
                /\ CommittedDataMatchesFile(in.file)
    IN Proceed(r, fits, Accounts, NoPlan,
               RequiredForkVersion(in.forkVersion, forkVersionPin), "funding")

(* What the pool does with a transaction of sender. *)
Accepted(sender, tx) ==
  /\ tx.to = Pool /\ reentrancyLock = 0
  /\ \/ /\ tx.input.function = "commit" /\ sender = operator
        /\ state = "Uninitialized" /\ PredepositAccepted(tx.input)
     \/ /\ tx.input.function = "open" /\ sender = operator
        /\ state = "Predeposited" /\ ValidAttempt(tx.input.participants, tx.input.targets)
     \/ tx.input.function = "close" /\ CanClose
     \/ /\ tx.input.function = "topUp" /\ sender = operator
        /\ state = "Funding" /\ WithinDeadline /\ FundingComplete /\ topUpRootValid

(* resolveTransactionFields: what would revert now is not signed. *)
Estimate(r) ==
  /\ Asks(r, "composed")
  /\ IF Accepted(plan[r].signer, plan[r].tx)
     THEN GoTo(r, "estimated") /\ UNCHANGED plan
     ELSE GoTo(r, "refused") /\ plan' = [plan EXCEPT ![r] = NoPlan]
  /\ connection' = [connection EXCEPT ![r] = Disconnected]
  /\ UNCHANGED <<vars, committed, mempool, receipt>>

(* By the signer, or by the device that is connected instead. *)
SignAndBroadcast(r) ==
  /\ step[r] = "estimated"
  /\ \E key \in {plan[r].signer} \cup Keys :
       mempool' = Append(mempool, [run |-> r, from |-> key, tx |-> plan[r].tx])
  /\ GoTo(r, "sent")
  /\ UNCHANGED <<vars, committed, connection, plan, receipt>>

-----------------------------------------------------------------------------
(* The pending transactions *)

(* Another call of the same function. *)
OtherInputs(function) ==
  {Commitment(in.file) : in \in
     {i \in DepositInputs : function = "commit" /\ BothFound(i.file, PREDEPOSIT_WEI, TOP_UP_WEI)}}
  \cup {OpenAttempt(ps, ts) :
          ps \in {p \in ParticipantLists : function = "open"}, ts \in TargetLists}

Replacements(p) ==
  {[p.tx EXCEPT !.to = p.from, !.value = 0],
   [p.tx EXCEPT !.envelope = "delegating"]}
  \cup {[p.tx EXCEPT !.input = input] : input \in OtherInputs(p.tx.input.function)}

Replace(i) ==
  /\ mempool[i].tx = plan[mempool[i].run].tx
  /\ \E tx \in Replacements(mempool[i]) \ {mempool[i].tx} :
       mempool' = [mempool EXCEPT ![i].tx = tx]
  /\ UNCHANGED <<vars, committed, step, connection, plan, receipt>>

Execute(sender, tx) ==
  \/ /\ tx.input.function = "commit"
     /\ commitAndPredeposit(sender, tx.value)
     /\ topUpRootValid' = TopUpAccepted(tx.input)
     /\ committed' = tx.input
  \/ /\ tx.input.function = "open"
     /\ openFundingAttempt(sender, tx.input.participants, tx.input.targets)
     /\ UNCHANGED committed
  \/ tx.input.function = "close" /\ closeExpiredFundingAttempt /\ UNCHANGED committed
  \/ tx.input.function = "topUp" /\ topUpValidator(sender) /\ UNCHANGED committed

Mined(i, status) ==
  LET p == mempool[i]
  IN /\ receipt' = [receipt EXCEPT ![p.run] =
          [status |-> status, from |-> p.from, replaced |-> p.tx # plan[p.run].tx,
           mined |-> p.tx, attempt |-> fundingAttempt']]
     /\ mempool' = SubSeq(mempool, 1, i - 1) \o SubSeq(mempool, i + 1, Len(mempool))
     /\ UNCHANGED <<step, connection, plan>>

Minable(i) ==
  /\ calls = <<>>
  /\ \A j \in 1 .. i - 1 : mempool[j].from # mempool[i].from

MineCall(i) ==
  /\ Minable(i)
  /\ Accepted(mempool[i].from, mempool[i].tx)
  /\ Execute(mempool[i].from, mempool[i].tx)
  /\ Mined(i, "success")

MineRevert(i) ==
  /\ Minable(i)
  /\ mempool[i].tx.to = Pool /\ ~ Accepted(mempool[i].from, mempool[i].tx)
  /\ UNCHANGED <<vars, committed>>
  /\ Mined(i, "reverted")

MineCancellation(i) ==
  /\ Minable(i)
  /\ mempool[i].tx.to # Pool
  /\ UNCHANGED <<vars, committed>>
  /\ Mined(i, "success")

-----------------------------------------------------------------------------
(* The receipt *)

Conclude(r) ==
  /\ Asks(r, "sent") /\ receipt[r] # NotMined
  /\ GoTo(r, IF senderVerified(receipt[r], plan[r].tx, plan[r].signer) THEN "done" ELSE "fatal")
  /\ UNCHANGED <<vars, committed, connection, plan, mempool, receipt>>

-----------------------------------------------------------------------------
(* The system *)

(* The operator before and after these runs, which by other means commits  *)
(* whatever the deposit contract takes; those who fund; and anybody who    *)
(* closes.  What else the pool allows changes nothing the commands depend  *)
(* on.                                                                     *)
OthersStep ==
  /\ \/ \E file \in OperatorsFiles :
           /\ PredepositAccepted(Commitment(file))
           /\ commitAndPredeposit(operator, PREDEPOSIT_WEI)
           /\ topUpRootValid' = TopUpAccepted(Commitment(file))
           /\ committed' = Commitment(file)
     \/ /\ \/ \E ps \in ParticipantLists, ts \in TargetLists : openFundingAttempt(operator, ps, ts)
           \/ \E sender \in Accounts, value \in Amounts : fund(sender, value)
           \/ closeExpiredFundingAttempt
           \/ topUpValidator(operator)
           \/ commitReturns
           \/ topUpReturns
           \/ Tick
        /\ UNCHANGED committed
  /\ UNCHANGED commandVars

RunStep(r) ==
  \/ Connect(r)
  \/ PrepareCommit(r)
  \/ PrepareOpen(r)
  \/ PrepareClose(r)
  \/ PrepareTopUp(r)
  \/ PrepareFund(r)
  \/ Estimate(r)
  \/ SignAndBroadcast(r)
  \/ Conclude(r)

OperatorNext ==
  \/ OthersStep
  \/ \E r \in Runs : RunStep(r)
  \/ \E i \in DOMAIN mempool :
       Replace(i) \/ MineCall(i) \/ MineRevert(i) \/ MineCancellation(i)

OperatorSpec == OperatorInit /\ [][OperatorNext]_allVars

-----------------------------------------------------------------------------
(* Properties *)

(* A command reports success exactly when the call it composed was made,   *)
(* by the signer it printed, and the pool accepted it: not for a           *)
(* cancellation, another allocation or other deposit data at its nonce,    *)
(* nor for a call that lost to an earlier one.                             *)
OperatorVerdictsAreRight ==
  \A r \in Runs :
    step[r] \in {"done", "fatal"} =>
      (step[r] = "done" <=>
         /\ receipt[r].status = "success"
         /\ receipt[r].from = plan[r].signer
         /\ receipt[r].mined = plan[r].tx)

(* However many runs overlap, each step of the pool is reported by one of  *)
(* them at most: one predeposit, one top-up, one opening and one closing   *)
(* of each attempt.                                                        *)
OneReportPerStep ==
  \A q, r \in Runs :
    /\ q # r /\ step[q] = "done" /\ step[r] = "done"
    /\ plan[q].tx.input.function = plan[r].tx.input.function
    => plan[r].tx.input.function \in {"open", "close"} /\ receipt[q].attempt # receipt[r].attempt

(* The two steps that cannot be undone.  What a run committed is a pair    *)
(* for one validator, the declared one if a pubkey was declared; the       *)
(* deposit contract will take the 31 ETH; and the predeposit is valid      *)
(* under the chain's fork version, unless nothing pinned or declared that  *)
(* version.  And the 31 ETH go where the file on the operator's disk says, *)
(* although the calldata of the top-up names no validator and the file may *)
(* be another than at the commit.                                          *)
IrreversibleStepsAreSound ==
  \A r \in Runs :
    /\ step[r] = "done" /\ plan[r].tx.input.function = "commit" =>
         /\ committed = plan[r].tx.input
         /\ topUpRootValid
         /\ Agrees(plan[r].declared.pubkey, committed.pubkey)
         /\ plan[r].declared.forkVersion = chain.forkVersion =>
              verifyDepositSignature(committed.pubkey, withdrawalCredentials, PREDEPOSIT_WEI,
                                     committed.signature, chain.forkVersion)
    /\ step[r] = "done" /\ plan[r].tx.input.function = "topUp" =>
         committed.pubkey = plan[r].declared

(* Nobody is led to fund what the operator should not have committed, with *)
(* whatever tool: what is committed when the review is printed is a        *)
(* predeposit that is valid under the chain's fork version, unless nothing *)
(* pinned or declared that version, and a top-up that will not fail.       *)
FundedCommitmentsAreSound ==
  \A r \in Runs :
    step[r] = "funding" =>
      /\ topUpRootValid
      /\ plan[r].declared = chain.forkVersion =>
           /\ verifyDepositSignature(committed.pubkey, withdrawalCredentials, PREDEPOSIT_WEI,
                                     committed.signature, chain.forkVersion)
           /\ verifyDepositSignature(committed.pubkey, withdrawalCredentials, TOP_UP_WEI,
                                     committed.topUpSignature, chain.forkVersion)

(* Accounts of the connection that everything declared allows. *)
DeclaredSigners(c) ==
  {a \in Reported(c) : /\ c.expectedSigner \in {NoSigner, a}
                       /\ c.network = "ledger" => a = c.ledgerAddress}

(* A run speaks to the chain its operator declared, if one was declared,   *)
(* though the declaration passes through a floating-point number, composes *)
(* a transaction only on the pool's, and only for an account everything    *)
(* declared allows: no account a node lists takes its place, and on the    *)
(* device's network none that it lists makes a run refuse.                 *)
RunsSignAsDeclared ==
  \A r \in Runs :
    /\ connection[r] # Disconnected =>
         connection[r].expectedChainId \in {NoChain, connection[r].chainId}
    /\ step[r] \in {"composed", "funding"} =>
         /\ connection[r].chainId = chain.chainId
         /\ plan[r].signer \in DeclaredSigners(connection[r])
    /\ step[r] = "wrongSigner" /\ connection[r].network = "ledger" =>
         DeclaredSigners(connection[r]) = {}
=============================================================================
