--------------------------- MODULE MCOperatorCommands ---------------------------
(* A small instance of OperatorCommands: the operator, one participant     *)
(* whose account the node also lists, two validators' deposit data, and    *)
(* two runs of which only plain ones overlap.                              *)
EXTENDS OperatorCommands, TLC

CONSTANTS op, alice, first, second, ours, theirs, v1, v2, genesis, otherGenesis

TwoAccounts == {op, alice}
TwoRuns == {first, second}
ParticipantKey == {alice}
Lists == {<<>>, <<op>>, <<op, alice>>}
Targets == {<<5>>, <<3, 2>>}
RunsAreAlike == Permutations(TwoRuns)

Entry(pubkey, amount, credentials, forkVersion) ==
  LET signature == SignedBy(pubkey, computeDepositSigningRoot(pubkey, credentials, amount, forkVersion))
  IN [pubkey |-> pubkey, amount |-> amount, credentials |-> credentials,
      forkVersion |-> forkVersion, signature |-> signature, networkName |-> "here",
      root |-> computeDepositDataRoot(pubkey, credentials, amount, signature)]

Good(pubkey, amount) == Entry(pubkey, amount, ours, genesis)

OperatorsFile == <<Good(v1, 4), Good(v1, 1)>>
OtherChainsFile == <<Entry(v1, 1, ours, otherGenesis), Entry(v1, 4, ours, otherGenesis)>>

OtherValidatorsFile == <<Good(v2, 1), Good(v2, 4)>>
MixedFile == <<Good(v1, 1), Good(v2, 4)>>
WrongTopUpRoot == <<Good(v1, 1), [Good(v1, 4) EXCEPT !.root = Good(v2, 4).root]>>
WrongTopUpSignature ==
  LET signature == Good(v2, 4).signature
  IN <<Good(v1, 1), [Good(v1, 4) EXCEPT !.signature = signature,
                                        !.root = computeDepositDataRoot(v1, ours, 4, signature)]>>

(* Files of the two validators, a mixture of both, data for other          *)
(* credentials, of another chain or labelled so, with a root of something  *)
(* else, with entries missing or malformed where they are read and not.    *)
Files ==
  {OperatorsFile,
   OtherValidatorsFile,
   MixedFile,
   <<Entry(v1, 1, theirs, genesis), Entry(v1, 4, theirs, genesis)>>,
   OtherChainsFile,
   <<[Entry(v1, 1, ours, otherGenesis) EXCEPT !.forkVersion = genesis], Good(v1, 4)>>,
   WrongTopUpRoot,
   WrongTopUpSignature,
   <<Good(v1, 1), [Good(v1, 4) EXCEPT !.signature = Malformed]>>,
   <<Good(v1, 1)>>,
   <<[Good(v2, 4) EXCEPT !.amount = Malformed], Good(v1, 1), Good(v1, 4)>>,
   <<Good(v1, 1), Good(v1, 4), [Good(v2, 4) EXCEPT !.amount = Malformed]>>}

(* What the deposit contract takes, sound or not, and what it does not. *)
CommittedByOtherMeans ==
  {OperatorsFile, OtherChainsFile, WrongTopUpRoot, WrongTopUpSignature,
   <<Entry(v1, 1, theirs, genesis), Entry(v1, 4, theirs, genesis)>>}

Chain == [chainId |-> 4, depositContract |-> "deposits", forkVersion |-> genesis]
LyingNode == [Chain EXCEPT !.forkVersion = otherGenesis]
Nodes == {Chain, LyingNode, [Chain EXCEPT !.chainId = 2], [Chain EXCEPT !.depositContract = "others"]}
ForkVersions == {Unset, Malformed, genesis, otherGenesis}

With(file) ==
  [file |-> file, node |-> Chain, forkVersion |-> Unset, pubkey |-> Unset, networkName |-> Unset]

(* Every file on its own, the ones of either fork version with every node  *)
(* and declaration of it, and the ones of either validator with a declared *)
(* pubkey or network name.                                                 *)
Inputs ==
  {With(file) : file \in Files}
  \cup {[With(file) EXCEPT !.node = node, !.forkVersion = forkVersion] :
          file \in {OperatorsFile, OtherChainsFile}, node \in Nodes, forkVersion \in ForkVersions}
  \cup {[With(file) EXCEPT !.pubkey = v1] : file \in {OperatorsFile, OtherValidatorsFile, MixedFile}}
  \cup {[With(OperatorsFile) EXCEPT !.networkName = name] : name \in {"here", "there"}}

Connected(network, nodeAccounts, privateKey, ledgerAddress, expectedSigner) ==
  [network |-> network, chainId |-> 4, expectedChainId |-> NoChain, nodeAccounts |-> nodeAccounts, privateKey |-> privateKey,
   ledgerAddress |-> ledgerAddress, expectedSigner |-> expectedSigner]

ByKey == Connected("rpc", <<>>, op, NoSigner, NoSigner)
OnChain(chainId, expected) == [ByKey EXCEPT !.chainId = chainId, !.expectedChainId = expected]

(* Every network and declaration that decides the signer, and endpoints of *)
(* two chains with the declarations around MAX_SAFE_INTEGER.               *)
Connecteds ==
  {ByKey, OnChain(4, 4), OnChain(4, 3), OnChain(6, NoChain), OnChain(6, 7),
   Connected("rpc", <<>>, alice, NoSigner, op),
   Connected("read", <<>>, NoSigner, NoSigner, NoSigner),
   Connected("read", <<alice>>, NoSigner, NoSigner, NoSigner),
   Connected("ledger", <<alice>>, NoSigner, op, NoSigner),
   Connected("ledger", <<alice>>, NoSigner, op, alice),
   Connected("ledger", <<alice>>, NoSigner, NoSigner, NoSigner)}

(* A run that declares nothing, whose connection selects its signer, that  *)
(* the signer signs and nobody replaces.  One that is about to fund only   *)
(* reads.                                                                  *)
Plain(r) ==
  /\ step[r] \notin {"wrongSigner", "funding"}
  /\ connection[r] \in {Disconnected, ByKey}
  /\ plan[r] # NoPlan /\ plan[r].tx.input.function = "commit" =>
       /\ plan[r].tx.input \in {Commitment(OperatorsFile), Commitment(OtherValidatorsFile)}
       /\ plan[r].declared = [pubkey |-> Unset, forkVersion |-> Unset]
  /\ \A i \in DOMAIN mempool : mempool[i].run = r =>
       mempool[i].from = plan[r].signer /\ mempool[i].tx = plan[r].tx
  /\ receipt[r] # NotMined =>
       receipt[r].from = plan[r].signer /\ ~ receipt[r].replaced

(* Bound: a run that is not plain has the pool to itself. *)
OnlyPlainRunsOverlap ==
  \A r \in Runs : ~ Plain(r) => \A q \in Runs \ {r} : step[q] = "start"

(* Bound: with unsound data that no run committed, one run acts, before    *)
(* any attempt opens.                                                      *)
OneRunOnUnsoundData ==
  \/ committed \in {NothingCommitted, Commitment(OperatorsFile)}
  \/ \E r \in Runs : receipt[r] # NotMined /\ receipt[r].mined.input = committed
  \/ fundingAttempt = 0 /\ \E r \in Runs : step[r] = "start"
=============================================================================
