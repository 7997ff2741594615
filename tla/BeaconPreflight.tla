--------------------------- MODULE BeaconPreflight ---------------------------
(***************************************************************************)
(* The beacon checks of scripts/lib/common.ts around the two deposits: the *)
(* absence check before commit-predeposit, and the two-state preflight and *)
(* the pre-broadcast recheck of fund and top-up.                           *)
(*                                                                         *)
(* The consensus layer is modelled from what these checks rely on: the     *)
(* first deposit for a pubkey fixes the validator's withdrawal             *)
(* credentials, every later one adds to its balance, anyone may deposit,   *)
(* the epochs of a validator with the full balance are FAR_FUTURE_EPOCH no *)
(* more, and what is not finalized may be undone and ordered anew.         *)
(* Slashing is left out: a validator that can be slashed was activated,    *)
(* and its epochs are refused already.                                     *)
(***************************************************************************)
EXTENDS Naturals, Sequences, WeiSums

CONSTANTS
  poolCredentials, foreignCredentials,
  PREDEPOSIT_GWEI, TOP_UP_GWEI,
  ForeignAmounts,  \* what others may deposit for the pubkey
  MaxDeposits      \* bound on the number of deposits

ASSUME CredentialsDiffer == poolCredentials # foreignCredentials
ASSUME DepositsAssumption ==
  /\ PREDEPOSIT_GWEI \in Nat \ {0} /\ TOP_UP_GWEI \in Nat \ {0}
  /\ ForeignAmounts \subseteq Nat \ {0} /\ MaxDeposits \in Nat

VARIABLES
  deposits,     \* the deposits for the pubkey, in the order of the chain
  head, final,  \* how many of them the head and the finalized state hold
  nodeHead, nodeFinal,  \* the same, as the beacon node has followed them
  commitStep,   \* one run of commit-predeposit
  knownBefore,  \* history: a validator was final when that run began to ask
  step,         \* one run of top-up, or of fund
  healthy, seen,  \* what the requests of its current stage answered
  settledBalance, \* the balance the preflight settled on
  acknowledged    \* the balance the operator typed

chainVars == <<deposits, head, final>>
nodeVars == <<nodeHead, nodeFinal>>
commitVars == <<commitStep, knownBefore>>
runVars == <<step, healthy, seen, settledBalance, acknowledged>>
vars == <<chainVars, nodeVars, commitVars, runVars>>

NoAnswer == [exists |-> FALSE]

Init ==
  /\ deposits = <<>> /\ head = 0 /\ final = 0
  /\ nodeHead = 0 /\ nodeFinal = 0
  /\ commitStep = "start" /\ knownBefore = FALSE
  /\ step = "finalized" /\ healthy = FALSE /\ seen = NoAnswer
  /\ settledBalance = 0 /\ acknowledged = 0

-----------------------------------------------------------------------------
(* The consensus layer and the node *)

Balance(n) == SumOver([i \in 1 .. n |-> deposits[i].amount], 1 .. n)

(* The validator after the first n deposits. *)
ValidatorAt(n) ==
  IF n = 0 THEN NoAnswer
  ELSE [exists |-> TRUE, credentials |-> deposits[1].credentials, balance |-> Balance(n),
        farFuture |-> Balance(n) < PREDEPOSIT_GWEI + TOP_UP_GWEI]

Deposit(by, credentials, amount) ==
  /\ Len(deposits) < MaxDeposits
  /\ deposits' = Append(deposits, [by |-> by, credentials |-> credentials, amount |-> amount])

ForeignDeposit ==
  /\ \E amount \in ForeignAmounts : Deposit("other", foreignCredentials, amount)
  /\ UNCHANGED <<head, final, nodeVars, commitVars, runVars>>

HeadAdvances ==
  /\ head < Len(deposits)
  /\ head' = head + 1
  /\ UNCHANGED <<deposits, final, nodeVars, commitVars, runVars>>

Finalize ==
  /\ final < head
  /\ final' = final + 1
  /\ UNCHANGED <<deposits, head, nodeVars, commitVars, runVars>>

(* The head falls back, and two deposits that are not final trade places. *)
Reorg ==
  /\ \E i \in final + 1 .. Len(deposits) - 1 :
       deposits' = [deposits EXCEPT ![i] = deposits[i + 1], ![i + 1] = deposits[i]]
  /\ head' = final
  /\ nodeHead' = IF nodeHead < final THEN nodeHead ELSE final
  /\ UNCHANGED <<final, nodeFinal, commitVars, runVars>>

NodeFollows ==
  /\ nodeHead' \in nodeHead .. head
  /\ nodeFinal' \in nodeFinal .. (IF nodeHead' < final THEN nodeHead' ELSE final)
  /\ nodeVars' # nodeVars
  /\ UNCHANGED <<chainVars, commitVars, runVars>>

(* assertBeaconNodeHealthy: neither syncing, nor optimistic, nor without   *)
(* its execution layer.  Such a node may lag a few slots and answer from   *)
(* before what the head holds; that is less than the two epochs a deposit  *)
(* takes to be final, so what is final it has followed.                    *)
NodeHealthy == nodeHead >= final

-----------------------------------------------------------------------------
(* commit-predeposit *)

CommitAsksHealth ==
  /\ commitStep = "start"
  /\ commitStep' = IF NodeHealthy THEN "healthy" ELSE "refused"
  /\ knownBefore' = (final > 0)
  /\ UNCHANGED <<chainVars, nodeVars, runVars>>

(* assertBeaconValidatorAbsent asks for the list of validators at head:    *)
(* absence is an empty list, and an answer that is no list proves nothing. *)
AbsenceProven_Mutant(answer) == answer # "entry"
AbsenceProven(answer) == answer = "emptyList"

CommitAsksList ==
  /\ commitStep = "healthy"
  /\ \E answer \in {IF nodeHead = 0 THEN "emptyList" ELSE "entry", "noList"} :
       commitStep' = IF AbsenceProven(answer) THEN "signed" ELSE "refused"
  /\ UNCHANGED <<chainVars, nodeVars, knownBefore, runVars>>

PredepositIsMined ==
  /\ commitStep = "signed"
  /\ Deposit("pool", poolCredentials, PREDEPOSIT_GWEI)
  /\ commitStep' = "mined"
  /\ UNCHANGED <<head, final, nodeVars, knownBefore, runVars>>

-----------------------------------------------------------------------------
(* fund and top-up: one preflight stage after the other *)

Stages == {"finalized", "head", "reRead", "recheck"}

ConfirmationState_Mutant == nodeHead
ConfirmationState == nodeFinal

(* readBeaconValidatorPreflight asks for the node's health and for the     *)
(* validator in parallel.                                                  *)
AskHealth ==
  /\ step \in Stages /\ ~ healthy
  /\ IF NodeHealthy THEN healthy' = TRUE /\ UNCHANGED step
     ELSE step' = "refused" /\ UNCHANGED healthy
  /\ UNCHANGED <<chainVars, nodeVars, commitVars, seen, settledBalance, acknowledged>>

AskValidator ==
  /\ step \in Stages /\ ~ seen.exists
  /\ LET answer == ValidatorAt(IF step = "finalized" THEN ConfirmationState ELSE nodeHead)
     IN IF answer.exists THEN seen' = answer /\ UNCHANGED step
        ELSE step' = "refused" /\ UNCHANGED seen
  /\ UNCHANGED <<chainVars, nodeVars, commitVars, healthy, settledBalance, acknowledged>>

(* assertFreshPredepositHeadState *)
FreshPredeposit ==
  /\ seen.credentials = poolCredentials
  /\ seen.balance >= PREDEPOSIT_GWEI
  /\ seen.farFuture

BalanceUnchanged_Mutant == TRUE
BalanceUnchanged == seen.balance = settledBalance

(* What the stage asserts of the answers, and the stage that follows. *)
StagePasses ==
  \/ step = "finalized" /\ seen.credentials = poolCredentials
  \/ step = "head" /\ FreshPredeposit
  \/ step \in {"reRead", "recheck"} /\ FreshPredeposit /\ BalanceUnchanged

NextStage ==
  CASE step = "finalized" -> "head"
    [] step = "head" -> IF seen.balance <= PREDEPOSIT_GWEI THEN "recheck" ELSE "prompt"
    [] step = "reRead" -> "recheck"
    [] step = "recheck" -> "signed"

DecideStage ==
  /\ step \in Stages /\ healthy /\ seen.exists
  /\ step' = IF StagePasses THEN NextStage ELSE "refused"
  /\ settledBalance' = IF step = "head" THEN seen.balance ELSE settledBalance
  /\ healthy' = FALSE
  /\ seen' = IF step' = "signed" THEN seen ELSE NoAnswer
  /\ UNCHANGED <<chainVars, nodeVars, commitVars, acknowledged>>

(* confirmExcessBalance: on a terminal the operator types the balance; on  *)
(* none, or with another number, the run ends.                             *)
ConfirmExcess ==
  /\ step = "prompt"
  /\ \E typed \in {0, settledBalance} :
       /\ acknowledged' = typed
       /\ step' = IF typed = settledBalance THEN "reRead" ELSE "refused"
  /\ UNCHANGED <<chainVars, nodeVars, commitVars, healthy, seen, settledBalance>>

(* The pool's second deposit; nothing is checked after the signature. *)
TopUpIsMined ==
  /\ step = "signed"
  /\ Deposit("pool", poolCredentials, TOP_UP_GWEI)
  /\ step' = "mined"
  /\ UNCHANGED <<head, final, nodeVars, commitVars, healthy, seen, settledBalance, acknowledged>>

-----------------------------------------------------------------------------
Next ==
  \/ ForeignDeposit \/ HeadAdvances \/ Finalize \/ Reorg \/ NodeFollows
  \/ CommitAsksHealth \/ CommitAsksList \/ PredepositIsMined
  \/ AskHealth \/ AskValidator \/ DecideStage \/ ConfirmExcess \/ TopUpIsMined

Spec == Init /\ [][Next]_vars

-----------------------------------------------------------------------------
(* Properties *)

(* Custody: a top-up that was signed goes to a validator whose credentials *)
(* are the pool's, and no reorganization of the chain before it is mined,  *)
(* or after, makes it another's.                                           *)
TopUpIsThePools ==
  step \in {"signed", "mined"} => deposits # <<>> /\ deposits[1].credentials = poolCredentials

(* The predeposit is never signed for a pubkey that already had a          *)
(* validator, finally, when the command asked, whatever the endpoint       *)
(* answers instead of a list.                                              *)
PredepositAvoidsKnownValidator ==
  commitStep \in {"signed", "mined"} => ~ knownBefore

(* No top-up is signed against a balance the operator did not see: the     *)
(* last balance read is the bare predeposit, or the excess that was typed  *)
(* at the prompt, however often others deposit in between.                 *)
NothingUnseenIsSigned ==
  step \in {"signed", "mined"} => seen.balance \in {PREDEPOSIT_GWEI, acknowledged}
=============================================================================
