----------------------------- MODULE ExitCommand -----------------------------
(***************************************************************************)
(* scripts/request-exit.ts with its beacon preflight, run by several       *)
(* accounts of the pool, and the two external parts it speaks to: the      *)
(* EIP-7002 predeploy, which asks a fee and queues requests, and the       *)
(* consensus layer, which acts on a request or drops it in silence.        *)
(*                                                                         *)
(* A tick of the pool's clock is a slot; the fee changes, and requests are *)
(* processed, at the end of a block.  A beacon node that lags answers as   *)
(* of an earlier moment, which is the same as an answer that has aged when *)
(* it is used: every read is a step of its own.  The execution endpoint    *)
(* says which validator is the pool's, and may name another one, a stray   *)
(* that somebody gave the pool's credentials, or not.                      *)
(***************************************************************************)
EXTENDS ValidatorFundingPool

CONSTANTS
  Runners,  \* the accounts that run the command, each once
  Caps,     \* what MAX_FEE_WEI may be set to
  SLOTS_PER_EPOCH, SHARD_COMMITTEE_PERIOD,
  FAR_FUTURE_EPOCH

ASSUME ExitAssumption ==
  /\ Runners \subseteq Accounts /\ Caps \subseteq Nat
  /\ SLOTS_PER_EPOCH \in Nat \ {0} /\ SHARD_COMMITTEE_PERIOD \in Nat
  /\ FAR_FUTURE_EPOCH \in Nat /\ FAR_FUTURE_EPOCH > MaxTime + SHARD_COMMITTEE_PERIOD

VARIABLES
  validator,  \* the pool's validator: activationEpoch, slashed, exiting
  exitFee,    \* what the predeploy asks in the current block
  requests,   \* the requests it has queued, by caller
  step,       \* of each run: how far it is
  subject,    \* the validator the run is about, and the one its file names
  preflight,  \* history: whether it was skipped, or passed
  answers,    \* what the preflight was told so far
  fees,       \* the fee it read, the cap it chose, the fee it was mined at
  outcome     \* what became of its request

externalVars == <<validator, exitFee, requests>>
commandVars == <<step, subject, preflight, answers, fees, outcome>>
allVars == <<vars, externalVars, commandVars>>

NoSubject == [validator |-> "none", file |-> "none"]
NotAsked == [asked |-> FALSE]
NoAnswers == [slot |-> NotAsked, validator |-> NotAsked]
NoFees == [read |-> 0, cap |-> 0, byDefault |-> TRUE, mined |-> 0]

ExitInit ==
  /\ Init
  /\ validator = [activationEpoch |-> FAR_FUTURE_EPOCH, slashed |-> FALSE, exiting |-> FALSE]
  /\ exitFee \in ExitFees
  /\ requests = <<>>
  /\ step = [r \in Runners |-> "start"]
  /\ subject = [r \in Runners |-> NoSubject]
  /\ preflight = [r \in Runners |-> "none"]
  /\ answers = [r \in Runners |-> NoAnswers]
  /\ fees = [r \in Runners |-> NoFees]
  /\ outcome = [r \in Runners |-> "none"]

-----------------------------------------------------------------------------
(* The consensus layer *)

EpochOf(slot) == slot \div SLOTS_PER_EPOCH

Active(v) == v.activationEpoch <= EpochOf(now)

(* Others may deposit as well, so a validator can be activated at any time *)
(* after the predeposit.                                                   *)
Activate ==
  /\ predepositSubmitted
  /\ validator.activationEpoch = FAR_FUTURE_EPOCH
  /\ validator' = [validator EXCEPT !.activationEpoch = EpochOf(now) + 1]
  /\ UNCHANGED <<vars, exitFee, requests, commandVars>>

Slash ==
  /\ Active(validator)
  /\ ~ validator.slashed
  /\ validator' = [validator EXCEPT !.slashed = TRUE, !.exiting = TRUE]
  /\ UNCHANGED <<vars, exitFee, requests, commandVars>>

Eligible ==
  /\ Active(validator)
  /\ ~ validator.exiting
  /\ EpochOf(now) >= validator.activationEpoch + SHARD_COMMITTEE_PERIOD

(* A voluntary exit signed with the validator's own key. *)
VoluntaryExit ==
  /\ Eligible
  /\ validator' = [validator EXCEPT !.exiting = TRUE]
  /\ UNCHANGED <<vars, exitFee, requests, commandVars>>

(* process_withdrawal_request, for the first n queued requests: only the   *)
(* first of them can be honoured.  The block's requests of other           *)
(* validators may come before the pool's.                                  *)
ProcessRequests(n) ==
  /\ requests' = SubSeq(requests, n + 1, Len(requests))
  /\ validator' = [validator EXCEPT !.exiting = @ \/ (n > 0 /\ Eligible)]
  /\ outcome' = [r \in Runners |->
       IF \E i \in 1 .. n : requests[i] = r
       THEN IF requests[1] = r /\ Eligible THEN "honoured" ELSE "dropped"
       ELSE outcome[r]]

EndBlock ==
  /\ Tick
  /\ exitFee' \in ExitFees
  /\ \E n \in 0 .. Len(requests) : ProcessRequests(n)
  /\ UNCHANGED <<step, subject, preflight, answers, fees>>

-----------------------------------------------------------------------------
(* The command: the beacon preflight *)

Asks(r, at) == step[r] = at /\ calls = <<>>
GoTo(r, next) == step' = [step EXCEPT ![r] = next]

LocalPubkeyAgrees_Mutant(file, reported) == TRUE
(* assertCommittedPubkeyMatchesLocalIfReadable: a deposit-data file that   *)
(* cannot be read is not compared, and the endpoint is believed.           *)
LocalPubkeyAgrees(file, reported) == file \in {"unreadable", reported}

ReadPubkey(r) ==
  /\ Asks(r, "start")
  /\ \E reported \in {"pools", "stray"}, file \in {"pools", "stray", "unreadable"} :
       IF LocalPubkeyAgrees(file, reported)
       THEN /\ subject' = [subject EXCEPT ![r] = [validator |-> reported, file |-> file]]
            /\ GoTo(r, "identified")
       ELSE GoTo(r, "refused") /\ UNCHANGED subject
  /\ UNCHANGED <<vars, externalVars, preflight, answers, fees, outcome>>

(* Without BEACON_NODE_URL the command warns and goes on. *)
Start(r) ==
  /\ step[r] = "identified"
  /\ \/ GoTo(r, "checking") /\ UNCHANGED preflight
     \/ GoTo(r, "checked") /\ preflight' = [preflight EXCEPT ![r] = "skipped"]
  /\ UNCHANGED <<vars, externalVars, subject, answers, fees, outcome>>

(* readBeaconValidatorPreflight sends its requests in parallel. *)
AskHeadSlot(r) ==
  /\ Asks(r, "checking") /\ ~ answers[r].slot.asked
  /\ answers' = [answers EXCEPT ![r].slot = [asked |-> TRUE, slot |-> now]]
  /\ UNCHANGED <<vars, externalVars, step, subject, preflight, fees, outcome>>

(* The stray has long been active. *)
Answers(r) ==
  IF subject[r].validator = "pools"
  THEN [asked : {TRUE}, credentials : {"pools"}, active : {Active(validator)}, fields : {validator}]
  ELSE [asked : {TRUE}, credentials : {"pools", "others"}, active : {TRUE},
        fields : {[activationEpoch |-> 0, slashed |-> FALSE, exiting |-> FALSE]}]

AskValidator(r) ==
  /\ Asks(r, "checking") /\ ~ answers[r].validator.asked
  /\ \E answer \in Answers(r) : answers' = [answers EXCEPT ![r].validator = answer]
  /\ UNCHANGED <<vars, externalVars, step, subject, preflight, fees, outcome>>

ExitEligible_Mutant(slot, v) ==
  EpochOf(slot) + 1 >= v.activationEpoch + SHARD_COMMITTEE_PERIOD
ExitEligible(slot, v) ==
  EpochOf(slot) >= v.activationEpoch + SHARD_COMMITTEE_PERIOD

(* assertBeaconValidatorReadyForExit; active_ongoing is active and not     *)
(* exiting.                                                                *)
ReadyForExit(slot, v) ==
  /\ v.credentials = "pools"
  /\ ~ v.fields.slashed
  /\ ~ v.fields.exiting
  /\ v.active
  /\ ExitEligible(slot.slot, v.fields)

DecidePreflight(r) ==
  /\ step[r] = "checking"
  /\ answers[r].slot.asked /\ answers[r].validator.asked
  /\ IF ReadyForExit(answers[r].slot, answers[r].validator)
     THEN GoTo(r, "checked") /\ preflight' = [preflight EXCEPT ![r] = "passed"]
     ELSE GoTo(r, "refused") /\ UNCHANGED preflight
  /\ answers' = [answers EXCEPT ![r] = NoAnswers]
  /\ UNCHANGED <<vars, externalVars, subject, fees, outcome>>

-----------------------------------------------------------------------------
(* The command: fee, signature, transaction *)

DefaultCap_Mutant(fee) == fee
DefaultCap(fee) == 2 * fee

(* MAX_FEE_WEI, or twice the fee; a cap below the fee is refused. *)
ReadFee(r) ==
  /\ Asks(r, "checked")
  /\ \E byDefault \in BOOLEAN :
       \E cap \in IF byDefault THEN {DefaultCap(exitFee)} ELSE Caps :
         IF cap < exitFee
         THEN GoTo(r, "refused") /\ UNCHANGED fees
         ELSE /\ fees' = [fees EXCEPT ![r] =
                   [read |-> exitFee, cap |-> cap, byDefault |-> byDefault, mined |-> 0]]
              /\ GoTo(r, "quoted")
  /\ UNCHANGED <<vars, externalVars, subject, preflight, answers, outcome>>

Accepted(r) ==
  /\ predepositSubmitted
  /\ canRequestExit(r)
  /\ exitFee <= fees[r].cap

(* A request that would revert now is not signed. *)
EstimateAndSend(r) ==
  /\ Asks(r, "quoted")
  /\ GoTo(r, IF Accepted(r) THEN "sent" ELSE "refused")
  /\ UNCHANGED <<vars, externalVars, subject, preflight, answers, fees, outcome>>

(* The cap travels as the value of the call and as its argument; the run   *)
(* has no use of it afterwards.                                            *)
MineRequest(r) ==
  /\ Asks(r, "sent")
  /\ requestExit(r, fees[r].cap, exitFee, fees[r].cap)
  /\ requests' = Append(requests, r)
  /\ fees' = [fees EXCEPT ![r] = NoFees]
  /\ GoTo(r, "requested")
  /\ UNCHANGED <<validator, exitFee, subject, preflight, answers, outcome>>

MineRevert(r) ==
  /\ Asks(r, "sent")
  /\ ~ Accepted(r)
  /\ fees' = [fees EXCEPT ![r].mined = exitFee]
  /\ GoTo(r, "reverted")
  /\ UNCHANGED <<vars, externalVars, subject, preflight, answers, outcome>>

-----------------------------------------------------------------------------
(* The system *)

(* The life of the pool up to the top-up, and the returns of its calls.    *)
(* Payouts, refunds and proceeds change nothing an exit depends on.        *)
PoolStep ==
  \/ \E sender \in Accounts, value \in Amounts : commitAndPredeposit(sender, value)
  \/ \E sender \in Accounts, ps \in ParticipantLists, ts \in TargetLists :
       openFundingAttempt(sender, ps, ts)
  \/ \E sender \in Accounts, value \in Amounts : fund(sender, value)
  \/ closeExpiredFundingAttempt
  \/ \E sender \in Accounts : topUpValidator(sender)
  \/ commitReturns
  \/ topUpReturns
  \/ \E sender \in Accounts : exitReturns(sender)
  \/ payoutReturns

RunStep(r) ==
  \/ ReadPubkey(r)
  \/ Start(r)
  \/ AskHeadSlot(r)
  \/ AskValidator(r)
  \/ DecidePreflight(r)
  \/ ReadFee(r)
  \/ EstimateAndSend(r)
  \/ MineRequest(r)
  \/ MineRevert(r)

ExitNext ==
  \/ PoolStep /\ UNCHANGED <<externalVars, commandVars>>
  \/ Activate \/ Slash \/ VoluntaryExit
  \/ EndBlock
  \/ \E r \in Runners : RunStep(r)

ExitSpec == ExitInit /\ [][ExitNext]_allVars

-----------------------------------------------------------------------------
(* Properties *)

(* SECURITY.md, Required Beacon Preflight For Exit: a request that passed  *)
(* the preflight is not dropped for nothing.  However old the answers are, *)
(* if it was dropped the validator is exiting without it; and with the     *)
(* pool's file at hand an endpoint that names another validator cannot     *)
(* have that one checked instead.                                          *)
CheckedRequestsAreNotLost ==
  \A r \in Runners :
    /\ preflight[r] = "passed" /\ outcome[r] = "dropped"
    /\ "pools" \in {subject[r].file, subject[r].validator}
    => validator.exiting

(* Whatever happens to the pool between the estimate and the block of the  *)
(* transaction, a request that was worth signing reverts for the fee only; *)
(* with the default cap, only if the fee has more than doubled.            *)
OnlyAFeeSpikeReverts ==
  \A r \in Runners :
    step[r] = "reverted" =>
      /\ fees[r].mined > fees[r].cap
      /\ fees[r].byDefault => fees[r].mined > 2 * fees[r].read
=============================================================================
