------------------------- MODULE BeaconPreflightProofs -------------------------
(***************************************************************************)
(* However many deposits others make for the pubkey, whatever the chain    *)
(* reorders before it is final and however the node lags: where the 31 ETH *)
(* go, and what the operator saw of the validator before they went.        *)
(***************************************************************************)
EXTENDS BeaconPreflight, Integers, FiniteSetTheorems, TLAPS

USE DEF chainVars, nodeVars, commitVars, runVars

-----------------------------------------------------------------------------
(* The inductive invariant *)

Entry ==
  [by : {"pool", "other"}, credentials : {poolCredentials, foreignCredentials}, amount : Nat]

(* The node is behind the chain, and in both the final part is the older.  *)
ChainIsSound ==
  /\ deposits \in Seq(Entry)
  /\ head \in Nat /\ final \in Nat /\ nodeHead \in Nat /\ nodeFinal \in Nat
  /\ final <= head /\ head <= Len(deposits)
  /\ nodeHead <= head /\ nodeFinal <= nodeHead /\ nodeFinal <= final

(* A validator that was final when commit-predeposit began to ask is at    *)
(* the node's head from then on, even if the head falls back.              *)
CommitIsSound ==
  /\ knownBefore \in BOOLEAN
  /\ knownBefore => final # 0
  /\ commitStep = "healthy" /\ knownBefore => nodeHead # 0
  /\ commitStep \in {"signed", "mined"} => ~ knownBefore

PoolIsFirst == final # 0 /\ deposits[1].credentials = poolCredentials

Answered == {"finalized", "head", "reRead", "recheck", "signed", "mined"}

(* The first stage settles whose the validator is, for good; the balance   *)
(* that is settled on is the predeposit or what the operator typed.        *)
RunIsSound ==
  /\ step \in Answered \cup {"prompt", "refused"}
  /\ seen.exists \in BOOLEAN
  /\ seen.exists => seen.balance \in Nat
  /\ step = "finalized" /\ seen.exists =>
       final # 0 /\ seen.credentials = deposits[1].credentials
  /\ step \in {"head", "prompt", "reRead", "recheck", "signed", "mined"} => PoolIsFirst
  /\ step = "reRead" => settledBalance = acknowledged
  /\ step \in {"recheck", "signed", "mined"} => settledBalance \in {PREDEPOSIT_GWEI, acknowledged}
  /\ step \in {"signed", "mined"} => seen.balance = settledBalance

PreflightIInv ==
  /\ ChainIsSound
  /\ CommitIsSound
  /\ RunIsSound

-----------------------------------------------------------------------------
(* What the chain may do between two requests *)

(* What is final is neither undone nor moved, and deposits are appended to *)
(* the rest.                                                               *)
ChainGoesOn ==
  /\ final # 0 => final' # 0
  /\ final # 0 => deposits'[1] = deposits[1]

(* What the run and the operator's command have established survives what  *)
(* others deposit, reorganizations, and a node that goes on.               *)
LEMMA RunStays ==
  ASSUME RunIsSound, ChainGoesOn, UNCHANGED runVars
  PROVE  RunIsSound'
BY DEF RunIsSound, ChainGoesOn, PoolIsFirst

(* What commit-predeposit learned holds while the chain and the node go    *)
(* on.                                                                     *)
LEMMA CommitStays ==
  ASSUME CommitIsSound, final # 0 => final' # 0, nodeHead # 0 /\ final # 0 => nodeHead' # 0,
         UNCHANGED commitVars
  PROVE  CommitIsSound'
BY DEF CommitIsSound

(* A deposit changes nothing about those before it. *)
LEMMA DepositFacts ==
  ASSUME ChainIsSound, NEW by \in {"pool", "other"},
         NEW credentials \in {poolCredentials, foreignCredentials}, NEW amount \in Nat,
         Deposit(by, credentials, amount), UNCHANGED <<head, final, nodeVars>>
  PROVE  ChainIsSound' /\ ChainGoesOn
<1>1. PICK d : d = [by |-> by, credentials |-> credentials, amount |-> amount]
  OBVIOUS
<1>2. d \in Entry /\ deposits' = Append(deposits, d)
  BY <1>1 DEF Deposit, Entry
<1>3. /\ deposits' \in Seq(Entry) /\ Len(deposits') = Len(deposits) + 1
      /\ Len(deposits) \in Nat
      /\ \A i \in 1 .. Len(deposits) : deposits'[i] = deposits[i]
  BY <1>2 DEF ChainIsSound
<1>4. final # 0 => 1 \in 1 .. Len(deposits)
  BY <1>3 DEF ChainIsSound
<1>5. QED
  BY <1>3, <1>4 DEF ChainIsSound, ChainGoesOn

(* A deposit of somebody else is added after those before it.              *)
LEMMA ForeignDepositKeeps == ASSUME PreflightIInv, ForeignDeposit PROVE PreflightIInv'
<1>1. PICK amount \in ForeignAmounts : Deposit("other", foreignCredentials, amount)
  BY DEF ForeignDeposit
<1>2. amount \in Nat
  BY DepositsAssumption
<1>3. ChainIsSound' /\ ChainGoesOn
  BY <1>1, <1>2, DepositFacts DEF ForeignDeposit, PreflightIInv
<1>4. QED
  BY <1>3, RunStays, CommitStays DEF ChainGoesOn, ForeignDeposit, PreflightIInv

(* A longer head leaves what is final alone.                               *)
LEMMA HeadAdvancesKeeps == ASSUME PreflightIInv, HeadAdvances PROVE PreflightIInv'
<1>1. ChainIsSound' /\ ChainGoesOn
  BY DEF HeadAdvances, PreflightIInv, ChainIsSound, ChainGoesOn
<1>2. QED
  BY <1>1, RunStays, CommitStays DEF ChainGoesOn, HeadAdvances, PreflightIInv

(* What becomes final starts with what was.                                *)
LEMMA FinalizeKeeps == ASSUME PreflightIInv, Finalize PROVE PreflightIInv'
<1>1. ChainIsSound' /\ ChainGoesOn
  BY DEF Finalize, PreflightIInv, ChainIsSound, ChainGoesOn
<1>2. QED
  BY <1>1, RunStays, CommitStays DEF ChainGoesOn, Finalize, PreflightIInv

(* What is final keeps its place: a reorganization trades later ones. *)
LEMMA ReorgKeeps == ASSUME PreflightIInv, Reorg PROVE PreflightIInv'
<1>1. PICK i \in final + 1 .. Len(deposits) - 1 :
        deposits' = [deposits EXCEPT ![i] = deposits[i + 1], ![i + 1] = deposits[i]]
  BY DEF Reorg
<1>2. /\ final \in Nat /\ head \in Nat /\ nodeHead \in Nat /\ nodeFinal \in Nat
      /\ Len(deposits) \in Nat /\ DOMAIN deposits = 1 .. Len(deposits) /\ deposits \in Seq(Entry)
      /\ final <= head /\ head <= Len(deposits)
      /\ nodeHead <= head /\ nodeFinal <= nodeHead /\ nodeFinal <= final
  BY DEF PreflightIInv, ChainIsSound
<1>3. i \in 1 .. Len(deposits) /\ i + 1 \in 1 .. Len(deposits) /\ i >= final + 1
  BY <1>2
<1>4. deposits[i] \in Entry /\ deposits[i + 1] \in Entry
  BY <1>2, <1>3
<1>5. deposits' \in Seq(Entry) /\ Len(deposits') = Len(deposits)
  BY <1>1, <1>2, <1>3, <1>4
<1>6. final # 0 => deposits'[1] = deposits[1]
  <2>1. final # 0 => 1 \in 1 .. Len(deposits) /\ i # 1 /\ i + 1 # 1
    BY <1>2, <1>3
  <2>2. QED
    BY <1>1, <1>2, <2>1
<1>7. /\ head' = final /\ final' = final /\ nodeFinal' = nodeFinal
      /\ nodeHead' = IF nodeHead < final THEN nodeHead ELSE final
  BY DEF Reorg
<1>8. ChainIsSound' /\ ChainGoesOn /\ (nodeHead # 0 /\ final # 0 => nodeHead' # 0)
  BY <1>2, <1>5, <1>6, <1>7 DEF ChainIsSound, ChainGoesOn
<1>9. QED
  BY <1>7, <1>8, RunStays, CommitStays DEF ChainGoesOn, Reorg, PreflightIInv

(* A node that follows the chain sees the first deposit at least where it  *)
(* saw it.                                                                 *)
LEMMA NodeFollowsKeeps == ASSUME PreflightIInv, NodeFollows PROVE PreflightIInv'
<1>1. /\ final \in Nat /\ head \in Nat /\ nodeHead \in Nat /\ nodeFinal \in Nat
      /\ nodeFinal <= nodeHead /\ nodeHead <= head
  BY DEF PreflightIInv, ChainIsSound
<1>2. /\ nodeHead' \in Nat /\ nodeHead <= nodeHead' /\ nodeHead' <= head
      /\ nodeFinal' \in Nat /\ nodeFinal' <= nodeHead' /\ nodeFinal' <= final
  BY <1>1 DEF NodeFollows
<1>3. ChainIsSound' /\ ChainGoesOn /\ (nodeHead # 0 => nodeHead' # 0)
  BY <1>1, <1>2 DEF NodeFollows, PreflightIInv, ChainIsSound, ChainGoesOn
<1>4. QED
  BY <1>3, RunStays, CommitStays DEF ChainGoesOn, NodeFollows, PreflightIInv

-----------------------------------------------------------------------------
(* commit-predeposit *)

(* A healthy node's head holds what is final. *)
LEMMA CommitAsksHealthKeeps == ASSUME PreflightIInv, CommitAsksHealth PROVE PreflightIInv'
<1>1. ChainIsSound' /\ ChainGoesOn /\ UNCHANGED runVars
  BY DEF CommitAsksHealth, PreflightIInv, ChainIsSound, ChainGoesOn
<1>2. CommitIsSound'
  BY DEF CommitAsksHealth, PreflightIInv, ChainIsSound, CommitIsSound, NodeHealthy
<1>3. QED
  BY <1>1, <1>2, RunStays DEF PreflightIInv

(* Absence is proven by an empty list alone. *)
LEMMA CommitAsksListKeeps == ASSUME PreflightIInv, CommitAsksList PROVE PreflightIInv'
<1>1. ChainIsSound' /\ ChainGoesOn /\ UNCHANGED runVars
  BY DEF CommitAsksList, PreflightIInv, ChainIsSound, ChainGoesOn
<1>2. CommitIsSound'
  BY DEF CommitAsksList, PreflightIInv, CommitIsSound, AbsenceProven
<1>3. QED
  BY <1>1, <1>2, RunStays DEF PreflightIInv

(* The predeposit is included after the deposits that came before it.      *)
LEMMA PredepositIsMinedKeeps == ASSUME PreflightIInv, PredepositIsMined PROVE PreflightIInv'
<1>1. ChainIsSound' /\ ChainGoesOn
  BY DepositFacts, DepositsAssumption DEF PredepositIsMined, PreflightIInv
<1>2. CommitIsSound'
  BY DEF PredepositIsMined, PreflightIInv, CommitIsSound
<1>3. QED
  BY <1>1, <1>2, RunStays DEF PredepositIsMined, PreflightIInv

-----------------------------------------------------------------------------
(* fund and top-up *)

(* A healthy node has caught up with what is final.                        *)
LEMMA AskHealthKeeps == ASSUME PreflightIInv, AskHealth PROVE PreflightIInv'
<1>1. ChainIsSound' /\ ChainGoesOn /\ CommitIsSound'
  BY DEF AskHealth, PreflightIInv, ChainIsSound, ChainGoesOn, CommitIsSound
<1>2. RunIsSound'
  BY DEF AskHealth, PreflightIInv, RunIsSound, PoolIsFirst, Stages
<1>3. QED
  BY <1>1, <1>2 DEF PreflightIInv

(* The first deposit, which an answer names the credentials of, is final   *)
(* What a node adds up from finitely many deposits is an amount.           *)
LEMMA BalanceIsAmount ==
  ASSUME NEW n \in Nat, \A i \in 1 .. n : deposits[i].amount \in Nat
  PROVE  Balance(n) \in Nat
<1> DEFINE box == [i \in 1 .. n |-> {i} \X (1 .. deposits[i].amount)]
           boxes == {{i} \X (1 .. deposits[i].amount) : i \in 1 .. n}
<1>1. IsFiniteSet(boxes)
  <2>1. box \in Surjection(1 .. n, boxes)
    BY DEF Surjection
  <2>2. QED
    BY <2>1, FS_Surjection, FS_Interval
<1>2. \A i \in 1 .. n : IsFiniteSet({i} \X (1 .. deposits[i].amount))
  <2>1. ASSUME NEW i \in 1 .. n PROVE IsFiniteSet({i} \X (1 .. deposits[i].amount))
    <3>1. IsFiniteSet({i})
      BY FS_Singleton
    <3>2. deposits[i].amount \in Nat
      OBVIOUS
    <3>3. IsFiniteSet(1 .. deposits[i].amount)
      BY <3>2, FS_Interval
    <3>4. QED
      BY <3>1, <3>3, FS_Product
  <2>2. QED
    BY <2>1
<1>3. IsFiniteSet(UNION boxes)
  BY <1>1, <1>2, FS_UNION
<1>4. Balance(n) = Cardinality(UNION boxes)
  BY DEF Balance, SumOver, Units
<1>5. QED
  BY <1>3, <1>4, FS_CardinalityType

(* when the answer is of the finalized state.                              *)
LEMMA AnswerFacts ==
  ASSUME ChainIsSound, NEW n \in {nodeHead, nodeFinal}, ValidatorAt(n).exists
  PROVE  /\ n # 0 /\ ValidatorAt(n).balance \in Nat
         /\ ValidatorAt(n).exists = TRUE
         /\ ValidatorAt(n).credentials = deposits[1].credentials
<1>1. n \in Nat /\ n <= Len(deposits) /\ Len(deposits) \in Nat /\ deposits \in Seq(Entry)
  BY DEF ChainIsSound
<1>2. Balance(n) \in Nat
  <2>1. \A i \in 1 .. n : deposits[i] \in Entry
    BY <1>1
  <2>2. QED
    BY <2>1, <1>1, BalanceIsAmount DEF Entry
<1>3. n # 0
  BY DEF ValidatorAt, NoAnswer
<1>4. QED
  BY <1>2, <1>3 DEF ValidatorAt

(* An answer is a state of the chain as the node knows it.                 *)
LEMMA AskValidatorKeeps == ASSUME PreflightIInv, AskValidator PROVE PreflightIInv'
<1>1. ChainIsSound' /\ ChainGoesOn /\ CommitIsSound' /\ UNCHANGED <<deposits, final>>
  BY DEF AskValidator, PreflightIInv, ChainIsSound, ChainGoesOn, CommitIsSound
<1>2. PICK n : n = IF step = "finalized" THEN nodeFinal ELSE nodeHead
  OBVIOUS
<1>3. PICK answer : answer = ValidatorAt(n)
  OBVIOUS
<1>4. /\ step \in Stages
      /\ \/ answer.exists /\ seen' = answer /\ UNCHANGED step
         \/ step' = "refused" /\ UNCHANGED seen
      /\ UNCHANGED <<settledBalance, acknowledged>>
  BY <1>2, <1>3 DEF AskValidator, ConfirmationState
<1>5. CASE answer.exists /\ seen' = answer /\ UNCHANGED step
  <2>1. n # 0 /\ seen'.balance \in Nat /\ seen'.exists = TRUE
        /\ seen'.credentials = deposits[1].credentials
    BY <1>2, <1>3, <1>5, AnswerFacts DEF PreflightIInv
  <2>2. step = "finalized" => final # 0
    BY <1>2, <2>1 DEF PreflightIInv, ChainIsSound
  <2>3. RunIsSound'
    BY <1>1, <1>4, <1>5, <2>1, <2>2 DEF PreflightIInv, RunIsSound, PoolIsFirst, Stages
  <2>4. QED
    BY <1>1, <2>3 DEF PreflightIInv
<1>6. CASE step' = "refused" /\ UNCHANGED seen
  <2>1. RunIsSound'
    BY <1>4, <1>6 DEF PreflightIInv, RunIsSound
  <2>2. QED
    BY <1>1, <2>1 DEF PreflightIInv
<1>7. QED
  BY <1>4, <1>5, <1>6

(* Each stage hands on what the ones before it settled. *)
LEMMA DecideStageKeeps == ASSUME PreflightIInv, DecideStage PROVE PreflightIInv'
<1>1. ChainIsSound' /\ ChainGoesOn /\ CommitIsSound' /\ UNCHANGED <<deposits, final>>
  BY DEF DecideStage, PreflightIInv, ChainIsSound, ChainGoesOn, CommitIsSound
<1>2. RunIsSound /\ step \in Stages /\ seen.exists /\ seen.balance \in Nat
      /\ seen'.exists \in BOOLEAN /\ (seen'.exists => seen' = seen)
      /\ acknowledged' = acknowledged
  BY DEF DecideStage, PreflightIInv, RunIsSound, NoAnswer
<1>3. CASE ~ StagePasses
  BY <1>1, <1>2, <1>3 DEF DecideStage, RunIsSound, Answered, PreflightIInv
<1>4. CASE step = "finalized" /\ StagePasses
  <2>1. step' = "head" /\ seen.credentials = poolCredentials
    BY <1>4 DEF DecideStage, StagePasses, NextStage
  <2>2. PoolIsFirst'
    BY <1>1, <1>2, <1>4, <2>1 DEF RunIsSound, PoolIsFirst
  <2>3. QED
    BY <1>1, <1>2, <2>1, <2>2 DEF RunIsSound, Answered, PreflightIInv
<1>5. CASE step = "head" /\ StagePasses
  <2>1. /\ step' = IF seen.balance <= PREDEPOSIT_GWEI THEN "recheck" ELSE "prompt"
        /\ settledBalance' = seen.balance /\ seen.balance >= PREDEPOSIT_GWEI
    BY <1>5 DEF DecideStage, StagePasses, NextStage, FreshPredeposit
  <2>2. PoolIsFirst'
    BY <1>1, <1>2, <1>5 DEF RunIsSound, PoolIsFirst
  <2>3. step' = "recheck" => settledBalance' = PREDEPOSIT_GWEI
    BY <1>2, <2>1, DepositsAssumption
  <2>4. QED
    BY <1>1, <1>2, <2>1, <2>2, <2>3 DEF RunIsSound, Answered, PreflightIInv
<1>6. CASE step = "reRead" /\ StagePasses
  <2>1. step' = "recheck" /\ settledBalance' = settledBalance
    BY <1>6 DEF DecideStage, NextStage
  <2>2. PoolIsFirst'
    BY <1>1, <1>2, <1>6 DEF RunIsSound, PoolIsFirst
  <2>3. QED
    BY <1>1, <1>2, <1>6, <2>1, <2>2 DEF RunIsSound, Answered, PreflightIInv
<1>7. CASE step = "recheck" /\ StagePasses
  <2>1. step' = "signed" /\ settledBalance' = settledBalance /\ seen' = seen
        /\ seen.balance = settledBalance
    BY <1>7 DEF DecideStage, StagePasses, NextStage, BalanceUnchanged
  <2>2. PoolIsFirst'
    BY <1>1, <1>2, <1>7 DEF RunIsSound, PoolIsFirst
  <2>3. QED
    BY <1>1, <1>2, <1>7, <2>1, <2>2 DEF RunIsSound, Answered, PreflightIInv
<1>8. QED
  BY <1>2, <1>3, <1>4, <1>5, <1>6, <1>7 DEF Stages

(* What the operator acknowledges is the balance the preflight settled on. *)
LEMMA ConfirmExcessKeeps == ASSUME PreflightIInv, ConfirmExcess PROVE PreflightIInv'
<1>1. ChainIsSound' /\ ChainGoesOn /\ CommitIsSound' /\ UNCHANGED <<deposits, final>>
  BY DEF ConfirmExcess, PreflightIInv, ChainIsSound, ChainGoesOn, CommitIsSound
<1>2. RunIsSound'
  BY <1>1 DEF ConfirmExcess, PreflightIInv, RunIsSound, PoolIsFirst, Answered
<1>3. QED
  BY <1>1, <1>2 DEF PreflightIInv

(* The top-up adds to a chain whose first deposit is final.                *)
LEMMA TopUpIsMinedKeeps == ASSUME PreflightIInv, TopUpIsMined PROVE PreflightIInv'
<1>1. ChainIsSound' /\ ChainGoesOn
  BY DepositFacts, DepositsAssumption DEF TopUpIsMined, PreflightIInv
<1>2. CommitIsSound'
  BY DEF TopUpIsMined, PreflightIInv, CommitIsSound
<1>3. RunIsSound'
  BY <1>1 DEF TopUpIsMined, PreflightIInv, RunIsSound, PoolIsFirst, Answered, ChainGoesOn
<1>4. QED
  BY <1>1, <1>2, <1>3 DEF PreflightIInv

-----------------------------------------------------------------------------
(* The inductive invariant is one *)

(* Nothing is deposited, answered or signed at first.                      *)
LEMMA PreflightInitEstablishes == Init => PreflightIInv
<1> SUFFICES ASSUME Init PROVE PreflightIInv
  OBVIOUS
<1>1. ChainIsSound
  BY DEF Init, ChainIsSound
<1>2. CommitIsSound
  BY DEF Init, CommitIsSound
<1>3. seen.exists = FALSE
  BY DEF Init, NoAnswer
<1>4. RunIsSound
  BY <1>3 DEF Init, RunIsSound, Answered
<1>5. QED
  BY <1>1, <1>2, <1>4 DEF PreflightIInv

(* Every step of the chain, the node and the two commands keeps the        *)
(* invariant.                                                              *)
LEMMA PreflightNextKeeps == PreflightIInv /\ [Next]_vars => PreflightIInv'
<1> SUFFICES ASSUME PreflightIInv, [Next]_vars PROVE PreflightIInv'
  OBVIOUS
<1>1. CASE UNCHANGED vars
  BY <1>1 DEF vars, PreflightIInv, ChainIsSound, CommitIsSound, RunIsSound, PoolIsFirst
<1>2. QED
  BY <1>1, ForeignDepositKeeps, HeadAdvancesKeeps, FinalizeKeeps, ReorgKeeps, NodeFollowsKeeps,
     CommitAsksHealthKeeps, CommitAsksListKeeps, PredepositIsMinedKeeps,
     AskHealthKeeps, AskValidatorKeeps, DecideStageKeeps, ConfirmExcessKeeps, TopUpIsMinedKeeps
     DEF Next

(* It holds in every reachable state of the chain, the node and the runs. *)
THEOREM PreflightInvariantHolds == Spec => []PreflightIInv
BY PreflightInitEstablishes, PreflightNextKeeps, PTL DEF Spec

-----------------------------------------------------------------------------
(* What follows *)

(* The 31 ETH go to a validator whose credentials are the pool's, whatever *)
(* is reorganized after the finalized state was read.                      *)
THEOREM CustodyIsSettled == Spec => []TopUpIsThePools
<1>1. PreflightIInv => TopUpIsThePools
  <2> SUFFICES ASSUME PreflightIInv, step \in {"signed", "mined"}
               PROVE  deposits # <<>> /\ deposits[1].credentials = poolCredentials
    BY DEF TopUpIsThePools
  <2>1. PoolIsFirst
    BY DEF PreflightIInv, RunIsSound
  <2>2. QED
    BY <2>1 DEF PreflightIInv, ChainIsSound, PoolIsFirst
<1>2. QED
  BY <1>1, PreflightInvariantHolds, PTL

(* The predeposit does not go to a validator that was known before. *)
THEOREM KnownValidatorIsAvoided == Spec => []PredepositAvoidsKnownValidator
<1>1. PreflightIInv => PredepositAvoidsKnownValidator
  BY DEF PreflightIInv, CommitIsSound, PredepositAvoidsKnownValidator
<1>2. QED
  BY <1>1, PreflightInvariantHolds, PTL

(* What is signed for was read last, and is the predeposit or was typed. *)
THEOREM NothingIsSignedUnseen == Spec => []NothingUnseenIsSigned
<1>1. PreflightIInv => NothingUnseenIsSigned
  BY DEF PreflightIInv, RunIsSound, NothingUnseenIsSigned
<1>2. QED
  BY <1>1, PreflightInvariantHolds, PTL

=============================================================================
