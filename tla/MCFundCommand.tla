--------------------------- MODULE MCFundCommand ---------------------------
(* Small instances of FundCommand: the operator, one participant, and      *)
(* attempts with and without that participant.                             *)
EXTENDS FundCommand, TLC

CONSTANTS op, alice, first, second

TwoAccounts == {op, alice}
OneRun == {first}
TwoRuns == {first, second}
FunderKey == {alice}
EitherKey == {alice, op}
Lists == {<<op>>, <<op, alice>>}
Targets == {<<4>>, <<2, 2>>}
NoPins == [name \in {} |-> {}]
Unpinned == {NoPins}
(* EXPECTED_MY_TARGET_GWEI may be met where the operator's is not. *)
SomePins ==
  {NoPins,
   [attempt |-> {1}, deadline |-> 0 .. 3, target |-> {2}, operatorTarget |-> {2}],
   [operatorTarget |-> {1}]}
RunsAreAlike == Permutations(Runs)

(* A run without declarations that pays by transfer from its signer's     *)
(* device.                                                                 *)
Plain(r) ==
  /\ pins[r] = NoPins
  /\ payment[r].input = "empty"
  /\ receipt[r] # NotMined => receipt[r].from = funder
  /\ \A i \in DOMAIN mempool : mempool[i].run = r => mempool[i].from = funder

InReview(r) == step[r] = "reviewing"

(* Bound: a run that is not plain has the pool to itself, and two runs do  *)
(* not read their reviews at once; such reads change nothing for the other *)
(* run.                                                                    *)
OnlyPlainRunsOverlap ==
  \A r \in Runs : \A q \in Runs \ {r} :
    /\ ~ Plain(r) => step[q] = "start"
    /\ ~ (InReview(r) /\ InReview(q))
=============================================================================
