--------------------------- MODULE MCPayoutCommand ---------------------------
(* Small instances of PayoutCommand: the operator, one participant, and    *)
(* two runs of which only plain ones overlap.                              *)
EXTENDS PayoutCommand, TLC

CONSTANTS op, alice, first, second

TwoAccounts == {op, alice}
TwoRuns == {first, second}
EitherKey == {alice, op}
SelfOtherPool == {alice, op, Pool}
Lists == {<<op, alice>>}
Targets == {<<2, 2>>}
RunsAreAlike == Permutations(Runs)

(* A run that prints its participant and is signed as it was composed, on  *)
(* the participant's device.                                               *)
Plain(r) ==
  /\ printed[r].recipient = participant
  /\ signed[r] \in {NoTransaction, Composed(r)}
  /\ receipt[r] # NotMined => receipt[r].from = participant
  /\ \A i \in DOMAIN mempool : mempool[i].run = r => mempool[i].from = participant

(* Bound: a run that is not plain has the pool to itself. *)
OnlyPlainRunsOverlap ==
  \A r \in Runs : ~ Plain(r) => \A q \in Runs \ {r} : step[q] = "start"
=============================================================================
