----------------------- MODULE MCValidatorFundingPool -----------------------
(* Small instances of ValidatorFundingPool: one wei stands for one ETH of  *)
(* the predeposit, three for the 31 ETH of the top-up.                     *)
EXTENDS PoolImplementsEscrow

CONSTANTS op, alice, bob

TwoAccounts == {op, alice}
ThreeAccounts == {op, alice, bob}

(* Sets the operator opens attempts with, some of which _setFundingAttempt *)
(* rejects: an empty list, a list without the operator, a duplicate, the   *)
(* zero address, and a list longer than MAX_PARTICIPANTS.  The pool itself *)
(* is accepted as a participant that cannot fund.                          *)
TwoAccountLists == {<<>>, <<op>>, <<alice>>, <<op, alice>>, <<alice, op>>, <<op, op>>}
ThreeAccountLists ==
  {<<op>>, <<op, alice>>, <<op, bob>>, <<alice, op, bob>>, <<op, Pool>>,
   <<alice, ZeroAddress, op>>, <<op, alice, bob, Pool>>}
Targets == {<<4>>, <<1, 3>>, <<2, 2>>, <<4, 0>>, <<3, 3>>}
ThreeTargets == {<<4>>, <<1, 3>>, <<2, 2>>, <<1, 2, 1>>, <<0, 2, 2>>, <<1, 1, 1, 1>>}
=============================================================================
