---------------------------- MODULE MCExitCommand ----------------------------
(* Small instances of ExitCommand: the operator and one participant, both  *)
(* of whom run the command.                                                *)
EXTENDS ExitCommand

CONSTANTS op, alice

TwoAccounts == {op, alice}
Lists == {<<op, alice>>}
Targets == {<<1, 1>>}

(* A run that compares the pool's validator with the file. *)
Plain(r) == subject[r] \in {NoSubject, [validator |-> "pools", file |-> "pools"]}

(* Bound: a run that is not plain is the only one. *)
OnlyPlainRunsOverlap ==
  \A r \in Runners : ~ Plain(r) => \A q \in Runners \ {r} : step[q] = "start"
=============================================================================
