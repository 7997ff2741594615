------------------------------ MODULE WeiSums ------------------------------
(***************************************************************************)
(* Sums of wei amounts over a finite set, counted unit by unit: the sum of *)
(* f over S is the number of pairs <<a, k>> with a in S and k in 1..f[a].  *)
(* The definition has no recursion, so that facts about it can be proved   *)
(* from the facts about finite sets.                                       *)
(***************************************************************************)
EXTENDS Naturals, FiniteSets

Units(f, S) == UNION {{a} \X (1 .. f[a]) : a \in S}

SumOver(f, S) == Cardinality(Units(f, S))
=============================================================================
