--------------------------- MODULE FundingEscrow ---------------------------
(***************************************************************************)
(* What the pool promises its accounts, without attempts, deadlines,       *)
(* participant lists, balances or calls: wei that an account contributed   *)
(* is held for it until it is either owed back or turned into stake, all   *)
(* at once and exactly when the top-up is complete; stake earns its        *)
(* pro-rata share of everything received, and a payment brings what an     *)
(* account was paid up to that share, no more and no less.                 *)
(***************************************************************************)
EXTENDS Naturals, WeiSums

CONSTANTS Addresses, operator, Predeposit, TopUp,
          Values  \* the amounts a contribution or a receipt may have

VARIABLES held, owed, stake, received, paid

escrowVars == <<held, owed, stake, received, paid>>

Nothing == [a \in Addresses |-> 0]

EscrowInit ==
  held = Nothing /\ owed = Nothing /\ stake = Nothing /\ received = 0 /\ paid = Nothing

Contribute(a, v) ==
  /\ stake = Nothing
  /\ held' = [held EXCEPT ![a] = @ + v]
  /\ SumOver(held', Addresses) <= TopUp
  /\ UNCHANGED <<owed, stake, received, paid>>

GiveBack ==
  /\ owed' = [a \in Addresses |-> owed[a] + held[a]]
  /\ held' = Nothing
  /\ UNCHANGED <<stake, received, paid>>

Withdraw(a) ==
  /\ owed[a] # 0
  /\ owed' = [owed EXCEPT ![a] = 0]
  /\ UNCHANGED <<held, stake, received, paid>>

Convert ==
  /\ stake = Nothing
  /\ SumOver(held, Addresses) = TopUp
  /\ stake' = [a \in Addresses |-> held[a] + (IF a = operator THEN Predeposit ELSE 0)]
  /\ held' = Nothing
  /\ UNCHANGED <<owed, received, paid>>

Receive(v) ==
  /\ received' = received + v
  /\ UNCHANGED <<held, owed, stake, paid>>

EarnedBy(a) == (received * stake[a]) \div (Predeposit + TopUp)

Pay(a) ==
  /\ EarnedBy(a) > paid[a]
  /\ paid' = [paid EXCEPT ![a] = EarnedBy(a)]
  /\ UNCHANGED <<held, owed, stake, received>>

EscrowNext ==
  \/ \E a \in Addresses, v \in Values : Contribute(a, v)
  \/ GiveBack
  \/ \E a \in Addresses : Withdraw(a) \/ Pay(a)
  \/ Convert
  \/ \E v \in Values : Receive(v)

EscrowSpec == EscrowInit /\ [][EscrowNext]_escrowVars
=============================================================================
