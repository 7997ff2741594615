--------------------- MODULE ValidatorFundingPoolProofs ---------------------
(***************************************************************************)
(* Proofs about ValidatorFundingPool for every set of accounts, every      *)
(* split of the deposit, every list and every bound.  IInv is shown to be  *)
(* inductive, one lemma per action; what the ledgers and the payouts       *)
(* promise follows from it, and that every step of the pool is a step of   *)
(* FundingEscrow.                                                          *)
(***************************************************************************)
EXTENDS PoolImplementsEscrow, FiniteSetTheorems, SequenceTheorems, TLAPS

USE DEF lifecycleVars, attemptVars, activeVars, refundVars, creditVars,
        claimVars, validatorVars, callVars, environmentVars,
        CanFund, FundingComplete

-----------------------------------------------------------------------------
(* Sums of wei amounts: what SumOver computes, for every finite set and    *)
(* every function                                                          *)

(* The units counted are finitely many, so every sum of wei amounts over a *)
(* finite set of accounts is a natural number.                             *)
LEMMA SumType ==
  ASSUME NEW S, IsFiniteSet(S), NEW f, \A a \in S : f[a] \in Nat
  PROVE  IsFiniteSet(Units(f, S)) /\ SumOver(f, S) \in Nat
<1> DEFINE box == [a \in S |-> {a} \X (1 .. f[a])]
           boxes == {{a} \X (1 .. f[a]) : a \in S}
<1>1. box \in Surjection(S, boxes)
  BY DEF Surjection
<1>2. IsFiniteSet(boxes)
  BY <1>1, FS_Surjection
<1>3. \A a \in S : IsFiniteSet({a} \X (1 .. f[a]))
  <2>1. ASSUME NEW a \in S PROVE IsFiniteSet({a} \X (1 .. f[a]))
    <3>1. IsFiniteSet({a})
      BY FS_Singleton
    <3>2. IsFiniteSet(1 .. f[a])
      BY FS_Interval
    <3>3. QED
      BY <3>1, <3>2, FS_Product
  <2>2. QED
    BY <2>1
<1>4. IsFiniteSet(UNION boxes)
  BY <1>2, <1>3, FS_UNION
<1>5. QED
  BY <1>4, FS_CardinalityType DEF Units, SumOver

(* Nothing is owed to nobody. *)
LEMMA SumEmpty == ASSUME NEW f PROVE SumOver(f, {}) = 0
BY FS_EmptySet DEF SumOver, Units

(* The total is one account's amount and the total of the others. *)
LEMMA SumSplit ==
  ASSUME NEW S, IsFiniteSet(S), NEW f, \A a \in S : f[a] \in Nat, NEW b \in S
  PROVE  SumOver(f, S) = SumOver(f, S \ {b}) + f[b]
<1> DEFINE rest == Units(f, S \ {b})
           mine == {b} \X (1 .. f[b])
<1>1. Units(f, S) = rest \cup mine
  BY DEF Units
<1>2. rest \cap mine = {}
  BY DEF Units
<1>3. IsFiniteSet(S \ {b}) /\ \A a \in S \ {b} : f[a] \in Nat
  BY FS_RemoveElement
<1>4. IsFiniteSet(rest) /\ Cardinality(rest) \in Nat
  BY <1>3, SumType DEF SumOver
<1>5. IsFiniteSet(mine) /\ Cardinality(mine) = f[b]
  <2>1. IsFiniteSet({b}) /\ Cardinality({b}) = 1
    BY FS_Singleton
  <2>2. IsFiniteSet(1 .. f[b]) /\ Cardinality(1 .. f[b]) = f[b]
    BY FS_Interval
  <2>3. IsFiniteSet(mine) /\ Cardinality(mine) = 1 * f[b]
    BY <2>1, <2>2, FS_Product
  <2>4. QED
    BY <2>3
<1>6. Cardinality(rest \cup mine)
        = Cardinality(rest) + Cardinality(mine) - Cardinality(rest \cap mine)
  BY <1>4, <1>5, FS_Union
<1>7. Cardinality(rest \cap mine) = 0
  BY <1>2, FS_EmptySet
<1>8. SumOver(f, S) = Cardinality(rest \cup mine) /\ SumOver(f, S \ {b}) = Cardinality(rest)
  BY <1>1 DEF SumOver
<1> HIDE DEF rest, mine
<1>9. QED
  BY <1>4, <1>5, <1>6, <1>7, <1>8

(* Functions that agree on a set have the same total over it. *)
LEMMA SumSame ==
  ASSUME NEW S, NEW f, NEW g, \A a \in S : f[a] = g[a]
  PROVE  SumOver(f, S) = SumOver(g, S)
<1>1. Units(f, S) = Units(g, S)
  BY DEF Units
<1>2. QED
  BY <1>1 DEF SumOver

(* Accounts with nothing do not count. *)
LEMMA SumSupport ==
  ASSUME NEW S, NEW T, T \subseteq S, NEW f, \A a \in S \ T : f[a] = 0
  PROVE  SumOver(f, T) = SumOver(f, S)
<1>1. \A a \in S \ T : 1 .. f[a] = {}
  OBVIOUS
<1>2. Units(f, T) = Units(f, S)
  BY <1>1 DEF Units
<1>3. QED
  BY <1>2 DEF SumOver

(* A ledger of zeros adds up to zero. *)
LEMMA SumZero ==
  ASSUME NEW S, NEW f, \A a \in S : f[a] = 0
  PROVE  SumOver(f, S) = 0
<1>1. \A a \in S : 1 .. f[a] = {}
  OBVIOUS
<1>2. Units(f, S) = {}
  BY <1>1 DEF Units
<1>3. QED
  BY <1>2, FS_EmptySet DEF SumOver

(* Writing one entry changes the total by the difference. *)
LEMMA SumUpdate ==
  ASSUME NEW S, IsFiniteSet(S), NEW f, NEW g, NEW b \in S,
         \A a \in S : f[a] \in Nat /\ g[a] \in Nat,
         \A a \in S \ {b} : g[a] = f[a]
  PROVE  SumOver(g, S) = SumOver(f, S) - f[b] + g[b]
<1>1. SumOver(g, S) = SumOver(g, S \ {b}) + g[b]
  BY SumSplit
<1>2. SumOver(f, S) = SumOver(f, S \ {b}) + f[b]
  BY SumSplit
<1>3. SumOver(g, S \ {b}) = SumOver(f, S \ {b})
  BY SumSame
<1>4. SumOver(f, S \ {b}) \in Nat
  BY FS_RemoveElement, SumType
<1>5. QED
  BY <1>1, <1>2, <1>3, <1>4

(* Each entry is part of the total. *)
LEMMA SumEntry ==
  ASSUME NEW S, IsFiniteSet(S), NEW f, \A a \in S : f[a] \in Nat, NEW b \in S
  PROVE  f[b] <= SumOver(f, S)
<1>1. SumOver(f, S) = SumOver(f, S \ {b}) + f[b]
  BY SumSplit
<1>2. SumOver(f, S \ {b}) \in Nat
  BY FS_RemoveElement, SumType
<1>3. QED
  BY <1>1, <1>2

(* A family of subsets of a finite set, if it has a member, has one none   *)
(* of whose elements can be removed: the induction over accounts that the  *)
(* next lemmas use.                                                        *)
LEMMA SmallestMember ==
  ASSUME NEW S, IsFiniteSet(S), NEW B, B \subseteq SUBSET S, B # {}
  PROVE  \E T \in B : \A a \in T : T \ {a} \notin B
<1> DEFINE R == StrictSubsetOrdering(S)
<1>1. IsWellFoundedOn(R, SUBSET S)
  BY FS_StrictSubsetOrderingWellFounded, FS_FiniteSubsetsOfFinite
<1>2. PICK T \in B : \A U \in B : ~ (<<U, T>> \in R)
  BY <1>1, WFMin
<1>3. ASSUME NEW a \in T PROVE T \ {a} \notin B
  <2>1. T \in SUBSET S /\ T \ {a} \in SUBSET S /\ T \ {a} \subseteq T /\ T \ {a} # T
    OBVIOUS
  <2>2. <<T \ {a}, T>> \in R
    BY <2>1 DEF StrictSubsetOrdering
  <2>3. QED
    BY <1>2, <2>2
<1>4. QED
  BY <1>2, <1>3

(* Moving one ledger into another entry by entry adds the totals. *)
LEMMA SumAdd ==
  ASSUME NEW S, IsFiniteSet(S), NEW f, NEW g, NEW h,
         \A a \in S : f[a] \in Nat /\ g[a] \in Nat /\ h[a] = f[a] + g[a]
  PROVE  SumOver(h, S) = SumOver(f, S) + SumOver(g, S)
<1> DEFINE Good(T) == SumOver(h, T) = SumOver(f, T) + SumOver(g, T)
           B == {T \in SUBSET S : ~ Good(T)}
<1>1. SUFFICES ASSUME B # {} PROVE FALSE
  OBVIOUS
<1>2. PICK T \in B : \A a \in T : T \ {a} \notin B
  <2>1. B \subseteq SUBSET S
    OBVIOUS
  <2> HIDE DEF B
  <2>2. QED
    BY <1>1, <2>1, SmallestMember
<1>3. T \subseteq S /\ ~ Good(T) /\ IsFiniteSet(T)
  BY <1>2, FS_Subset
<1>4. CASE T = {}
  BY <1>3, <1>4, SumEmpty
<1>5. CASE T # {}
  <2>1. PICK b \in T : TRUE
    BY <1>5
  <2>2. Good(T \ {b})
    BY <1>2, <1>3, <2>1
  <2>3. \A a \in T : f[a] \in Nat /\ g[a] \in Nat /\ h[a] \in Nat
    BY <1>3
  <2>4. /\ SumOver(f, T) = SumOver(f, T \ {b}) + f[b]
        /\ SumOver(g, T) = SumOver(g, T \ {b}) + g[b]
        /\ SumOver(h, T) = SumOver(h, T \ {b}) + h[b]
    BY <1>3, <2>3, SumSplit
  <2>5. SumOver(f, T \ {b}) \in Nat /\ SumOver(g, T \ {b}) \in Nat
    BY <1>3, <2>3, FS_RemoveElement, SumType
  <2>6. Good(T)
    BY <2>1, <2>2, <2>3, <2>4, <2>5, <1>3
  <2>7. QED
    BY <1>3, <2>6
<1>6. QED
  BY <1>4, <1>5

(* A ledger bounded entry by entry is bounded in total, and only equal     *)
(* ledgers have equal totals: this is why an exactly full attempt means    *)
(* that every participant has paid in full.                                *)
LEMMA SumMonotone ==
  ASSUME NEW S, IsFiniteSet(S), NEW f, NEW g,
         \A a \in S : f[a] \in Nat /\ g[a] \in Nat /\ f[a] <= g[a]
  PROVE  /\ SumOver(f, S) <= SumOver(g, S)
         /\ SumOver(f, S) = SumOver(g, S) => \A a \in S : f[a] = g[a]
<1>1. Units(f, S) \subseteq Units(g, S)
  <2>1. \A a \in S : 1 .. f[a] \subseteq 1 .. g[a]
    OBVIOUS
  <2>2. QED
    BY <2>1 DEF Units
<1>2. IsFiniteSet(Units(g, S))
  BY SumType
<1>3. SumOver(f, S) <= SumOver(g, S)
  BY <1>1, <1>2, FS_Subset DEF SumOver
<1>4. ASSUME SumOver(f, S) = SumOver(g, S), NEW a \in S PROVE f[a] = g[a]
  <2>1. Units(f, S) = Units(g, S)
    BY <1>1, <1>2, <1>4, FS_Subset DEF SumOver
  <2>2. SUFFICES ASSUME f[a] < g[a] PROVE FALSE
    BY <1>4
  <2>3. g[a] \in 1 .. g[a] /\ g[a] \notin 1 .. f[a]
    BY <2>2
  <2>4. <<a, g[a]>> \in Units(g, S)
    BY <2>3 DEF Units
  <2>5. <<a, g[a]>> \notin Units(f, S)
    BY <2>3 DEF Units
  <2>6. QED
    BY <2>1, <2>4, <2>5
<1>5. QED
  BY <1>3, <1>4

(* Shares bounded pro rata entry by entry are bounded pro rata in total:   *)
(* if n * f[a] never exceeds m * g[a], the sums keep that proportion.      *)
LEMMA SumScaled ==
  ASSUME NEW S, IsFiniteSet(S), NEW f, NEW g, NEW n \in Nat, NEW m \in Nat,
         \A a \in S : f[a] \in Nat /\ g[a] \in Nat /\ n * f[a] <= m * g[a]
  PROVE  n * SumOver(f, S) <= m * SumOver(g, S)
<1> DEFINE Good(T) == n * SumOver(f, T) <= m * SumOver(g, T)
           B == {T \in SUBSET S : ~ Good(T)}
<1>1. SUFFICES ASSUME B # {} PROVE FALSE
  OBVIOUS
<1>2. PICK T \in B : \A a \in T : T \ {a} \notin B
  <2>1. B \subseteq SUBSET S
    OBVIOUS
  <2> HIDE DEF B
  <2>2. QED
    BY <1>1, <2>1, SmallestMember
<1>3. T \subseteq S /\ ~ Good(T) /\ IsFiniteSet(T)
  BY <1>2, FS_Subset
<1>4. CASE T = {}
  BY <1>3, <1>4, SumEmpty
<1>5. CASE T # {}
  <2>1. PICK b \in T : TRUE
    BY <1>5
  <2>2. Good(T \ {b})
    BY <1>2, <1>3, <2>1
  <2>3. \A a \in T : f[a] \in Nat /\ g[a] \in Nat
    BY <1>3
  <2>4. /\ SumOver(f, T) = SumOver(f, T \ {b}) + f[b]
        /\ SumOver(g, T) = SumOver(g, T \ {b}) + g[b]
    BY <1>3, <2>3, SumSplit
  <2>5. SumOver(f, T \ {b}) \in Nat /\ SumOver(g, T \ {b}) \in Nat
    BY <1>3, <2>3, FS_RemoveElement, SumType
  <2>6. \A x, y, u, v \in Nat :
           n * x <= m * y /\ n * u <= m * v => n * (x + u) <= m * (y + v)
    OBVIOUS
  <2>7. n * f[b] <= m * g[b]
    BY <1>3, <2>1
  <2>8. Good(T)
    BY <2>1, <2>2, <2>3, <2>4, <2>5, <2>6, <2>7
  <2>9. QED
    BY <1>3, <2>8
<1>6. QED
  BY <1>4, <1>5

(* A list without repetitions that names every account with an amount has  *)
(* the same total as the ledger: sums over _participants are sums over the *)
(* mapping.                                                                *)
LEMMA SumReindex ==
  ASSUME NEW S, IsFiniteSet(S), NEW f, \A a \in S : f[a] \in Nat,
         NEW I, NEW q \in [I -> S], NEW h, \A i \in I : h[i] = f[q[i]],
         \A i, j \in I : q[i] = q[j] => i = j,
         \A a \in S : f[a] # 0 => \E i \in I : q[i] = a
  PROVE  SumOver(h, I) = SumOver(f, S)
<1> DEFINE move == [u \in Units(f, S) |-> <<CHOOSE i \in I : q[i] = u[1], u[2]>>]
<1>1. \A u \in Units(f, S) :
         \E a \in S : \E k \in 1 .. f[a] : u = <<a, k>> /\ \E i \in I : q[i] = a
  BY DEF Units
<1>2. \A i \in I : (CHOOSE j \in I : q[j] = q[i]) = i
  OBVIOUS
<1>3. move \in [Units(f, S) -> Units(h, I)]
  <2>1. ASSUME NEW u \in Units(f, S) PROVE move[u] \in Units(h, I)
    <3>1. PICK a \in S, k \in Nat, i \in I : k \in 1 .. f[a] /\ u = <<a, k>> /\ q[i] = a
      BY <1>1
    <3>2. move[u] = <<i, k>> /\ k \in 1 .. h[i]
      BY <1>2, <3>1
    <3>3. QED
      BY <3>2 DEF Units
  <2>2. QED
    BY <2>1
<1>4. \A u, v \in Units(f, S) : move[u] = move[v] => u = v
  <2>1. ASSUME NEW u \in Units(f, S), NEW v \in Units(f, S), move[u] = move[v]
        PROVE u = v
    <3>1. PICK a \in S, k \in Nat, i \in I : k \in 1 .. f[a] /\ u = <<a, k>> /\ q[i] = a
      BY <1>1
    <3>2. PICK b \in S, l \in Nat, j \in I : l \in 1 .. f[b] /\ v = <<b, l>> /\ q[j] = b
      BY <1>1
    <3>3. move[u] = <<i, k>> /\ move[v] = <<j, l>>
      BY <1>2, <3>1, <3>2
    <3>4. QED
      BY <2>1, <3>1, <3>2, <3>3
  <2>2. QED
    BY <2>1
<1>5. \A w \in Units(h, I) : \E u \in Units(f, S) : move[u] = w
  <2>1. ASSUME NEW w \in Units(h, I) PROVE \E u \in Units(f, S) : move[u] = w
    <3>1. PICK i \in I, k \in Nat : k \in 1 .. h[i] /\ w = <<i, k>>
      BY DEF Units
    <3>2. <<q[i], k>> \in Units(f, S)
      BY <3>1 DEF Units
    <3>3. move[<<q[i], k>>] = w
      BY <1>2, <3>1, <3>2
    <3>4. QED
      BY <3>2, <3>3
  <2>2. QED
    BY <2>1
<1>6. move \in Bijection(Units(f, S), Units(h, I))
  <2> HIDE DEF move
  <2>1. QED
    BY <1>3, <1>4, <1>5 DEF Bijection, Injection, Surjection, IsInjective
<1>7. ExistsBijection(Units(f, S), Units(h, I))
  BY <1>6 DEF ExistsBijection
<1>8. IsFiniteSet(Units(f, S))
  BY SumType
<1>9. QED
  BY <1>7, <1>8, FS_Bijection DEF SumOver

-----------------------------------------------------------------------------
(* Facts about the constants, frames and lists *)

(* The mappings' domain is finite and has the operator. *)
LEMMA AddressFacts == IsFiniteSet(Addresses) /\ operator \in Addresses
BY AddressesAssumption, FS_AddElement DEF Addresses

(* The ledger of zeros. *)
LEMMA NoWeiFacts ==
  /\ NoWei \in [Addresses -> Nat]
  /\ \A a \in Addresses : NoWei[a] = 0
  /\ SumOver(NoWei, Addresses) = 0
<1>1. NoWei \in [Addresses -> Nat] /\ \A a \in Addresses : NoWei[a] = 0
  BY DEF NoWei
<1>2. QED
  BY <1>1, SumZero

(* What the runs of the commands keep in a list: one more entry at its     *)
(* end, and one fewer, the later ones moving up.                           *)
LEMMA Appended ==
  ASSUME NEW S, NEW s \in Seq(S), NEW e \in S
  PROVE  /\ Append(s, e) \in Seq(S)
         /\ DOMAIN Append(s, e) = DOMAIN s \cup {Len(s) + 1}
         /\ \A i \in DOMAIN s : Append(s, e)[i] = s[i]
         /\ Append(s, e)[Len(s) + 1] = e /\ Len(s) + 1 \notin DOMAIN s
  OBVIOUS

Without(s, i) == SubSeq(s, 1, i - 1) \o SubSeq(s, i + 1, Len(s))

(* Every element that is left was there before the removal.                *)
LEMMA Removed ==
  ASSUME NEW S, NEW s \in Seq(S), NEW i \in DOMAIN s
  PROVE  /\ Without(s, i) \in Seq(S)
         /\ \A j \in DOMAIN Without(s, i) :
              \E k \in DOMAIN s : /\ k = IF j < i THEN j ELSE j + 1
                                  /\ Without(s, i)[j] = s[k]
<1> DEFINE before == SubSeq(s, 1, i - 1)
           after == SubSeq(s, i + 1, Len(s))
<1>1. Len(s) \in Nat /\ i \in 1 .. Len(s) /\ DOMAIN s = 1 .. Len(s)
  BY LenProperties
<1>2. /\ before \in Seq(S) /\ Len(before) = i - 1
      /\ \A j \in 1 .. i - 1 : before[j] = s[j]
  BY <1>1
<1>3. /\ after \in Seq(S) /\ Len(after) = Len(s) - i
      /\ \A j \in 1 .. Len(s) - i : after[j] = s[i + j]
  BY <1>1
<1> HIDE DEF before, after
<1> DEFINE t == before \o after
<1>4. /\ t \in Seq(S) /\ Len(t) = Len(before) + Len(after)
      /\ \A j \in 1 .. Len(before) + Len(after) :
           t[j] = IF j <= Len(before) THEN before[j] ELSE after[j - Len(before)]
  BY <1>2, <1>3, ConcatProperties
<1>5. Without(s, i) = t
  BY DEF Without, before, after
<1> HIDE DEF t
<1>6. Len(t) = Len(s) - 1 /\ DOMAIN t = 1 .. Len(s) - 1
  BY <1>1, <1>2, <1>3, <1>4, LenProperties
<1>7. ASSUME NEW j \in 1 .. Len(s) - 1
      PROVE  \E k \in DOMAIN s : k = (IF j < i THEN j ELSE j + 1) /\ t[j] = s[k]
  <2>1. CASE j < i
    <3>1. t[j] = s[j] /\ j \in 1 .. Len(s)
      BY <1>1, <1>2, <1>3, <1>4, <2>1
    <3>2. QED
      BY <1>1, <2>1, <3>1
  <2>2. CASE ~ (j < i)
    <3>1. j - (i - 1) \in 1 .. Len(s) - i /\ i + (j - (i - 1)) = j + 1 /\ j + 1 \in 1 .. Len(s)
      BY <1>1, <2>2
    <3>2. t[j] = after[j - (i - 1)]
      BY <1>1, <1>2, <1>3, <1>4, <2>2
    <3>3. QED
      BY <1>1, <1>3, <2>2, <3>1, <3>2
  <2>3. QED
    BY <2>1, <2>2
<1>8. QED
  BY <1>4, <1>5, <1>6, <1>7

(* What is held for callers is an amount. *)
LEMMA HeldType == ASSUME NEW c \in Seq(Frame) PROVE HeldIn(c) \in Nat
<1> DEFINE g == [i \in DOMAIN c |-> IF c[i].kind = "exit" THEN c[i].excess ELSE 0]
<1>1. IsFiniteSet(DOMAIN c)
  BY FS_Interval
<1>2. \A i \in DOMAIN c : g[i] \in Nat
  <2>1. \A i \in DOMAIN c : c[i] \in Frame
    OBVIOUS
  <2>2. QED
    BY <2>1 DEF Frame
<1> HIDE DEF g
<1>3. SumOver(g, DOMAIN c) \in Nat
  BY <1>1, <1>2, SumType
<1>4. QED
  BY <1>3 DEF HeldIn, g

(* With no frame open the pool holds nobody's change. *)
LEMMA NothingHeld == HeldIn(<<>>) = 0
<1>1. DOMAIN <<>> = {}
  OBVIOUS
<1>2. QED
  BY <1>1, SumEmpty DEF HeldIn

(* With one frame open it holds the excess of that frame, if the frame is  *)
(* the predeploy call of an exit request.                                  *)
LEMMA OneFrameHolds ==
  ASSUME NEW f \in Frame
  PROVE  HeldIn(<<f>>) = IF f.kind = "exit" THEN f.excess ELSE 0
<1> DEFINE c == <<f>>
           g == [i \in DOMAIN c |-> IF c[i].kind = "exit" THEN c[i].excess ELSE 0]
<1>1. DOMAIN c = {1} /\ c[1] = f
  OBVIOUS
<1>2. \A i \in DOMAIN c : g[i] \in Nat
  BY <1>1 DEF Frame
<1>3. SumOver(g, {1}) = SumOver(g, {1} \ {1}) + g[1]
  <2>1. IsFiniteSet({1}) /\ 1 \in {1}
    BY FS_Singleton
  <2>2. \A i \in {1} : g[i] \in Nat
    BY <1>1, <1>2
  <2> HIDE DEF g
  <2>3. QED
    BY <2>1, <2>2, SumSplit
<1>4. {1} \ {1} = {}
  OBVIOUS
<1>5. SumOver(g, {1}) = g[1]
  BY <1>1, <1>2, <1>3, <1>4, SumEmpty
<1>6. QED
  BY <1>1, <1>5 DEF HeldIn

(* A guarded handler starts with no frame open and opens its own. *)
LEMMA Entering ==
  ASSUME TypeOK, CallDiscipline, NotEntered, NEW kind, NEW excess, Enter(kind, excess)
  PROVE  /\ calls = <<>> /\ reentrancyLock = 0
         /\ calls' = <<[kind |-> kind, excess |-> excess]>> /\ reentrancyLock' = 1
<1>1. calls \in Seq(Frame) /\ Len(calls) = 0 /\ reentrancyLock = 0
  BY DEF TypeOK, CallDiscipline, NotEntered
<1>2. calls = <<>>
  BY <1>1
<1>3. calls' = Append(<<>>, [kind |-> kind, excess |-> excess]) /\ reentrancyLock' = 1
  BY <1>2 DEF Enter
<1>4. QED
  BY <1>1, <1>2, <1>3

(* The frame that is popped is the only one. *)
LEMMA OnlyFrame ==
  ASSUME TypeOK, CallDiscipline, NEW kind, Returning(kind)
  PROVE  /\ Len(calls) = 1 /\ reentrancyLock = 1 /\ DOMAIN calls = {1}
         /\ calls[1] \in Frame /\ calls = <<calls[1]>> /\ calls[1].kind = kind
<1>1. calls \in Seq(Frame) /\ calls # <<>> /\ Len(calls) = reentrancyLock
      /\ reentrancyLock \in {0, 1} /\ calls[Len(calls)].kind = kind
  BY DEF TypeOK, CallDiscipline, Returning
<1>2. Len(calls) = 1
  BY <1>1
<1>3. QED
  BY <1>1, <1>2

(* A returning call closes the only open frame and releases the lock. *)
LEMMA Leaving ==
  ASSUME TypeOK, CallDiscipline, NEW kind, Returning(kind), Leave(kind)
  PROVE  calls' = <<>> /\ reentrancyLock' = 0
<1>1. calls \in Seq(Frame) /\ Len(calls) = 1
  BY OnlyFrame DEF TypeOK
<1>2. calls' = SubSeq(calls, 1, 0) /\ reentrancyLock' = 0
  BY <1>1 DEF Leave, LockAfter
<1>3. QED
  BY <1>1, <1>2

-----------------------------------------------------------------------------
(* The initial state, the clock and ETH that runs no accounting *)

(* A freshly deployed pool satisfies the invariant. *)
LEMMA InitEstablishesIInv == Init => IInv
<1> SUFFICES ASSUME Init PROVE IInv
  OBVIOUS
<1>1. /\ NoWei \in [Addresses -> Nat] /\ \A a \in Addresses : NoWei[a] = 0
      /\ SumOver(NoWei, Addresses) = 0
  BY NoWeiFacts
<1>2. <<>> \in Seq(Addresses) /\ <<>> \in Seq(Frame) /\ Len(<<>>) = 0 /\ DOMAIN <<>> = {}
  OBVIOUS
<1>3. TypeOK
  <2>1. MAX_PARTICIPANTS \in Nat
    BY AttemptsAssumption
  <2>2. participants \in Seq(Addresses) /\ Len(participants) <= MAX_PARTICIPANTS
    BY <1>2, <2>1 DEF Init
  <2>3. calls \in Seq(Frame)
    BY <1>2 DEF Init
  <2>4. QED
    BY <1>1, <2>2, <2>3 DEF Init, TypeOK
<1>4. LedgersAddUp
  BY <1>1 DEF Init, LedgersAddUp
<1>5. AttemptIsConsistent
  BY <1>1, <1>2 DEF Init, AttemptIsConsistent, ParticipantSet, RequiredWei
<1>6. CallDiscipline
  BY <1>2 DEF Init, CallDiscipline
<1>7. CreditFacts
  BY DEF Init, CreditFacts
<1>8. BalanceExplained
  BY NothingHeld DEF Init, BalanceExplained, HeldChange
<1>9. ClaimsWithinShares
  BY <1>1, AmountsAssumption DEF Init, ClaimsWithinShares
<1>10. QED
  BY <1>3, <1>4, <1>5, <1>6, <1>7, <1>8, <1>9 DEF IInv

(* Time passes only between transactions, so no open frame sees it. *)
LEMMA TickKeepsIInv == IInv /\ Tick => IInv'
<1> SUFFICES ASSUME IInv, Tick PROVE IInv'
  OBVIOUS
<1> USE DEF Tick
<1>1. TypeOK'
  BY DEF IInv, TypeOK
<1>2. LedgersAddUp'
  BY DEF IInv, LedgersAddUp
<1>3. AttemptIsConsistent'
  BY DEF IInv, AttemptIsConsistent, ParticipantSet, ParticipantTargets, RequiredWei
<1>4. CallDiscipline'
  BY DEF IInv, CallDiscipline
<1>5. CreditFacts'
  BY DEF IInv, CreditFacts, RequiredWei
<1>6. BalanceExplained'
  BY DEF IInv, BalanceExplained, HeldChange
<1>7. ClaimsWithinShares'
  BY DEF IInv, ClaimsWithinShares
<1>8. QED
  BY <1>1, <1>2, <1>3, <1>4, <1>5, <1>6, <1>7 DEF IInv

(* More proceeds only raise the shares. *)
LEMMA EtherInKeepsIInv ==
  ASSUME IInv, NEW value \in Nat, EtherIn(value)
  PROVE  IInv'
<1> USE DEF EtherIn
<1>0. value \in Nat /\ VALIDATOR_DEPOSIT_WEI \in Nat
  BY AmountsAssumption
<1>1. TypeOK'
  BY <1>0 DEF IInv, TypeOK
<1>2. LedgersAddUp'
  BY DEF IInv, LedgersAddUp
<1>3. AttemptIsConsistent'
  BY DEF IInv, AttemptIsConsistent, ParticipantSet, ParticipantTargets, RequiredWei
<1>4. CallDiscipline'
  BY DEF IInv, CallDiscipline, WithinDeadline
<1>5. CreditFacts'
  BY DEF IInv, CreditFacts, RequiredWei
<1>6. BalanceExplained'
  <2>1. HeldChange' = HeldChange /\ HeldChange \in Nat
    BY HeldType DEF HeldChange, IInv, TypeOK
  <2> DEFINE predeposit == IF predepositSubmitted THEN PREDEPOSIT_WEI ELSE 0
  <2>2. predeposit' = predeposit
    OBVIOUS
  <2>3. QED
    BY <1>0, <1>1, <2>1, <2>2, AmountsAssumption DEF IInv, BalanceExplained, TypeOK
<1>7. ClaimsWithinShares'
  <2>1. ASSUME NEW a \in Addresses
        PROVE VALIDATOR_DEPOSIT_WEI * claimedWeiOf[a] <= (proceedsIn + value) * creditedWeiOf[a]
    <3>1. VALIDATOR_DEPOSIT_WEI * claimedWeiOf[a] <= proceedsIn * creditedWeiOf[a]
      BY DEF IInv, ClaimsWithinShares
    <3>2. claimedWeiOf[a] \in Nat /\ creditedWeiOf[a] \in Nat /\ proceedsIn \in Nat
      BY DEF IInv, TypeOK
    <3>3. \A p, v, c \in Nat : p * c <= (p + v) * c /\ p * c \in Nat /\ (p + v) * c \in Nat
      OBVIOUS
    <3>4. \A p, c \in Nat : p * c \in Nat
      OBVIOUS
    <3>5. QED
      BY <1>0, <3>1, <3>2, <3>3, <3>4
  <2>2. QED
    BY <2>1 DEF ClaimsWithinShares
<1>8. QED
  BY <1>1, <1>2, <1>3, <1>4, <1>5, <1>6, <1>7 DEF IInv

-----------------------------------------------------------------------------
(* fund and receive *)

(* A participant adds to an attempt that still misses something of it; an  *)
(* attempt whose top-up was submitted misses nothing.                      *)
LEMMA CreditFundingKeepsIInv ==
  ASSUME IInv, NEW sender \in Accounts, NEW value \in Nat, creditFunding(sender, value)
  PROVE  IInv'
<1>0. /\ value \in Nat \ {0} /\ sender \in Addresses
      /\ activeFundedWeiOf \in [Addresses -> Nat] /\ RequiredWei(sender) \in Int
      /\ activeFundedWeiOf[sender] + value <= RequiredWei(sender)
  BY AmountsAssumption
     DEF creditFunding, Addresses, IInv, TypeOK, fundingRemainingWeiOf, RequiredWei
<1>1. TypeOK'
  BY <1>0 DEF creditFunding, IInv, TypeOK
<1>2. LedgersAddUp'
  <2>1. SumOver(activeFundedWeiOf', Addresses)
          = SumOver(activeFundedWeiOf, Addresses) - activeFundedWeiOf[sender]
              + activeFundedWeiOf'[sender]
    <3>1. \A a \in Addresses : activeFundedWeiOf[a] \in Nat /\ activeFundedWeiOf'[a] \in Nat
      BY <1>0, <1>1 DEF TypeOK
    <3>2. \A a \in Addresses \ {sender} : activeFundedWeiOf'[a] = activeFundedWeiOf[a]
      BY <1>0 DEF creditFunding
    <3>3. sender \in Addresses
      BY <1>0
    <3>4. QED
      BY <3>1, <3>2, <3>3, AddressFacts, SumUpdate
  <2>2. totalActiveFundedWei' = SumOver(activeFundedWeiOf', Addresses)
    BY <1>0, <2>1 DEF creditFunding, IInv, LedgersAddUp, TypeOK
  <2>3. QED
    BY <2>2 DEF creditFunding, IInv, LedgersAddUp
<1>3. AttemptIsConsistent'
  BY <1>0 DEF creditFunding, IInv, AttemptIsConsistent, ParticipantSet, ParticipantTargets, RequiredWei
<1>4. CallDiscipline'
  BY DEF creditFunding, IInv, CallDiscipline, WithinDeadline
<1>5. CreditFacts'
  <2>1. ~ topUpSubmitted
    <3>1. topUpSubmitted => activeFundedWeiOf[sender] = RequiredWei(sender)
      BY <1>0 DEF IInv, CreditFacts
    <3>2. QED
      BY <1>0, <3>1
  <2>2. QED
    BY <2>1 DEF creditFunding, IInv, CreditFacts
<1>6. BalanceExplained'
  <2>1. HeldChange' = HeldChange /\ HeldChange \in Nat
    BY HeldType DEF creditFunding, HeldChange, IInv, TypeOK
  <2> DEFINE predeposit == IF predepositSubmitted THEN PREDEPOSIT_WEI ELSE 0
  <2>2. predeposit' = predeposit /\ predeposit \in Nat
    BY AmountsAssumption DEF creditFunding
  <2>3. balance + deposited + totalClaimedWei
          = proceedsIn + totalActiveFundedWei + totalRefundableWei + HeldChange + predeposit
    BY DEF IInv, BalanceExplained
  <2>4. BalanceExplained' <=>
          balance' + deposited' + totalClaimedWei'
            = proceedsIn' + totalActiveFundedWei' + totalRefundableWei' + HeldChange' + predeposit'
    BY DEF BalanceExplained
  <2> HIDE DEF predeposit
  <2>5. QED
    BY <1>0, <2>1, <2>2, <2>3, <2>4 DEF creditFunding, IInv, TypeOK
<1>7. ClaimsWithinShares'
  BY DEF creditFunding, IInv, ClaimsWithinShares
<1>8. QED
  BY <1>1, <1>2, <1>3, <1>4, <1>5, <1>6, <1>7 DEF IInv

(* receive() is a funding or an arrival of proceeds. *)
LEMMA ReceiveKeepsIInv ==
  ASSUME IInv, NEW sender \in Accounts, NEW value \in Nat, receive(sender, value)
  PROVE  IInv'
BY CreditFundingKeepsIInv, EtherInKeepsIInv DEF receive

-----------------------------------------------------------------------------
(* The predeposit *)

(* The predeposit leaves the pool in the transaction that brings it. *)
LEMMA CommitKeepsIInv ==
  ASSUME IInv, NEW sender \in Accounts, NEW value \in Nat,
         commitAndPredeposit(sender, value)
  PROVE  IInv'
<1> USE DEF commitAndPredeposit
<1>0. /\ PREDEPOSIT_WEI \in Nat /\ TypeOK
      /\ calls = <<>> /\ reentrancyLock' = 1
      /\ calls' = <<[kind |-> "commit", excess |-> 0]>>
  BY Entering, AmountsAssumption DEF IInv
<1>1. calls' \in Seq(Frame) /\ Len(calls') = 1 /\ DOMAIN calls' = {1}
      /\ calls'[1] = [kind |-> "commit", excess |-> 0] /\ calls'[1] \in Frame
  BY <1>0 DEF Frame
<1>2. ~ predepositSubmitted /\ ~ topUpSubmitted /\ deposited = 0
  BY <1>0 DEF IInv, CallDiscipline, CreditFacts
<1>3. TypeOK'
  BY <1>0, <1>1 DEF TypeOK
<1>4. LedgersAddUp'
  BY DEF IInv, LedgersAddUp
<1>5. AttemptIsConsistent'
  BY DEF IInv, AttemptIsConsistent, ParticipantSet, ParticipantTargets, RequiredWei
<1>6. CallDiscipline'
  BY <1>0, <1>1, <1>2 DEF CallDiscipline
<1>7. CreditFacts'
  BY <1>0, <1>2 DEF IInv, CreditFacts
<1>8. BalanceExplained'
  <2>1. HeldChange = 0
    BY <1>0, NothingHeld DEF HeldChange
  <2>2. HeldChange' = 0
    BY <1>0, <1>1, OneFrameHolds DEF HeldChange
  <2>3. QED
    BY <1>0, <1>2, <2>1, <2>2 DEF IInv, BalanceExplained, TypeOK
<1>9. ClaimsWithinShares'
  BY DEF IInv, ClaimsWithinShares
<1>10. QED
  BY <1>3, <1>4, <1>5, <1>6, <1>7, <1>8, <1>9 DEF IInv

(* The pool becomes Predeposited only after the deposit call. *)
LEMMA CommitReturnsKeepsIInv == IInv /\ commitReturns => IInv'
<1> SUFFICES ASSUME IInv, commitReturns PROVE IInv'
  OBVIOUS
<1> USE DEF commitReturns
<1>0. /\ TypeOK /\ calls = <<calls[1]>> /\ calls[1] \in Frame /\ DOMAIN calls = {1}
      /\ calls[1].kind = "commit"
      /\ calls' = <<>> /\ reentrancyLock' = 0
  BY OnlyFrame, Leaving DEF IInv
<1>1. calls' \in Seq(Frame) /\ Len(calls') = 0 /\ DOMAIN calls' = {}
  BY <1>0
<1>2. state = "Uninitialized" /\ predepositSubmitted /\ ~ topUpSubmitted
  BY <1>0 DEF IInv, CallDiscipline
<1>3. TypeOK'
  BY <1>0, <1>1 DEF TypeOK
<1>4. LedgersAddUp'
  BY DEF IInv, LedgersAddUp
<1>5. AttemptIsConsistent'
  BY <1>2 DEF IInv, AttemptIsConsistent, ParticipantSet, ParticipantTargets, RequiredWei
<1>6. CallDiscipline'
  BY <1>0, <1>1, <1>2 DEF CallDiscipline
<1>7. CreditFacts'
  BY DEF IInv, CreditFacts, RequiredWei
<1>8. BalanceExplained'
  <2>1. HeldChange = 0
    BY <1>0, OneFrameHolds DEF HeldChange
  <2>2. HeldChange' = 0
    BY <1>0, NothingHeld DEF HeldChange
  <2>3. QED
    BY <2>1, <2>2 DEF IInv, BalanceExplained
<1>9. ClaimsWithinShares'
  BY DEF IInv, ClaimsWithinShares
<1>10. QED
  BY <1>3, <1>4, <1>5, <1>6, <1>7, <1>8, <1>9 DEF IInv

-----------------------------------------------------------------------------
(* Calls that return *)

(* The pool becomes ToppedUp only after the deposit call. *)
LEMMA TopUpReturnsKeepsIInv == IInv /\ topUpReturns => IInv'
<1> SUFFICES ASSUME IInv, topUpReturns PROVE IInv'
  OBVIOUS
<1> USE DEF topUpReturns
<1>0. /\ TypeOK /\ calls = <<calls[1]>> /\ calls[1] \in Frame /\ DOMAIN calls = {1}
      /\ calls[1].kind = "topUp"
      /\ calls' = <<>> /\ reentrancyLock' = 0
  BY OnlyFrame, Leaving DEF IInv
<1>1. calls' \in Seq(Frame) /\ Len(calls') = 0 /\ DOMAIN calls' = {}
  BY <1>0
<1>2. state = "Funding" /\ predepositSubmitted /\ topUpSubmitted
  BY <1>0 DEF IInv, CallDiscipline
<1>3. TypeOK'
  BY <1>0, <1>1 DEF TypeOK
<1>4. LedgersAddUp'
  BY DEF IInv, LedgersAddUp
<1>5. AttemptIsConsistent'
  BY <1>2 DEF IInv, AttemptIsConsistent, ParticipantSet, ParticipantTargets, RequiredWei
<1>6. CallDiscipline'
  BY <1>0, <1>1, <1>2 DEF CallDiscipline
<1>7. CreditFacts'
  BY DEF IInv, CreditFacts, RequiredWei
<1>8. BalanceExplained'
  <2>1. HeldChange = 0
    BY <1>0, OneFrameHolds DEF HeldChange
  <2>2. HeldChange' = 0
    BY <1>0, NothingHeld DEF HeldChange
  <2>3. QED
    BY <2>1, <2>2 DEF IInv, BalanceExplained
<1>9. ClaimsWithinShares'
  BY DEF IInv, ClaimsWithinShares
<1>10. QED
  BY <1>3, <1>4, <1>5, <1>6, <1>7, <1>8, <1>9 DEF IInv

(* The end of a payout moves no ETH. *)
LEMMA PayoutReturnsKeepsIInv == IInv /\ payoutReturns => IInv'
<1> SUFFICES ASSUME IInv, payoutReturns PROVE IInv'
  OBVIOUS
<1> USE DEF payoutReturns
<1>1. PICK kind \in {"refund", "claim", "change"} : Returning(kind) /\ Leave(kind)
  OBVIOUS
<1>2. /\ TypeOK /\ calls = <<calls[1]>> /\ calls[1] \in Frame /\ DOMAIN calls = {1}
      /\ calls[1].kind = kind
      /\ calls' = <<>> /\ reentrancyLock' = 0
  BY <1>1, OnlyFrame, Leaving DEF IInv
<1>3. calls' \in Seq(Frame) /\ Len(calls') = 0 /\ DOMAIN calls' = {}
  BY <1>2
<1>4. TypeOK'
  BY <1>2, <1>3 DEF TypeOK
<1>5. LedgersAddUp'
  BY DEF IInv, LedgersAddUp
<1>6. AttemptIsConsistent'
  BY DEF IInv, AttemptIsConsistent, ParticipantSet, ParticipantTargets, RequiredWei
<1>7. CallDiscipline'
  BY <1>1, <1>2, <1>3 DEF IInv, CallDiscipline
<1>8. CreditFacts'
  BY DEF IInv, CreditFacts, RequiredWei
<1>9. BalanceExplained'
  <2>1. HeldChange = 0
    BY <1>1, <1>2, OneFrameHolds DEF HeldChange
  <2>2. HeldChange' = 0
    BY <1>2, NothingHeld DEF HeldChange
  <2>3. QED
    BY <2>1, <2>2 DEF IInv, BalanceExplained
<1>10. ClaimsWithinShares'
  BY DEF IInv, ClaimsWithinShares
<1>11. QED
  BY <1>4, <1>5, <1>6, <1>7, <1>8, <1>9, <1>10 DEF IInv

-----------------------------------------------------------------------------
(* requestExit: the change is held while the predeploy runs, then paid *)

(* The caller's change is held while the predeploy runs. *)
LEMMA RequestExitKeepsIInv ==
  ASSUME IInv, NEW sender \in Accounts, NEW value \in Nat, NEW fee \in Nat, NEW maxFee,
         requestExit(sender, value, fee, maxFee)
  PROVE  IInv'
<1> USE DEF requestExit
<1> DEFINE f == [kind |-> "exit", excess |-> value - fee]
<1>0. /\ value \in Nat /\ fee \in Nat /\ fee <= value /\ TypeOK
      /\ calls = <<>> /\ reentrancyLock' = 1 /\ calls' = <<f>>
  BY Entering, AmountsAssumption DEF IInv
<1>1. f \in Frame
  BY <1>0 DEF Frame
<1>2. calls' \in Seq(Frame) /\ Len(calls') = 1 /\ DOMAIN calls' = {1} /\ calls'[1] = f
  BY <1>0, <1>1
<1>3. TypeOK'
  BY <1>0, <1>2 DEF TypeOK
<1>4. LedgersAddUp'
  BY DEF IInv, LedgersAddUp
<1>5. AttemptIsConsistent'
  BY DEF IInv, AttemptIsConsistent, ParticipantSet, ParticipantTargets, RequiredWei
<1>6. CallDiscipline'
  BY <1>0, <1>2 DEF IInv, CallDiscipline
<1>7. CreditFacts'
  BY DEF IInv, CreditFacts, RequiredWei
<1>8. BalanceExplained'
  <2>1. HeldChange = 0
    BY <1>0, NothingHeld DEF HeldChange
  <2>2. HeldChange' = value - fee
    BY <1>0, <1>1, OneFrameHolds DEF HeldChange
  <2>3. predepositSubmitted' = predepositSubmitted
    OBVIOUS
  <2>4. QED
    BY <1>0, <2>1, <2>2, <2>3, AmountsAssumption DEF IInv, BalanceExplained, TypeOK
<1>9. ClaimsWithinShares'
  BY DEF IInv, ClaimsWithinShares
<1>10. QED
  BY <1>3, <1>4, <1>5, <1>6, <1>7, <1>8, <1>9 DEF IInv

(* The change leaves the pool when the predeploy returns. *)
LEMMA ExitReturnsKeepsIInv ==
  ASSUME IInv, NEW sender \in Accounts, exitReturns(sender)
  PROVE  IInv'
<1> DEFINE f == [kind |-> "change", excess |-> 0]
<1>0. /\ TypeOK /\ calls = <<calls[1]>> /\ calls[1] \in Frame /\ DOMAIN calls = {1}
      /\ Len(calls) = 1 /\ calls[1].kind = "exit" /\ reentrancyLock = 1
      /\ Change = calls[1].excess /\ Change \in Nat
  BY OnlyFrame DEF exitReturns, IInv, Change, Frame
<1>1. \/ /\ Change = 0 /\ calls' = <<>> /\ reentrancyLock' = 0
         /\ balance' = balance
      \/ /\ Change # 0 /\ calls' = <<f>> /\ reentrancyLock' = 1
         /\ balance' = balance - Change /\ Change <= balance
  <2>1. CASE Change = 0
    BY <2>1, Leaving DEF exitReturns, IInv
  <2>2. CASE Change # 0
    <3>1. calls' = <<f>>
      BY <1>0, <2>2 DEF exitReturns
    <3>2. sender # Pool
      BY AddressesAssumption
    <3>3. QED
      BY <1>0, <2>2, <3>1, <3>2 DEF exitReturns, SendEth
  <2>3. QED
    BY <2>1, <2>2
<1>2. f \in Frame /\ f.kind = "change"
  BY DEF Frame
<1>u. UNCHANGED <<lifecycleVars, attemptVars, activeVars, refundVars, creditVars,
                  claimVars, validatorVars, environmentVars>>
      /\ exitRequestAttemptCount' = exitRequestAttemptCount + 1
  BY DEF exitReturns
<1> HIDE DEF f
<1>3. /\ calls' \in Seq(Frame) /\ Len(calls') = reentrancyLock' /\ reentrancyLock' \in {0, 1}
      /\ \A i \in DOMAIN calls' : calls'[i].kind = "change"
  <2>1. CASE calls' = <<>> /\ reentrancyLock' = 0
    BY <2>1
  <2>2. CASE calls' = <<f>> /\ reentrancyLock' = 1
    BY <1>2, <2>2
  <2>3. QED
    BY <1>1, <2>1, <2>2
<1>4. TypeOK'
  <2>1. balance' \in Nat
    BY <1>0, <1>1 DEF TypeOK
  <2>2. TypeOK
    BY <1>0
  <2>3. calls' \in Seq(Frame) /\ reentrancyLock' \in {0, 1}
    BY <1>3
  <2>4. QED
    BY <1>u, <2>1, <2>2, <2>3 DEF TypeOK
<1>5. LedgersAddUp'
  BY <1>u DEF IInv, LedgersAddUp
<1>6. AttemptIsConsistent'
  BY <1>u DEF IInv, AttemptIsConsistent, ParticipantSet, ParticipantTargets, RequiredWei
<1>7. CallDiscipline'
  BY <1>0, <1>3, <1>u DEF IInv, CallDiscipline
<1>8. CreditFacts'
  BY <1>u DEF IInv, CreditFacts, RequiredWei
<1>9. BalanceExplained'
  <2>1. HeldChange = Change
    BY <1>0, OneFrameHolds DEF HeldChange
  <2>2. HeldChange' = 0
    BY <1>1, <1>2, OneFrameHolds, NothingHeld DEF HeldChange
  <2>3. predepositSubmitted' = predepositSubmitted
    BY <1>u
  <2>4. balance' = balance - Change /\ balance \in Nat /\ Change \in Nat
    BY <1>0, <1>1 DEF TypeOK
  <2>5. QED
    BY <1>u, <2>1, <2>2, <2>3, <2>4, AmountsAssumption DEF IInv, BalanceExplained, TypeOK
<1>10. ClaimsWithinShares'
  BY <1>u DEF IInv, ClaimsWithinShares
<1>11. QED
  BY <1>4, <1>5, <1>6, <1>7, <1>8, <1>9, <1>10 DEF IInv

-----------------------------------------------------------------------------
(* Payouts *)

(* A valid recipient is outside the pool, so a payout leaves it. *)
(* A payout to a valid recipient leaves the pool. *)
LEMMA PayoutLeaves ==
  ASSUME NEW recipient, NEW amount, ValidRecipient(recipient), SendEth(recipient, amount)
  PROVE  amount <= balance /\ balance' = balance - amount
BY DEF ValidRecipient, SendEth

(* A refund leaves the ledger and the pool together. *)
LEMMA RefundKeepsIInv ==
  ASSUME IInv, NEW sender \in Accounts, NEW recipient \in Recipients,
         refundTo(sender, recipient)
  PROVE  IInv'
<1> DEFINE f == [kind |-> "refund", excess |-> 0]
           amount == refundableWeiOf[sender]
<1>0. /\ TypeOK /\ calls = <<>> /\ reentrancyLock' = 1 /\ calls' = <<f>>
  BY Entering DEF refundTo, RefundAllowed, IInv
<1>1. f \in Frame /\ f.kind = "refund"
  BY DEF Frame
<1> HIDE DEF f
<1>2. calls' \in Seq(Frame) /\ Len(calls') = 1 /\ DOMAIN calls' = {1} /\ calls'[1] = f
  BY <1>0, <1>1
<1>3. amount <= balance /\ balance' = balance - amount
  BY PayoutLeaves DEF refundTo
<1>4. /\ refundableWeiOf' = [refundableWeiOf EXCEPT ![sender] = 0]
      /\ totalRefundableWei' = totalRefundableWei - amount
      /\ totalRefundedWei' = totalRefundedWei + amount
      /\ UNCHANGED <<lifecycleVars, attemptVars, activeVars, creditVars, claimVars,
                     validatorVars, exitRequestAttemptCount, environmentVars>>
  BY DEF refundTo
<1>5. /\ sender \in Addresses /\ amount \in Nat
      /\ \A a \in Addresses : refundableWeiOf[a] \in Nat
  BY <1>0 DEF TypeOK, Addresses
<1>6. amount <= totalRefundableWei
  BY <1>5, AddressFacts, SumEntry DEF IInv, LedgersAddUp
<1>7. TypeOK'
  <2>1. /\ balance' \in Nat /\ totalRefundableWei' \in Nat /\ totalRefundedWei' \in Nat
        /\ refundableWeiOf' \in [Addresses -> Nat]
    BY <1>0, <1>3, <1>4, <1>5, <1>6 DEF TypeOK
  <2>2. calls' \in Seq(Frame) /\ reentrancyLock' \in {0, 1}
    BY <1>0, <1>2
  <2>3. TypeOK
    BY <1>0
  <2>4. QED
    BY <1>4, <2>1, <2>2, <2>3 DEF TypeOK
<1>8. LedgersAddUp'
  <2>0. /\ \A a \in Addresses : refundableWeiOf[a] \in Nat /\ refundableWeiOf'[a] \in Nat
        /\ \A a \in Addresses \ {sender} : refundableWeiOf'[a] = refundableWeiOf[a]
    BY <1>0, <1>4, <1>5 DEF TypeOK
  <2>1. refundableWeiOf'[sender] = 0
    BY <1>0, <1>4, <1>5 DEF TypeOK
  <2>a. sender \in Addresses
    BY <1>5
  <2>2. SumOver(refundableWeiOf', Addresses)
          = SumOver(refundableWeiOf, Addresses) - refundableWeiOf[sender] + refundableWeiOf'[sender]
    BY <2>0, <2>a, AddressFacts, SumUpdate
  <2>3. totalRefundableWei' = SumOver(refundableWeiOf', Addresses)
    BY <1>0, <1>4, <1>5, <2>1, <2>2 DEF IInv, LedgersAddUp, TypeOK
  <2>4. QED
    BY <1>4, <2>3 DEF IInv, LedgersAddUp
<1>9. AttemptIsConsistent'
  BY <1>4 DEF IInv, AttemptIsConsistent, ParticipantSet, ParticipantTargets, RequiredWei
<1>10. CallDiscipline'
  BY <1>0, <1>1, <1>2, <1>4 DEF IInv, CallDiscipline
<1>11. CreditFacts'
  BY <1>4 DEF IInv, CreditFacts, RequiredWei
<1>12. BalanceExplained'
  <2>1. HeldChange = 0
    BY <1>0, NothingHeld DEF HeldChange
  <2>2. HeldChange' = 0
    BY <1>0, <1>1, OneFrameHolds DEF HeldChange
  <2>3. predepositSubmitted' = predepositSubmitted
    BY <1>4
  <2> HIDE DEF amount
  <2>4. QED
    BY <1>0, <1>3, <1>4, <1>5, <2>1, <2>2, <2>3, AmountsAssumption
       DEF IInv, BalanceExplained, TypeOK
<1>13. ClaimsWithinShares'
  BY <1>4 DEF IInv, ClaimsWithinShares
<1>14. QED
  BY <1>7, <1>8, <1>9, <1>10, <1>11, <1>12, <1>13 DEF IInv

(* Rounding down never pays more than the exact share. *)
LEMMA RoundedDown ==
  ASSUME NEW x \in Nat, NEW n \in Nat \ {0}
  PROVE  x \div n \in Nat /\ n * (x \div n) <= x /\ x < n * ((x \div n) + 1)
OBVIOUS

(* Naturals are closed under products. *)
LEMMA ProductType == ASSUME NEW x \in Nat, NEW y \in Nat PROVE x * y \in Nat
OBVIOUS

(* After the top-up and with no call open, gross proceeds are exactly what *)
(* arrived as proceeds: neither refunds owed nor claims paid move them.    *)
LEMMA GrossIsProceeds ==
  ASSUME IInv, state = "ToppedUp", calls = <<>>
  PROVE  /\ grossPoolProceeds = proceedsIn
         /\ totalCreditedWei = VALIDATOR_DEPOSIT_WEI
         /\ \A a \in Addresses : Entitled(a) = Share(a) /\ Share(a) \in Nat
<1>1. topUpSubmitted /\ predepositSubmitted
  BY DEF IInv, CallDiscipline
<1>2. /\ deposited = PREDEPOSIT_WEI + TOP_UP_WEI
      /\ totalCreditedWei = VALIDATOR_DEPOSIT_WEI /\ totalActiveFundedWei = TOP_UP_WEI
  BY <1>1 DEF IInv, CreditFacts
<1>3. HeldChange = 0
  BY NothingHeld DEF HeldChange
<1>4. grossPoolProceeds = proceedsIn
  BY <1>1, <1>2, <1>3, AmountsAssumption
     DEF IInv, TypeOK, BalanceExplained, grossPoolProceeds
<1>5. ASSUME NEW a \in Addresses PROVE Entitled(a) = Share(a) /\ Share(a) \in Nat
  <2>1. Entitled(a) = Share(a)
    BY <1>2, <1>4 DEF Entitled, Share
  <2>2. proceedsIn * creditedWeiOf[a] \in Nat
    BY ProductType DEF IInv, TypeOK
  <2>3. VALIDATOR_DEPOSIT_WEI \in Nat \ {0}
    BY AmountsAssumption
  <2>4. QED
    BY <2>1, <2>2, <2>3, RoundedDown DEF Share
<1>6. QED
  BY <1>2, <1>4, <1>5

(* A claim brings the claimant exactly to its share. *)
LEMMA ClaimReachesShare ==
  ASSUME IInv, NEW sender \in Accounts, NEW recipient \in Recipients,
         claimTo(sender, recipient)
  PROVE  /\ calls = <<>> /\ sender \in Addresses
         /\ claimable(sender) = Share(sender) - claimedWeiOf[sender]
         /\ claimable(sender) \in Nat \ {0} /\ Share(sender) \in Nat
<1>1. calls = <<>>
  BY Entering DEF IInv, claimTo
<1>2. state = "ToppedUp" /\ claimable(sender) # 0 /\ sender \in Addresses
  BY DEF claimTo, Addresses
<1>3. Entitled(sender) = Share(sender) /\ Share(sender) \in Nat
  BY <1>1, <1>2, GrossIsProceeds
<1>4. claimedWeiOf[sender] \in Nat
  BY <1>2 DEF IInv, TypeOK
<1>5. QED
  BY <1>1, <1>2, <1>3, <1>4 DEF claimable

(* A claim enters the ledger and leaves the pool together. *)
LEMMA ClaimKeepsIInv ==
  ASSUME IInv, NEW sender \in Accounts, NEW recipient \in Recipients,
         claimTo(sender, recipient)
  PROVE  IInv'
<1> DEFINE f == [kind |-> "claim", excess |-> 0]
           amount == claimable(sender)
<1>0. /\ TypeOK /\ calls = <<>> /\ reentrancyLock' = 1 /\ calls' = <<f>>
      /\ state = "ToppedUp"
  BY Entering DEF claimTo, IInv
<1>1. f \in Frame /\ f.kind = "claim"
  BY DEF Frame
<1> HIDE DEF f
<1>2. calls' \in Seq(Frame) /\ Len(calls') = 1 /\ DOMAIN calls' = {1} /\ calls'[1] = f
  BY <1>0, <1>1
<1>3. amount <= balance /\ balance' = balance - amount
  BY PayoutLeaves DEF claimTo
<1>4. /\ claimedWeiOf' = [claimedWeiOf EXCEPT ![sender] = @ + amount]
      /\ totalClaimedWei' = totalClaimedWei + amount
      /\ UNCHANGED <<lifecycleVars, attemptVars, activeVars, refundVars, creditVars,
                     validatorVars, exitRequestAttemptCount, environmentVars>>
  BY DEF claimTo
<1>5. /\ sender \in Addresses /\ amount \in Nat
      /\ amount = Share(sender) - claimedWeiOf[sender] /\ Share(sender) \in Nat
      /\ \A a \in Addresses : claimedWeiOf[a] \in Nat
  BY <1>0, ClaimReachesShare DEF TypeOK
<1> HIDE DEF amount
<1>6. /\ claimedWeiOf' \in [Addresses -> Nat]
      /\ claimedWeiOf'[sender] = claimedWeiOf[sender] + amount
      /\ claimedWeiOf'[sender] = Share(sender)
      /\ \A a \in Addresses \ {sender} : claimedWeiOf'[a] = claimedWeiOf[a]
  BY <1>0, <1>4, <1>5 DEF TypeOK
<1>7. TypeOK'
  <2>0. balance \in Nat /\ totalClaimedWei \in Nat /\ amount \in Nat
        /\ totalClaimedWei' = totalClaimedWei + amount
    BY <1>0, <1>4, <1>5 DEF TypeOK
  <2>1. balance' \in Nat /\ totalClaimedWei' \in Nat
    BY <1>3, <2>0
  <2>2. calls' \in Seq(Frame) /\ reentrancyLock' \in {0, 1}
    BY <1>0, <1>2
  <2>3. TypeOK
    BY <1>0
  <2>4. QED
    BY <1>4, <1>6, <2>1, <2>2, <2>3 DEF TypeOK
<1>8. LedgersAddUp'
  <2>1. /\ \A a \in Addresses : claimedWeiOf[a] \in Nat /\ claimedWeiOf'[a] \in Nat
        /\ \A a \in Addresses \ {sender} : claimedWeiOf'[a] = claimedWeiOf[a]
    BY <1>5, <1>6
  <2>a. sender \in Addresses
    BY <1>5
  <2>2. SumOver(claimedWeiOf', Addresses)
          = SumOver(claimedWeiOf, Addresses) - claimedWeiOf[sender] + claimedWeiOf'[sender]
    BY <2>1, <2>a, AddressFacts, SumUpdate
  <2>3. totalClaimedWei = SumOver(claimedWeiOf, Addresses) /\ totalClaimedWei \in Nat
    BY DEF IInv, LedgersAddUp, TypeOK
  <2>4. totalClaimedWei' = SumOver(claimedWeiOf', Addresses)
    BY <1>4, <1>5, <1>6, <2>2, <2>3
  <2>5. QED
    BY <1>4, <2>4 DEF IInv, LedgersAddUp
<1>9. AttemptIsConsistent'
  BY <1>4 DEF IInv, AttemptIsConsistent, ParticipantSet, ParticipantTargets, RequiredWei
<1>10. CallDiscipline'
  BY <1>0, <1>1, <1>2, <1>4 DEF IInv, CallDiscipline
<1>11. CreditFacts'
  <2>1. topUpSubmitted
    BY <1>0 DEF IInv, CallDiscipline
  <2>2. QED
    BY <1>4, <2>1 DEF IInv, CreditFacts, RequiredWei
<1>12. BalanceExplained'
  <2>1. HeldChange = 0
    BY <1>0, NothingHeld DEF HeldChange
  <2>2. HeldChange' = 0
    BY <1>0, <1>1, OneFrameHolds DEF HeldChange
  <2>3. predepositSubmitted' = predepositSubmitted
    BY <1>4
  <2>4. /\ balance' = balance - amount /\ totalClaimedWei' = totalClaimedWei + amount
        /\ amount \in Nat
        /\ UNCHANGED <<deposited, proceedsIn, totalActiveFundedWei, totalRefundableWei>>
    BY <1>3, <1>4, <1>5
  <2>5. QED
    BY <2>1, <2>2, <2>3, <2>4, AmountsAssumption DEF IInv, BalanceExplained, TypeOK
<1>13. ClaimsWithinShares'
  <2>1. VALIDATOR_DEPOSIT_WEI * Share(sender) <= proceedsIn * creditedWeiOf[sender]
    <3>1. proceedsIn * creditedWeiOf[sender] \in Nat
      BY <1>0, <1>5, ProductType DEF TypeOK
    <3>2. VALIDATOR_DEPOSIT_WEI \in Nat \ {0}
      BY AmountsAssumption
    <3>3. QED
      BY <3>1, <3>2, RoundedDown DEF Share
  <2>2. ASSUME NEW a \in Addresses
        PROVE VALIDATOR_DEPOSIT_WEI * claimedWeiOf'[a] <= proceedsIn * creditedWeiOf[a]
    <3>1. CASE a = sender
      BY <1>6, <2>1, <3>1
    <3>2. CASE a # sender
      BY <1>6, <3>2 DEF IInv, ClaimsWithinShares
    <3>3. QED
      BY <3>1, <3>2
  <2>3. QED
    BY <1>4, <2>2 DEF ClaimsWithinShares
<1>14. QED
  BY <1>7, <1>8, <1>9, <1>10, <1>11, <1>12, <1>13 DEF IInv

-----------------------------------------------------------------------------
(* Attempts *)

(* Nobody outside the attempt has funding in it. *)
LEMMA FundingIsListed ==
  ASSUME TypeOK, AttemptIsConsistent, NEW a \in Addresses, a \notin ParticipantSet
  PROVE  activeFundedWeiOf[a] = 0 /\ fundingTargetWeiOf[a] = 0 /\ participantIndexPlusOne[a] = 0
BY DEF TypeOK, AttemptIsConsistent, RequiredWei

(* An expired attempt has no top-up in progress. *)
LEMMA ExpiredIsNotToppedUp ==
  ASSUME IInv, CanClose
  PROVE  /\ ~ topUpSubmitted
         /\ \A i \in DOMAIN calls : calls[i].kind \notin {"commit", "topUp", "claim"}
<1>1. state = "Funding" /\ now > fundingDeadline /\ now \in Nat /\ fundingDeadline \in Nat
  BY DEF CanClose, IInv, TypeOK
<1>2. ~ WithinDeadline
  BY <1>1 DEF WithinDeadline
<1>3. QED
  BY <1>1, <1>2 DEF IInv, CallDiscipline

(* Closing moves all active funding to the refunds, and clears the attempt. *)
LEMMA CloseKeepsIInv == IInv /\ closeExpiredFundingAttempt => IInv'
<1> SUFFICES ASSUME IInv, closeExpiredFundingAttempt PROVE IInv'
  OBVIOUS
<1>1. /\ state = "Funding" /\ ~ topUpSubmitted
      /\ \A i \in DOMAIN calls : calls[i].kind \notin {"commit", "topUp", "claim"}
  BY ExpiredIsNotToppedUp DEF closeExpiredFundingAttempt, CanClose
<1>2. /\ \A a \in Addresses : refundableWeiOf[a] \in Nat /\ activeFundedWeiOf[a] \in Nat
      /\ totalRefundableWei \in Nat /\ totalActiveFundedWei \in Nat
  BY DEF IInv, TypeOK
<1>3. \A a \in Addresses \ ParticipantSet :
        activeFundedWeiOf[a] = 0 /\ fundingTargetWeiOf[a] = 0 /\ participantIndexPlusOne[a] = 0
  BY FundingIsListed DEF IInv
<1>4. /\ refundableWeiOf' \in [Addresses -> Nat]
      /\ \A a \in Addresses : refundableWeiOf'[a] = refundableWeiOf[a] + activeFundedWeiOf[a]
  BY <1>2, <1>3 DEF closeExpiredFundingAttempt, RefundableAfterClose
<1>5. /\ activeFundedWeiOf' \in [Addresses -> Nat]
      /\ \A a \in Addresses : activeFundedWeiOf'[a] = 0
  BY <1>2, <1>3 DEF closeExpiredFundingAttempt, DeletedFor
<1>6. /\ fundingTargetWeiOf' \in [Addresses -> Nat]
      /\ participantIndexPlusOne' \in [Addresses -> Nat]
      /\ \A a \in Addresses : fundingTargetWeiOf'[a] = 0 /\ participantIndexPlusOne'[a] = 0
  BY <1>3 DEF closeExpiredFundingAttempt, DeletedFor, IndexAfterClose, IInv, TypeOK
<1>7. /\ participants' = <<>> /\ totalActiveFundedWei' = 0
      /\ fundingDeadline' = 0 /\ state' = "Predeposited"
      /\ UNCHANGED <<fundingAttempt, totalRefundedWei, creditVars, claimVars,
                     validatorVars, exitRequestAttemptCount, callVars, balance,
                     environmentVars>>
  BY DEF closeExpiredFundingAttempt, ParticipantsAfterClose, ActiveTotalAfterClose
<1>8. totalRefundableWei' = totalRefundableWei + totalActiveFundedWei
  <2>1. ParticipantSet \subseteq Addresses
    BY DEF ParticipantSet, IInv, TypeOK
  <2>2. SumOver(activeFundedWeiOf, ParticipantSet) = SumOver(activeFundedWeiOf, Addresses)
    BY <1>3, <2>1, SumSupport
  <2>3. QED
    BY <2>2 DEF closeExpiredFundingAttempt, IInv, LedgersAddUp
<1>9. TypeOK'
  <2>1. MAX_PARTICIPANTS \in Nat /\ <<>> \in Seq(Addresses) /\ Len(<<>>) = 0
    BY AttemptsAssumption
  <2>2. participants' \in Seq(Addresses) /\ Len(participants') <= MAX_PARTICIPANTS
    BY <1>7, <2>1
  <2>3. totalRefundableWei' \in Nat /\ totalActiveFundedWei' \in Nat /\ fundingDeadline' \in Nat
    BY <1>2, <1>7, <1>8
  <2>4. QED
    BY <1>4, <1>5, <1>6, <1>7, <2>2, <2>3 DEF IInv, TypeOK
<1>10. LedgersAddUp'
  <2>1. SumOver(refundableWeiOf', Addresses)
          = SumOver(refundableWeiOf, Addresses) + SumOver(activeFundedWeiOf, Addresses)
    <3>1. \A a \in Addresses :
             /\ refundableWeiOf[a] \in Nat /\ activeFundedWeiOf[a] \in Nat
             /\ refundableWeiOf'[a] = refundableWeiOf[a] + activeFundedWeiOf[a]
      BY <1>2, <1>4
    <3>2. QED
      BY <3>1, AddressFacts, SumAdd
  <2>2. totalRefundableWei' = SumOver(refundableWeiOf', Addresses)
    BY <1>8, <2>1 DEF IInv, LedgersAddUp
  <2>3. SumOver(activeFundedWeiOf', Addresses) = 0
    BY <1>5, SumZero
  <2>4. QED
    BY <1>7, <2>2, <2>3 DEF IInv, LedgersAddUp
<1>11. AttemptIsConsistent'
  <2>1. DOMAIN participants' = {} /\ ParticipantSet' = {}
    BY <1>7 DEF ParticipantSet
  <2>2. QED
    BY <1>5, <1>6, <1>7, <2>1 DEF AttemptIsConsistent, RequiredWei
<1>12. CallDiscipline'
  BY <1>1, <1>7 DEF IInv, CallDiscipline
<1>13. CreditFacts'
  BY <1>1, <1>7 DEF IInv, CreditFacts
<1>14. BalanceExplained'
  <2>1. HeldChange' = HeldChange /\ HeldChange \in Nat
    BY <1>7, HeldType DEF HeldChange, IInv, TypeOK
  <2>2. predepositSubmitted' = predepositSubmitted
    BY <1>7
  <2>3. QED
    BY <1>2, <1>7, <1>8, <2>1, <2>2, AmountsAssumption DEF IInv, BalanceExplained, TypeOK
<1>15. ClaimsWithinShares'
  BY <1>7 DEF IInv, ClaimsWithinShares
<1>16. QED
  BY <1>9, <1>10, <1>11, <1>12, <1>13, <1>14, <1>15 DEF IInv

(* What writing a list without repetitions into a mapping leaves there. *)
LEMMA WrittenFacts ==
  ASSUME NEW f \in [Addresses -> Nat], NEW ps \in Seq(Addresses),
         NEW v \in [DOMAIN ps -> Nat],
         \A i, j \in DOMAIN ps : ps[i] = ps[j] => i = j
  PROVE  /\ WrittenAt(f, ps, v) \in [Addresses -> Nat]
         /\ \A i \in DOMAIN ps : WrittenAt(f, ps, v)[ps[i]] = v[i]
         /\ \A a \in Addresses :
              (\A i \in DOMAIN ps : ps[i] # a) => WrittenAt(f, ps, v)[a] = f[a]
<1>1. \A i \in DOMAIN ps : ps[i] \in Addresses /\ (CHOOSE j \in DOMAIN ps : ps[j] = ps[i]) = i
  OBVIOUS
<1>2. ASSUME NEW a \in Addresses PROVE WrittenAt(f, ps, v)[a] \in Nat
  <2>1. CASE \E i \in DOMAIN ps : ps[i] = a
    <3>1. PICK i \in DOMAIN ps : ps[i] = a
      BY <2>1
    <3>2. WrittenAt(f, ps, v)[a] = v[i]
      BY <1>1, <3>1 DEF WrittenAt
    <3>3. QED
      BY <3>2
  <2>2. CASE ~ \E i \in DOMAIN ps : ps[i] = a
    BY <2>2 DEF WrittenAt
  <2>3. QED
    BY <2>1, <2>2
<1>3. WrittenAt(f, ps, v) \in [Addresses -> Nat]
  BY <1>2 DEF WrittenAt
<1>4. \A i \in DOMAIN ps : WrittenAt(f, ps, v)[ps[i]] = v[i]
  BY <1>1 DEF WrittenAt
<1>5. QED
  BY <1>3, <1>4 DEF WrittenAt

(* A valid attempt is indexed and targeted exactly as listed. *)
LEMMA OpenKeepsIInv ==
  ASSUME IInv, NEW sender \in Accounts, NEW ps \in ParticipantLists, NEW ts \in TargetLists,
         openFundingAttempt(sender, ps, ts)
  PROVE  IInv'
<1> DEFINE index == [i \in DOMAIN ps |-> i]
<1>1. /\ ValidAttempt(ps, ts) /\ state = "Predeposited"
      /\ participants' = participants \o ps
      /\ participantIndexPlusOne' = WrittenAt(participantIndexPlusOne, ps, index)
      /\ fundingTargetWeiOf' = WrittenAt(fundingTargetWeiOf, ps, ts)
      /\ fundingDeadline' = now + fundingWindowDuration
      /\ fundingAttempt' = fundingAttempt + 1
      /\ state' = "Funding"
      /\ UNCHANGED <<activeVars, refundVars, creditVars, claimVars, validatorVars,
                     exitRequestAttemptCount, callVars, balance, environmentVars>>
  BY DEF openFundingAttempt
<1>2. /\ ps \in Seq(Addresses \cup {ZeroAddress}) /\ ts \in Seq(Nat) /\ Len(ps) = Len(ts)
      /\ ps # <<>> /\ Len(ps) <= MAX_PARTICIPANTS
      /\ \A i \in DOMAIN ps : ps[i] # ZeroAddress /\ ts[i] # 0
      /\ \E i \in DOMAIN ps : ps[i] = operator
      /\ SumOver(ts, DOMAIN ts) = VALIDATOR_DEPOSIT_WEI
  BY <1>1, AttemptsAssumption DEF ValidAttempt
<1>d. \A i \in DOMAIN ps : \A k \in 1 .. i - 1 : ps[k] # ps[i]
  BY <1>1 DEF ValidAttempt
<1>o. \A i \in DOMAIN ps : ps[i] = operator => ts[i] >= PREDEPOSIT_WEI
  BY <1>1 DEF ValidAttempt
<1>3. ps \in Seq(Addresses) /\ DOMAIN ts = DOMAIN ps /\ DOMAIN ps = 1 .. Len(ps)
  BY <1>2
<1>4. ts \in [DOMAIN ps -> Nat] /\ index \in [DOMAIN ps -> Nat]
  BY <1>2, <1>3
<1>5. \A i, j \in DOMAIN ps : ps[i] = ps[j] => i = j
  <2>1. ASSUME NEW i \in DOMAIN ps, NEW j \in DOMAIN ps, ps[i] = ps[j], i < j PROVE FALSE
    <3>1. i \in 1 .. j - 1
      BY <1>3, <2>1
    <3>2. \A k \in 1 .. j - 1 : ps[k] # ps[j]
      BY <1>d
    <3>3. QED
      BY <2>1, <3>1, <3>2
  <2>2. QED
    BY <1>3, <2>1
<1>6. participants = <<>> /\ participants' = ps /\ totalActiveFundedWei = 0
  <2>1. participants = <<>> /\ totalActiveFundedWei = 0
    BY <1>1 DEF IInv, AttemptIsConsistent
  <2>2. QED
    BY <1>1, <1>3, <2>1
<1>7. \A a \in Addresses :
        activeFundedWeiOf[a] = 0 /\ fundingTargetWeiOf[a] = 0 /\ participantIndexPlusOne[a] = 0
  <2>1. ParticipantSet = {}
    BY <1>6 DEF ParticipantSet
  <2>2. QED
    BY <2>1, FundingIsListed DEF IInv
<1>8. /\ participantIndexPlusOne' \in [Addresses -> Nat]
      /\ \A i \in DOMAIN ps : participantIndexPlusOne'[ps[i]] = i
      /\ \A a \in Addresses : (\A i \in DOMAIN ps : ps[i] # a) => participantIndexPlusOne'[a] = 0
  <2>1. participantIndexPlusOne \in [Addresses -> Nat] /\ \A i \in DOMAIN ps : index[i] = i
    BY DEF IInv, TypeOK
  <2>2. ps \in Seq(Addresses) /\ index \in [DOMAIN ps -> Nat]
    BY <1>3, <1>4
  <2> HIDE DEF index
  <2> DEFINE written == WrittenAt(participantIndexPlusOne, ps, index)
  <2>3. /\ written \in [Addresses -> Nat]
        /\ \A i \in DOMAIN ps : written[ps[i]] = index[i]
        /\ \A a \in Addresses :
             (\A i \in DOMAIN ps : ps[i] # a) => written[a] = participantIndexPlusOne[a]
    BY <1>5, <2>1, <2>2, WrittenFacts
  <2>4. participantIndexPlusOne' = written
    BY <1>1
  <2> HIDE DEF written
  <2>5. QED
    BY <1>7, <2>1, <2>3, <2>4
<1>9. /\ fundingTargetWeiOf' \in [Addresses -> Nat]
      /\ \A i \in DOMAIN ps : fundingTargetWeiOf'[ps[i]] = ts[i]
      /\ \A a \in Addresses : (\A i \in DOMAIN ps : ps[i] # a) => fundingTargetWeiOf'[a] = 0
  <2>1. fundingTargetWeiOf \in [Addresses -> Nat]
    BY DEF IInv, TypeOK
  <2>2. ps \in Seq(Addresses) /\ ts \in [DOMAIN ps -> Nat]
    BY <1>3, <1>4
  <2> DEFINE written == WrittenAt(fundingTargetWeiOf, ps, ts)
  <2>3. /\ written \in [Addresses -> Nat]
        /\ \A i \in DOMAIN ps : written[ps[i]] = ts[i]
        /\ \A a \in Addresses :
             (\A i \in DOMAIN ps : ps[i] # a) => written[a] = fundingTargetWeiOf[a]
    BY <1>5, <2>1, <2>2, WrittenFacts
  <2>4. fundingTargetWeiOf' = written
    BY <1>1
  <2> HIDE DEF written
  <2>5. QED
    BY <1>7, <2>3, <2>4
<1>10. fundingTargetWeiOf'[operator] >= PREDEPOSIT_WEI
  <2>1. PICK i \in DOMAIN ps : ps[i] = operator
    BY <1>2
  <2>2. ts[i] >= PREDEPOSIT_WEI /\ fundingTargetWeiOf'[ps[i]] = ts[i]
    BY <1>9, <1>o, <2>1
  <2>3. QED
    BY <2>1, <2>2
<1>u. UNCHANGED <<activeVars, refundVars, creditVars, claimVars, validatorVars,
                  exitRequestAttemptCount, callVars, balance, environmentVars>>
      /\ state' = "Funding" /\ state = "Predeposited"
  BY <1>1
<1>11. TypeOK'
  <2>1. participants' \in Seq(Addresses) /\ Len(participants') <= MAX_PARTICIPANTS
    BY <1>2, <1>3, <1>6
  <2>2. fundingAttempt' \in Nat /\ fundingDeadline' \in Nat
    BY <1>1, AttemptsAssumption DEF IInv, TypeOK
  <2>3. participantIndexPlusOne' \in [Addresses -> Nat] /\ fundingTargetWeiOf' \in [Addresses -> Nat]
    BY <1>8, <1>9
  <2>4. QED
    BY <1>u, <2>1, <2>2, <2>3 DEF IInv, TypeOK
<1>12. LedgersAddUp'
  BY <1>u DEF IInv, LedgersAddUp
<1>13. AttemptIsConsistent'
  <2>1. ParticipantSet' = {ps[i] : i \in DOMAIN ps} /\ DOMAIN participants' = DOMAIN ps
    BY <1>6 DEF ParticipantSet
  <2>2. \A i \in DOMAIN participants' : participantIndexPlusOne'[participants'[i]] = i
    BY <1>6, <1>8
  <2>3. ASSUME NEW a \in Addresses
        PROVE /\ participantIndexPlusOne'[a] # 0 <=> a \in ParticipantSet'
              /\ fundingTargetWeiOf'[a] # 0 <=> a \in ParticipantSet'
    BY <1>2, <1>3, <1>8, <1>9, <2>1
  <2>4. ASSUME NEW a \in Addresses PROVE activeFundedWeiOf'[a] <= RequiredWei(a)'
    <3>1. activeFundedWeiOf'[a] = 0
      BY <1>7, <1>u
    <3>2. RequiredWei(a)' >= 0
      BY <1>9, <1>10, AmountsAssumption DEF RequiredWei
    <3>3. RequiredWei(a)' \in Int
      BY <1>9, AmountsAssumption DEF RequiredWei
    <3>4. QED
      BY <3>1, <3>2, <3>3
  <2>5. SumOver(ParticipantTargets', DOMAIN participants') = VALIDATOR_DEPOSIT_WEI
    <3>1. \A i \in DOMAIN ps : ParticipantTargets'[i] = ts[i]
      BY <1>6, <1>9 DEF ParticipantTargets
    <3>2. SumOver(ParticipantTargets', DOMAIN ps) = SumOver(ts, DOMAIN ps)
      BY <3>1, SumSame
    <3>3. QED
      BY <1>2, <1>3, <2>1, <3>2
  <2>6. QED
    BY <1>u, <1>10, <2>2, <2>3, <2>4, <2>5 DEF AttemptIsConsistent
<1>14. CallDiscipline'
  BY <1>u DEF IInv, CallDiscipline
<1>15. CreditFacts'
  <2>1. ~ topUpSubmitted
    BY <1>1 DEF IInv, CallDiscipline
  <2>2. QED
    BY <1>u, <2>1 DEF IInv, CreditFacts
<1>16. BalanceExplained'
  BY <1>u DEF IInv, BalanceExplained, HeldChange
<1>17. ClaimsWithinShares'
  BY <1>u DEF IInv, ClaimsWithinShares
<1>18. QED
  BY <1>11, <1>12, <1>13, <1>14, <1>15, <1>16, <1>17 DEF IInv

(* The targets of an attempt add up to the validator's deposit, and what   *)
(* the participants must pay in to the top-up.                             *)
LEMMA AttemptSums ==
  ASSUME TypeOK, AttemptIsConsistent, state \in {"Funding", "ToppedUp"}
  PROVE  /\ SumOver(fundingTargetWeiOf, Addresses) = VALIDATOR_DEPOSIT_WEI
         /\ SumOver([a \in Addresses |-> RequiredWei(a)], Addresses) = TOP_UP_WEI
         /\ \A a \in Addresses : RequiredWei(a) \in Nat
<1> DEFINE required == [a \in Addresses |-> RequiredWei(a)]
           predeposit == [a \in Addresses |-> IF a = operator THEN PREDEPOSIT_WEI ELSE 0]
<1>1. SumOver(fundingTargetWeiOf, Addresses) = VALIDATOR_DEPOSIT_WEI
  <2>1. /\ participants \in [DOMAIN participants -> Addresses]
        /\ \A a \in Addresses : fundingTargetWeiOf[a] \in Nat
    BY DEF TypeOK
  <2>2. \A i \in DOMAIN participants : ParticipantTargets[i] = fundingTargetWeiOf[participants[i]]
    BY DEF ParticipantTargets
  <2>3. \A i, j \in DOMAIN participants : participants[i] = participants[j] => i = j
    BY DEF AttemptIsConsistent
  <2>4. \A a \in Addresses :
           fundingTargetWeiOf[a] # 0 => \E i \in DOMAIN participants : participants[i] = a
    BY DEF AttemptIsConsistent, ParticipantSet
  <2>5. SumOver(ParticipantTargets, DOMAIN participants) = SumOver(fundingTargetWeiOf, Addresses)
    BY <2>1, <2>2, <2>3, <2>4, AddressFacts, SumReindex
  <2>6. QED
    BY <2>5 DEF AttemptIsConsistent
<1>t. /\ \A a \in Addresses : fundingTargetWeiOf[a] \in Nat
      /\ fundingTargetWeiOf[operator] >= PREDEPOSIT_WEI /\ PREDEPOSIT_WEI \in Nat \ {0}
      /\ TOP_UP_WEI \in Nat /\ VALIDATOR_DEPOSIT_WEI = PREDEPOSIT_WEI + TOP_UP_WEI
  BY AmountsAssumption DEF TypeOK, AttemptIsConsistent
<1>2. \A a \in Addresses : required[a] \in Nat /\ RequiredWei(a) \in Nat
  BY <1>t DEF RequiredWei
<1>3. \A a \in Addresses : predeposit[a] \in Nat
  BY <1>t
<1>4. \A a \in Addresses : fundingTargetWeiOf[a] = required[a] + predeposit[a]
  BY <1>t DEF RequiredWei
<1>5. SumOver(predeposit, Addresses) = PREDEPOSIT_WEI
  <2>1. /\ \A a \in Addresses : NoWei[a] \in Nat
        /\ \A a \in Addresses \ {operator} : predeposit[a] = NoWei[a]
        /\ predeposit[operator] = PREDEPOSIT_WEI /\ NoWei[operator] = 0
        /\ SumOver(NoWei, Addresses) = 0
    BY AddressFacts, NoWeiFacts
  <2> HIDE DEF predeposit
  <2>2. SumOver(predeposit, Addresses)
          = SumOver(NoWei, Addresses) - NoWei[operator] + predeposit[operator]
    BY <1>3, <2>1, AddressFacts, SumUpdate
  <2>3. QED
    BY <2>1, <2>2, AmountsAssumption
<1> HIDE DEF required, predeposit
<1>6. SumOver(fundingTargetWeiOf, Addresses)
        = SumOver(required, Addresses) + SumOver(predeposit, Addresses)
  BY <1>2, <1>3, <1>4, AddressFacts, SumAdd
<1>7. SumOver(required, Addresses) \in Nat
  BY <1>2, AddressFacts, SumType
<1>8. SumOver(required, Addresses) = TOP_UP_WEI
  <2>1. PREDEPOSIT_WEI + TOP_UP_WEI = SumOver(required, Addresses) + PREDEPOSIT_WEI
    BY <1>1, <1>5, <1>6, AmountsAssumption
  <2>2. QED
    BY <1>7, <2>1, AmountsAssumption
<1>9. QED
  BY <1>1, <1>2, <1>8 DEF required

(* The credits are the targets, and a total of exactly TOP_UP_WEI leaves   *)
(* no participant short of what it must pay.                               *)
LEMMA TopUpKeepsIInv ==
  ASSUME IInv, NEW sender \in Accounts, topUpValidator(sender)
  PROVE  IInv'
<1> DEFINE f == [kind |-> "topUp", excess |-> 0]
<1>0. /\ TypeOK /\ calls = <<>> /\ reentrancyLock' = 1 /\ calls' = <<f>>
  BY Entering DEF topUpValidator, IInv
<1>1. f \in Frame /\ f.kind = "topUp"
  BY DEF Frame
<1> HIDE DEF f
<1>2. calls' \in Seq(Frame) /\ Len(calls') = 1 /\ DOMAIN calls' = {1} /\ calls'[1] = f
  BY <1>0, <1>1
<1>3. /\ state = "Funding" /\ WithinDeadline /\ totalActiveFundedWei = TOP_UP_WEI
      /\ balance >= TOP_UP_WEI + totalRefundableWei /\ ~ topUpSubmitted
      /\ totalCreditedWei' = VALIDATOR_DEPOSIT_WEI
      /\ topUpSubmitted'
      /\ deposited' = deposited + TOP_UP_WEI
      /\ balance' = balance - TOP_UP_WEI
      /\ UNCHANGED <<lifecycleVars, attemptVars, activeVars, refundVars, claimVars,
                     predepositSubmitted, topUpRootValid, exitRequestAttemptCount,
                     environmentVars>>
  BY DEF topUpValidator
<1>4. /\ creditedWeiOf = NoWei /\ totalCreditedWei = 0 /\ claimedWeiOf = NoWei
      /\ predepositSubmitted /\ deposited = PREDEPOSIT_WEI
  BY <1>3, AmountsAssumption DEF IInv, CreditFacts, CallDiscipline
<1>5. /\ creditedWeiOf' \in [Addresses -> Nat]
      /\ \A a \in Addresses : creditedWeiOf'[a] = fundingTargetWeiOf[a]
  <2>1. /\ participants \in Seq(Addresses) /\ creditedWeiOf \in [Addresses -> Nat]
        /\ \A a \in Addresses : creditedWeiOf[a] = 0
    BY <1>0, <1>4, NoWeiFacts DEF TypeOK
  <2>2. /\ ParticipantTargets \in [DOMAIN participants -> Nat]
        /\ \A i \in DOMAIN participants :
             ParticipantTargets[i] = fundingTargetWeiOf[participants[i]]
    BY <1>0 DEF TypeOK, ParticipantTargets
  <2>3. \A i, j \in DOMAIN participants : participants[i] = participants[j] => i = j
    BY DEF IInv, AttemptIsConsistent
  <2> DEFINE written == WrittenAt(creditedWeiOf, participants, ParticipantTargets)
  <2>4. /\ written \in [Addresses -> Nat]
        /\ \A i \in DOMAIN participants : written[participants[i]] = ParticipantTargets[i]
        /\ \A a \in Addresses :
             (\A i \in DOMAIN participants : participants[i] # a) => written[a] = creditedWeiOf[a]
    BY <2>1, <2>2, <2>3, WrittenFacts
  <2>5. creditedWeiOf' = written
    BY DEF topUpValidator
  <2> HIDE DEF written
  <2>6. ASSUME NEW a \in Addresses PROVE written[a] = fundingTargetWeiOf[a]
    <3>1. CASE a \in ParticipantSet
      BY <2>2, <2>4, <3>1 DEF ParticipantSet
    <3>2. CASE a \notin ParticipantSet
      <4>1. \A i \in DOMAIN participants : participants[i] # a
        BY <3>2 DEF ParticipantSet
      <4>2. fundingTargetWeiOf[a] = 0
        BY <3>2, FundingIsListed DEF IInv
      <4>3. QED
        BY <2>1, <2>4, <4>1, <4>2
    <3>3. QED
      BY <3>1, <3>2
  <2>7. QED
    BY <2>4, <2>5, <2>6
<1>6. /\ SumOver(fundingTargetWeiOf, Addresses) = VALIDATOR_DEPOSIT_WEI
      /\ SumOver([a \in Addresses |-> RequiredWei(a)], Addresses) = TOP_UP_WEI
      /\ \A a \in Addresses : RequiredWei(a) \in Nat
  BY <1>0, <1>3, AttemptSums DEF IInv
<1>7. \A a \in Addresses : activeFundedWeiOf[a] = RequiredWei(a)
  <2> DEFINE required == [a \in Addresses |-> RequiredWei(a)]
  <2>1. \A a \in Addresses :
           /\ activeFundedWeiOf[a] \in Nat /\ required[a] \in Nat
           /\ activeFundedWeiOf[a] <= required[a] /\ required[a] = RequiredWei(a)
    BY <1>0, <1>6 DEF TypeOK, IInv, AttemptIsConsistent
  <2>2. SumOver(activeFundedWeiOf, Addresses) = SumOver(required, Addresses)
    BY <1>3, <1>6 DEF IInv, LedgersAddUp
  <2> HIDE DEF required
  <2>3. QED
    BY <2>1, <2>2, AddressFacts, SumMonotone
<1>8. TypeOK'
  <2>1. balance' \in Nat /\ deposited' \in Nat /\ totalCreditedWei' \in Nat /\ topUpSubmitted' \in BOOLEAN
    BY <1>0, <1>3, AmountsAssumption DEF TypeOK, topUpValidator
  <2>2. calls' \in Seq(Frame) /\ reentrancyLock' \in {0, 1}
    BY <1>0, <1>2
  <2>3. TypeOK
    BY <1>0
  <2>4. QED
    BY <1>3, <1>5, <2>1, <2>2, <2>3 DEF TypeOK
<1>9. LedgersAddUp'
  <2>1. SumOver(creditedWeiOf', Addresses) = SumOver(fundingTargetWeiOf, Addresses)
    BY <1>5, SumSame
  <2>2. totalCreditedWei' = SumOver(creditedWeiOf', Addresses)
    BY <1>3, <1>6, <2>1
  <2>3. QED
    BY <1>3, <2>2 DEF IInv, LedgersAddUp
<1>10. AttemptIsConsistent'
  BY <1>3 DEF IInv, AttemptIsConsistent, ParticipantSet, ParticipantTargets, RequiredWei
<1>11. CallDiscipline'
  BY <1>0, <1>1, <1>2, <1>3, <1>4 DEF IInv, CallDiscipline, WithinDeadline
<1>12. CreditFacts'
  BY <1>3, <1>4, <1>5, <1>7 DEF CreditFacts, RequiredWei
<1>13. BalanceExplained'
  <2>1. HeldChange = 0
    BY <1>0, NothingHeld DEF HeldChange
  <2>2. HeldChange' = 0
    BY <1>0, <1>1, OneFrameHolds DEF HeldChange
  <2>3. predepositSubmitted' = predepositSubmitted
    BY <1>3
  <2>4. QED
    BY <1>0, <1>3, <2>1, <2>2, <2>3, AmountsAssumption DEF IInv, BalanceExplained, TypeOK
<1>14. ClaimsWithinShares'
  <2>1. ASSUME NEW a \in Addresses
        PROVE VALIDATOR_DEPOSIT_WEI * claimedWeiOf'[a] <= proceedsIn' * creditedWeiOf'[a]
    <3>1. claimedWeiOf'[a] = 0
      BY <1>3, <1>4, NoWeiFacts
    <3>2. proceedsIn' * creditedWeiOf'[a] \in Nat
      BY <1>5, <1>8, ProductType DEF TypeOK
    <3>3. QED
      BY <3>1, <3>2, AmountsAssumption
  <2>2. QED
    BY <2>1 DEF ClaimsWithinShares
<1>15. QED
  BY <1>8, <1>9, <1>10, <1>11, <1>12, <1>13, <1>14 DEF IInv

-----------------------------------------------------------------------------
(* The inductive invariant *)

(* Stuttering changes nothing. *)
LEMMA StutterKeepsIInv == IInv /\ UNCHANGED vars => IInv'
<1> SUFFICES ASSUME IInv, UNCHANGED vars PROVE IInv'
  OBVIOUS
<1> USE DEF vars
<1>1. TypeOK'
  BY DEF IInv, TypeOK
<1>2. LedgersAddUp'
  BY DEF IInv, LedgersAddUp
<1>3. AttemptIsConsistent'
  BY DEF IInv, AttemptIsConsistent, ParticipantSet, ParticipantTargets, RequiredWei
<1>4. CallDiscipline'
  BY DEF IInv, CallDiscipline, WithinDeadline
<1>5. CreditFacts'
  BY DEF IInv, CreditFacts, RequiredWei
<1>6. BalanceExplained'
  BY DEF IInv, BalanceExplained, HeldChange
<1>7. ClaimsWithinShares'
  BY DEF IInv, ClaimsWithinShares
<1>8. QED
  BY <1>1, <1>2, <1>3, <1>4, <1>5, <1>6, <1>7 DEF IInv

(* Every step preserves the invariant. *)
LEMMA NextKeepsIInv == IInv /\ [Next]_vars => IInv'
<1> SUFFICES ASSUME IInv, [Next]_vars PROVE IInv'
  OBVIOUS
<1>1. ASSUME NEW sender \in Accounts, NEW value \in Amounts, commitAndPredeposit(sender, value)
      PROVE IInv'
  BY <1>1, CommitKeepsIInv, AmountsAssumption
<1>2. ASSUME NEW sender \in Accounts, NEW ps \in ParticipantLists, NEW ts \in TargetLists,
             openFundingAttempt(sender, ps, ts)
      PROVE IInv'
  BY <1>2, OpenKeepsIInv
<1>3. ASSUME NEW sender \in Accounts, NEW value \in Amounts, fund(sender, value) PROVE IInv'
  BY <1>3, CreditFundingKeepsIInv, AmountsAssumption DEF fund
<1>4. ASSUME NEW sender \in Accounts, NEW value \in Amounts, receive(sender, value) PROVE IInv'
  BY <1>4, ReceiveKeepsIInv, AmountsAssumption
<1>5. ASSUME NEW value \in Amounts, silentEther(value) PROVE IInv'
  BY <1>5, EtherInKeepsIInv, AmountsAssumption DEF silentEther
<1>6. CASE closeExpiredFundingAttempt
  BY <1>6, CloseKeepsIInv
<1>7. ASSUME NEW sender \in Accounts, topUpValidator(sender) PROVE IInv'
  BY <1>7, TopUpKeepsIInv
<1>8. ASSUME NEW sender \in Accounts, NEW value \in Amounts, NEW fee \in ExitFees,
             NEW maxFee \in ExitFees, requestExit(sender, value, fee, maxFee)
      PROVE IInv'
  BY <1>8, RequestExitKeepsIInv, AmountsAssumption
<1>9. ASSUME NEW sender \in Accounts, NEW recipient \in Recipients, refundTo(sender, recipient)
      PROVE IInv'
  BY <1>9, RefundKeepsIInv
<1>10. ASSUME NEW sender \in Accounts, NEW recipient \in Recipients, claimTo(sender, recipient)
       PROVE IInv'
  BY <1>10, ClaimKeepsIInv
<1>11. CASE CallReturns
  BY <1>11, CommitReturnsKeepsIInv, TopUpReturnsKeepsIInv, ExitReturnsKeepsIInv,
     PayoutReturnsKeepsIInv DEF CallReturns
<1>12. CASE Tick
  BY <1>12, TickKeepsIInv
<1>13. CASE UNCHANGED vars
  BY <1>13, StutterKeepsIInv
<1>14. QED
  BY <1>1, <1>2, <1>3, <1>4, <1>5, <1>6, <1>7, <1>8, <1>9, <1>10, <1>11, <1>12, <1>13 DEF Next

(* IInv holds in every reachable state, for every instance. *)
THEOREM InvariantHolds == Spec => []IInv
BY InitEstablishesIInv, NextKeepsIInv, PTL DEF Spec

(* Type correctness, with the bound on the participant list. *)
THEOREM TypeCorrect == Spec => []TypeOK
<1>1. IInv => TypeOK
  BY DEF IInv
<1>2. QED
  BY <1>1, InvariantHolds, PTL

(* The contract's running totals are the sums of its mappings. *)
THEOREM TotalsAreSums == Spec => []LedgersAddUp
<1>1. IInv => LedgersAddUp
  BY DEF IInv
<1>2. QED
  BY <1>1, InvariantHolds, PTL

(* Every wei the pool holds is accounted for, also while a callee runs. *)
THEOREM EtherIsConserved == Spec => []BalanceExplained
<1>1. IInv => BalanceExplained
  BY DEF IInv
<1>2. QED
  BY <1>1, InvariantHolds, PTL

(* List, index and targets describe one attempt, and nothing is left of it *)
(* between attempts.                                                       *)
THEOREM AttemptsAreClean == Spec => []AttemptIsConsistent
<1>1. IInv => AttemptIsConsistent
  BY DEF IInv
<1>2. QED
  BY <1>1, InvariantHolds, PTL

(* After the top-up an account's credit is what it paid. *)
LEMMA CreditsFollowFunding == IInv => CreditsAreBacked
<1> SUFFICES ASSUME IInv, topUpSubmitted, NEW a \in Addresses
             PROVE creditedWeiOf[a]
                     = activeFundedWeiOf[a] + (IF a = operator THEN PREDEPOSIT_WEI ELSE 0)
  BY DEF CreditsAreBacked
<1>1. creditedWeiOf[a] = fundingTargetWeiOf[a] /\ activeFundedWeiOf[a] = RequiredWei(a)
  BY DEF IInv, CreditFacts
<1>2. fundingTargetWeiOf[a] \in Nat
  BY DEF IInv, TypeOK
<1>3. a = operator => fundingTargetWeiOf[a] >= PREDEPOSIT_WEI
  BY DEF IInv, CallDiscipline, AttemptIsConsistent
<1>4. QED
  BY <1>1, <1>2, <1>3, AmountsAssumption DEF RequiredWei

(* No account has economic weight it did not pay for. *)
THEOREM WeightIsPaidFor == Spec => []CreditsAreBacked
BY CreditsFollowFunding, InvariantHolds, PTL

-----------------------------------------------------------------------------
(* Solvency *)

(* Multiplication keeps an order. *)
LEMMA ScaleMonotone ==
  ASSUME NEW x \in Nat, NEW y \in Nat, NEW n \in Nat, x <= y
  PROVE  n * x <= n * y
OBVIOUS

(* A common positive factor cancels. *)
LEMMA ScaleCancels ==
  ASSUME NEW x \in Nat, NEW y \in Nat, NEW n \in Nat \ {0}, n * x <= n * y
  PROVE  x <= y
OBVIOUS

(* Claimed plus claimable stays within an account's part of gross proceeds, *)
(* whichever call is open.                                                  *)
LEMMA ClaimBounded ==
  ASSUME IInv, topUpSubmitted, NEW a \in Addresses, NEW G \in Nat,
         G = grossPoolProceeds, proceedsIn <= G
  PROVE  /\ claimable(a) \in Nat
         /\ VALIDATOR_DEPOSIT_WEI * (claimable(a) + claimedWeiOf[a]) <= G * creditedWeiOf[a]
<1> DEFINE n == VALIDATOR_DEPOSIT_WEI
           c == creditedWeiOf[a]
           p == claimedWeiOf[a]
<1>1. n \in Nat \ {0} /\ c \in Nat /\ p \in Nat /\ proceedsIn \in Nat
  BY AmountsAssumption DEF IInv, TypeOK
<1>2. n * p <= proceedsIn * c
  BY DEF IInv, ClaimsWithinShares
<1>3. Entitled(a) = (G * c) \div n
  BY DEF Entitled, IInv, CreditFacts
<1> HIDE DEF n, c, p
<1>4. n * p <= G * c
  <2>1. c * proceedsIn <= c * G
    BY <1>1, ScaleMonotone
  <2>2. c * proceedsIn = proceedsIn * c /\ c * G = G * c
    BY <1>1
  <2>3. n * p \in Nat /\ proceedsIn * c \in Nat /\ G * c \in Nat
    BY <1>1, ProductType
  <2>4. QED
    BY <1>2, <2>1, <2>2, <2>3
<1>5. Entitled(a) \in Nat /\ n * Entitled(a) <= G * c
  BY <1>1, <1>3, ProductType, RoundedDown
<1>6. CASE claimable(a) = 0
  BY <1>1, <1>4, <1>6 DEF n, c, p
<1>7. CASE claimable(a) # 0
  <2>1. claimable(a) = Entitled(a) - p /\ ~ (Entitled(a) <= p)
    BY <1>7 DEF claimable, p
  <2>2. claimable(a) \in Nat /\ claimable(a) + p = Entitled(a)
    BY <1>1, <1>5, <2>1
  <2>3. QED
    BY <1>5, <2>2 DEF n, c, p
<1>8. QED
  BY <1>6, <1>7

(* After the top-up was submitted: everything claimable, with everything   *)
(* claimed, is covered by gross proceeds.                                  *)
LEMMA ClaimsAreCovered ==
  ASSUME IInv, topUpSubmitted
  PROVE  totalRefundableWei + SumOver([a \in Addresses |-> claimable(a)], Addresses) <= balance
<1> DEFINE G == grossPoolProceeds
           due == [a \in Addresses |-> claimable(a)]
           all == [a \in Addresses |-> claimable(a) + claimedWeiOf[a]]
           n == VALIDATOR_DEPOSIT_WEI
<1>1. n \in Nat \ {0} /\ n = PREDEPOSIT_WEI + TOP_UP_WEI
      /\ PREDEPOSIT_WEI \in Nat /\ TOP_UP_WEI \in Nat
  BY AmountsAssumption
<1>2. /\ creditedWeiOf \in [Addresses -> Nat] /\ claimedWeiOf \in [Addresses -> Nat]
      /\ balance \in Nat /\ totalClaimedWei \in Nat /\ totalRefundableWei \in Nat
      /\ proceedsIn \in Nat /\ HeldChange \in Nat
  BY HeldType DEF IInv, TypeOK, HeldChange
<1>3. predepositSubmitted
  BY DEF IInv, CallDiscipline
<1>4. balance + totalClaimedWei = proceedsIn + totalRefundableWei + HeldChange
  <2>1. deposited = n /\ totalActiveFundedWei = TOP_UP_WEI
    BY <1>1, <1>3 DEF IInv, CreditFacts
  <2>2. balance + deposited + totalClaimedWei =
          proceedsIn + totalActiveFundedWei + totalRefundableWei + HeldChange + PREDEPOSIT_WEI
    BY <1>3 DEF IInv, BalanceExplained
  <2> HIDE DEF n
  <2>3. QED
    BY <1>1, <1>2, <2>1, <2>2
<1>5. G \in Nat /\ G = balance + totalClaimedWei - totalRefundableWei /\ proceedsIn <= G
  BY <1>2, <1>4 DEF grossPoolProceeds
<1>6. \A a \in Addresses : /\ claimable(a) \in Nat
                           /\ n * (claimable(a) + claimedWeiOf[a]) <= G * creditedWeiOf[a]
  BY <1>5, ClaimBounded
<1>7. \A a \in Addresses : /\ due[a] \in Nat /\ claimedWeiOf[a] \in Nat
                           /\ all[a] = due[a] + claimedWeiOf[a]
  BY <1>2, <1>6
<1>8. \A a \in Addresses : /\ all[a] \in Nat /\ creditedWeiOf[a] \in Nat
                           /\ n * all[a] <= G * creditedWeiOf[a]
  BY <1>2, <1>6
<1>9. IsFiniteSet(Addresses)
  BY AddressFacts
<1>10. n = SumOver(creditedWeiOf, Addresses) /\ totalClaimedWei = SumOver(claimedWeiOf, Addresses)
  BY DEF IInv, LedgersAddUp, CreditFacts
<1> HIDE DEF G, due, all, n
<1>11. SumOver(all, Addresses) = SumOver(due, Addresses) + SumOver(claimedWeiOf, Addresses)
  BY <1>7, <1>9, SumAdd
<1>12. n * SumOver(all, Addresses) <= G * SumOver(creditedWeiOf, Addresses)
  BY <1>1, <1>5, <1>8, <1>9, SumScaled
<1>13. SumOver(all, Addresses) \in Nat /\ SumOver(due, Addresses) \in Nat
  BY <1>7, <1>8, <1>9, SumType
<1>14. SumOver(all, Addresses) <= G
  <2>1. G * n = n * G
    BY <1>1, <1>5
  <2>2. n * SumOver(all, Addresses) <= n * G
    BY <1>10, <1>12, <2>1
  <2>3. QED
    BY <1>1, <1>5, <1>13, <2>2, ScaleCancels
<1>15. totalRefundableWei + SumOver(due, Addresses) <= balance
  BY <1>2, <1>5, <1>10, <1>11, <1>13, <1>14
<1>16. QED
  BY <1>15 DEF due

(* Before it: refunds owed and active funding are in the balance. *)
LEMMA FundingIsCovered ==
  ASSUME IInv, ~ topUpSubmitted
  PROVE  totalRefundableWei + totalActiveFundedWei <= balance
<1>1. /\ balance \in Nat /\ totalRefundableWei \in Nat /\ totalActiveFundedWei \in Nat
      /\ proceedsIn \in Nat /\ HeldChange \in Nat
  BY HeldType DEF IInv, TypeOK, HeldChange
<1>2. /\ totalClaimedWei = 0
      /\ deposited = IF predepositSubmitted THEN PREDEPOSIT_WEI ELSE 0
      /\ deposited \in Nat
  BY AmountsAssumption DEF IInv, CreditFacts, TypeOK
<1>3. balance + deposited + totalClaimedWei =
        proceedsIn + totalActiveFundedWei + totalRefundableWei + HeldChange + deposited
  BY <1>2 DEF IInv, BalanceExplained
<1>4. QED
  BY <1>1, <1>2, <1>3

(* The pool can always pay everything it owes at once. *)
THEOREM PoolIsSolvent == Spec => []Solvent
<1>1. IInv => Solvent
  BY ClaimsAreCovered, FundingIsCovered DEF Solvent
<1>2. QED
  BY <1>1, InvariantHolds, PTL

-----------------------------------------------------------------------------
(* Shares *)

(* Claimed plus claimable is the pro-rata share of all proceeds, whatever  *)
(* the order of claims.                                                    *)
THEOREM ClaimTimingIsIrrelevant == Spec => []ClaimsMatchShares
<1>1. IInv => ClaimsMatchShares
  <2> SUFFICES ASSUME IInv, state = "ToppedUp", calls = <<>>, NEW a \in Addresses
               PROVE claimedWeiOf[a] + claimable(a) = Share(a)
    BY DEF ClaimsMatchShares
  <2>1. Entitled(a) = Share(a) /\ Share(a) \in Nat
    BY GrossIsProceeds
  <2>2. creditedWeiOf[a] \in Nat /\ claimedWeiOf[a] \in Nat /\ proceedsIn \in Nat
    BY DEF IInv, TypeOK
  <2>3. VALIDATOR_DEPOSIT_WEI \in Nat \ {0}
    BY AmountsAssumption
  <2>4. claimedWeiOf[a] <= Share(a)
    <3> DEFINE x == proceedsIn * creditedWeiOf[a]
               n == VALIDATOR_DEPOSIT_WEI
               p == claimedWeiOf[a]
    <3>1. x \in Nat /\ n \in Nat \ {0} /\ p \in Nat
      BY <2>2, <2>3, ProductType
    <3>2. n * p <= x
      BY DEF IInv, ClaimsWithinShares
    <3>3. Share(a) = x \div n
      BY DEF Share
    <3> HIDE DEF x, n, p
    <3>4. x < n * ((x \div n) + 1) /\ x \div n \in Nat
      BY <3>1, RoundedDown
    <3>5. n * p \in Nat /\ n * ((x \div n) + 1) \in Nat
      BY <3>1, <3>4, ProductType
    <3>6. ~ (x \div n + 1 <= p)
      <4>1. SUFFICES ASSUME x \div n + 1 <= p PROVE FALSE
        OBVIOUS
      <4>2. n * (x \div n + 1) <= n * p
        BY <3>1, <3>4, <4>1, ScaleMonotone
      <4>3. QED
        BY <3>1, <3>2, <3>4, <3>5, <4>2
    <3>7. QED
      BY <3>1, <3>3, <3>4, <3>6 DEF p
  <2>5. CASE creditedWeiOf[a] = 0
    <3>1. Share(a) = 0
      BY <2>2, <2>3, <2>5 DEF Share
    <3>2. QED
      BY <2>1, <2>2, <2>4, <2>5, <3>1 DEF claimable
  <2>6. CASE creditedWeiOf[a] # 0
    BY <2>1, <2>2, <2>4, <2>6 DEF claimable
  <2>7. QED
    BY <2>5, <2>6
<1>2. QED
  BY <1>1, InvariantHolds, PTL

-----------------------------------------------------------------------------
(* Refunds *)

(* Closing an attempt only adds to what is owed. *)
LEMMA CloseAddsRefunds ==
  ASSUME IInv, closeExpiredFundingAttempt, NEW a \in Addresses
  PROVE  ~ (refundableWeiOf'[a] < refundableWeiOf[a])
<1>1. refundableWeiOf[a] \in Nat /\ activeFundedWeiOf[a] \in Nat
  BY DEF IInv, TypeOK
<1>2. refundableWeiOf' = RefundableAfterClose
  BY DEF closeExpiredFundingAttempt
<1>3. QED
  BY <1>1, <1>2 DEF RefundableAfterClose

(* A refund is taken back only by paying it, once and whole. *)
THEOREM RefundsAreNeverLost == Spec => RefundsPaidWhole
<1> DEFINE paidWhole ==
      \A a \in Addresses :
        refundableWeiOf'[a] < refundableWeiOf[a] =>
          /\ refundableWeiOf'[a] = 0
          /\ balance' = balance - refundableWeiOf[a]
          /\ totalRefundedWei' = totalRefundedWei + refundableWeiOf[a]
<1>1. IInv /\ [Next]_vars => [paidWhole]_vars
  <2> SUFFICES ASSUME IInv, Next PROVE paidWhole
    OBVIOUS
  <2>1. ASSUME NEW sender \in Accounts, NEW recipient \in Recipients, refundTo(sender, recipient)
        PROVE paidWhole
    <3>1. balance' = balance - refundableWeiOf[sender]
      BY <2>1, PayoutLeaves DEF refundTo
    <3>2. /\ refundableWeiOf' = [refundableWeiOf EXCEPT ![sender] = 0]
          /\ totalRefundedWei' = totalRefundedWei + refundableWeiOf[sender]
      BY <2>1 DEF refundTo
    <3>3. refundableWeiOf \in [Addresses -> Nat] /\ sender \in Addresses
      BY DEF IInv, TypeOK, Addresses
    <3>4. QED
      BY <3>1, <3>2, <3>3
  <2>2. CASE closeExpiredFundingAttempt
    BY <2>2, CloseAddsRefunds
  <2>3. CASE UNCHANGED refundableWeiOf
    <3>1. \A a \in Addresses : refundableWeiOf[a] \in Nat
      BY DEF IInv, TypeOK
    <3>2. QED
      BY <2>3, <3>1
  <2>4. QED
    BY <2>1, <2>2, <2>3
       DEF Next, commitAndPredeposit, openFundingAttempt, fund, receive, silentEther,
           creditFunding, EtherIn, topUpValidator, requestExit, claimTo, CallReturns,
           commitReturns, topUpReturns, exitReturns, payoutReturns, Tick
<1>2. QED
  BY <1>1, InvariantHolds, PTL DEF Spec, RefundsPaidWhole

-----------------------------------------------------------------------------
(* The pool implements FundingEscrow *)

(* An open attempt is never funded beyond the top-up. *)
LEMMA FundingFits ==
  IInv /\ state = "Funding" => SumOver(activeFundedWeiOf, Addresses) <= TOP_UP_WEI
<1> SUFFICES ASSUME IInv, state = "Funding"
             PROVE SumOver(activeFundedWeiOf, Addresses) <= TOP_UP_WEI
  OBVIOUS
<1> DEFINE required == [a \in Addresses |-> RequiredWei(a)]
<1>1. /\ SumOver(required, Addresses) = TOP_UP_WEI
      /\ \A a \in Addresses : RequiredWei(a) \in Nat
  BY AttemptSums DEF IInv
<1>2. \A a \in Addresses :
        activeFundedWeiOf[a] \in Nat /\ required[a] \in Nat /\ activeFundedWeiOf[a] <= required[a]
  BY <1>1 DEF IInv, TypeOK, AttemptIsConsistent
<1> HIDE DEF required
<1>3. QED
  BY <1>1, <1>2, AddressFacts, SumMonotone

(* The empty pool is the empty escrow. *)
LEMMA InitIsEscrowInit == Init => Escrow!EscrowInit
BY DEF Init, NoWei, Escrow!EscrowInit, Escrow!Nothing

(* The escrow's sums are the pool's. *)
LEMMA SameSum == \A f, S : Escrow!SumOver(f, S) = SumOver(f, S)
BY DEF Escrow!SumOver, SumOver, Escrow!Units, Units, Escrow!Cardinality, Cardinality

(* What the escrow holds, as PoolImplementsEscrow maps it. *)
EscrowHeld == IF topUpSubmitted THEN NoWei ELSE activeFundedWeiOf

(* Funding is a contribution. *)
LEMMA FundingContributes ==
  ASSUME IInv, SumOver(activeFundedWeiOf, Addresses)' <= TOP_UP_WEI,
         NEW sender \in Accounts, NEW value \in Amounts, creditFunding(sender, value)
  PROVE  Escrow!EscrowNext
<1>1. /\ sender \in Addresses /\ activeFundedWeiOf \in [Addresses -> Nat]
      /\ value \in Nat \ {0} /\ RequiredWei(sender) \in Int
      /\ activeFundedWeiOf[sender] + value <= RequiredWei(sender)
  BY AmountsAssumption
     DEF creditFunding, Addresses, IInv, TypeOK, fundingRemainingWeiOf, RequiredWei
<1>2. ~ topUpSubmitted /\ ~ topUpSubmitted' /\ creditedWeiOf = NoWei
  <2>1. topUpSubmitted => activeFundedWeiOf[sender] = RequiredWei(sender)
    BY <1>1 DEF IInv, CreditFacts
  <2>2. QED
    BY <1>1, <2>1 DEF creditFunding, IInv, CreditFacts
<1>3. EscrowHeld = activeFundedWeiOf /\ EscrowHeld' = activeFundedWeiOf'
  BY <1>2 DEF EscrowHeld
<1>4. EscrowHeld' = [EscrowHeld EXCEPT ![sender] = @ + value]
  BY <1>3 DEF creditFunding
<1>5. Escrow!SumOver(EscrowHeld', Addresses) <= TOP_UP_WEI
  BY <1>3, SameSum
<1>6. creditedWeiOf = Escrow!Nothing
  BY <1>2 DEF NoWei, Escrow!Nothing
<1>7. UNCHANGED <<refundableWeiOf, creditedWeiOf, proceedsIn, claimedWeiOf>>
  BY DEF creditFunding
<1>8. Escrow!Contribute(sender, value)
  BY <1>4, <1>5, <1>6, <1>7 DEF Escrow!Contribute, EscrowHeld
<1>9. QED
  BY <1>1, <1>8 DEF Escrow!EscrowNext

(* Ether that arrives is received. *)
LEMMA EtherInReceives ==
  ASSUME NEW value \in Amounts, EtherIn(value)
  PROVE  Escrow!EscrowNext
<1>1. Escrow!Receive(value)
  BY DEF EtherIn, Escrow!Receive
<1>2. QED
  BY <1>1 DEF Escrow!EscrowNext

(* Closing gives everything back. *)
LEMMA CloseGivesBack ==
  ASSUME IInv, closeExpiredFundingAttempt
  PROVE  Escrow!EscrowNext
<1>1. ~ topUpSubmitted /\ ~ topUpSubmitted'
  BY ExpiredIsNotToppedUp DEF closeExpiredFundingAttempt
<1>2. EscrowHeld = activeFundedWeiOf /\ EscrowHeld' = activeFundedWeiOf'
  BY <1>1 DEF EscrowHeld
<1>3. /\ TypeOK /\ AttemptIsConsistent
      /\ refundableWeiOf \in [Addresses -> Nat] /\ activeFundedWeiOf \in [Addresses -> Nat]
  BY DEF IInv, TypeOK
<1>4. \A a \in Addresses : a \notin ParticipantSet => activeFundedWeiOf[a] = 0
  BY <1>3, FundingIsListed
<1>5. refundableWeiOf' = [a \in Addresses |-> refundableWeiOf[a] + activeFundedWeiOf[a]]
  <2>1. refundableWeiOf' = RefundableAfterClose
    BY DEF closeExpiredFundingAttempt
  <2>2. \A a \in Addresses : RefundableAfterClose[a] = refundableWeiOf[a] + activeFundedWeiOf[a]
    BY <1>3, <1>4 DEF RefundableAfterClose
  <2>3. QED
    BY <2>1, <2>2 DEF RefundableAfterClose
<1>6. activeFundedWeiOf' = NoWei
  <2>1. activeFundedWeiOf' = DeletedFor(activeFundedWeiOf)
    BY DEF closeExpiredFundingAttempt
  <2>2. QED
    BY <1>4, <2>1 DEF DeletedFor, NoWei
<1>7. UNCHANGED <<creditedWeiOf, proceedsIn, claimedWeiOf>>
  BY DEF closeExpiredFundingAttempt
<1>8. Escrow!GiveBack
  <2>1. EscrowHeld' = Escrow!Nothing
    BY <1>2, <1>6 DEF NoWei, Escrow!Nothing
  <2>2. refundableWeiOf' = [a \in Addresses |-> refundableWeiOf[a] + EscrowHeld[a]]
    BY <1>2, <1>5
  <2>3. QED
    BY <1>7, <2>1, <2>2 DEF Escrow!GiveBack, EscrowHeld
<1>9. QED
  BY <1>8 DEF Escrow!EscrowNext

(* The top-up turns what is held into stake. *)
LEMMA TopUpConverts ==
  ASSUME IInv, CreditsAreBacked', IInv', NEW sender \in Accounts, topUpValidator(sender)
  PROVE  Escrow!EscrowNext
<1>1. /\ ~ topUpSubmitted /\ topUpSubmitted' /\ totalActiveFundedWei = TOP_UP_WEI
      /\ UNCHANGED <<refundableWeiOf, proceedsIn, claimedWeiOf, activeFundedWeiOf>>
  BY DEF topUpValidator
<1>2. EscrowHeld = activeFundedWeiOf /\ EscrowHeld' = Escrow!Nothing /\ creditedWeiOf = Escrow!Nothing
  BY <1>1 DEF EscrowHeld, NoWei, Escrow!Nothing, IInv, CreditFacts
<1>3. Escrow!SumOver(EscrowHeld, Addresses) = TOP_UP_WEI
  BY <1>1, <1>2, SameSum DEF IInv, LedgersAddUp
<1>4. creditedWeiOf' = [a \in Addresses |->
                          EscrowHeld[a] + (IF a = operator THEN PREDEPOSIT_WEI ELSE 0)]
  <2>1. creditedWeiOf' \in [Addresses -> Nat]
    BY DEF IInv, TypeOK
  <2>2. \A a \in Addresses :
          creditedWeiOf'[a] = EscrowHeld[a] + (IF a = operator THEN PREDEPOSIT_WEI ELSE 0)
    BY <1>1, <1>2 DEF CreditsAreBacked
  <2>3. QED
    BY <2>1, <2>2
<1>5. Escrow!Convert
  BY <1>1, <1>2, <1>3, <1>4 DEF Escrow!Convert, EscrowHeld
<1>6. QED
  BY <1>5 DEF Escrow!EscrowNext

(* A refund is a withdrawal. *)
LEMMA RefundWithdraws ==
  ASSUME NEW sender \in Accounts, NEW recipient \in Recipients, refundTo(sender, recipient)
  PROVE  Escrow!EscrowNext
<1>1. UNCHANGED EscrowHeld
  BY DEF refundTo, EscrowHeld
<1>2. Escrow!Withdraw(sender)
  BY <1>1 DEF refundTo, Escrow!Withdraw, EscrowHeld
<1>3. QED
  BY <1>2 DEF Escrow!EscrowNext, Addresses

(* A claim pays the claimant up to what its stake earned. *)
LEMMA ClaimPays ==
  ASSUME IInv, NEW sender \in Accounts, NEW recipient \in Recipients,
         claimTo(sender, recipient)
  PROVE  Escrow!EscrowNext
<1>1. /\ sender \in Addresses
      /\ claimable(sender) = Share(sender) - claimedWeiOf[sender]
      /\ claimable(sender) \in Nat \ {0} /\ Share(sender) \in Nat
  BY ClaimReachesShare
<1>2. claimedWeiOf \in [Addresses -> Nat]
  BY DEF IInv, TypeOK
<1>3. Escrow!EarnedBy(sender) = Share(sender)
  BY AmountsAssumption DEF Escrow!EarnedBy, Share
<1>4. claimedWeiOf' = [claimedWeiOf EXCEPT ![sender] = Share(sender)]
  <2>1. claimedWeiOf' = [claimedWeiOf EXCEPT ![sender] = @ + claimable(sender)]
    BY DEF claimTo
  <2>2. claimedWeiOf[sender] + claimable(sender) = Share(sender)
    BY <1>1, <1>2
  <2>3. QED
    BY <2>1, <2>2
<1>5. UNCHANGED <<EscrowHeld, refundableWeiOf, creditedWeiOf, proceedsIn>>
  BY DEF claimTo, EscrowHeld
<1>6. Share(sender) > claimedWeiOf[sender]
  BY <1>1, <1>2
<1>7. Escrow!Pay(sender)
  BY <1>3, <1>4, <1>5, <1>6 DEF Escrow!Pay, EscrowHeld
<1>8. QED
  BY <1>1, <1>7 DEF Escrow!EscrowNext

(* Every other step leaves the escrow as it is. *)
LEMMA StepImplementsEscrow ==
  ASSUME IInv, IInv', CreditsAreBacked', [Next]_vars,
         state' = "Funding" => SumOver(activeFundedWeiOf, Addresses)' <= TOP_UP_WEI
  PROVE  [Escrow!EscrowNext]_(Escrow!escrowVars)
<1>1. ASSUME NEW sender \in Accounts, NEW value \in Amounts, creditFunding(sender, value)
      PROVE Escrow!EscrowNext
  <2>1. state' = "Funding"
    BY <1>1 DEF creditFunding
  <2>2. QED
    BY <1>1, <2>1, FundingContributes
<1>2. ASSUME NEW value \in Amounts, EtherIn(value) PROVE Escrow!EscrowNext
  BY <1>2, EtherInReceives
<1>3. CASE closeExpiredFundingAttempt
  BY <1>3, CloseGivesBack
<1>4. ASSUME NEW sender \in Accounts, topUpValidator(sender) PROVE Escrow!EscrowNext
  BY <1>4, TopUpConverts
<1>5. ASSUME NEW sender \in Accounts, NEW recipient \in Recipients, refundTo(sender, recipient)
      PROVE Escrow!EscrowNext
  BY <1>5, RefundWithdraws
<1>6. ASSUME NEW sender \in Accounts, NEW recipient \in Recipients, claimTo(sender, recipient)
      PROVE Escrow!EscrowNext
  BY <1>6, ClaimPays
<1>7. CASE UNCHANGED <<topUpSubmitted, activeVars, refundVars, creditVars, proceedsIn, claimVars>>
  <2>1. UNCHANGED EscrowHeld
    BY <1>7 DEF EscrowHeld
  <2>2. UNCHANGED Escrow!escrowVars
    BY <1>7, <2>1 DEF Escrow!escrowVars, EscrowHeld
  <2>3. QED
    BY <2>2
<1>8. ASSUME ~ UNCHANGED <<topUpSubmitted, activeVars, refundVars, creditVars, proceedsIn,
                           claimVars>>
      PROVE \/ \E sender \in Accounts, value \in Amounts : creditFunding(sender, value)
            \/ \E value \in Amounts : EtherIn(value)
            \/ closeExpiredFundingAttempt
            \/ \E sender \in Accounts : topUpValidator(sender)
            \/ \E sender \in Accounts, recipient \in Recipients :
                 refundTo(sender, recipient) \/ claimTo(sender, recipient)
  BY <1>8
     DEF Next, vars, commitAndPredeposit, openFundingAttempt, fund, receive, silentEther,
         requestExit, CallReturns, commitReturns, topUpReturns, exitReturns,
         payoutReturns, Tick
<1>9. QED
  BY <1>1, <1>2, <1>3, <1>4, <1>5, <1>6, <1>7, <1>8

(* The pool keeps the promises of FundingEscrow. *)
THEOREM PoolImplementsTheEscrow == Spec => ImplementsEscrow
<1>1. IInv /\ IInv' /\ CreditsAreBacked' /\ [Next]_vars
        /\ (state = "Funding" => SumOver(activeFundedWeiOf, Addresses) <= TOP_UP_WEI)'
        => [Escrow!EscrowNext]_(Escrow!escrowVars)
  BY StepImplementsEscrow
<1>2. QED
  BY <1>1, InitIsEscrowInit, InvariantHolds, CreditsFollowFunding, FundingFits, PTL
     DEF Spec, ImplementsEscrow, Escrow!EscrowSpec
=============================================================================
