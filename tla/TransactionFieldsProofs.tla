------------------------ MODULE TransactionFieldsProofs ------------------------
(***************************************************************************)
(* Whatever is estimated, read and rounded, and however the chain moves    *)
(* between the reads and until the inclusion: what a command signs.        *)
(***************************************************************************)
EXTENDS TransactionFields, FiniteSetTheorems, TLAPS

-----------------------------------------------------------------------------
(* The inductive invariant *)

Fields == [gas : Nat, maxFeePerGas : Nat, maxPriorityFeePerGas : Nat]

Shapes ==
  /\ baseFee \in Nat /\ baseFee >= MinBaseFee
  /\ gasLimit \in Nat /\ gasLimit >= MinGasLimit
  /\ depositCount \in Nat
  /\ step \in {"start", "estimated", "fees", "signed", "refused", "included", "outOfGas"}
  /\ cost \in Nat /\ estimate \in Nat /\ estimatedCount \in Nat /\ suggested \in Nat
  /\ blocks \in 0 .. MaxBlocks
  /\ fields \in Fields
  /\ clamped \in BOOLEAN

(* The estimate is exact for the count it was made at.                     *)
EstimateIsExact ==
  step \in {"estimated", "fees", "signed", "outOfGas"} =>
    estimate = cost + HashGas * Hashes(estimatedCount)

(* How far the base fee can have risen since it was read.                  *)
RiseIsBounded ==
  /\ suggested >= MinBaseFee
  /\ blocks = 0 => baseFee = suggested
  /\ blocks = 1 => IF suggested >= 8 THEN 8 * baseFee <= 9 * suggested ELSE baseFee <= 8
  /\ blocks = 2 /\ suggested >= 8 => 64 * baseFee <= 81 * suggested

(* And what was made of it.                                                *)
FeesAreSound ==
  step \in {"fees", "signed"} =>
    /\ RiseIsBounded
    /\ 1 <= fields.maxPriorityFeePerGas
    /\ fields.maxPriorityFeePerGas <= fields.maxFeePerGas
    /\ 81 * suggested < 64 * (fields.maxFeePerGas + 1)

(* A limit that was 100/95 of the gas at least, and lost less than 1/1024  *)
(* with each of n blocks since.                                            *)
KeepsDistance(gas, n, limit) == 100 * (1024 - n) * gas <= 95 * 1024 * limit

GasIsSound ==
  /\ step = "signed" =>
       /\ estimate <= fields.gas
       /\ KeepsDistance(fields.gas, blocks, gasLimit)
  /\ step = "signed" /\ ~ clamped => fields.gas = WithMargin(estimate)
  /\ step = "outOfGas" => OutOfGasHasACause

FieldsIInv ==
  /\ Shapes
  /\ step \in {"start", "estimated"} => blocks = 0
  /\ EstimateIsExact
  /\ FeesAreSound
  /\ GasIsSound

-----------------------------------------------------------------------------
(* Arithmetic *)

(* Rounding down loses less than one. *)
LEMMA DivBounds ==
  ASSUME NEW x \in Nat, NEW n \in Nat \ {0}
  PROVE  x \div n \in Nat /\ n * (x \div n) <= x /\ x < n * ((x \div n) + 1)
OBVIOUS

(* A count of hashes is a number, whatever is counted. *)
LEMMA HashesType == ASSUME NEW count \in Nat PROVE Hashes(count) \in Nat
<1>1. IsFiniteSet(1 .. count + 1)
  BY FS_Interval
<1>2. IsFiniteSet({h \in 1 .. count + 1 : (count + 1) % 2 ^ h = 0})
  BY <1>1, FS_Subset
<1>3. QED
  BY <1>2, FS_CardinalityType DEF Hashes

(* A block raises the base fee by an eighth at most, or by one wei, and    *)
(* never lowers it below the floor.                                        *)
LEMMA NextBaseFeeBounds ==
  ASSUME NEW fee \in Nat, fee >= MinBaseFee, NEW next \in NextBaseFees(fee)
  PROVE  /\ next \in Nat /\ next >= MinBaseFee
         /\ IF fee >= 8 THEN 8 * next <= 9 * fee ELSE next <= 8
<1>1. PICK eighth \in Nat : eighth = fee \div 8 /\ 8 * eighth <= fee /\ fee < 8 * (eighth + 1)
  BY DivBounds
<1>2. next \in {fee + Larger(eighth, 1), fee, fee - eighth}
  BY <1>1 DEF NextBaseFees, AfterFullBlock
<1>3. QED
  BY <1>1, <1>2 DEF Larger, MinBaseFee

(* A block lowers its limit by less than 1/1024, and never below 1024.     *)
LEMMA NextGasLimitBounds ==
  ASSUME NEW limit \in Nat, limit >= MinGasLimit, NEW next \in NextGasLimits(limit)
  PROVE  /\ next \in Nat /\ next >= MinGasLimit
         /\ 1023 * limit < 1024 * next
<1>1. PICK part \in Nat : part = limit \div 1024 /\ 1024 * part <= limit /\ limit < 1024 * (part + 1)
  BY DivBounds
<1>2. next \in {limit - (part - 1), limit, limit + (part - 1)}
  BY <1>1 DEF NextGasLimits
<1>3. part >= 1
  BY <1>1 DEF MinGasLimit
<1>4. QED
  BY <1>1, <1>2, <1>3 DEF MinGasLimit

(* The cap is at least the tip, and the base fee grown twice by an eighth. *)
LEMMA FeeCapBounds ==
  ASSUME NEW base \in Nat, NEW tip \in Nat
  PROVE  /\ FeeCap(base, tip) \in Nat
         /\ tip <= FeeCap(base, tip)
         /\ 81 * base < 64 * (FeeCap(base, tip) + 1)
<1>1. PICK cap \in Nat : cap = (base * (9 * 9)) \div (8 * 8) /\ 81 * base < 64 * (cap + 1)
  <2>1. base * (9 * 9) \in Nat /\ base * (9 * 9) = 81 * base /\ 8 * 8 = 64
    OBVIOUS
  <2>2. QED
    BY <2>1, DivBounds
<1>2. FeeCap(base, tip) = IF cap < tip THEN cap + tip ELSE cap
  BY <1>1 DEF FeeCap
<1>3. QED
  BY <1>1, <1>2

(* The margin is a fifth, rounded down.                                    *)
LEMMA MarginIsAFifth ==
  ASSUME NEW gas \in Nat
  PROVE  WithMargin(gas) \in Nat /\ WithMargin(gas) = gas + gas \div 5
<1>1. PICK fifth \in Nat : fifth = gas \div 5 /\ 5 * fifth <= gas /\ gas < 5 * (fifth + 1)
  BY DivBounds
<1>2. /\ gas * 120 \in Nat
      /\ 100 * (gas + fifth) <= gas * 120 /\ gas * 120 < 100 * (gas + fifth + 1)
  BY <1>1
<1>3. PICK margin \in Nat :
        margin = (gas * 120) \div 100 /\ 100 * margin <= gas * 120 /\ gas * 120 < 100 * (margin + 1)
  BY <1>2, DivBounds
<1>4. margin = gas + fifth
  BY <1>2, <1>3
<1>5. QED
  BY <1>1, <1>3, <1>4 DEF WithMargin, GAS_MARGIN_PERCENT

(* The ceiling is 95 %, rounded down.                                      *)
LEMMA CeilingBound ==
  ASSUME NEW limit \in Nat
  PROVE  Ceiling(limit) \in Nat /\ 100 * Ceiling(limit) <= 95 * limit
<1>1. limit * 95 \in Nat /\ limit * 95 = 95 * limit
  OBVIOUS
<1>2. QED
  BY <1>1, DivBounds DEF Ceiling, BLOCK_GAS_LIMIT_CEILING_PERCENT

(* What was signed at 95 % of a gas limit loses no more of its distance    *)
(* with a block than the limit loses.                                      *)
LEMMA DistanceShrinks ==
  ASSUME NEW gas \in Nat, NEW lost \in Nat, NEW limit \in Nat, NEW next \in Nat,
         102400 * gas - 100 * lost <= 97280 * limit,
         1023 * limit < 1024 * next
  PROVE  102400 * gas - 100 * lost - 100 * gas <= 97280 * next
<1>1. CASE 95 * limit <= 100 * gas
  BY <1>1
<1>2. CASE 95 * limit > 100 * gas
  BY <1>2
<1>3. QED
  BY <1>1, <1>2

LEMMA DistanceSuffices ==
  ASSUME NEW gas \in Nat, NEW limit \in Nat, NEW n \in 0 .. FallingBlocksCovered,
         KeepsDistance(gas, n, limit)
  PROVE  gas <= limit
<1>1. PICK lost \in Nat : lost = n * gas /\ lost <= 51 * gas
  BY DEF FallingBlocksCovered
<1>2. 100 * (1024 - n) * gas = 102400 * gas - 100 * lost
  BY <1>1
<1>3. QED
  BY <1>1, <1>2 DEF KeepsDistance

-----------------------------------------------------------------------------
(* The invariant holds *)

LEMMA InitSound == Init => FieldsIInv
<1> SUFFICES ASSUME Init PROVE FieldsIInv
  OBVIOUS
<1>1. fields \in Fields
  BY DEF Init, NoFields, Fields
<1>2. MaxBlocks \in Nat
  BY FieldsAssumption
<1>3. /\ baseFee \in Nat /\ baseFee >= MinBaseFee
      /\ gasLimit \in Nat /\ gasLimit >= MinGasLimit
      /\ depositCount \in Nat /\ cost \in Nat
  BY FieldsAssumption DEF Init
<1>4. /\ step = "start" /\ estimate = 0 /\ estimatedCount = 0 /\ suggested = 0
      /\ blocks = 0 /\ clamped \in BOOLEAN
  BY DEF Init
<1>5. Shapes
  BY <1>1, <1>2, <1>3, <1>4 DEF Shapes
<1>6. QED
  BY <1>4, <1>5 DEF FieldsIInv, EstimateIsExact, FeesAreSound, GasIsSound

LEMMA EstimateKeeps == FieldsIInv /\ Estimate => FieldsIInv'
<1> SUFFICES ASSUME FieldsIInv, Estimate PROVE FieldsIInv'
  OBVIOUS
<1>1. /\ step = "start" /\ step' = "estimated"
      /\ estimate' = Need /\ estimatedCount' = depositCount
      /\ UNCHANGED <<baseFee, gasLimit, depositCount, cost, suggested, fields, clamped, blocks>>
  BY DEF Estimate, chain
<1>2. Need = cost + HashGas * Hashes(depositCount) /\ Need \in Nat
  BY HashesType, FieldsAssumption DEF Need, FieldsIInv, Shapes
<1>3. Shapes'
  BY <1>1, <1>2 DEF FieldsIInv, Shapes
<1>4. EstimateIsExact'
  BY <1>1, <1>2 DEF EstimateIsExact
<1>5. QED
  BY <1>1, <1>3, <1>4 DEF FieldsIInv, FeesAreSound, GasIsSound

(* The cap, for any base fee and whichever of the tips was taken.          *)
LEMMA ReadFeesKeeps == FieldsIInv /\ ReadFees => FieldsIInv'
<1> SUFFICES ASSUME FieldsIInv, ReadFees PROVE FieldsIInv'
  OBVIOUS
<1>1. /\ step = "estimated" /\ step' = "fees" /\ suggested' = baseFee /\ blocks = 0
      /\ UNCHANGED <<baseFee, gasLimit, depositCount, cost, estimate, estimatedCount, clamped, blocks>>
  BY DEF ReadFees, chain, FieldsIInv
<1>2. PICK reward \in Tips, suggestion \in Tips \cup {0} :
        fields' = [NoFields EXCEPT !.maxFeePerGas = FeeCap(baseFee, Priority(reward, suggestion)),
                                   !.maxPriorityFeePerGas = Priority(reward, suggestion)]
  BY DEF ReadFees
<1>3. PICK tip \in Nat : tip = Priority(reward, suggestion) /\ 1 <= tip
  BY FieldsAssumption DEF Priority, Larger
<1>4. PICK cap \in Nat :
        cap = FeeCap(baseFee, tip) /\ tip <= cap /\ 81 * baseFee < 64 * (cap + 1)
  BY FeeCapBounds DEF FieldsIInv, Shapes
<1>5. /\ fields' \in Fields
      /\ fields'.maxFeePerGas = cap /\ fields'.maxPriorityFeePerGas = tip
  BY <1>2, <1>3, <1>4 DEF NoFields, Fields
<1>6. Shapes'
  BY <1>1, <1>5 DEF FieldsIInv, Shapes
<1>7. RiseIsBounded'
  BY <1>1 DEF RiseIsBounded, FieldsIInv, Shapes
<1>8. FeesAreSound'
  BY <1>1, <1>3, <1>4, <1>5, <1>7 DEF FeesAreSound
<1>9. EstimateIsExact'
  BY <1>1 DEF EstimateIsExact, FieldsIInv
<1>10. QED
  BY <1>1, <1>6, <1>8, <1>9 DEF FieldsIInv, GasIsSound

(* The gas limit, for any estimate and limit that pass.                    *)
LEMMA ReadGasLimitKeeps == FieldsIInv /\ ReadGasLimit => FieldsIInv'
<1> SUFFICES ASSUME FieldsIInv, ReadGasLimit PROVE FieldsIInv'
  OBVIOUS
<1>1. /\ step = "fees" /\ step' \in {"refused", "signed"}
      /\ UNCHANGED <<baseFee, gasLimit, depositCount, cost, estimate, estimatedCount, suggested, blocks>>
      /\ Shapes
  BY DEF ReadGasLimit, chain, FieldsIInv
<1>2. EstimateIsExact'
  BY <1>1 DEF EstimateIsExact, FieldsIInv
<1>3. CASE estimate > Ceiling(gasLimit)
  <2>1. step' = "refused" /\ fields' = NoFields /\ clamped' = clamped
    BY <1>3 DEF ReadGasLimit
  <2>2. Shapes'
    BY <1>1, <2>1 DEF Shapes, NoFields, Fields
  <2>3. QED
    BY <1>2, <2>1, <2>2 DEF FieldsIInv, FeesAreSound, GasIsSound
<1>4. CASE ~ (estimate > Ceiling(gasLimit))
  <2>1. PICK ceiling \in Nat : ceiling = Ceiling(gasLimit) /\ 100 * ceiling <= 95 * gasLimit
    BY <1>1, CeilingBound DEF Shapes
  <2>2. PICK margin \in Nat : margin = WithMargin(estimate) /\ estimate <= margin
    <3>1. PICK fifth \in Nat : fifth = estimate \div 5
      BY <1>1, DivBounds DEF Shapes
    <3>2. QED
      BY <1>1, <3>1, MarginIsAFifth DEF Shapes
  <2>3. PICK gas \in Nat : gas = Smaller(margin, ceiling)
    BY DEF Smaller
  <2>4. /\ step' = "signed" /\ clamped' = (margin > ceiling)
        /\ fields' = [fields EXCEPT !.gas = gas]
    BY <1>4, <2>1, <2>2, <2>3 DEF ReadGasLimit
  <2>5. /\ estimate <= gas /\ gas <= ceiling /\ (~ (margin > ceiling) => gas = margin)
    BY <1>1, <1>4, <2>1, <2>2, <2>3 DEF Smaller, Shapes
  <2>6. /\ fields' \in Fields /\ fields'.gas = gas
        /\ fields'.maxFeePerGas = fields.maxFeePerGas
        /\ fields'.maxPriorityFeePerGas = fields.maxPriorityFeePerGas
    BY <1>1, <2>4 DEF Shapes, Fields
  <2>7. Shapes'
    BY <1>1, <2>4, <2>6 DEF Shapes
  <2>8. FeesAreSound'
    BY <1>1, <2>6 DEF FeesAreSound, RiseIsBounded, FieldsIInv
  <2>9. KeepsDistance(gas, blocks, gasLimit)
    <3>1. blocks \in Nat
      BY <1>1, FieldsAssumption DEF Shapes
    <3>2. PICK lost \in Nat : lost = blocks * gas
      BY <3>1
    <3>3. 100 * (1024 - blocks) * gas = 102400 * gas - 100 * lost
      BY <3>1, <3>2
    <3>4. QED
      BY <1>1, <2>1, <2>5, <3>2, <3>3 DEF Shapes, KeepsDistance
  <2>10. ~ clamped' => gas = margin
    BY <2>4, <2>5
  <2>11. (WithMargin(estimate))' = margin
    BY <1>1, <2>2 DEF WithMargin
  <2>12. GasIsSound'
    BY <1>1, <2>4, <2>5, <2>6, <2>9, <2>10, <2>11 DEF GasIsSound
  <2>13. QED
    BY <1>2, <2>4, <2>7, <2>8, <2>12 DEF FieldsIInv
<1>5. QED
  BY <1>3, <1>4

LEMMA ReadFailsKeeps == FieldsIInv /\ ReadFails => FieldsIInv'
<1> SUFFICES ASSUME FieldsIInv, ReadFails PROVE FieldsIInv'
  OBVIOUS
<1>1. /\ step' = "refused" /\ fields' = NoFields
      /\ UNCHANGED <<baseFee, gasLimit, depositCount, cost, estimate, estimatedCount,
                     suggested, clamped, blocks>>
  BY DEF ReadFails, chain
<1>2. NoFields \in Fields
  BY DEF NoFields, Fields
<1>3. Shapes'
  BY <1>1, <1>2 DEF FieldsIInv, Shapes
<1>4. QED
  BY <1>1, <1>3 DEF FieldsIInv, EstimateIsExact, FeesAreSound, GasIsSound

(* Gas runs out because the margin was cut, or because the hashes of the   *)
(* Merkle update cost more than the margin.                                *)
LEMMA IncludeKeeps == FieldsIInv /\ Include => FieldsIInv'
<1> SUFFICES ASSUME FieldsIInv, Include PROVE FieldsIInv'
  OBVIOUS
<1>1. /\ step = "signed"
      /\ UNCHANGED <<baseFee, gasLimit, depositCount, cost, estimate, estimatedCount,
                     suggested, fields, clamped, blocks>>
      /\ Shapes /\ EstimateIsExact /\ GasIsSound
  BY DEF Include, chain, FieldsIInv
<1>2. step' = IF Need <= fields.gas THEN "included" ELSE "outOfGas"
  BY DEF Include
<1>3. Shapes' /\ EstimateIsExact'
  BY <1>1, <1>2 DEF Shapes, EstimateIsExact
<1>4. ASSUME step' = "outOfGas" PROVE OutOfGasHasACause'
  <2>1. PICK before \in Nat, now \in Nat :
          before = Hashes(estimatedCount) /\ now = Hashes(depositCount)
    BY <1>1, HashesType DEF Shapes
  <2>2. PICK update \in Nat, later \in Nat :
          /\ update = HashGas * before /\ later = HashGas * now
          /\ HashGas * (now - before) = later - update
    BY <2>1, FieldsAssumption
  <2>3. estimate = cost + update /\ ~ (cost + later <= fields.gas)
    BY <1>1, <1>2, <1>4, <2>1, <2>2 DEF EstimateIsExact, Need
  <2>4. PICK fifth \in Nat : fifth = estimate \div 5
    BY <1>1, DivBounds DEF Shapes
  <2>5. fields.gas \in Nat /\ cost \in Nat /\ estimate \in Nat
    BY <1>1 DEF Shapes, Fields
  <2>6. ASSUME ~ clamped PROVE HashGas * (now - before) > fifth
    <3>1. fields.gas = estimate + fifth
      BY <1>1, <2>4, <2>5, <2>6, MarginIsAFifth DEF GasIsSound
    <3>2. QED
      BY <2>2, <2>3, <2>5, <3>1
  <2>7. clamped \/ HashGas * (Hashes(depositCount) - Hashes(estimatedCount)) > estimate \div 5
    BY <2>1, <2>4, <2>6
  <2>8. QED
    BY <1>1, <2>7 DEF OutOfGasHasACause, Hashes
<1>5. QED
  BY <1>2, <1>3, <1>4 DEF FieldsIInv, FeesAreSound, GasIsSound

LEMMA DepositKeeps == FieldsIInv /\ Deposit => FieldsIInv'
<1> SUFFICES ASSUME FieldsIInv, Deposit PROVE FieldsIInv'
  OBVIOUS
<1>1. /\ step \in {"estimated", "fees", "signed"} /\ depositCount' = depositCount + 1
      /\ UNCHANGED <<baseFee, gasLimit, step, cost, estimate, estimatedCount,
                     suggested, fields, clamped, blocks>>
  BY DEF Deposit, command
<1>2. Shapes'
  BY <1>1 DEF FieldsIInv, Shapes
<1>3. QED
  BY <1>1, <1>2
     DEF FieldsIInv, EstimateIsExact, FeesAreSound, RiseIsBounded, GasIsSound, Hashes, WithMargin

(* A block moves the base fee and the gas limit.                           *)
LEMMA EndBlockKeeps == FieldsIInv /\ EndBlock => FieldsIInv'
<1> SUFFICES ASSUME FieldsIInv, EndBlock PROVE FieldsIInv'
  OBVIOUS
<1>1. /\ step \in {"fees", "signed"} /\ blocks < MaxBlocks /\ blocks' = blocks + 1
      /\ baseFee' \in NextBaseFees(baseFee) /\ gasLimit' \in NextGasLimits(gasLimit)
      /\ UNCHANGED <<depositCount, step, cost, estimate, estimatedCount, suggested, fields, clamped>>
      /\ Shapes /\ EstimateIsExact /\ FeesAreSound /\ GasIsSound
  BY DEF EndBlock, command, FieldsIInv
<1>2. blocks \in Nat /\ MaxBlocks \in Nat
  BY <1>1, FieldsAssumption DEF Shapes
<1>3. /\ baseFee' \in Nat /\ baseFee' >= MinBaseFee
      /\ IF baseFee >= 8 THEN 8 * baseFee' <= 9 * baseFee ELSE baseFee' <= 8
  BY <1>1, NextBaseFeeBounds DEF Shapes
<1>4. /\ gasLimit' \in Nat /\ gasLimit' >= MinGasLimit
      /\ 1023 * gasLimit < 1024 * gasLimit'
  BY <1>1, NextGasLimitBounds DEF Shapes
<1>5. Shapes'
  BY <1>1, <1>2, <1>3, <1>4 DEF Shapes
<1>6. EstimateIsExact'
  BY <1>1 DEF EstimateIsExact, Hashes
<1>7. RiseIsBounded'
  <2>1. PICK read \in Nat, fee \in Nat, next \in Nat, n \in Nat :
          /\ read = suggested /\ fee = baseFee /\ next = baseFee' /\ n = blocks
    BY <1>1, <1>2, <1>3 DEF Shapes
  <2>2. /\ read >= 7 /\ fee >= 7
        /\ n = 0 => fee = read
        /\ n = 1 /\ read >= 8 => 8 * fee <= 9 * read
        /\ IF fee >= 8 THEN 8 * next <= 9 * fee ELSE next <= 8
    BY <1>1, <1>3, <2>1 DEF FeesAreSound, RiseIsBounded, Shapes, MinBaseFee
  <2>3. n = 0 => IF read >= 8 THEN 8 * next <= 9 * read ELSE next <= 8
    BY <2>2
  <2>4. n = 1 /\ read >= 8 => 64 * next <= 81 * read
    BY <2>2
  <2>5. blocks' = n + 1 /\ suggested' = read /\ baseFee' = next
    BY <1>1, <2>1
  <2>6. CASE n = 0
    BY <2>2, <2>3, <2>5, <2>6 DEF RiseIsBounded, MinBaseFee
  <2>7. CASE n = 1
    BY <2>2, <2>4, <2>5, <2>7 DEF RiseIsBounded, MinBaseFee
  <2>8. CASE n > 1
    <3>1. blocks' \notin {0, 1, 2}
      BY <2>5, <2>8
    <3>2. suggested' >= MinBaseFee
      BY <2>2, <2>5 DEF MinBaseFee
    <3>3. QED
      BY <3>1, <3>2 DEF RiseIsBounded
  <2>9. QED
    BY <2>1, <2>6, <2>7, <2>8
<1>8. FeesAreSound'
  BY <1>1, <1>7 DEF FeesAreSound
<1>9. ASSUME step = "signed"
      PROVE  KeepsDistance(fields.gas, blocks', gasLimit')
  <2>0. fields.gas \in Nat /\ gasLimit \in Nat /\ gasLimit' \in Nat /\ blocks \in Nat /\ blocks' \in Nat
    BY <1>1, <1>2, <1>4 DEF Shapes, Fields
  <2>1. PICK gas \in Nat, limit \in Nat, next \in Nat :
          gas = fields.gas /\ limit = gasLimit /\ next = gasLimit'
    BY <2>0
  <2>2. PICK n \in Nat, lost \in Nat :
          n = blocks /\ n + 1 = blocks' /\ lost = n * gas
    BY <1>1, <1>2, <2>1
  <2>3. /\ 100 * (1024 - n) * gas = 102400 * gas - 100 * lost
        /\ 100 * (1024 - (n + 1)) * gas = 102400 * gas - 100 * lost - 100 * gas
    BY <2>2
  <2>4. 100 * (1024 - blocks) * fields.gas <= 95 * 1024 * gasLimit
    BY <1>1, <1>9 DEF GasIsSound, KeepsDistance
  <2>5. 100 * (1024 - n) * gas <= 95 * 1024 * limit
    BY <2>0, <2>1, <2>2, <2>4
  <2>6. 102400 * gas - 100 * lost <= 97280 * limit
    BY <2>3, <2>5
  <2>7. 1023 * limit < 1024 * next
    <3>1. limit >= MinGasLimit /\ next \in NextGasLimits(limit)
      BY <1>1, <2>0, <2>1 DEF Shapes
    <3>2. QED
      BY <3>1, NextGasLimitBounds
  <2>8. 102400 * gas - 100 * lost - 100 * gas <= 97280 * next
    BY <2>6, <2>7, DistanceShrinks
  <2>9. 100 * (1024 - (n + 1)) * gas <= 95 * 1024 * next
    BY <2>3, <2>8
  <2>10. QED
    BY <2>0, <2>1, <2>2, <2>9 DEF KeepsDistance
<1>10. GasIsSound'
  BY <1>1, <1>9 DEF GasIsSound, WithMargin
<1>11. QED
  BY <1>1, <1>5, <1>6, <1>8, <1>10 DEF FieldsIInv

LEMMA StutterKeeps == FieldsIInv /\ UNCHANGED vars => FieldsIInv'
BY DEF FieldsIInv, Shapes, EstimateIsExact, FeesAreSound, RiseIsBounded, GasIsSound,
       OutOfGasHasACause, vars, chain, command, Hashes, WithMargin

-----------------------------------------------------------------------------
(* Theorems *)

(* What a command has estimated and read, and how far the chain has moved  *)
(* since.                                                                  *)
THEOREM FieldsInvariantHolds == Spec => []FieldsIInv
<1>1. FieldsIInv /\ [Next]_vars => FieldsIInv'
  BY EstimateKeeps, ReadFeesKeeps, ReadGasLimitKeeps, ReadFailsKeeps, IncludeKeeps,
     DepositKeeps, EndBlockKeeps, StutterKeeps DEF Next
<1>2. QED
  BY InitSound, <1>1, PTL DEF Spec

(* At the floor the fee can rise further than the comment on the cap says *)
(* (common.ts:3562-3564): from 7 wei to 9, where the cap is 8.            *)
LEMMA CapFallsShortAtTheFloor ==
  ASSUME NEW tip \in 0 .. 8
  PROVE  FeeCap(MinBaseFee, tip) < AfterFullBlock(AfterFullBlock(MinBaseFee))
<1>1. FeeCap(MinBaseFee, tip) = 8
  BY DEF FeeCap, MinBaseFee
<1>2. AfterFullBlock(MinBaseFee) = 8
  BY DEF AfterFullBlock, Larger, MinBaseFee
<1>3. AfterFullBlock(8) = 9
  BY DEF AfterFullBlock, Larger
<1>4. QED
  BY <1>1, <1>2, <1>3

(* The fee cap outlasts two full blocks, from any base fee of 8 wei up,    *)
(* and one from the floor.                                                 *)
THEOREM CapOutlasts == Spec => []CapOutlastsFullBlocks
<1>1. FieldsIInv => CapOutlastsFullBlocks
  <2> SUFFICES ASSUME FieldsIInv, step = "signed", blocks <= FullBlocksCovered
               PROVE  Affordable
    BY DEF CapOutlastsFullBlocks
  <2>1. /\ RiseIsBounded /\ 81 * suggested < 64 * (fields.maxFeePerGas + 1)
        /\ fields.maxFeePerGas \in Nat /\ baseFee \in Nat /\ suggested \in Nat /\ blocks \in Nat
    BY DEF FieldsIInv, FeesAreSound, Shapes, Fields
  <2>2. /\ blocks \in {0, 1, 2} /\ (blocks = 2 => suggested >= 8)
    BY <2>1 DEF FullBlocksCovered, FEE_BASE_FEE_FULL_BLOCKS
  <2>3. QED
    BY <2>1, <2>2 DEF RiseIsBounded, MinBaseFee, Affordable
<1>2. QED
  BY FieldsInvariantHolds, <1>1, PTL

(* What is signed is a transaction an endpoint accepts and a block can     *)
(* hold, for any estimate, margin, tip and limit, for as long as a falling *)
(* limit leaves the ceiling its distance.                                  *)
THEOREM FieldsAreValid == Spec => []SignedFieldsAreValid
<1>1. FieldsIInv => SignedFieldsAreValid
  <2> SUFFICES ASSUME FieldsIInv, step = "signed"
               PROVE  /\ 1 <= fields.maxPriorityFeePerGas
                      /\ fields.maxPriorityFeePerGas <= fields.maxFeePerGas
                      /\ estimate <= fields.gas
                      /\ blocks <= FallingBlocksCovered => FitsBlock
    BY DEF SignedFieldsAreValid
  <2>1. /\ fields.gas \in Nat /\ gasLimit \in Nat /\ blocks \in Nat
        /\ KeepsDistance(fields.gas, blocks, gasLimit)
    BY FieldsAssumption DEF FieldsIInv, GasIsSound, Shapes, Fields
  <2>2. ASSUME blocks <= FallingBlocksCovered PROVE fields.gas <= gasLimit
    <3>1. blocks \in 0 .. FallingBlocksCovered
      BY <2>1, <2>2 DEF FallingBlocksCovered
    <3>2. QED
      BY <2>1, <3>1, DistanceSuffices
  <2>3. QED
    BY <2>2 DEF FieldsIInv, FeesAreSound, GasIsSound, FitsBlock
<1>2. QED
  BY FieldsInvariantHolds, <1>1, PTL

(* Gas runs out for two causes only, for any cost of a hash and any number *)
(* of deposits by others.                                                  *)
THEOREM GasRunsOutForACause == Spec => []OutOfGasHasACause
<1>1. FieldsIInv => OutOfGasHasACause
  BY DEF FieldsIInv, GasIsSound, OutOfGasHasACause
<1>2. QED
  BY FieldsInvariantHolds, <1>1, PTL

=============================================================================
