------------------------------ MODULE RuntimeCode ------------------------------
(***************************************************************************)
(* scripts/lib/common.ts: whether the code at an address is the code this  *)
(* checkout builds.                                                        *)
(*                                                                         *)
(* Code is a sequence of bytes.  A build artifact is its code, with zeroes *)
(* where the constructor writes immutables, and the ranges of those bytes. *)
(* Offsets count from zero, the positions of a sequence from one.          *)
(***************************************************************************)
EXTENDS Naturals, Sequences, FiniteSets

CONSTANT MAX_MASKED_IMMUTABLE_BYTES

NoCode == <<>>

(* assertHasCode *)
HasCode(code) == code # NoCode

Positions(range) == range.start + 1 .. range.start + range.length

MaskedPositions(ranges) == UNION {Positions(range) : range \in ranges}

Disjoint(ranges) ==
  \A left, right \in ranges :
    left # right /\ left.start <= right.start => left.start + left.length <= right.start

(* The ranges are masked in the chain's code too, so ranges that cover     *)
(* what solc would not are refused rather than masked.                     *)
PlausibleRanges(code, ranges) ==
  /\ MaskedPositions(ranges) \subseteq DOMAIN code
  /\ Disjoint(ranges)
  /\ Cardinality(MaskedPositions(ranges)) <= MAX_MASKED_IMMUTABLE_BYTES

maskImmutableRanges(code, ranges) ==
  [i \in DOMAIN code |-> IF i \in MaskedPositions(ranges) THEN 0 ELSE code[i]]

RuntimeCodeMatches_Mutant(chainCode, artifact) ==
  LET ranges == artifact.immutableReferences
      artifactCode == artifact.deployedBytecode
  IN /\ HasCode(artifactCode) /\ HasCode(chainCode)
     /\ Len(artifactCode) = Len(chainCode)
     /\ maskImmutableRanges(artifactCode, ranges) = maskImmutableRanges(chainCode, ranges)
(* assertRuntimeCodeMatchesLocalBuild; the artifact may be missing. *)
RuntimeCodeMatches(chainCode, artifact) ==
  LET ranges == artifact.immutableReferences
      artifactCode == artifact.deployedBytecode
  IN /\ HasCode(artifactCode) /\ HasCode(chainCode)
     /\ Len(artifactCode) = Len(chainCode)
     /\ PlausibleRanges(chainCode, ranges)
     /\ maskImmutableRanges(artifactCode, ranges) = maskImmutableRanges(chainCode, ranges)

(* What the constructor of a build leaves on chain. *)
Deployed(artifact, immutable) ==
  [i \in DOMAIN artifact.deployedBytecode |->
     IF i \in MaskedPositions(artifact.immutableReferences) THEN immutable
     ELSE artifact.deployedBytecode[i]]

(* What the sources of this checkout compile to, with whatever immutables. *)
IsBuildOf(build, code) ==
  /\ DOMAIN code = DOMAIN build.deployedBytecode
  /\ \A i \in DOMAIN code \ MaskedPositions(build.immutableReferences) :
       code[i] = build.deployedBytecode[i]
===============================================================================
