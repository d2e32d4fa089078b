----------------------------- MODULE Difficulty ------------------------------
(***************************************************************************)
(* How much work the next block needs (src/blockchain/Difficulty.cpp).  A  *)
(* target is a number of Digits bytes, kept modulo Highest as the byte     *)
(* arrays are; its compact form has an exponent and a mantissa of three    *)
(* bytes whose highest bit is no part of the number.                       *)
(***************************************************************************)
EXTENDS Integers, Sequences, FiniteSetsExt

CONSTANTS
    Base,          \* 256, the values of a byte
    Digits,        \* 32
    Interval,      \* params.difficultyAdjustmentInterval
    Spacing,       \* params.targetBlockTimeSeconds
    InitialBits,   \* params.initialBits
    PowLimitBits   \* params.powLimitBits

ASSUME DifficultyAssumption ==
    /\ Base \in Nat \ {0} /\ Base % 2 = 0
    /\ Digits \in Nat \ {0, 1, 2, 3}
    /\ Interval \in Nat
    /\ Spacing \in Nat \ {0}
    /\ \A bits \in {InitialBits, PowLimitBits} : bits.exponent \in Nat /\ bits.mantissa \in Nat

(* What a byte is worth, by its place: a power of Base that proofs can use.*)
Weight[k \in Nat] == IF k = 0 THEN 1 ELSE Base * Weight[k - 1]

Highest == Weight[Digits]
Half == Weight[3] \div 2

CompactToTarget(bits) ==
    LET m == bits.mantissa % Half
    IN  IF bits.exponent <= 3 THEN m \div Weight[3 - bits.exponent]
        ELSE (m * Weight[bits.exponent - 3]) % Highest

TargetToCompact(target) ==
    LET size == Min({n \in 0 .. Digits : target < Weight[n]})
        m == IF size <= 3 THEN target * Weight[3 - size] ELSE target \div Weight[size - 3]
    IN  IF m >= Half THEN [exponent |-> size + 1, mantissa |-> m \div Base]
        ELSE [exponent |-> size, mantissa |-> m]

(* Mutant: a period may last as long as it did.                            *)
ClampFromBelow(actual, expected) == Max({1, expected \div 4, actual})

ClampAdjustment(actual, expected) ==
    Min({expected * 4, Max({1, expected \div 4, actual})})

(* The quotient's highest 8 bytes are dropped.                             *)
MulDivTarget(target, mul, div) == ((target * mul) \div div) % Highest

(* A chain's blocks, as far as they matter: height, timestamp and bits.    *)
Elapsed(first, last) ==
    IF last.timestamp > first.timestamp THEN last.timestamp - first.timestamp ELSE 1

CalculateNextWorkRequired(blocks) ==
    LET n == Len(blocks)
        last == blocks[n]
        expected == Spacing * Interval
        actual == Elapsed(blocks[n - Interval + 1], last)
        wanted == MulDivTarget(CompactToTarget(last.bits), ClampAdjustment(actual, expected), expected)
    IN  IF n = 0 THEN InitialBits
        ELSE IF Interval = 0 THEN last.bits
        ELSE IF (last.height + 1) % Interval # 0 \/ n < Interval THEN last.bits
        ELSE TargetToCompact(Min({wanted, CompactToTarget(PowLimitBits)}))
=============================================================================
