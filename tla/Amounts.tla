------------------------------ MODULE Amounts --------------------------------
(***************************************************************************)
(* Amounts of coins as they are written and as they are counted            *)
(* (src/core/Amount.cpp).  What is written is a sequence of digits, Point  *)
(* and other characters; what cannot be read gives no amount.              *)
(***************************************************************************)
EXTENDS Integers, SequencesExt

CONSTANTS
    Radix,        \* 10
    Decimals,     \* constants::COIN_DECIMALS
    UintMax,      \* UINT64_MAX
    MaxSupply     \* constants::MAX_SUPPLY_ATOMS

ASSUME AmountAssumption ==
    /\ Radix \in Nat \ {0, 1}
    /\ Decimals \in Nat \ {0}
    /\ UintMax \in Nat
    /\ MaxSupply \in 0 .. UintMax

Point == -1

(* What a digit is worth, by its place: a power of Radix that proofs can   *)
(* use.                                                                    *)
Place[k \in Nat] == IF k = 0 THEN 1 ELSE Radix * Place[k - 1]

Atom == Place[Decimals]
Digit == 0 .. Radix - 1
Value(digits) ==
    LET value[i \in 0 .. Len(digits)] ==
            IF i = 0 THEN 0 ELSE value[i - 1] * Radix + digits[i]
    IN  value[Len(digits)]
Add(a, b) == {a + b} \cap 0 .. UintMax
Zeros(n) == [i \in 1 .. n |-> 0]

Whole(text) == SubSeq(text, 1, SelectInSeq(text \o <<Point>>, LAMBDA c : c = Point) - 1)
Fraction(text) == SubSeq(text, Len(Whole(text)) + 2, Len(text))

(* Mutant: the digits after the point are not padded to all decimals.      *)
AtomsUnpadded(whole, fraction) == Add(Value(whole) * Atom, Value(fraction))

Atoms(whole, fraction) ==
    Add(Value(whole) * Atom, Value(fraction \o Zeros(Decimals - Len(fraction))))

FromCoinsString(text) ==
    IF /\ text # <<>>
       /\ Len(Fraction(text)) <= Decimals
       /\ Range(Whole(text) \o Fraction(text)) \subseteq Digit
       /\ Value(Whole(text)) <= UintMax
       /\ Value(Whole(text)) <= MaxSupply \div Atom
    THEN Atoms(Whole(text), Fraction(text)) \cap 0 .. MaxSupply
    ELSE {}

Numeral(n, size) == [i \in 1 .. size |-> (n \div Place[size - i]) % Radix]

ToCoinsString(atoms) ==
    LET coins == atoms \div Atom
        size == CHOOSE k \in 1 .. coins + 1 :
                    coins < Place[k] /\ (k = 1 \/ coins >= Place[k - 1])
    IN  Numeral(coins, size) \o <<Point>> \o Numeral(atoms % Atom, Decimals)
=============================================================================
