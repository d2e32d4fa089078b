---------------------------- MODULE CoinSelection ----------------------------
(***************************************************************************)
(* Which coins pay for a transaction (src/wallet/CoinSelection.cpp), as    *)
(* operators on sequences of coins.  A coin is an outpoint with its amount *)
(* and owner.  Sums stay below 2^64: a coin is at most the supply.         *)
(***************************************************************************)
EXTENDS Integers, Sequences, FiniteSetsExt, Functions

CONSTANTS
    MaxInputs,     \* policy.maxInputsPerTransaction, 128
    MinChange,     \* policy.minChangeAtoms, 1
    Dust,          \* policy.dustThreshold, 1
    SearchLimit,   \* 20: from here on subsets are not searched
    KeyOrder(_),   \* the place of an outpoint's key in string order
    Blank          \* the strings of a coin that was moved from

ASSUME PolicyAssumption ==
    /\ MaxInputs \in Nat \ {0}
    /\ MinChange \in Nat
    /\ Dust \in Nat
    /\ SearchLimit \in Nat

CoinTotal(coins) == SumFunction([i \in DOMAIN coins |-> coins[i].amount])

Selected(coins, target) ==
    [selected |-> coins, total |-> CoinTotal(coins), success |-> CoinTotal(coins) >= target]

Least(a, b) == IF a < b THEN a ELSE b

(* The coins at some indices in the order of a relation between indices.   *)
(* SortSeq and SelectSeq do the same, but only TLC knows what they do.     *)
InOrder(coins, indices, order) ==
    LET place == [i \in indices |-> Cardinality({j \in indices : <<j, i>> \in order})]
    IN  [k \in 1 .. Cardinality(indices) |-> coins[CHOOSE i \in indices : place[i] = k - 1]]

Rising(coins) == {p \in (DOMAIN coins) \X (DOMAIN coins) : p[1] < p[2]}
Filtered(coins, indices) == InOrder(coins, indices, Rising(coins))

(* Keys differ, except those of coins that were moved from.                *)
BySize(coins, sign) ==
    {p \in (DOMAIN coins) \X (DOMAIN coins) :
        LET a == coins[p[1]]
            b == coins[p[2]]
        IN  \/ sign * a.amount < sign * b.amount
            \/ /\ a.amount = b.amount
               /\ \/ KeyOrder(a.out) < KeyOrder(b.out)
                  \/ KeyOrder(a.out) = KeyOrder(b.out) /\ p[1] < p[2]}
SmallestFirst(coins) == InOrder(coins, DOMAIN coins, BySize(coins, 1))
LargestFirst(coins) == InOrder(coins, DOMAIN coins, BySize(coins, -1))

(* Mutant: one input more than a transaction may have.                     *)
SmallestAboveOneMore(coins, target) ==
    LET prefix(n) == SubSeq(SmallestFirst(coins), 1, n)
        limit == Least(Len(coins), MaxInputs + 1)
        enough == {n \in 1 .. limit : CoinTotal(prefix(n)) >= target}
    IN  Selected(prefix(IF enough = {} THEN limit ELSE Min(enough)), target)

(* SelectSmallestAbove takes coins until they suffice or are too many.     *)
SmallestAbove(coins, target) ==
    LET prefix(n) == SubSeq(SmallestFirst(coins), 1, n)
        limit == Least(Len(coins), MaxInputs)
        enough == {n \in 1 .. limit : CoinTotal(prefix(n)) >= target}
    IN  Selected(prefix(IF enough = {} THEN limit ELSE Min(enough)), target)

(* SelectConsolidation sorts what SelectSmallestAbove sorts again.         *)
Consolidation(coins, target) == SmallestAbove(coins, target)

-----------------------------------------------------------------------------
(* SelectBranchAndBound tries the subsets of the largest coins in the      *)
(* order of their bit masks, keeps the first with the least change, and    *)
(* stops at one without change.                                            *)

Power[k \in 0 .. SearchLimit] == IF k = 0 THEN 1 ELSE 2 * Power[k - 1]

Bits(coins, mask) == {i \in DOMAIN coins : (mask \div Power[i - 1]) % 2 = 1}
Chosen(coins, mask) == Filtered(coins, Bits(coins, mask))

Waste(coins, mask, target) == CoinTotal(Chosen(coins, mask)) - target

(* Mutant: change too small to be an output is not looked at.              *)
ImprovesByAny(coins, mask, best, target) ==
    LET waste == Waste(coins, mask, target)
    IN  waste >= 0 /\ (best = 0 \/ waste < Waste(coins, best, target))

Improves(coins, mask, best, target) ==
    LET waste == Waste(coins, mask, target)
    IN  /\ waste >= 0
        /\ \/ waste = 0
           \/ waste >= MinChange /\ (best = 0 \/ waste < Waste(coins, best, target))

(* The best mask after one more.                                           *)
Tried(coins, best, mask, target) ==
    IF /\ best = 0 \/ Waste(coins, best, target) # 0
       /\ Improves(coins, mask, best, target)
    THEN mask
    ELSE best

BestMask(coins, target) ==
    LET last == Power[Len(coins)] - 1
        best[mask \in 0 .. last] ==
            IF mask = 0 THEN 0 ELSE Tried(coins, best[mask - 1], mask, target)
    IN  best[last]

Worthwhile(coins) == {i \in DOMAIN coins : coins[i].amount >= Dust}
Usable(coins) == LargestFirst(Filtered(coins, Worthwhile(coins)))
Searched(coins) == SubSeq(Usable(coins), 1, Least(Len(Usable(coins)), MaxInputs))

BranchAndBound(coins, target) ==
    LET top == Searched(coins)
    IN  IF Len(top) < SearchLimit /\ BestMask(top, target) # 0
        THEN Selected(Chosen(top, BestMask(top, target)), target)
        ELSE SmallestAbove(Usable(coins), target)

-----------------------------------------------------------------------------
(* SelectPrivacyAware takes the coins of one address if one address has    *)
(* enough, the one with the least change.  Otherwise it selects from the   *)
(* coins it has already moved into the groups: amounts without an outpoint.*)

Owners(coins) == {coins[i].owner : i \in DOMAIN coins}
OwnedBy(coins, owner) == Filtered(coins, {i \in DOMAIN coins : coins[i].owner = owner})
MovedFrom(coins) == [i \in DOMAIN coins |-> [coins[i] EXCEPT !.out = Blank, !.owner = Blank]]

(* Two groups with equal change: the address that sorts first.             *)
PrivacyAware(coins, target) ==
    LET covering == {r \in {BranchAndBound(OwnedBy(coins, a), target) : a \in Owners(coins)} :
                        r.success}
    IN  IF covering = {} THEN {BranchAndBound(MovedFrom(coins), target)}
        ELSE {r \in covering : \A s \in covering : r.total <= s.total}
=============================================================================
