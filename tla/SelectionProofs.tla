--------------------------- MODULE SelectionProofs ---------------------------
(***************************************************************************)
(* What CoinSelection returns, for every offer of coins: coins that were   *)
(* offered, none twice, no more than a transaction may have, and enough    *)
(* whenever there is enough.  None of it depends on how the coins are      *)
(* ordered, as long as they can be.                                        *)
(***************************************************************************)
EXTENDS CoinSelection, Recursion

-----------------------------------------------------------------------------
(* Coins in order. *)

(* R is a strict order in which any two members of S can be compared.      *)
IsOrder(R, S) ==
    /\ \A i, j \in S : <<i, j>> \in R => <<j, i>> \notin R
    /\ \A i, j \in S : i = j \/ <<i, j>> \in R \/ <<j, i>> \in R
    /\ \A i, j, k \in S : <<i, j>> \in R /\ <<j, k>> \in R => <<i, k>> \in R

Before(i, S, R) == {j \in S : <<j, i>> \in R}

(* Counting the members before it numbers a set. *)
LEMMA PlacesAreNumbers ==
    ASSUME NEW S, IsFiniteSet(S), NEW R, IsOrder(R, S)
    PROVE  LET place == [i \in S |-> Cardinality(Before(i, S, R))]
           IN  /\ place \in [S -> 0 .. Cardinality(S) - 1]
               /\ IsInjective(place)
               /\ \A n \in 0 .. Cardinality(S) - 1 : \E i \in S : place[i] = n
<1> DEFINE place == [i \in S |-> Cardinality(Before(i, S, R))]
           n == Cardinality(S)
<1>1. n \in Nat /\ \A T \in SUBSET S : IsFiniteSet(T) /\ Cardinality(T) \in Nat
  BY FS_CardinalityType, FS_Subset
<1>2. ASSUME NEW i \in S PROVE place[i] \in 0 .. n - 1
  <2>1. Before(i, S, R) \in SUBSET S /\ i \notin Before(i, S, R)
    BY DEF Before, IsOrder
  <2>2. Cardinality(Before(i, S, R)) <= n /\ Cardinality(Before(i, S, R)) # n
    BY <2>1, FS_Subset
  <2> QED
    BY <1>1, <2>1, <2>2
<1>3. ASSUME NEW i \in S, NEW j \in S, <<i, j>> \in R PROVE place[i] # place[j]
  <2>1. Before(i, S, R) \in SUBSET Before(j, S, R) /\ Before(j, S, R) \in SUBSET S
    BY <1>3 DEF Before, IsOrder
  <2>2. i \in Before(j, S, R) /\ i \notin Before(i, S, R)
    BY <1>3 DEF Before, IsOrder
  <2>3. IsFiniteSet(Before(j, S, R))
    BY <1>1, <2>1
  <2> QED
    BY <2>1, <2>2, <2>3, FS_Subset
<1>4. IsInjective(place)
  BY <1>3 DEF IsOrder, IsInjective
<1>5. \A m \in 0 .. n - 1 : \E i \in S : place[i] = m
  <2>1. place \in Injection(S, 0 .. n - 1)
    BY <1>2, <1>4 DEF Injection, IsInjective
  <2>2. IsFiniteSet(0 .. n - 1) /\ Cardinality(0 .. n - 1) = n
    <3>1. n \in Nat
      BY <1>1
    <3> HIDE DEF n
    <3>2. /\ 0 \in Int /\ n - 1 \in Int
          /\ (IF 0 > n - 1 THEN 0 ELSE (n - 1) - 0 + 1) = n
      BY <3>1
    <3> QED
      BY <3>2, FS_Interval
  <2>3. place \in Surjection(S, 0 .. n - 1)
    BY <2>1, <2>2, FS_Injection
  <2> QED
    BY <2>3 DEF Surjection
<1> QED
  BY <1>2, <1>4, <1>5

(* The coins s are some of coins, one for each index in picked. *)
Picks(s, coins, picked) ==
    /\ picked \subseteq DOMAIN coins
    /\ s \in Seq(Range(coins))
    /\ \E at \in [DOMAIN s -> picked] :
          /\ IsInjective(at)
          /\ \A i \in picked : \E k \in DOMAIN s : at[k] = i
          /\ \A k \in DOMAIN s : s[k] = coins[at[k]]

LEMMA InOrderPicks ==
    ASSUME NEW coins, NEW S, IsFiniteSet(S), S \subseteq DOMAIN coins,
           NEW R, IsOrder(R, S)
    PROVE  /\ Picks(InOrder(coins, S, R), coins, S)
           /\ Len(InOrder(coins, S, R)) = Cardinality(S)
<1> DEFINE place == [i \in S |-> Cardinality(Before(i, S, R))]
           n == Cardinality(S)
           at == [k \in 1 .. n |-> CHOOSE i \in S : place[i] = k - 1]
           s == [k \in 1 .. n |-> coins[at[k]]]
<1>1. /\ place \in [S -> 0 .. n - 1]
      /\ IsInjective(place)
      /\ \A m \in 0 .. n - 1 : \E i \in S : place[i] = m
  BY PlacesAreNumbers
<1>2. InOrder(coins, S, R) = s
  BY DEF InOrder, Before
<1>3. n \in Nat
  BY FS_CardinalityType
<1> HIDE DEF place, n
<1>4. \A k \in 1 .. n : at[k] \in S /\ place[at[k]] = k - 1
  <2> TAKE k \in 1 .. n
  <2>1. k - 1 \in 0 .. n - 1
    BY <1>3
  <2>2. \E i \in S : place[i] = k - 1
    BY <1>1, <2>1
  <2> QED
    BY <2>2
<1>5. at \in [1 .. n -> S]
  BY <1>4
<1> HIDE DEF at
<1>6. DOMAIN s = 1 .. n /\ Len(s) = n /\ s \in Seq(Range(coins))
  <2>1. \A k \in 1 .. n : coins[at[k]] \in Range(coins)
    BY <1>5 DEF Range
  <2> QED
    BY <1>3, <2>1
<1>7. IsInjective(at)
  BY <1>3, <1>4, <1>5 DEF IsInjective
<1>8. \A i \in S : \E k \in 1 .. n : at[k] = i
  <2> TAKE i \in S
  <2>1. place[i] + 1 \in 1 .. n /\ place[at[place[i] + 1]] = place[i]
    BY <1>1, <1>3, <1>4
  <2>2. at[place[i] + 1] = i
    BY <1>1, <1>4, <2>1 DEF IsInjective
  <2> QED
    BY <2>1, <2>2
<1>9. \A k \in DOMAIN s : s[k] = coins[at[k]]
  BY <1>6
<1> HIDE DEF s
<1>10. Picks(s, coins, S)
  BY <1>5, <1>6, <1>7, <1>8, <1>9 DEF Picks
<1> QED
  BY <1>2, <1>6, <1>10 DEF n

(* Coins with amounts, whose keys can be compared. *)
IsOffer(coins) ==
    /\ coins \in Seq(Range(coins))
    /\ \A c \in Range(coins) : c.amount \in Nat /\ KeyOrder(c.out) \in Int

LEMMA OfferIndices ==
    ASSUME NEW coins, IsOffer(coins)
    PROVE  /\ Len(coins) \in Nat /\ DOMAIN coins = 1 .. Len(coins)
           /\ DOMAIN coins \subseteq Nat
           /\ IsFiniteSet(DOMAIN coins) /\ Cardinality(DOMAIN coins) = Len(coins)
           /\ \A i \in DOMAIN coins : /\ coins[i] \in Range(coins)
                                      /\ coins[i].amount \in Nat
                                      /\ KeyOrder(coins[i].out) \in Int
<1>1. Len(coins) \in Nat /\ DOMAIN coins = 1 .. Len(coins)
  BY DEF IsOffer
<1>2. IsFiniteSet(DOMAIN coins) /\ Cardinality(DOMAIN coins) = Len(coins)
  <2> DEFINE n == Len(coins)
  <2>1. n \in Nat
    BY <1>1
  <2> HIDE DEF n
  <2>2. IsFiniteSet(1 .. n) /\ Cardinality(1 .. n) = n
    <3>1. 1 \in Int /\ n \in Int /\ (IF 1 > n THEN 0 ELSE n - 1 + 1) = n
      BY <2>1
    <3> QED
      BY <3>1, FS_Interval
  <2> QED
    BY <1>1, <2>2 DEF n
<1>3. \A i \in DOMAIN coins : coins[i] \in Range(coins)
  BY DEF Range
<1> QED
  BY <1>1, <1>2, <1>3 DEF IsOffer

LEMMA RisingIsOrder ==
    ASSUME NEW coins, IsOffer(coins), NEW S, S \subseteq DOMAIN coins
    PROVE  IsOrder(Rising(coins), S)
BY OfferIndices DEF IsOrder, Rising

LEMMA SizeIsOrder ==
    ASSUME NEW coins, IsOffer(coins), NEW sign \in {1, -1}
    PROVE  IsOrder(BySize(coins, sign), DOMAIN coins)
<1> DEFINE amount(i) == coins[i].amount
           key(i) == KeyOrder(coins[i].out)
           Sooner(i, j) == \/ sign * amount(i) < sign * amount(j)
                         \/ /\ amount(i) = amount(j)
                            /\ \/ key(i) < key(j)
                               \/ key(i) = key(j) /\ i < j
<1>1. \A i \in DOMAIN coins : i \in Nat /\ amount(i) \in Nat /\ key(i) \in Int
  BY OfferIndices
<1>2. \A i, j \in DOMAIN coins : <<i, j>> \in BySize(coins, sign) <=> Sooner(i, j)
  BY DEF BySize
<1> HIDE DEF amount, key
<1>3. \A i, j \in DOMAIN coins : Sooner(i, j) => ~Sooner(j, i)
  BY <1>1
<1>4. \A i, j \in DOMAIN coins : i = j \/ Sooner(i, j) \/ Sooner(j, i)
  BY <1>1
<1>5. \A i, j, k \in DOMAIN coins : Sooner(i, j) /\ Sooner(j, k) => Sooner(i, k)
  BY <1>1
<1> HIDE DEF Sooner
<1> QED
  BY <1>2, <1>3, <1>4, <1>5 DEF IsOrder

-----------------------------------------------------------------------------
(* What it means to pick coins. *)

Worths(coins) == [i \in DOMAIN coins |-> coins[i].amount]
WorthOf(coins, indices) == SumFunctionOnSet(Worths(coins), indices)

LEMMA CoinTotalIsWorth ==
    ASSUME NEW coins
    PROVE  CoinTotal(coins) = WorthOf(coins, DOMAIN coins)
BY DEF CoinTotal, WorthOf, Worths, SumFunction

(* A set of coins is worth no more than all. *)
LEMMA WorthMonotone ==
    ASSUME NEW coins, IsOffer(coins), NEW T \in SUBSET DOMAIN coins, NEW S \in SUBSET T
    PROVE  /\ WorthOf(coins, S) \in Nat
           /\ WorthOf(coins, T) \in Nat
           /\ WorthOf(coins, S) <= WorthOf(coins, T)
<1>1. IsFiniteSet(T)
  BY OfferIndices, FS_Subset
<1>2. \A i \in T : Worths(coins)[i] \in Nat
  BY OfferIndices DEF Worths
<1> QED
  BY <1>1, <1>2, SumMonotone DEF WorthOf

LEMMA PickedIsOffer ==
    ASSUME NEW coins, IsOffer(coins), NEW s, NEW S, Picks(s, coins, S)
    PROVE  /\ IsOffer(s)
           /\ Range(s) \subseteq Range(coins)
           /\ IsInjective(coins) => IsInjective(s)
<1>1. s \in Seq(Range(coins))
  BY DEF Picks
<1>2. Range(s) \subseteq Range(coins) /\ s \in Seq(Range(s))
  BY <1>1 DEF Range
<1>3. IsInjective(coins) => IsInjective(s)
  BY DEF Picks, IsInjective
<1> QED
  BY <1>2, <1>3 DEF IsOffer

(* What was picked is worth the coins it was picked from. *)
LEMMA PickedWorth ==
    ASSUME NEW coins, IsOffer(coins), NEW s, NEW S, Picks(s, coins, S)
    PROVE  /\ CoinTotal(s) = WorthOf(coins, S)
           /\ IsFiniteSet(S) /\ Len(s) = Cardinality(S)
<1>1. PICK at \in [DOMAIN s -> S] :
          /\ IsInjective(at)
          /\ \A i \in S : \E k \in DOMAIN s : at[k] = i
          /\ \A k \in DOMAIN s : s[k] = coins[at[k]]
  BY DEF Picks
<1>2. IsOffer(s) /\ S \subseteq DOMAIN coins
  BY PickedIsOffer DEF Picks
<1>3. IsFiniteSet(S)
  BY <1>2, OfferIndices, FS_Subset
<1>4. Len(s) = Cardinality(S)
  <2>1. at \in Surjection(DOMAIN s, S) /\ at \in Injection(DOMAIN s, S)
    BY <1>1 DEF Surjection, Injection
  <2>2. IsFiniteSet(DOMAIN s) /\ Cardinality(DOMAIN s) = Len(s)
    BY <1>2, OfferIndices
  <2> QED
    BY <2>1, <2>2, FS_Surjection
<1>5. CoinTotal(s) = WorthOf(coins, S)
  <2>1. IsFiniteSet(DOMAIN s) /\ \A k \in DOMAIN s : Worths(s)[k] \in Int
    BY <1>2, OfferIndices DEF Worths
  <2>2. \A k, l \in DOMAIN s : at[k] = at[l] => k = l
    BY <1>1 DEF IsInjective
  <2>3. \A k \in DOMAIN s : Worths(coins)[at[k]] = Worths(s)[k]
    BY <1>1, <1>2 DEF Worths
  <2>4. {at[k] : k \in DOMAIN s} = S
    BY <1>1
  <2>5. SumFunctionOnSet(Worths(coins), {at[k] : k \in DOMAIN s})
            = SumFunctionOnSet(Worths(s), DOMAIN s)
    BY <2>1, <2>2, <2>3, SumRenamed
  <2> QED
    BY <2>4, <2>5, CoinTotalIsWorth DEF WorthOf
<1> QED
  BY <1>3, <1>4, <1>5

(* Coins picked from coins that were picked are coins that were picked. *)
LEMMA PickedAgain ==
    ASSUME NEW coins, NEW t, NEW T, Picks(t, coins, T), NEW s, NEW S, Picks(s, t, S)
    PROVE  \E U \in SUBSET T : Picks(s, coins, U) /\ (S = DOMAIN t => U = T)
<1>1. PICK f \in [DOMAIN t -> T] :
          /\ IsInjective(f)
          /\ \A i \in T : \E k \in DOMAIN t : f[k] = i
          /\ \A k \in DOMAIN t : t[k] = coins[f[k]]
  BY DEF Picks
<1>2. PICK g \in [DOMAIN s -> S] :
          /\ IsInjective(g)
          /\ \A i \in S : \E k \in DOMAIN s : g[k] = i
          /\ \A k \in DOMAIN s : s[k] = t[g[k]]
  BY DEF Picks
<1>3. S \subseteq DOMAIN t /\ T \subseteq DOMAIN coins
  BY DEF Picks
<1> DEFINE U == {f[i] : i \in S}
           at == [k \in DOMAIN s |-> f[g[k]]]
<1>4. U \in SUBSET T /\ (S = DOMAIN t => U = T)
  BY <1>1, <1>3
<1>5. at \in [DOMAIN s -> U]
  BY <1>2, <1>3
<1>6. IsInjective(at)
  BY <1>1, <1>2, <1>3 DEF IsInjective
<1>7. \A i \in U : \E k \in DOMAIN s : at[k] = i
  BY <1>2
<1>8. \A k \in DOMAIN s : s[k] = coins[at[k]]
  BY <1>1, <1>2, <1>3
<1>9. s \in Seq(Range(coins))
  <2>1. s \in Seq(Range(t)) /\ t \in Seq(Range(coins))
    BY DEF Picks
  <2>2. Range(t) \subseteq Range(coins)
    BY <2>1 DEF Range
  <2> QED
    BY <2>1, <2>2
<1> HIDE DEF U, at
<1>10. Picks(s, coins, U)
  BY <1>3, <1>4, <1>5, <1>6, <1>7, <1>8, <1>9 DEF Picks
<1> QED
  BY <1>4, <1>10

(* The first coins are picked. *)
LEMMA PrefixPicks ==
    ASSUME NEW coins, IsOffer(coins), NEW n \in 0 .. Len(coins)
    PROVE  /\ Picks(SubSeq(coins, 1, n), coins, 1 .. n)
           /\ Len(SubSeq(coins, 1, n)) = n
<1> DEFINE s == SubSeq(coins, 1, n)
           at == [k \in 1 .. n |-> k]
<1>1. Len(coins) \in Nat /\ DOMAIN coins = 1 .. Len(coins) /\ coins \in Seq(Range(coins))
  BY OfferIndices DEF IsOffer
<1>2. n \in Nat /\ n <= Len(coins) /\ 1 .. n \subseteq DOMAIN coins
  BY <1>1
<1>3. /\ s \in Seq(Range(coins)) /\ DOMAIN s = 1 .. n /\ Len(s) = n
      /\ \A k \in 1 .. n : s[k] = coins[k]
  BY <1>1, <1>2
<1> HIDE DEF s
<1>4. at \in [1 .. n -> 1 .. n] /\ IsInjective(at) /\ \A k \in 1 .. n : at[k] = k
  BY DEF IsInjective
<1> HIDE DEF at
<1>5. Picks(s, coins, 1 .. n)
  BY <1>2, <1>3, <1>4 DEF Picks
<1> QED
  BY <1>3, <1>5 DEF s

-----------------------------------------------------------------------------
(* The methods. *)

(* A result of a method: coins of the offer, none twice, no more than a    *)
(* transaction may have, with their sum and whether it suffices.           *)
IsSelection(r, coins, target) ==
    /\ \E S \in SUBSET DOMAIN coins : Picks(r.selected, coins, S)
    /\ Len(r.selected) <= MaxInputs
    /\ r.total = CoinTotal(r.selected)
    /\ r.success = (r.total >= target)

LEMMA SortedPicks ==
    ASSUME NEW coins, IsOffer(coins)
    PROVE  /\ Picks(SmallestFirst(coins), coins, DOMAIN coins)
           /\ Picks(LargestFirst(coins), coins, DOMAIN coins)
           /\ IsOffer(SmallestFirst(coins)) /\ Len(SmallestFirst(coins)) = Len(coins)
           /\ IsOffer(LargestFirst(coins)) /\ Len(LargestFirst(coins)) = Len(coins)
<1>1. IsOrder(BySize(coins, 1), DOMAIN coins) /\ IsOrder(BySize(coins, -1), DOMAIN coins)
  BY SizeIsOrder
<1>2. IsFiniteSet(DOMAIN coins) /\ Cardinality(DOMAIN coins) = Len(coins)
  BY OfferIndices
<1>3. /\ Picks(SmallestFirst(coins), coins, DOMAIN coins)
      /\ Len(SmallestFirst(coins)) = Len(coins)
  BY <1>1, <1>2, InOrderPicks DEF SmallestFirst
<1>4. /\ Picks(LargestFirst(coins), coins, DOMAIN coins)
      /\ Len(LargestFirst(coins)) = Len(coins)
  BY <1>1, <1>2, InOrderPicks DEF LargestFirst
<1> QED
  BY <1>3, <1>4, PickedIsOffer

LEMMA FilteredPicks ==
    ASSUME NEW coins, IsOffer(coins), NEW S \in SUBSET DOMAIN coins
    PROVE  /\ Picks(Filtered(coins, S), coins, S)
           /\ Len(Filtered(coins, S)) = Cardinality(S)
           /\ IsOffer(Filtered(coins, S))
<1>1. IsFiniteSet(S) /\ IsOrder(Rising(coins), S)
  BY OfferIndices, FS_Subset, RisingIsOrder
<1>2. Picks(Filtered(coins, S), coins, S) /\ Len(Filtered(coins, S)) = Cardinality(S)
  BY <1>1, InOrderPicks DEF Filtered
<1> QED
  BY <1>2, PickedIsOffer

(* Taking the smallest coins finds enough if there is enough, and no more  *)
(* coins than a transaction may have.                                      *)
LEMMA SmallestIsSelection ==
    ASSUME NEW coins, IsOffer(coins), NEW target \in Nat
    PROVE  /\ IsSelection(SmallestAbove(coins, target), coins, target)
           /\ Len(coins) <= MaxInputs /\ CoinTotal(coins) >= target
                  => SmallestAbove(coins, target).success
<1> DEFINE sorted == SmallestFirst(coins)
           prefix(n) == SubSeq(sorted, 1, n)
           limit == Least(Len(coins), MaxInputs)
           enough == {n \in 1 .. limit : CoinTotal(prefix(n)) >= target}
           taken == IF enough = {} THEN limit ELSE Min(enough)
           r == SmallestAbove(coins, target)
<1>1. Picks(sorted, coins, DOMAIN coins) /\ IsOffer(sorted) /\ Len(sorted) = Len(coins)
  BY SortedPicks
<1>2. /\ limit \in Nat /\ limit <= Len(coins) /\ limit <= MaxInputs
      /\ Len(coins) \in Nat /\ MaxInputs \in Nat
      /\ Len(coins) <= MaxInputs => limit = Len(coins)
  BY OfferIndices, PolicyAssumption DEF Least
<1>3. r = Selected(prefix(taken), target)
  BY DEF SmallestAbove
<1> HIDE DEF sorted, limit, r
<1>4. taken \in 0 .. limit /\ (enough # {} => taken \in enough)
  <2>1. CASE enough = {}
    BY <1>2, <2>1
  <2>2. CASE enough # {}
    <3>1. enough \subseteq Nat
      BY <1>2
    <3>2. \E m \in enough : \A k \in enough : m <= k
      BY <2>2, <3>1, LeastNat
    <3>3. taken \in enough
      BY <2>2, <3>2 DEF Min
    <3> QED
      BY <1>2, <3>3
  <2> QED
    BY <2>1, <2>2
<1> HIDE DEF taken
<1>5. taken \in Nat /\ taken <= Len(sorted) /\ taken <= MaxInputs
  BY <1>1, <1>2, <1>4
<1>6. Picks(prefix(taken), sorted, 1 .. taken) /\ Len(prefix(taken)) = taken
  <2>1. taken \in 0 .. Len(sorted)
    BY <1>1, <1>2, <1>5
  <2> QED
    BY <1>1, <2>1, PrefixPicks
<1>7. \E S \in SUBSET DOMAIN coins : Picks(prefix(taken), coins, S)
  BY <1>1, <1>6, PickedAgain
<1> HIDE DEF prefix
<1>8. IsSelection(r, coins, target)
  BY <1>3, <1>5, <1>6, <1>7 DEF IsSelection, Selected
<1>9. ASSUME Len(coins) <= MaxInputs, CoinTotal(coins) >= target
      PROVE  r.success
  <2>1. Picks(prefix(limit), sorted, 1 .. limit) /\ DOMAIN sorted = 1 .. limit
    <3>1. limit \in 0 .. Len(sorted) /\ limit = Len(sorted)
      BY <1>1, <1>2, <1>9
    <3> QED
      BY <1>1, <3>1, PrefixPicks, OfferIndices DEF prefix
  <2>2. Picks(prefix(limit), coins, DOMAIN coins)
    BY <1>1, <2>1, PickedAgain
  <2>3. CoinTotal(prefix(limit)) = CoinTotal(coins)
    BY <2>2, PickedWorth, CoinTotalIsWorth
  <2>4. CASE enough = {}
    <3>1. taken = limit
      BY <2>4 DEF taken
    <3> QED
      BY <1>3, <1>9, <2>3, <3>1 DEF Selected
  <2>5. CASE enough # {}
    <3>1. CoinTotal(prefix(taken)) >= target
      BY <1>4, <2>5
    <3> QED
      BY <1>3, <3>1 DEF Selected
  <2> QED
    BY <2>4, <2>5
<1> QED
  BY <1>8, <1>9 DEF r

-----------------------------------------------------------------------------
(* The search. *)

LEMMA PowerSteps ==
    /\ Power[0] = 1
    /\ \A k \in 1 .. SearchLimit : Power[k] = 2 * Power[k - 1]
    /\ \A k \in 0 .. SearchLimit : Power[k] \in Nat \ {0}
<1> DEFINE last == SearchLimit
           F == [p \in Nat \X (1 .. last) |-> 2 * p[1]]
<1>1. last \in Nat
  BY PolicyAssumption
<1>2. IsStep(F, Nat, last)
  BY DEF IsStep
<1>3. \A x \in Nat : \A i \in 1 .. last : F[<<x, i>>] = 2 * x
  OBVIOUS
<1>4. Power = CHOOSE h : h = [k \in 0 .. last |-> IF k = 0 THEN 1 ELSE 2 * h[k - 1]]
  BY DEF Power
<1> HIDE DEF last, F
<1>5. PICK g : Iterates(g, F, Nat, last, 1)
  BY <1>1, <1>2, RecursionExists
<1>6. /\ g \in [0 .. last -> Nat]
      /\ g[0] = 1
      /\ \A i \in 1 .. last : g[i] = F[<<g[i - 1], i>>]
  BY <1>5 DEF Iterates
<1>7. ASSUME NEW k \in 0 .. last PROVE g[k] = IF k = 0 THEN 1 ELSE 2 * g[k - 1]
  <2>1. CASE k = 0
    BY <2>1, <1>6
  <2>2. CASE k # 0
    <3>1. k \in 1 .. last /\ k - 1 \in 0 .. last
      BY <2>2, <1>1
    <3> QED
      BY <2>2, <3>1, <1>3, <1>6
  <2> QED
    BY <2>1, <2>2
<1>8. g = [k \in 0 .. last |-> IF k = 0 THEN 1 ELSE 2 * g[k - 1]]
  BY <1>6, <1>7
<1>9. Power = [k \in 0 .. last |-> IF k = 0 THEN 1 ELSE 2 * Power[k - 1]]
  BY <1>4, <1>8
<1>10. Power[0] = 1 /\ \A k \in 1 .. last : Power[k] = 2 * Power[k - 1]
  <2>1. 0 \in 0 .. last /\ \A k \in 1 .. last : k \in 0 .. last /\ k # 0
    BY <1>1
  <2> QED
    BY <1>9, <2>1
<1> DEFINE Bad == {k \in 0 .. last : Power[k] \notin Nat \ {0}}
<1>11. Bad = {}
  <2> SUFFICES ASSUME Bad # {} PROVE FALSE
    OBVIOUS
  <2>1. Bad \subseteq Nat
    BY <1>1
  <2> HIDE DEF Bad
  <2>2. PICK k \in Bad : \A j \in Bad : k <= j
    BY <2>1, LeastNat
  <2> USE DEF Bad
  <2>3. k \in 1 .. last /\ k - 1 \in 0 .. last /\ ~(k <= k - 1)
    BY <1>1, <1>10
  <2>4. Power[k - 1] \in Nat \ {0}
    BY <2>2, <2>3
  <2>5. Power[k] = 2 * Power[k - 1]
    BY <1>10, <2>3
  <2> QED
    BY <2>4, <2>5
<1> QED
  BY <1>10, <1>11 DEF last

LEMMA TriedType ==
    ASSUME NEW coins, NEW target, NEW best, NEW mask
    PROVE  Tried(coins, best, mask, target) \in {best, mask}
BY DEF Tried

(* The masks that the search holds, one after the other. *)
LEMMA BestMaskSteps ==
    ASSUME NEW coins, Len(coins) \in 0 .. SearchLimit, NEW target
    PROVE  LET last == Power[Len(coins)] - 1
           IN  /\ last \in Nat
               /\ \E best \in [0 .. last -> 0 .. last] :
                     /\ best[0] = 0
                     /\ \A m \in 1 .. last : best[m] = Tried(coins, best[m - 1], m, target)
                     /\ BestMask(coins, target) = best[last]
<1> DEFINE last == Power[Len(coins)] - 1
           T == 0 .. last
           F == [p \in T \X (1 .. last) |-> Tried(coins, p[1], p[2], target)]
           best == CHOOSE h : h = [m \in 0 .. last |->
                       IF m = 0 THEN 0 ELSE Tried(coins, h[m - 1], m, target)]
<1>1. last \in Nat
  BY PowerSteps
<1>2. BestMask(coins, target) = best[last]
  BY DEF BestMask
<1> HIDE DEF last
<1>3. 0 \in T /\ \A m \in 1 .. last : m \in T /\ m - 1 \in T
  BY <1>1
<1>4. \A x \in T : \A m \in 1 .. last : Tried(coins, x, m, target) \in T
  BY <1>3, TriedType
<1>5. IsStep(F, T, last)
  BY <1>4 DEF IsStep
<1>6. \A x \in T : \A m \in 1 .. last : F[<<x, m>>] = Tried(coins, x, m, target)
  OBVIOUS
<1> HIDE DEF T, F
<1>7. PICK g : Iterates(g, F, T, last, 0)
  BY <1>1, <1>3, <1>5, RecursionExists
<1>8. /\ g \in [0 .. last -> T]
      /\ g[0] = 0
      /\ \A m \in 1 .. last : g[m] = F[<<g[m - 1], m>>]
  BY <1>7 DEF Iterates
<1>9. ASSUME NEW m \in 0 .. last
      PROVE  g[m] = IF m = 0 THEN 0 ELSE Tried(coins, g[m - 1], m, target)
  <2>1. CASE m = 0
    BY <2>1, <1>8
  <2>2. CASE m # 0
    <3>1. m \in 1 .. last /\ m - 1 \in 0 .. last
      BY <2>2, <1>1
    <3>2. g[m - 1] \in T /\ g[m] = F[<<g[m - 1], m>>]
      BY <3>1, <1>8
    <3> QED
      BY <2>2, <3>1, <3>2, <1>6
  <2> QED
    BY <2>1, <2>2
<1>10. g = [m \in 0 .. last |-> IF m = 0 THEN 0 ELSE Tried(coins, g[m - 1], m, target)]
  BY <1>8, <1>9
<1>11. best = [m \in 0 .. last |-> IF m = 0 THEN 0 ELSE Tried(coins, best[m - 1], m, target)]
  BY <1>10
<1> HIDE DEF best
<1>12. best[0] = 0 /\ \A m \in 1 .. last : best[m] = Tried(coins, best[m - 1], m, target)
  <2>1. 0 \in 0 .. last /\ \A m \in 1 .. last : m \in 0 .. last /\ m # 0
    BY <1>1
  <2> QED
    BY <1>11, <2>1
<1> DEFINE Bad == {k \in 0 .. last : best[k] \notin T}
<1>13. Bad = {}
  <2> SUFFICES ASSUME Bad # {} PROVE FALSE
    OBVIOUS
  <2>1. Bad \subseteq Nat
    BY <1>1
  <2> HIDE DEF Bad
  <2>2. PICK k \in Bad : \A j \in Bad : k <= j
    BY <2>1, LeastNat
  <2> USE DEF Bad
  <2>3. k \in 1 .. last /\ k - 1 \in 0 .. last /\ ~(k <= k - 1)
    BY <1>1, <1>3, <1>12
  <2>4. best[k - 1] \in T
    BY <2>2, <2>3
  <2>5. best[k] = Tried(coins, best[k - 1], k, target)
    BY <1>12, <2>3
  <2> QED
    BY <1>4, <2>2, <2>3, <2>4, <2>5
<1>14. best \in [0 .. last -> T]
  <2>1. \A m \in 0 .. last : best[m] \in T
    BY <1>13
  <2> HIDE DEF Bad
  <2> QED
    BY <1>11, <2>1
<1>15. best \in [0 .. last -> 0 .. last]
  BY <1>14 DEF T
<1>16. BestMask(coins, target) = best[last]
  BY <1>2 DEF best
<1> QED
  BY <1>1, <1>12, <1>15, <1>16 DEF last

(* Change that can be an output, or none. *)
Fits(waste) == waste = 0 \/ waste >= MinChange

(* The search leaves the least change of all masks whose change fits. *)
LEMMA BestMaskIsBest ==
    ASSUME NEW coins, Len(coins) \in 0 .. SearchLimit, NEW target,
           \A m \in 0 .. Power[Len(coins)] - 1 : Waste(coins, m, target) \in Int
    PROVE  LET best == BestMask(coins, target)
               waste(m) == Waste(coins, m, target)
           IN  /\ best \in 0 .. Power[Len(coins)] - 1
               /\ best # 0 => waste(best) >= 0 /\ Fits(waste(best))
               /\ \A m \in 1 .. Power[Len(coins)] - 1 :
                     Fits(waste(m)) => best # 0 /\ waste(best) <= waste(m)
<1> DEFINE last == Power[Len(coins)] - 1
           waste(m) == Waste(coins, m, target)
<1>1. last \in Nat /\ MinChange \in Nat
  BY BestMaskSteps, PolicyAssumption
<1>2. PICK best \in [0 .. last -> 0 .. last] :
          /\ best[0] = 0
          /\ \A m \in 1 .. last : best[m] = Tried(coins, best[m - 1], m, target)
          /\ BestMask(coins, target) = best[last]
  BY BestMaskSteps
<1>3. \A m \in 0 .. last : waste(m) \in Int
  OBVIOUS
<1>4. \A b, m \in 0 .. last :
          Tried(coins, b, m, target) =
              IF /\ b = 0 \/ waste(b) # 0
                 /\ waste(m) >= 0
                 /\ waste(m) = 0 \/ (waste(m) >= MinChange /\ (b = 0 \/ waste(m) < waste(b)))
              THEN m ELSE b
  BY DEF Tried, Improves
<1> HIDE DEF last, waste
<1> DEFINE Good(n) == /\ best[n] # 0 => waste(best[n]) >= 0 /\ Fits(waste(best[n]))
                      /\ \A m \in 1 .. n :
                            Fits(waste(m)) => best[n] # 0 /\ waste(best[n]) <= waste(m)
           Bad == {n \in 0 .. last : ~Good(n)}
<1>5. Bad = {}
  <2> SUFFICES ASSUME Bad # {} PROVE FALSE
    OBVIOUS
  <2>1. Bad \subseteq Nat
    BY <1>1
  <2> HIDE DEF Bad
  <2>2. PICK n \in Bad : \A j \in Bad : n <= j
    BY <2>1, LeastNat
  <2> USE DEF Bad
  <2>3. n \in 0 .. last /\ n \in Nat /\ ~Good(n)
    BY <2>1, <2>2
  <2>4. n # 0
    BY <1>2, <2>3
  <2>5. n \in 1 .. last /\ n - 1 \in 0 .. last /\ ~(n <= n - 1)
    BY <1>1, <2>3, <2>4
  <2>6. Good(n - 1)
    BY <2>2, <2>5
  <2> DEFINE b == best[n - 1]
             c == best[n]
  <2>7. b \in 0 .. last /\ c \in 0 .. last
    BY <1>2, <2>3, <2>5
  <2>8. c = IF /\ b = 0 \/ waste(b) # 0
               /\ waste(n) >= 0
               /\ waste(n) = 0 \/ (waste(n) >= MinChange /\ (b = 0 \/ waste(n) < waste(b)))
            THEN n ELSE b
    BY <1>2, <1>4, <2>3, <2>5, <2>7
  <2>9. waste(n) \in Int /\ waste(b) \in Int
    BY <1>3, <2>3, <2>7
  <2>10. /\ b # 0 => waste(b) >= 0 /\ Fits(waste(b))
         /\ \A m \in 1 .. n - 1 : Fits(waste(m)) => b # 0 /\ waste(b) <= waste(m)
    BY <2>6
  <2> HIDE DEF b, c, Bad, Good
  <2>11. c # 0 => waste(c) >= 0 /\ Fits(waste(c))
    BY <1>1, <2>4, <2>8, <2>9, <2>10 DEF Fits
  <2>12. ASSUME NEW m \in 1 .. n, Fits(waste(m)) PROVE c # 0 /\ waste(c) <= waste(m)
    <3>1. m \in 0 .. last /\ waste(m) \in Int
      BY <1>1, <1>3, <2>3
    <3>2. CASE m = n
      BY <1>1, <2>4, <2>8, <2>9, <2>10, <2>12, <3>2 DEF Fits
    <3>3. CASE m # n
      <4>1. b # 0 /\ waste(b) <= waste(m) /\ waste(b) >= 0
        <5>1. m \in 1 .. n - 1
          BY <2>3, <3>3
        <5> QED
          BY <2>10, <2>12, <5>1
      <4> QED
        BY <1>1, <2>4, <2>8, <2>9, <3>1, <4>1
    <3> QED
      BY <3>2, <3>3
  <2>13. Good(n)
    BY <2>11, <2>12 DEF Good, c
  <2> QED
    BY <2>3, <2>13
<1>6. Good(last)
  <2>1. last \in 0 .. last
    BY <1>1
  <2> QED
    BY <1>5, <2>1
<1>7. best[last] \in 0 .. last
  BY <1>1, <1>2
<1>8. best[last] = BestMask(coins, target)
  BY <1>2
<1> QED
  BY <1>6, <1>7, <1>8 DEF last, waste

LEMMA QuotientIs ==
    ASSUME NEW x \in Nat, NEW q \in Nat, NEW d \in Nat \ {0}, NEW r \in 0 .. d - 1, x = q * d + r
    PROVE  x \div d = q
<1> DEFINE p == x \div d
           t == x % d
<1>1. p \in Nat /\ t \in 0 .. d - 1 /\ x = p * d + t
  BY SMTT(30)
<1> HIDE DEF p, t
<1>2. ASSUME NEW a \in Nat, NEW b \in Nat, NEW u \in 0 .. d - 1, NEW v \in 0 .. d - 1,
             a * d + u = b * d + v
      PROVE  ~(a >= b + 1)
  <2> SUFFICES ASSUME a >= b + 1 PROVE FALSE
    OBVIOUS
  <2>1. PICK c \in Nat : a = b + 1 + c
    <3>1. a - b - 1 \in Nat /\ a = b + 1 + (a - b - 1)
      OBVIOUS
    <3> QED
      BY <3>1
  <2>2. a * d = b * d + d + c * d
    BY <2>1
  <2>3. c * d \in Nat /\ b * d \in Nat
    OBVIOUS
  <2> QED
    BY <1>2, <2>2, <2>3
<1>3. ~(p >= q + 1) /\ ~(q >= p + 1)
  BY <1>1, <1>2
<1> QED
  BY <1>1, <1>3 DEF p

(* Without its lowest bit a number has the other bits one place lower. *)
LEMMA HalvedQuotient ==
    ASSUME NEW m \in Nat, NEW b \in {0, 1}, NEW d \in Nat \ {0}
    PROVE  (2 * m + b) \div (2 * d) = m \div d
<1> DEFINE q == m \div d
           r == m % d
<1>1. q \in Nat /\ r \in 0 .. d - 1 /\ m = q * d + r
  BY SMTT(30)
<1> HIDE DEF q, r
<1>2. 2 * m + b = q * (2 * d) + (2 * r + b)
  BY <1>1
<1>3. 2 * r + b \in 0 .. 2 * d - 1 /\ 2 * d \in Nat \ {0} /\ 2 * m + b \in Nat
  BY <1>1
<1>4. (2 * m + b) \div (2 * d) = q
  BY <1>1, <1>2, <1>3, QuotientIs
<1> QED
  BY <1>4 DEF q

IsMask(mask, n, S) == \A i \in 1 .. n : ((mask \div Power[i - 1]) % 2 = 1) <=> i \in S

(* Every set of numbers up to n is the bits of a mask.                     *)
LEMMA MaskExists ==
    ASSUME NEW n \in 0 .. SearchLimit
    PROVE  \A S \in SUBSET (1 .. n) : \E mask \in 0 .. Power[n] - 1 : IsMask(mask, n, S)
<1> DEFINE All(k) == \A S \in SUBSET (1 .. k) : \E mask \in 0 .. Power[k] - 1 : IsMask(mask, k, S)
           Bad == {k \in 0 .. SearchLimit : ~All(k)}
<1>1. SearchLimit \in Nat
  BY PolicyAssumption
<1>2. Bad = {}
  <2> SUFFICES ASSUME Bad # {} PROVE FALSE
    OBVIOUS
  <2>1. Bad \subseteq Nat
    BY <1>1
  <2> HIDE DEF Bad
  <2>2. PICK k \in Bad : \A j \in Bad : k <= j
    BY <2>1, LeastNat
  <2> USE DEF Bad
  <2>3. k \in 0 .. SearchLimit /\ ~All(k)
    BY <2>2
  <2>4. k # 0
    <3>1. 0 \in 0 .. Power[0] - 1 /\ \A S : IsMask(0, 0, S)
      BY PowerSteps DEF IsMask
    <3> QED
      BY <2>3, <3>1
  <2>5. k \in 1 .. SearchLimit /\ k - 1 \in 0 .. SearchLimit /\ ~(k <= k - 1)
    BY <1>1, <2>3, <2>4
  <2>6. All(k - 1)
    BY <2>2, <2>5
  <2>7. Power[k] = 2 * Power[k - 1] /\ Power[k - 1] \in Nat \ {0}
    BY <2>5, PowerSteps
  <2>8. ASSUME NEW S \in SUBSET (1 .. k)
        PROVE  \E mask \in 0 .. Power[k] - 1 : IsMask(mask, k, S)
    <3> DEFINE T == {i \in 1 .. k - 1 : i + 1 \in S}
               b == IF 1 \in S THEN 1 ELSE 0
    <3>1. T \in SUBSET (1 .. k - 1)
      OBVIOUS
    <3>2. PICK m \in 0 .. Power[k - 1] - 1 : IsMask(m, k - 1, T)
      BY <2>6, <3>1
    <3> DEFINE mask == 2 * m + b
    <3>3. mask \in 0 .. Power[k] - 1 /\ m \in Nat /\ b \in {0, 1}
      BY <2>7
    <3>4. ASSUME NEW i \in 1 .. k PROVE ((mask \div Power[i - 1]) % 2 = 1) <=> i \in S
      <4>1. CASE i = 1
        <5>1. Power[i - 1] = 1
          BY <4>1, PowerSteps
        <5>2. mask \div 1 = mask /\ (mask % 2 = 1 <=> b = 1)
          BY <3>3
        <5> QED
          BY <4>1, <5>1, <5>2
      <4>2. CASE i # 1
        <5>1. i - 1 \in 1 .. k - 1 /\ i - 1 \in 1 .. SearchLimit /\ (i - 1) - 1 \in 0 .. SearchLimit
          <6>1. k \in Nat /\ i \in Nat /\ 1 <= i /\ i <= k /\ k <= SearchLimit
            BY <1>1, <2>5
          <6> QED
            BY <1>1, <4>2, <6>1
        <5>2. /\ Power[i - 1] = 2 * Power[(i - 1) - 1]
              /\ Power[(i - 1) - 1] \in Nat \ {0}
          BY <5>1, PowerSteps
        <5>3. mask \div Power[i - 1] = m \div Power[(i - 1) - 1]
          BY <3>3, <5>2, HalvedQuotient
        <5>4. ((m \div Power[(i - 1) - 1]) % 2 = 1) <=> i - 1 \in T
          BY <3>2, <5>1 DEF IsMask
        <5>5. i - 1 \in T <=> i \in S
          BY <5>1
        <5> QED
          BY <5>3, <5>4, <5>5
      <4> QED
        BY <4>1, <4>2
    <3> QED
      BY <3>3, <3>4 DEF IsMask
  <2> QED
    BY <2>3, <2>8
<1> QED
  BY <1>2

(* What a mask leaves as change is what its coins are worth too much.      *)
LEMMA WasteIs ==
    ASSUME NEW coins, IsOffer(coins), NEW mask, NEW target \in Nat
    PROVE  /\ Bits(coins, mask) \in SUBSET DOMAIN coins
           /\ Picks(Chosen(coins, mask), coins, Bits(coins, mask))
           /\ Len(Chosen(coins, mask)) <= Len(coins)
           /\ CoinTotal(Chosen(coins, mask)) = WorthOf(coins, Bits(coins, mask))
           /\ WorthOf(coins, Bits(coins, mask)) \in Nat
           /\ Waste(coins, mask, target) = WorthOf(coins, Bits(coins, mask)) - target
<1> DEFINE S == Bits(coins, mask)
<1>1. S \in SUBSET DOMAIN coins
  BY DEF Bits
<1> HIDE DEF S
<1>2. Picks(Filtered(coins, S), coins, S) /\ Len(Filtered(coins, S)) = Cardinality(S)
  BY <1>1, FilteredPicks
<1>3. Cardinality(S) <= Len(coins)
  BY <1>1, OfferIndices, FS_Subset
<1>4. CoinTotal(Filtered(coins, S)) = WorthOf(coins, S)
  BY <1>2, PickedWorth
<1>5. WorthOf(coins, S) \in Nat
  <2>1. DOMAIN coins \in SUBSET DOMAIN coins
    OBVIOUS
  <2> QED
    BY <1>1, <2>1, WorthMonotone
<1> QED
  BY <1>1, <1>2, <1>3, <1>4, <1>5 DEF Waste, Chosen, S

(* What is searched: the largest of the coins that are worth spending.     *)
LEMMA UsablePicks ==
    ASSUME NEW coins, IsOffer(coins)
    PROVE  /\ Picks(Usable(coins), coins, Worthwhile(coins))
           /\ IsOffer(Usable(coins))
           /\ Len(Usable(coins)) = Cardinality(Worthwhile(coins))
<1>1. Worthwhile(coins) \in SUBSET DOMAIN coins
  BY DEF Worthwhile
<1> DEFINE t == Filtered(coins, Worthwhile(coins))
<1>2. Picks(t, coins, Worthwhile(coins)) /\ Len(t) = Cardinality(Worthwhile(coins)) /\ IsOffer(t)
  BY <1>1, FilteredPicks
<1> HIDE DEF t
<1>3. /\ Picks(LargestFirst(t), t, DOMAIN t)
      /\ IsOffer(LargestFirst(t)) /\ Len(LargestFirst(t)) = Len(t)
  BY <1>2, SortedPicks
<1>4. Picks(LargestFirst(t), coins, Worthwhile(coins))
  BY <1>2, <1>3, PickedAgain
<1> QED
  BY <1>2, <1>3, <1>4 DEF Usable, t

LEMMA SearchedPicks ==
    ASSUME NEW coins, IsOffer(coins)
    PROVE  /\ \E T \in SUBSET Worthwhile(coins) :
                 /\ Picks(Searched(coins), coins, T)
                 /\ Cardinality(Worthwhile(coins)) <= MaxInputs => T = Worthwhile(coins)
           /\ IsOffer(Searched(coins))
           /\ Len(Searched(coins)) <= MaxInputs
           /\ Cardinality(Worthwhile(coins)) <= MaxInputs
                  => Len(Searched(coins)) = Cardinality(Worthwhile(coins))
<1> DEFINE all == Usable(coins)
           n == Least(Len(all), MaxInputs)
<1>1. /\ Picks(all, coins, Worthwhile(coins)) /\ IsOffer(all)
      /\ Len(all) = Cardinality(Worthwhile(coins))
  BY UsablePicks
<1> HIDE DEF all
<1>2. /\ n \in 0 .. Len(all) /\ n <= MaxInputs /\ Len(all) \in Nat
      /\ Len(all) <= MaxInputs => n = Len(all)
  BY <1>1, OfferIndices, PolicyAssumption DEF Least
<1>3. Searched(coins) = SubSeq(all, 1, n)
  BY DEF Searched, all
<1> HIDE DEF n
<1>4. Picks(Searched(coins), all, 1 .. n) /\ Len(Searched(coins)) = n
  BY <1>1, <1>2, <1>3, PrefixPicks
<1>5. IsOffer(Searched(coins))
  BY <1>1, <1>4, PickedIsOffer
<1>6. PICK T \in SUBSET Worthwhile(coins) :
          Picks(Searched(coins), coins, T) /\ (1 .. n = DOMAIN all => T = Worthwhile(coins))
  BY <1>1, <1>4, PickedAgain
<1>7. Len(all) <= MaxInputs => 1 .. n = DOMAIN all
  BY <1>1, <1>2, OfferIndices
<1> QED
  BY <1>1, <1>2, <1>4, <1>5, <1>6, <1>7

LEMMA SearchIsSelection ==
    ASSUME NEW coins, IsOffer(coins), NEW target \in Nat
    PROVE  /\ IsSelection(BranchAndBound(coins, target), coins, target)
           /\ /\ Cardinality(Worthwhile(coins)) <= MaxInputs
              /\ WorthOf(coins, Worthwhile(coins)) >= target
              => BranchAndBound(coins, target).success
<1> DEFINE top == Searched(coins)
           best == BestMask(top, target)
           all == Usable(coins)
           r == BranchAndBound(coins, target)
<1>1. IsOffer(top) /\ Len(top) <= MaxInputs
  BY SearchedPicks
<1>2. PICK T \in SUBSET Worthwhile(coins) : Picks(top, coins, T)
  BY SearchedPicks
<1>3. Worthwhile(coins) \in SUBSET DOMAIN coins
  BY DEF Worthwhile
<1>4. r = IF Len(top) < SearchLimit /\ best # 0
          THEN Selected(Chosen(top, best), target)
          ELSE SmallestAbove(all, target)
  BY DEF BranchAndBound
<1> HIDE DEF top, r
<1>5. CASE Len(top) < SearchLimit /\ best # 0
  <2>1. Len(top) \in 0 .. SearchLimit
    BY <1>1, <1>5, OfferIndices, PolicyAssumption
  <2>2. \A m \in 0 .. Power[Len(top)] - 1 : Waste(top, m, target) \in Int
    BY <1>1, WasteIs
  <2>3. Waste(top, best, target) >= 0
    BY <1>5, <2>1, <2>2, BestMaskIsBest
  <2> HIDE DEF best
  <2> DEFINE s == Chosen(top, best)
  <2>4. /\ Picks(s, top, Bits(top, best)) /\ Len(s) <= Len(top)
        /\ CoinTotal(s) \in Nat
        /\ Waste(top, best, target) = CoinTotal(s) - target
    BY <1>1, WasteIs
  <2>5. IsOffer(s) /\ Len(s) \in Nat /\ Len(top) \in Nat
    BY <1>1, <2>4, PickedIsOffer, OfferIndices
  <2>6. r = Selected(s, target)
    BY <1>4, <1>5
  <2> HIDE DEF s
  <2>7. \E S \in SUBSET T : Picks(s, coins, S)
    BY <1>2, <2>4, PickedAgain
  <2>8. Len(s) <= MaxInputs
    BY <1>1, <2>4, <2>5, PolicyAssumption
  <2>9. IsSelection(r, coins, target)
    BY <1>2, <1>3, <2>6, <2>7, <2>8 DEF IsSelection, Selected
  <2>10. CoinTotal(s) >= target
    BY <2>3, <2>4
  <2>11. r.success
    BY <2>6, <2>10 DEF Selected
  <2> QED
    BY <2>9, <2>11 DEF r
<1>6. CASE ~(Len(top) < SearchLimit /\ best # 0)
  <2>1. /\ Picks(all, coins, Worthwhile(coins)) /\ IsOffer(all)
        /\ Len(all) = Cardinality(Worthwhile(coins))
    BY UsablePicks
  <2>2. r = SmallestAbove(all, target)
    BY <1>4, <1>6
  <2> HIDE DEF all
  <2>3. /\ IsSelection(r, all, target)
        /\ Len(all) <= MaxInputs /\ CoinTotal(all) >= target => r.success
    BY <2>1, <2>2, SmallestIsSelection
  <2>4. PICK S \in SUBSET DOMAIN all : Picks(r.selected, all, S)
    BY <2>3 DEF IsSelection
  <2>5. \E U \in SUBSET Worthwhile(coins) : Picks(r.selected, coins, U)
    BY <2>1, <2>4, PickedAgain
  <2>6. IsSelection(r, coins, target)
    BY <1>3, <2>3, <2>5 DEF IsSelection
  <2>7. CoinTotal(all) = WorthOf(coins, Worthwhile(coins))
    BY <2>1, PickedWorth
  <2> QED
    BY <2>1, <2>3, <2>6, <2>7 DEF r
<1> QED
  BY <1>5, <1>6

(* The coins behind some of the coins that were picked. *)
LEMMA PickedPart ==
    ASSUME NEW coins, IsOffer(coins), NEW t, NEW T, Picks(t, coins, T)
    PROVE  /\ \A S \in SUBSET T : \E U \in SUBSET DOMAIN t :
                 WorthOf(t, U) = WorthOf(coins, S) /\ (U = {} => S = {})
           /\ \A U \in SUBSET DOMAIN t : \E S \in SUBSET T :
                 WorthOf(t, U) = WorthOf(coins, S) /\ (S = {} => U = {})
<1>1. PICK at \in [DOMAIN t -> T] :
          /\ IsInjective(at)
          /\ \A i \in T : \E k \in DOMAIN t : at[k] = i
          /\ \A k \in DOMAIN t : t[k] = coins[at[k]]
  BY DEF Picks
<1>2. IsOffer(t) /\ T \subseteq DOMAIN coins
  BY PickedIsOffer DEF Picks
<1>3. ASSUME NEW U \in SUBSET DOMAIN t PROVE WorthOf(t, U) = WorthOf(coins, {at[k] : k \in U})
  <2>1. IsFiniteSet(U) /\ \A k \in U : Worths(t)[k] \in Int
    BY <1>2, OfferIndices, FS_Subset DEF Worths
  <2>2. \A k, l \in U : at[k] = at[l] => k = l
    BY <1>1 DEF IsInjective
  <2>3. \A k \in U : Worths(coins)[at[k]] = Worths(t)[k]
    BY <1>1, <1>2 DEF Worths
  <2> QED
    BY <2>1, <2>2, <2>3, SumRenamed DEF WorthOf
<1>4. ASSUME NEW S \in SUBSET T
      PROVE  \E U \in SUBSET DOMAIN t : WorthOf(t, U) = WorthOf(coins, S) /\ (U = {} => S = {})
  <2> DEFINE U == {k \in DOMAIN t : at[k] \in S}
  <2>1. {at[k] : k \in U} = S
    BY <1>1
  <2>2. U \in SUBSET DOMAIN t
    OBVIOUS
  <2>3. WorthOf(t, U) = WorthOf(coins, {at[k] : k \in U})
    BY <1>3, <2>2
  <2> QED
    BY <2>1, <2>2, <2>3
<1>5. ASSUME NEW U \in SUBSET DOMAIN t
      PROVE  \E S \in SUBSET T : WorthOf(t, U) = WorthOf(coins, S) /\ (S = {} => U = {})
  <2> DEFINE S == {at[k] : k \in U}
  <2>1. S \in SUBSET T /\ (S = {} => U = {})
    BY <1>1
  <2>2. WorthOf(t, U) = WorthOf(coins, S)
    BY <1>3
  <2> HIDE DEF S
  <2> QED
    BY <2>1, <2>2
<1> QED
  BY <1>4, <1>5

(* The search finds the least change that can be an output, or none.       *)
LEMMA SearchFindsBest ==
    ASSUME NEW coins, IsOffer(coins), NEW target \in Nat \ {0},
           Cardinality(Worthwhile(coins)) < SearchLimit,
           Cardinality(Worthwhile(coins)) <= MaxInputs,
           NEW S \in SUBSET Worthwhile(coins), S # {}, WorthOf(coins, S) >= target,
           Fits(WorthOf(coins, S) - target)
    PROVE  LET r == BranchAndBound(coins, target)
           IN  /\ r.success
               /\ r.total <= WorthOf(coins, S)
               /\ Fits(r.total - target)
               /\ \E B \in SUBSET Worthwhile(coins) : B # {} /\ r.total = WorthOf(coins, B)
<1> DEFINE top == Searched(coins)
           n == Len(top)
           best == BestMask(top, target)
           waste(m) == Waste(top, m, target)
           r == BranchAndBound(coins, target)
<1>1. /\ Picks(top, coins, Worthwhile(coins)) /\ IsOffer(top)
      /\ n = Cardinality(Worthwhile(coins))
  BY SearchedPicks
<1>2. r = IF n < SearchLimit /\ best # 0
          THEN Selected(Chosen(top, best), target)
          ELSE SmallestAbove(Usable(coins), target)
  BY DEF BranchAndBound
<1> HIDE DEF top, r
<1>3. n \in 0 .. SearchLimit /\ n < SearchLimit /\ DOMAIN top = 1 .. n
  BY <1>1, OfferIndices, PolicyAssumption
<1>4. PICK U \in SUBSET DOMAIN top : WorthOf(top, U) = WorthOf(coins, S) /\ U # {}
  BY <1>1, PickedPart
<1>5. PICK m \in 0 .. Power[n] - 1 : IsMask(m, n, U)
  BY <1>3, <1>4, MaskExists
<1>6. Bits(top, m) = U
  BY <1>3, <1>4, <1>5 DEF Bits, IsMask
<1>7. m # 0
  <2>1. \A i \in 1 .. n : (0 \div Power[i - 1]) % 2 # 1
    <3> TAKE i \in 1 .. n
    <3>1. i - 1 \in 0 .. SearchLimit
      <4>1. SearchLimit \in Nat /\ n \in Nat /\ n <= SearchLimit /\ i \in Nat /\ 1 <= i /\ i <= n
        BY <1>3, PolicyAssumption
      <4> HIDE DEF n
      <4> QED
        BY <4>1
    <3>2. Power[i - 1] \in Nat \ {0}
      BY <3>1, PowerSteps
    <3>3. 0 = 0 * Power[i - 1] + 0 /\ 0 \in 0 .. Power[i - 1] - 1
      BY <3>2
    <3>4. 0 \div Power[i - 1] = 0
      BY <3>2, <3>3, QuotientIs
    <3> QED
      BY <3>4
  <2> QED
    BY <1>3, <1>4, <1>6, <2>1 DEF Bits
<1>8. \A k \in 0 .. Power[n] - 1 : waste(k) \in Int
  BY <1>1, WasteIs
<1>9. Power[n] \in Nat
  BY <1>3, PowerSteps
<1>10. waste(m) = WorthOf(coins, S) - target
  BY <1>1, <1>4, <1>6, WasteIs
<1>11. best # 0 /\ waste(best) <= waste(m) /\ waste(best) >= 0 /\ Fits(waste(best))
  <2>1. m \in 1 .. Power[n] - 1
    BY <1>7, <1>9
  <2> QED
    BY <1>3, <1>8, <1>10, <2>1, BestMaskIsBest
<1> HIDE DEF best
<1> DEFINE s == Chosen(top, best)
<1>12. /\ CoinTotal(s) = WorthOf(top, Bits(top, best))
       /\ Bits(top, best) \in SUBSET DOMAIN top
       /\ CoinTotal(s) \in Nat
       /\ waste(best) = CoinTotal(s) - target
  BY <1>1, WasteIs
<1>13. Bits(top, best) # {} \/ CoinTotal(s) = 0
  BY <1>12, SumOfNothing DEF WorthOf
<1>14. r = Selected(s, target)
  BY <1>2, <1>3, <1>11
<1>15. PICK B \in SUBSET Worthwhile(coins) :
           WorthOf(top, Bits(top, best)) = WorthOf(coins, B) /\ (B = {} => Bits(top, best) = {})
  BY <1>1, <1>12, PickedPart
<1> HIDE DEF s, waste
<1>16. WorthOf(coins, S) \in Nat
  <2>1. Worthwhile(coins) \in SUBSET DOMAIN coins
    BY DEF Worthwhile
  <2> QED
    BY <2>1, WorthMonotone
<1>17. CoinTotal(s) >= target /\ CoinTotal(s) <= WorthOf(coins, S) /\ Fits(CoinTotal(s) - target)
  BY <1>10, <1>11, <1>12, <1>16
<1>18. B # {}
  <2>1. CoinTotal(s) # 0
    BY <1>12, <1>17
  <2> QED
    BY <1>13, <1>15, <2>1
<1>19. r.success /\ r.total = CoinTotal(s)
  BY <1>14, <1>17 DEF Selected
<1>20. /\ r.success
       /\ r.total <= WorthOf(coins, S)
       /\ Fits(r.total - target)
       /\ r.total = WorthOf(coins, B)
  BY <1>12, <1>15, <1>17, <1>19
<1> QED
  BY <1>18, <1>20 DEF r

(* The coins of one address, if one has enough.                            *)
LEMMA OwnerIsSelection ==
    ASSUME NEW coins, IsOffer(coins), NEW target \in Nat, NEW owner
    PROVE  /\ IsSelection(BranchAndBound(OwnedBy(coins, owner), target), coins, target)
           /\ BranchAndBound(OwnedBy(coins, owner), target).success /\ target # 0
                  => owner \in Owners(coins)
<1> DEFINE S == {i \in DOMAIN coins : coins[i].owner = owner}
           t == OwnedBy(coins, owner)
           r == BranchAndBound(t, target)
<1>1. S \in SUBSET DOMAIN coins /\ t = Filtered(coins, S)
  BY DEF OwnedBy
<1> HIDE DEF S, t, r
<1>2. Picks(t, coins, S) /\ IsOffer(t)
  BY <1>1, FilteredPicks
<1>3. IsSelection(r, t, target)
  BY <1>2, SearchIsSelection DEF r
<1>4. PICK U \in SUBSET DOMAIN t : Picks(r.selected, t, U)
  BY <1>3 DEF IsSelection
<1>5. PICK V \in SUBSET S : Picks(r.selected, coins, V)
  BY <1>2, <1>4, PickedAgain
<1>6. IsSelection(r, coins, target)
  BY <1>1, <1>3, <1>5 DEF IsSelection
<1>7. ASSUME r.success, target # 0 PROVE owner \in Owners(coins)
  <2>1. r.total >= target /\ r.total = WorthOf(coins, V)
    BY <1>3, <1>5, <1>7, PickedWorth DEF IsSelection
  <2>2. V # {}
    <3> SUFFICES ASSUME V = {} PROVE FALSE
      OBVIOUS
    <3>1. WorthOf(coins, V) = 0
      BY SumOfNothing DEF WorthOf
    <3> QED
      BY <1>7, <2>1, <3>1
  <2>3. PICK i \in S : TRUE
    BY <2>2
  <2> QED
    BY <2>3 DEF S, Owners
<1> QED
  BY <1>6, <1>7 DEF r, t
=============================================================================
