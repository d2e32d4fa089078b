--------------------------- MODULE AlgorithmProofs ---------------------------
(***************************************************************************)
(* What the functions of the code compute, for every input: theorems about *)
(* the machine of MCAlgorithms, which computes one of them once.  And what *)
(* the search for a nonce finds: theorems about PowEngine for any number   *)
(* of threads, any hash and any width of the counters.                     *)
(***************************************************************************)
EXTENDS MCAlgorithms, PowEngine, SelectionProofs, SequenceTheorems

-----------------------------------------------------------------------------
(* What the machine has computed. *)

CoinTasks == {"smallest", "consolidation", "search", "privacy"}

IsComputed ==
    /\ input.kind = "coins" => input \in CoinInputs
    /\ input.kind = "blocks" => input \in WorkInputs
    /\ input.kind = "amount" => input \in AmountInputs
    /\ input.kind = "start" => input \in StartInputs
    /\ task \in CoinTasks => input.kind = "coins"
    /\ task = "smallest" => answer = SmallestAbove(input.coins, input.target)
    /\ task = "consolidation" => answer = Consolidation(input.coins, input.target)
    /\ task = "search" => answer = BranchAndBound(input.coins, input.target)
    /\ task = "privacy" => answer \in PrivacyAware(input.coins, input.target)
    /\ task = "work" => input.kind = "blocks" /\ answer = CalculateNextWorkRequired(input.blocks)
    /\ task = "read" => input.kind = "amount" /\ answer = FromCoinsString(input.text)
    /\ task \in {"node", "wallet"} => input.kind = "start"
    /\ task = "node" => answer = Node(input.args, input.env, input.files, input.provider)
    /\ task = "wallet" => answer = WalletProgram(input.args, input.env, input.files, input.provider)
    /\ task = "node" => answer = Node(input.args, input.env, input.files, input.provider)
    /\ task = "wallet" => answer = WalletProgram(input.args, input.env, input.files, input.provider)

LEMMA ComputedInit == Init => IsComputed
<1> SUFFICES ASSUME Init PROVE IsComputed
  OBVIOUS
<1>1. task = "none"
  BY DEF Init
<1>2. /\ input.kind = "coins" => input \in CoinInputs
      /\ input.kind = "blocks" => input \in WorkInputs
      /\ input.kind = "amount" => input \in AmountInputs
      /\ input.kind = "start" => input \in StartInputs
  <2>1. /\ \A in \in CoinInputs : in.kind = "coins"
        /\ \A in \in WorkInputs : in.kind = "blocks"
        /\ \A in \in AmountInputs : in.kind = "amount"
        /\ \A in \in StartInputs : in.kind = "start"
    BY DEF CoinInputs, WorkInputs, AmountInputs, StartInputs
  <2> QED
    BY <2>1 DEF Init
<1> QED
  BY <1>1, <1>2 DEF IsComputed, CoinTasks

LEMMA ComputedStep == IsComputed /\ [Next]_vars => IsComputed'
<1> USE DEF IsComputed, CoinTasks
<1> SUFFICES ASSUME IsComputed, [Next]_vars PROVE IsComputed'
  OBVIOUS
<1>1. CASE UNCHANGED vars
  <2>1. UNCHANGED <<task, input, answer>>
    BY <1>1 DEF vars
  <2> QED
    BY <2>1
<1>2. CASE Compute("smallest", "coins", LAMBDA in : {SmallestAbove(in.coins, in.target)})
  BY <1>2 DEF Compute
<1>3. CASE Compute("consolidation", "coins", LAMBDA in : {Consolidation(in.coins, in.target)})
  BY <1>3 DEF Compute
<1>4. CASE Compute("search", "coins", LAMBDA in : {BranchAndBound(in.coins, in.target)})
  BY <1>4 DEF Compute
<1>5. CASE Compute("privacy", "coins", LAMBDA in : PrivacyAware(in.coins, in.target))
  BY <1>5 DEF Compute
<1>6. CASE Compute("work", "blocks", LAMBDA in : {CalculateNextWorkRequired(in.blocks)})
  BY <1>6 DEF Compute
<1>7. CASE Compute("read", "amount", LAMBDA in : {FromCoinsString(in.text)})
  BY <1>7 DEF Compute
<1>8. CASE Compute("node", "start", LAMBDA in : {Node(in.args, in.env, in.files, in.provider)})
  BY <1>8 DEF Compute
<1>9. CASE Compute("wallet", "start", LAMBDA in : {WalletProgram(in.args, in.env, in.files, in.provider)})
  BY <1>9 DEF Compute
<1>10. CASE Compute("miner", "start", LAMBDA in : {MinerProgram(in.args)})
  BY <1>10 DEF Compute
<1> QED
  BY <1>1, <1>2, <1>3, <1>4, <1>5, <1>6, <1>7, <1>8, <1>9, <1>10 DEF Next

LEMMA AlwaysComputed == Spec => []IsComputed
BY ComputedInit, ComputedStep, PTL DEF Spec

-----------------------------------------------------------------------------
(* Coins. *)

(* The coins a machine starts with can be offered, and no two are one. *)
LEMMA CoinInputsAreOffers ==
    ASSUME NEW in \in CoinInputs
    PROVE  /\ in.target \in Nat \ {0}
           /\ IsOffer(in.coins) /\ IsInjective(in.coins)
<1>1. in.target \in 1 .. MaxTarget
  BY DEF CoinInputs
<1>2. PICK q \in Offers : in.coins = [i \in DOMAIN q |-> [q[i] EXCEPT !.out = i]]
  BY DEF CoinInputs
<1>3. PICK n \in 0 .. MaxCoins : q \in [1 .. n -> [out : {0}, amount : Amount, owner : Owner]]
  BY DEF Offers
<1> DEFINE c == in.coins
<1>4. /\ DOMAIN c = 1 .. n
      /\ \A i \in 1 .. n : c[i].out = i /\ c[i].amount \in Amount
  BY <1>2, <1>3
<1> HIDE DEF c
<1>5. c \in [1 .. n -> Range(c)]
  BY <1>2, <1>4 DEF Range, c
<1>6. n \in Nat /\ n <= MaxCoins
  BY <1>3, InputAssumption
<1>7. c \in Seq(Range(c))
  BY <1>5, <1>6
<1>8. \A k \in Range(c) : k.amount \in Nat /\ KeyOrder(k.out) \in Int
  <2> TAKE k \in Range(c)
  <2>1. PICK i \in 1 .. n : k = c[i]
    BY <1>4 DEF Range
  <2>2. i \in 1 .. MaxCoins /\ k.out = i /\ k.amount \in Amount
    BY <1>4, <1>6, <2>1, InputAssumption
  <2> QED
    BY <2>2, InputAssumption
<1>9. IsInjective(c)
  BY <1>4 DEF IsInjective
<1> QED
  BY <1>1, <1>7, <1>8, <1>9, InputAssumption DEF IsOffer, c

-----------------------------------------------------------------------------
(* What a selection is worth. *)

LEMMA TotalIsWorth ==
    ASSUME NEW indices
    PROVE  Total(indices) = WorthOf(input.coins, indices) /\ Worth = Worthwhile(input.coins)
BY DEF Total, WorthOf, Worths, Worth, Worthwhile

LEMMA FoundIsSound ==
    ASSUME NEW coins, IsOffer(coins), IsInjective(coins), NEW target,
           NEW r, IsSelection(r, coins, target)
    PROVE  /\ Range(r.selected) \subseteq Range(coins)
           /\ IsInjective(r.selected)
           /\ Len(r.selected) <= MaxInputs
           /\ r.total = CoinTotal(r.selected)
           /\ r.success <=> r.total >= target
<1>1. PICK S \in SUBSET DOMAIN coins : Picks(r.selected, coins, S)
  BY DEF IsSelection
<1> QED
  BY <1>1, PickedIsOffer DEF IsSelection

(* There are no more coins worth spending than coins. *)
LEMMA WorthwhileAreFew ==
    ASSUME NEW coins, IsOffer(coins)
    PROVE  /\ Worthwhile(coins) \in SUBSET DOMAIN coins
           /\ Cardinality(Worthwhile(coins)) \in Nat
           /\ Cardinality(Worthwhile(coins)) <= Len(coins)
           /\ WorthOf(coins, Worthwhile(coins)) \in Nat
           /\ WorthOf(coins, Worthwhile(coins)) <= CoinTotal(coins)
           /\ CoinTotal(coins) \in Nat
<1>1. Worthwhile(coins) \in SUBSET DOMAIN coins
  BY DEF Worthwhile
<1>2. /\ IsFiniteSet(DOMAIN coins) /\ Cardinality(DOMAIN coins) = Len(coins)
      /\ Len(coins) \in Nat
  BY OfferIndices
<1>3. /\ IsFiniteSet(Worthwhile(coins))
      /\ Cardinality(Worthwhile(coins)) <= Cardinality(DOMAIN coins)
  BY <1>1, <1>2, FS_Subset
<1>4. Cardinality(Worthwhile(coins)) \in Nat
  BY <1>3, FS_CardinalityType
<1>5. /\ WorthOf(coins, Worthwhile(coins)) \in Nat
      /\ WorthOf(coins, DOMAIN coins) \in Nat
      /\ WorthOf(coins, Worthwhile(coins)) <= WorthOf(coins, DOMAIN coins)
  BY <1>1, WorthMonotone
<1> QED
  BY <1>1, <1>2, <1>3, <1>4, <1>5, CoinTotalIsWorth

(* Whatever coins a wallet offers, and whichever method selects, the       *)
(* result is a payment, and whoever has the money can pay.                 *)
THEOREM SelectionIsSound == Spec => []SelectionSound
<1>1. IsComputed => SelectionSound
  <2> SUFFICES ASSUME IsComputed, task \in CoinTasks, task = "privacy" => OneOwnerSuffices
               PROVE  SelectionSound
    BY DEF SelectionSound, CoinTasks
  <2> DEFINE coins == input.coins
             target == input.target
             enough == Len(coins) <= MaxInputs /\ Total(Worth) >= target
  <2>1. target \in Nat /\ target # 0 /\ IsOffer(coins) /\ IsInjective(coins)
    BY CoinInputsAreOffers DEF IsComputed
  <2>2. /\ MaxInputs \in Nat
        /\ Total(Worth) = WorthOf(coins, Worthwhile(coins))
    BY TotalIsWorth, PolicyAssumption
  <2>3. /\ Cardinality(Worthwhile(coins)) \in Nat
        /\ Cardinality(Worthwhile(coins)) <= Len(coins)
        /\ WorthOf(coins, Worthwhile(coins)) \in Nat
        /\ WorthOf(coins, Worthwhile(coins)) <= CoinTotal(coins)
        /\ CoinTotal(coins) \in Nat
        /\ Len(coins) \in Nat
    BY <2>1, WorthwhileAreFew, OfferIndices
  <2>4. SUFFICES IsSelection(answer, coins, target) /\ (enough => answer.success)
    <3>1. ASSUME IsSelection(answer, coins, target) /\ (enough => answer.success)
          PROVE  SelectionSound
      <4>1. /\ Range(answer.selected) \subseteq Range(coins)
            /\ IsInjective(answer.selected)
            /\ Len(answer.selected) <= MaxInputs
            /\ answer.total = CoinTotal(answer.selected)
            /\ answer.success <=> answer.total >= target
        BY <2>1, <3>1, FoundIsSound
      <4> QED
        BY <3>1, <4>1 DEF SelectionSound
    <3> QED
      BY <3>1
  <2>5. CASE task \in {"smallest", "consolidation"}
    <3>1. answer = SmallestAbove(coins, target)
      BY <2>5 DEF IsComputed, Consolidation
    <3>2. enough => CoinTotal(coins) >= target
      BY <2>1, <2>2, <2>3
    <3> QED
      BY <2>1, <3>1, <3>2, SmallestIsSelection
  <2>6. CASE task = "search"
    <3>1. answer = BranchAndBound(coins, target)
      BY <2>6 DEF IsComputed
    <3>2. enough => /\ Cardinality(Worthwhile(coins)) <= MaxInputs
                    /\ WorthOf(coins, Worthwhile(coins)) >= target
      BY <2>1, <2>2, <2>3
    <3> QED
      BY <2>1, <3>1, <3>2, SearchIsSelection
  <2>7. CASE task = "privacy"
    <3>1. PICK owner \in Owner : BranchAndBound(OwnedBy(coins, owner), target).success
      BY <2>7 DEF OneOwnerSuffices
    <3>2. owner \in Owners(coins)
      BY <2>1, <3>1, OwnerIsSelection
    <3>3. PICK a \in Owners(coins) : /\ answer = BranchAndBound(OwnedBy(coins, a), target)
                                     /\ answer.success
      BY <2>7, <3>1, <3>2 DEF IsComputed, PrivacyAware
    <3> QED
      BY <2>1, <3>3, OwnerIsSelection
  <2> QED
    BY <2>5, <2>6, <2>7 DEF CoinTasks
<1> QED
  BY <1>1, AlwaysComputed, PTL

(* The search leaves the least change of all sets of coins that are worth  *)
(* spending, of those whose change can be an output or is none.            *)
THEOREM SearchFindsTheBest == Spec => []SearchIsBest
<1>1. IsComputed => SearchIsBest
  <2> DEFINE coins == input.coins
             target == input.target
             fit == {s \in Covering(Worth) :
                       Total(s) = target \/ Total(s) >= target + MinChange}
             worths == {Total(s) : s \in fit}
  <2> SUFFICES ASSUME IsComputed, task = "search", Cardinality(Worth) < SearchLimit, fit # {}
               PROVE  answer.total = Min(worths)
    BY DEF SearchIsBest
  <2>1. /\ target \in Nat \ {0} /\ IsOffer(coins)
        /\ answer = BranchAndBound(coins, target)
    BY CoinInputsAreOffers DEF IsComputed, CoinTasks
  <2>2. /\ Worth = Worthwhile(coins)
        /\ \A s : Total(s) = WorthOf(coins, s)
    BY TotalIsWorth
  <2>3. /\ Worthwhile(coins) \in SUBSET DOMAIN coins
        /\ Cardinality(Worthwhile(coins)) \in Nat
        /\ Cardinality(Worthwhile(coins)) <= MaxInputs
        /\ Cardinality(Worthwhile(coins)) < SearchLimit
    BY <2>1, <2>2, WorthwhileAreFew, InputAssumption, PolicyAssumption
  <2>4. MinChange \in Nat
    BY PolicyAssumption
  <2>5. \A s \in SUBSET Worthwhile(coins) : WorthOf(coins, s) \in Nat
    BY <2>1, <2>3, WorthMonotone
  <2>6. fit = {s \in SUBSET Worthwhile(coins) :
                  s # {} /\ WorthOf(coins, s) >= target /\ Fits(WorthOf(coins, s) - target)}
    <3>1. \A s \in SUBSET Worthwhile(coins) :
              (Total(s) = target \/ Total(s) >= target + MinChange)
                 <=> Fits(WorthOf(coins, s) - target)
      BY <2>1, <2>2, <2>4, <2>5 DEF Fits
    <3> QED
      BY <2>2, <3>1 DEF Covering
  <2> HIDE DEF fit
  <2>7. \A s \in fit : /\ answer.success
                       /\ answer.total <= WorthOf(coins, s)
                       /\ Fits(answer.total - target)
                       /\ \E B \in SUBSET Worthwhile(coins) :
                             B # {} /\ answer.total = WorthOf(coins, B)
    BY <2>1, <2>3, <2>6, SearchFindsBest
  <2>8. PICK B \in SUBSET Worthwhile(coins) : B # {} /\ answer.total = WorthOf(coins, B)
    BY <2>7
  <2>9. answer.total >= target /\ Fits(answer.total - target)
    <3>1. answer.success /\ Fits(answer.total - target)
      BY <2>7
    <3>2. IsSelection(answer, coins, target)
      BY <2>1, SearchIsSelection
    <3> QED
      BY <3>1, <3>2 DEF IsSelection
  <2>10. B \in fit
    BY <2>6, <2>8, <2>9
  <2>11. answer.total \in worths /\ answer.total \in Nat
    BY <2>2, <2>5, <2>8, <2>10
  <2>12. \A w \in worths : w \in Nat /\ answer.total <= w
    BY <2>2, <2>5, <2>6, <2>7
  <2>13. \A w \in worths : (\A v \in worths : w =< v) => w = answer.total
    <3> SUFFICES ASSUME NEW w \in worths, \A v \in worths : w =< v PROVE w = answer.total
      OBVIOUS
    <3> HIDE DEF worths
    <3> QED
      BY <2>11, <2>12
  <2> QED
    BY <2>11, <2>12, <2>13 DEF Min
<1> QED
  BY <1>1, AlwaysComputed, PTL

-----------------------------------------------------------------------------
(* Work. *)

LEMMA WeightIs == Powers(Weight, Base)
<1>1. Weight = CHOOSE p : p = [k \in Nat |-> IF k = 0 THEN 1 ELSE Base * p[k - 1]]
  BY DEF Weight
<1>2. Weight = CHOOSE p : PowerTable(p, Base)
  BY <1>1 DEF PowerTable
<1> QED
  BY <1>2, PowersAre, DifficultyAssumption

LEMMA WeightType == \A k \in Nat : Weight[k] \in Nat \ {0}
BY WeightIs DEF Powers

LEMMA WeightStep == \A k \in Nat : Weight[k + 1] = Base * Weight[k]
BY WeightIs DEF Powers

LEMMA WeightOfSum == \A i, j \in Nat : Weight[i + j] = Weight[i] * Weight[j]
BY WeightIs, PowerOfSum, DifficultyAssumption

LEMMA WeightsRise == \A i, j \in Nat : i <= j => Weight[i] <= Weight[j]
BY WeightIs, PowersRise, DifficultyAssumption

(* Half a mantissa is a number of bytes, since a byte has an even number   *)
(* of values.                                                              *)
LEMMA HalfIs ==
    /\ Base \in Nat /\ Base >= 2
    /\ Half \in Nat \ {0}
    /\ Weight[0] = 1 /\ Weight[1] = Base /\ Weight[2] = Base * Base
    /\ Weight[3] = 2 * Half
    /\ Weight[2] <= Half
    /\ \E c \in Nat : Half = c * Base
<1>1. Base \in Nat \ {0} /\ Base % 2 = 0
  BY DifficultyAssumption
<1>2. PICK c \in Nat : Base = 2 * c
  <2>1. Base \div 2 \in Nat /\ Base = 2 * (Base \div 2)
    BY <1>1
  <2> QED
    BY <2>1
<1>3. c >= 1 /\ Base >= 2
  BY <1>1, <1>2
<1>4. /\ Weight[0] = 1
      /\ \A k \in Nat : Weight[k] \in Nat \ {0} /\ Weight[k + 1] = Base * Weight[k]
  BY WeightIs DEF Powers
<1>5. Weight[1] = Base /\ Weight[2] = Base * Base /\ Weight[3] = Base * (Base * Base)
  <2>1. 0 + 1 = 1 /\ 1 + 1 = 2 /\ 2 + 1 = 3 /\ 0 \in Nat /\ 1 \in Nat /\ 2 \in Nat
    OBVIOUS
  <2>2. /\ Weight[1] = Base * Weight[0]
        /\ Weight[2] = Base * Weight[1]
        /\ Weight[3] = Base * Weight[2]
    BY <1>4, <2>1
  <2>3. Base * 1 = Base
    BY <1>1
  <2> QED
    BY <1>4, <2>2, <2>3
<1> DEFINE d == Base * Base
<1>6. d \in Nat \ {0}
  BY <1>1
<1>7. Weight[3] = 2 * (c * d)
  <2>1. \A x, y \in Nat : (2 * x) * y = 2 * (x * y)
    OBVIOUS
  <2> QED
    BY <1>2, <1>5, <1>6, <2>1
<1>8. c * d \in Nat /\ Half = c * d
  <2>1. c * d \in Nat
    BY <1>6
  <2>2. \A x \in Nat : (2 * x) \div 2 = x
    OBVIOUS
  <2> QED
    BY <1>7, <2>1, <2>2 DEF Half
<1>9. d <= c * d /\ c * d # 0
  <2>1. \A x \in Nat \ {0}, y \in Nat \ {0} : y <= x * y /\ x * y # 0
    OBVIOUS
  <2> QED
    BY <1>3, <1>6, <2>1
<1>10. \E e \in Nat : Half = e * Base
  <2>1. c * Base \in Nat /\ c * d = (c * Base) * Base
    <3>1. \A x, y \in Nat : x * (y * y) = (x * y) * y
      OBVIOUS
    <3> QED
      BY <1>1, <3>1
  <2> QED
    BY <1>8, <2>1
<1> QED
  BY <1>1, <1>3, <1>4, <1>5, <1>7, <1>8, <1>9, <1>10

-----------------------------------------------------------------------------
(* The compact form of x forgets its last j bytes. *)
Level(x, j) ==
    /\ x < Half * Weight[j]
    /\ j = 0 \/ x >= Half * Weight[j - 1]

Rounded(x) == CompactToTarget(TargetToCompact(x))

LEMMA SizeIs ==
    ASSUME NEW x \in Nat, x < Highest
    PROVE  LET size == Min({n \in 0 .. Digits : x < Weight[n]})
           IN  /\ size \in 0 .. Digits
               /\ x < Weight[size]
               /\ size # 0 => x >= Weight[size - 1]
<1> DEFINE S == {n \in 0 .. Digits : x < Weight[n]}
           size == Min(S)
<1>1. Digits \in Nat /\ Digits \in S /\ S \subseteq Nat
  BY DifficultyAssumption DEF Highest
<1>2. PICK m \in S : \A n \in S : m <= n
  BY <1>1, LeastNat
<1>3. size \in S /\ \A n \in S : size <= n
  <2> HIDE DEF S
  <2> QED
    BY <1>2 DEF Min
<1> HIDE DEF size
<1>4. ASSUME size # 0 PROVE x >= Weight[size - 1]
  <2>1. size - 1 \in 0 .. Digits /\ ~(size <= size - 1)
    <3>1. size \in 0 .. Digits
      BY <1>3
    <3> QED
      BY <1>1, <1>4, <3>1
  <2>2. size - 1 \notin S
    BY <1>3, <2>1
  <2>3. ~(x < Weight[size - 1])
    BY <2>1, <2>2
  <2>4. Weight[size - 1] \in Nat
    BY <2>1, WeightType
  <2> QED
    BY <2>3, <2>4
<1> QED
  BY <1>3, <1>4 DEF size
(* Quotients. *)
LEMMA QuotientOfProduct == \A x \in Nat, w \in Nat \ {0} : (x * w) \div w = x
OBVIOUS

LEMMA QuotientBounds ==
    ASSUME NEW x \in Nat, NEW w \in Nat \ {0}
    PROVE  /\ x \div w \in Nat
           /\ (x \div w) * w <= x
           /\ \A k \in Nat : x >= k * w <=> x \div w >= k
<1> DEFINE q == x \div w
<1>1. q \in Nat /\ q * w <= x /\ x < q * w + w
  OBVIOUS
<1> HIDE DEF q
<1>2. ASSUME NEW k \in Nat PROVE x >= k * w <=> q >= k
  <2>1. ASSUME q >= k PROVE x >= k * w
    <3>1. q * w >= k * w
      BY <1>1, <2>1
    <3> QED
      BY <1>1, <3>1
  <2>2. ASSUME k > q PROVE x < k * w
    <3>1. k >= q + 1 /\ (q + 1) * w = q * w + w
      BY <1>1, <2>2
    <3>2. \A a, b \in Nat : a >= b => a * w >= b * w
      OBVIOUS
    <3>3. k * w >= (q + 1) * w
      BY <1>1, <3>1, <3>2
    <3> QED
      BY <1>1, <3>1, <3>3
  <2>3. x \in Int /\ k * w \in Int
    OBVIOUS
  <2> QED
    BY <1>1, <2>1, <2>2, <2>3
<1> QED
  BY <1>1, <1>2 DEF q

LEMMA QuotientTwice ==
    \A x \in Nat, v \in Nat \ {0}, w \in Nat \ {0} : (x \div v) \div w = x \div (v * w)
OBVIOUS

LEMMA RoundIs ==
    ASSUME NEW x \in Nat, x < Highest
    PROVE  \E j \in Nat : Level(x, j) /\ Rounded(x) = (x \div Weight[j]) * Weight[j]
<1> DEFINE size == Min({n \in 0 .. Digits : x < Weight[n]})
           m == IF size <= 3 THEN x * Weight[3 - size] ELSE x \div Weight[size - 3]
           bits == TargetToCompact(x)
<1>1. size \in Nat /\ x < Weight[size] /\ (size # 0 => x >= Weight[size - 1])
  BY SizeIs
<1>2. bits = IF m >= Half THEN [exponent |-> size + 1, mantissa |-> m \div Base]
             ELSE [exponent |-> size, mantissa |-> m]
  BY DEF TargetToCompact
<1>h. Highest \in Nat
  BY WeightType, DifficultyAssumption DEF Highest
<1>b. /\ Base \in Nat \ {0} /\ Base >= 2
      /\ Half \in Nat \ {0} /\ 2 * Half \in Nat
      /\ Weight[0] = 1 /\ Weight[1] = Base
      /\ Weight[2] \in Nat /\ Weight[2] <= Half
      /\ Weight[3] = 2 * Half /\ Weight[3] = Weight[2] * Base
  <2>1. /\ Base \in Nat /\ Base >= 2 /\ Half \in Nat \ {0}
        /\ Weight[0] = 1 /\ Weight[1] = Base /\ Weight[2] <= Half /\ Weight[3] = 2 * Half
    BY HalfIs
  <2>2. Weight[2] \in Nat /\ Weight[2 + 1] = Base * Weight[2]
    BY WeightType, WeightStep
  <2> QED
    BY <2>1, <2>2
<1>c. CompactToTarget(bits) =
          IF bits.exponent <= 3 THEN (bits.mantissa % Half) \div Weight[3 - bits.exponent]
          ELSE ((bits.mantissa % Half) * Weight[bits.exponent - 3]) % Highest
  BY DEF CompactToTarget
<1>s. \A n \in Nat : n < Half => n % Half = n
  BY <1>b
<1>t. \A n \in Nat : n <= x => n % Highest = n
  BY <1>h
<1>r. Rounded(x) = CompactToTarget(bits)
  BY DEF Rounded
<1> HIDE DEF size, bits
<1>3. CASE size <= 3
  <2> DEFINE k == 3 - size
  <2>1. k \in Nat /\ size + k = 3 /\ m = x * Weight[k]
    BY <1>1, <1>3
  <2> HIDE DEF m, k
  <2>2. Weight[k] \in Nat \ {0} /\ Weight[size] \in Nat \ {0} /\ Weight[size] * Weight[k] = Weight[3]
    <3>1. Weight[size + k] = Weight[size] * Weight[k]
      BY <1>1, <2>1, WeightOfSum
    <3> QED
      BY <1>1, <2>1, <3>1, WeightType
  <2>3. m \in Nat /\ m < Weight[3] /\ x <= m
    <3>1. \A a, b, w \in Nat : w # 0 /\ a < b => a * w < b * w /\ a * w \in Nat /\ a <= a * w
      OBVIOUS
    <3> QED
      BY <1>1, <2>1, <2>2, <3>1
  <2>4. (x \div Weight[0]) * Weight[0] = x
    BY <1>b
  <2>5. x < Half => Level(x, 0)
    BY <1>b DEF Level
  <2>6. CASE m < Half
    <3>1. bits.exponent = size /\ bits.mantissa = m
      <4>1. ~(m >= Half)
        BY <2>3, <2>6, <1>b
      <4> QED
        BY <1>2, <4>1 DEF m
    <3>2. CompactToTarget(bits) = m \div Weight[k]
      BY <1>3, <1>c, <1>s, <2>3, <2>6, <3>1 DEF k
    <3>3. m \div Weight[k] = x
      BY <2>1, <2>2, QuotientOfProduct
    <3>4. x < Half
      BY <2>3, <2>6, <1>b
    <3> QED
      BY <1>r, <2>4, <2>5, <3>2, <3>3, <3>4
  <2>7. CASE m >= Half
    <3>1. bits.exponent = size + 1 /\ bits.mantissa = m \div Base
      BY <1>2, <2>7 DEF m
    <3>2. m \div Base \in Nat /\ m \div Base < Half
      <4>1. Weight[3] = Weight[2] * Base /\ Weight[2] \in Nat
        BY <1>b
      <4>2. ~(m >= Weight[2] * Base)
        BY <2>3, <4>1, <1>b
      <4>3. Base \in Nat \ {0}
        BY <1>b
      <4>4. m \div Base \in Nat /\ ~(m \div Base >= Weight[2])
        BY <2>3, <4>1, <4>2, <4>3, QuotientBounds
      <4> QED
        BY <4>1, <4>4, <1>b
    <3>3. CASE k = 0
      <4>1. size = 3 /\ m = x
        BY <1>1, <2>1, <3>3, <1>b
      <4>2. CompactToTarget(bits) = ((m \div Base) * Weight[1]) % Highest
        <5>1. ~(bits.exponent <= 3) /\ bits.exponent - 3 = 1
          BY <3>1, <4>1
        <5> QED
          BY <1>c, <1>s, <3>1, <3>2, <5>1
      <4>3. (x \div Base) * Base \in Nat /\ (x \div Base) * Base <= x
        BY <1>b, QuotientBounds
      <4>4. CompactToTarget(bits) = (x \div Weight[1]) * Weight[1]
        BY <1>t, <4>1, <4>2, <4>3, <1>b
      <4>5. Level(x, 1)
        <5>1. x < Half * Base
          <6>1. x < 2 * Half
            BY <2>3, <4>1, <1>b
          <6>2. \A h \in Nat, b \in Nat : b >= 2 => 2 * h <= h * b
            OBVIOUS
          <6>3. 2 * Half <= Half * Base /\ 2 * Half \in Int /\ Half * Base \in Int
            BY <6>2, <1>b
          <6> QED
            BY <6>1, <6>3
        <5>2. x >= Half * Weight[1 - 1]
          BY <2>7, <4>1, <1>b
        <5> QED
          BY <5>1, <5>2, <1>b DEF Level
      <4> QED
        BY <1>r, <4>4, <4>5
    <3>4. CASE k # 0
      <4>1. k - 1 \in Nat /\ (k - 1) + 1 = k /\ size <= 2 /\ size + (k - 1) = 2
        BY <1>1, <2>1, <3>4
      <4>2. Weight[k] = Weight[k - 1] * Base /\ Weight[k - 1] \in Nat \ {0}
        <5>1. Weight[(k - 1) + 1] = Base * Weight[k - 1] /\ Weight[k - 1] \in Nat \ {0}
          BY <4>1, WeightType, WeightStep
        <5> QED
          BY <4>1, <5>1, <1>b
      <4>3. m \div Base = x * Weight[k - 1]
        <5>1. m = (x * Weight[k - 1]) * Base
          <6>1. \A a, b, c \in Nat : a * (b * c) = (a * b) * c
            OBVIOUS
          <6> QED
            BY <2>1, <4>2, <6>1, <1>b
        <5>2. x * Weight[k - 1] \in Nat /\ Base \in Nat \ {0}
          BY <4>2, <1>b
        <5> QED
          BY <5>1, <5>2, QuotientOfProduct
      <4>4. CompactToTarget(bits) = (m \div Base) \div Weight[k - 1]
        <5>1. bits.exponent <= 3 /\ 3 - bits.exponent = k - 1
          BY <1>1, <2>1, <3>1, <4>1
        <5> QED
          BY <1>c, <1>s, <3>1, <3>2, <5>1
      <4>5. CompactToTarget(bits) = x
        BY <4>2, <4>3, <4>4, QuotientOfProduct
      <4>6. x < Half
        <5>1. Weight[size] <= Weight[2]
          BY <1>1, <4>1, WeightsRise
        <5>2. Weight[size] \in Nat /\ Weight[2] \in Nat /\ Weight[2] <= Half /\ Half \in Nat
          BY <1>1, <1>b, WeightType
        <5> QED
          BY <1>1, <5>1, <5>2
      <4> QED
        BY <1>r, <2>4, <2>5, <4>5, <4>6
    <3> QED
      BY <3>3, <3>4
  <2> QED
    BY <2>3, <2>6, <2>7, <1>b
<1>4. CASE size > 3
  <2> DEFINE d == size - 3
  <2>1. d \in Nat /\ d # 0 /\ d + 3 = size /\ m = x \div Weight[d] /\ ~(size <= 3)
    BY <1>1, <1>4
  <2> HIDE DEF m, d
  <2>2. Weight[d] \in Nat \ {0} /\ Weight[size] = (2 * Half) * Weight[d]
    <3>1. Weight[d] \in Nat \ {0} /\ Weight[d + 3] = Weight[d] * Weight[3]
      BY <2>1, WeightType, WeightOfSum
    <3> QED
      BY <2>1, <3>1, <1>b
  <2>3. m \in Nat /\ m * Weight[d] <= x /\ \A k \in Nat : x >= k * Weight[d] <=> m >= k
    BY <2>1, <2>2, QuotientBounds
  <2>4. m < 2 * Half
    <3>1. ~(x >= (2 * Half) * Weight[d]) /\ 2 * Half \in Nat
      BY <1>1, <2>2, <1>b
    <3>2. ~(m >= 2 * Half)
      BY <2>3, <3>1
    <3> QED
      BY <2>3, <3>1, <3>2
  <2>5. CASE m < Half
    <3>1. bits.exponent = size /\ bits.mantissa = m
      <4>1. ~(m >= Half)
        BY <2>3, <2>5, <1>b
      <4> QED
        BY <1>2, <4>1 DEF m
    <3>2. CompactToTarget(bits) = (m * Weight[d]) % Highest
      BY <1>c, <1>s, <2>1, <2>3, <2>5, <3>1 DEF d
    <3>3. m * Weight[d] \in Nat
      BY <2>2, <2>3
    <3>4. CompactToTarget(bits) = (x \div Weight[d]) * Weight[d]
      BY <1>t, <2>1, <2>3, <3>2, <3>3
    <3>5. x < Half * Weight[d]
      <4>1. ~(x >= Half * Weight[d]) /\ Half * Weight[d] \in Nat
        BY <2>2, <2>3, <2>5, <1>b
      <4> QED
        BY <4>1
    <3>6. x >= Half * Weight[d - 1]
      <4>1. d - 1 \in Nat /\ (d - 1) + 3 = size - 1 /\ size # 0
        BY <2>1
      <4>2. Weight[d - 1] \in Nat /\ Weight[(d - 1) + 3] = Weight[d - 1] * (2 * Half)
        <5>1. Weight[d - 1] \in Nat /\ Weight[(d - 1) + 3] = Weight[d - 1] * Weight[3]
          BY <4>1, WeightType, WeightOfSum
        <5> QED
          BY <1>b, <5>1
      <4>3. \A h, w \in Nat : w * (2 * h) >= h * w
        OBVIOUS
      <4>4. Weight[size - 1] >= Half * Weight[d - 1] /\ Weight[size - 1] \in Nat
        BY <4>1, <4>2, <4>3, <1>b
      <4>5. Half * Weight[d - 1] \in Nat
        BY <4>2, <1>b
      <4> QED
        BY <1>1, <4>1, <4>4, <4>5
    <3> QED
      BY <1>r, <2>1, <3>4, <3>5, <3>6 DEF Level
  <2>6. CASE m >= Half
    <3>1. bits.exponent = size + 1 /\ bits.mantissa = m \div Base
      BY <1>2, <2>6 DEF m
    <3>2. d + 1 \in Nat /\ Weight[d + 1] = Weight[d] * Base /\ Weight[d + 1] \in Nat \ {0}
      <4>1. Weight[d + 1] = Base * Weight[d] /\ d + 1 \in Nat
        BY <2>1, WeightStep
      <4> QED
        BY <2>2, <4>1, <1>b
    <3>3. m \div Base \in Nat /\ m \div Base < Half
      <4>1. Base \in Nat \ {0} /\ Half * Base >= 2 * Half
        <5>1. \A h \in Nat, b \in Nat : b >= 2 => 2 * h <= h * b
          OBVIOUS
        <5> QED
          BY <5>1, <1>b
      <4>2. ~(m >= Half * Base)
        <5>1. Half * Base \in Nat /\ 2 * Half \in Nat
          BY <1>b
        <5> QED
          BY <2>3, <2>4, <4>1, <5>1
      <4>3. Half \in Nat
        BY <1>b
      <4>4. m \div Base \in Nat /\ ~(m \div Base >= Half)
        BY <2>3, <4>1, <4>2, <4>3, QuotientBounds
      <4> QED
        BY <4>3, <4>4
    <3>4. CompactToTarget(bits) = ((m \div Base) * Weight[d + 1]) % Highest
      <4>1. ~(bits.exponent <= 3) /\ bits.exponent - 3 = d + 1
        BY <1>1, <2>1, <3>1
      <4> QED
        BY <1>c, <1>s, <3>1, <3>3, <4>1
    <3>5. m \div Base = x \div Weight[d + 1]
      <4>1. Base \in Nat \ {0}
        BY <1>b
      <4> QED
        BY <2>1, <2>2, <3>2, <4>1, QuotientTwice
    <3>6. (x \div Weight[d + 1]) * Weight[d + 1] \in Nat /\ (x \div Weight[d + 1]) * Weight[d + 1] <= x
      BY <3>2, QuotientBounds
    <3>7. CompactToTarget(bits) = (x \div Weight[d + 1]) * Weight[d + 1]
      BY <1>t, <3>4, <3>5, <3>6
    <3>8. x < Half * Weight[d + 1]
      <4>1. \A h, w, b \in Nat : b >= 2 => (2 * h) * w <= h * (w * b)
        <5> SUFFICES ASSUME NEW h \in Nat, NEW w \in Nat, NEW b \in Nat, b >= 2
                     PROVE  (2 * h) * w <= h * (w * b)
          OBVIOUS
        <5>1. h * w \in Nat /\ h * (w * b) = (h * w) * b /\ (2 * h) * w = 2 * (h * w)
          OBVIOUS
        <5>2. \A v \in Nat : 2 * v <= v * b
          OBVIOUS
        <5> QED
          BY <5>1, <5>2
      <4>2. (2 * Half) * Weight[d] <= Half * Weight[d + 1]
        BY <2>2, <3>2, <4>1, <1>b
      <4>3. (2 * Half) * Weight[d] \in Int /\ Half * Weight[d + 1] \in Int
        BY <2>2, <3>2, <1>b
      <4> QED
        BY <1>1, <2>2, <4>2, <4>3
    <3>9. x >= Half * Weight[d]
      BY <2>3, <2>6, <1>b
    <3>10. (d + 1) - 1 = d
      BY <2>1
    <3> QED
      BY <1>r, <3>2, <3>7, <3>8, <3>9, <3>10 DEF Level
  <2> QED
    BY <2>3, <2>5, <2>6, <1>b
<1> QED
  BY <1>1, <1>3, <1>4
LEMMA LevelsRise ==
    ASSUME NEW x \in Nat, NEW y \in Nat, x <= y,
           NEW i \in Nat, Level(x, i), NEW j \in Nat, Level(y, j)
    PROVE  i <= j
<1> SUFFICES ASSUME i > j PROVE FALSE
  OBVIOUS
<1>1. i - 1 \in Nat /\ j <= i - 1 /\ i # 0
  OBVIOUS
<1>2. Weight[j] <= Weight[i - 1] /\ Weight[j] \in Nat /\ Weight[i - 1] \in Nat
  BY <1>1, WeightType, WeightsRise
<1>3. x >= Half * Weight[i - 1] /\ y < Half * Weight[j]
  BY <1>1 DEF Level
<1>4. \A h, v, w \in Nat : v <= w => h * v <= h * w
  OBVIOUS
<1>5. Half * Weight[j] <= Half * Weight[i - 1] /\ Half * Weight[j] \in Nat /\ Half * Weight[i - 1] \in Nat
  BY <1>2, <1>4, HalfIs
<1> QED
  BY <1>3, <1>5

(* What is forgotten at a level does not leave the level. *)
LEMMA LevelHolds ==
    ASSUME NEW x \in Nat, NEW j \in Nat, Level(x, j)
    PROVE  LET r == (x \div Weight[j]) * Weight[j]
           IN  r \in Nat /\ r <= x /\ Level(r, j) /\ (x # 0 => r # 0)
<1> DEFINE r == (x \div Weight[j]) * Weight[j]
<1>1. Weight[j] \in Nat \ {0} /\ Half \in Nat \ {0}
  BY WeightType, HalfIs
<1>2. x \div Weight[j] \in Nat /\ r <= x /\ \A k \in Nat : x >= k * Weight[j] <=> x \div Weight[j] >= k
  BY <1>1, QuotientBounds
<1>3. r \in Nat
  BY <1>1, <1>2
<1>4. r < Half * Weight[j]
  <2>1. x < Half * Weight[j] /\ Half * Weight[j] \in Nat
    BY <1>1 DEF Level
  <2> HIDE DEF r
  <2> QED
    BY <1>2, <1>3, <2>1
<1>5. CASE j = 0
  <2>1. Weight[j] = 1
    BY <1>5, HalfIs
  <2>2. r = x
    BY <1>2, <2>1
  <2> QED
    BY <1>2, <1>3, <1>4, <1>5, <2>2 DEF Level
<1>6. CASE j # 0
  <2>1. j - 1 \in Nat /\ (j - 1) + 1 = j
    BY <1>6
  <2>2. Weight[j] = Base * Weight[j - 1] /\ Weight[j - 1] \in Nat \ {0}
    <3>1. Weight[(j - 1) + 1] = Base * Weight[j - 1] /\ Weight[j - 1] \in Nat \ {0}
      BY <2>1, WeightType, WeightStep
    <3> QED
      BY <2>1, <3>1
  <2>3. PICK c \in Nat : Half = c * Base
    BY HalfIs
  <2>4. Half * Weight[j - 1] = c * Weight[j]
    <3>1. \A a, b, w \in Nat : (a * b) * w = a * (b * w)
      OBVIOUS
    <3>2. Base \in Nat
      BY HalfIs
    <3> QED
      BY <2>2, <2>3, <3>1, <3>2
  <2>5. x >= c * Weight[j]
    BY <1>6, <2>4 DEF Level
  <2>6. x \div Weight[j] >= c
    BY <1>2, <2>5
  <2>7. r >= c * Weight[j]
    <3>1. \A a, b, w \in Nat : a >= b => a * w >= b * w
      OBVIOUS
    <3> QED
      BY <1>1, <1>2, <2>6, <3>1
  <2>8. Half * Weight[j - 1] \in Nat \ {0}
    <3>1. \A a, b \in Nat \ {0} : a * b \in Nat \ {0}
      OBVIOUS
    <3> QED
      BY <1>1, <2>2, <3>1
  <2> HIDE DEF r
  <2>9. r >= Half * Weight[j - 1] /\ r # 0
    BY <1>3, <2>4, <2>7, <2>8
  <2> QED
    BY <1>2, <1>3, <1>4, <2>9 DEF Level, r
<1> QED
  BY <1>5, <1>6

LEMMA RoundType ==
    ASSUME NEW x \in Nat, x < Highest
    PROVE  Rounded(x) \in Nat /\ Rounded(x) <= x /\ (x # 0 => Rounded(x) # 0)
BY RoundIs, LevelHolds

LEMMA RoundRises ==
    ASSUME NEW x \in Nat, NEW y \in Nat, x <= y, y < Highest
    PROVE  Rounded(x) <= Rounded(y)
<1>1. x < Highest
  BY WeightType, DifficultyAssumption DEF Highest
<1>2. PICK i \in Nat : Level(x, i) /\ Rounded(x) = (x \div Weight[i]) * Weight[i]
  BY <1>1, RoundIs
<1>3. PICK j \in Nat : Level(y, j) /\ Rounded(y) = (y \div Weight[j]) * Weight[j]
  BY RoundIs
<1>4. i <= j
  BY <1>2, <1>3, LevelsRise
<1>5. CASE i = j
  <2> DEFINE w == Weight[i]
  <2>1. w \in Nat \ {0}
    BY WeightType
  <2> HIDE DEF w
  <2>2. x \div w \in Nat /\ y \div w \in Nat /\ (x \div w) * w <= x /\ (x \div w) * w \in Nat
    BY <2>1, QuotientBounds
  <2>3. y >= (x \div w) * w
    BY <2>2
  <2>4. y \div w >= x \div w
    BY <2>1, <2>2, <2>3, QuotientBounds
  <2>5. \A a, b \in Nat : a >= b => b * w <= a * w
    BY <2>1
  <2> QED
    BY <1>2, <1>3, <1>5, <2>2, <2>4, <2>5 DEF w
<1>6. CASE i # j
  <2>1. j # 0 /\ j - 1 \in Nat /\ i <= j - 1
    BY <1>4, <1>6
  <2>2. Rounded(y) \in Nat /\ Level(Rounded(y), j)
    BY <1>3, LevelHolds
  <2>3. Rounded(y) >= Half * Weight[j - 1]
    BY <2>1, <2>2 DEF Level
  <2>4. Half * Weight[i] <= Half * Weight[j - 1] /\ Half * Weight[i] \in Nat /\ Half * Weight[j - 1] \in Nat
    <3>1. Weight[i] <= Weight[j - 1] /\ Weight[i] \in Nat /\ Weight[j - 1] \in Nat
      BY <2>1, WeightType, WeightsRise
    <3>2. \A h, v, w \in Nat : v <= w => h * v <= h * w
      OBVIOUS
    <3> QED
      BY <3>1, <3>2, HalfIs
  <2>5. x < Half * Weight[i]
    BY <1>2 DEF Level
  <2>6. Rounded(x) \in Nat /\ Rounded(x) <= x
    BY <1>1, RoundType
  <2> HIDE DEF Rounded
  <2> QED
    BY <2>2, <2>3, <2>4, <2>5, <2>6
<1> QED
  BY <1>5, <1>6

LEMMA RoundAgain ==
    ASSUME NEW x \in Nat, x < Highest
    PROVE  Rounded(Rounded(x)) = Rounded(x)
<1> DEFINE r == Rounded(x)
<1>1. PICK j \in Nat : Level(x, j) /\ r = (x \div Weight[j]) * Weight[j]
  BY RoundIs
<1>2. r \in Nat /\ r <= x /\ Level(r, j)
  BY <1>1, LevelHolds
<1>3. x \div Weight[j] \in Nat /\ Weight[j] \in Nat \ {0}
  BY WeightType, QuotientBounds
<1> HIDE DEF r
<1>4. r < Highest
  BY <1>2, WeightType, DifficultyAssumption DEF Highest
<1>5. PICK i \in Nat : Level(r, i) /\ Rounded(r) = (r \div Weight[i]) * Weight[i]
  BY <1>2, <1>4, RoundIs
<1>6. i = j
  <2>1. i <= j /\ j <= i
    BY <1>2, <1>5, LevelsRise
  <2> QED
    BY <2>1
<1>7. r \div Weight[j] = x \div Weight[j]
  BY <1>1, <1>3, QuotientOfProduct
<1> QED
  BY <1>1, <1>5, <1>6, <1>7 DEF r

-----------------------------------------------------------------------------
(* The next target. *)

LEMMA LesserIs ==
    ASSUME NEW a \in Int, NEW b \in Int
    PROVE  Min({a, b}) = IF a <= b THEN a ELSE b
<1>1. CASE a <= b
  <2>1. a \in {a, b} /\ \A y \in {a, b} : a <= y
    BY <1>1
  <2>2. \A x \in {a, b} : (\A y \in {a, b} : x <= y) => x = a
    BY <1>1
  <2> QED
    BY <1>1, <2>1, <2>2 DEF Min
<1>2. CASE ~(a <= b)
  <2>1. b \in {a, b} /\ \A y \in {a, b} : b <= y
    BY <1>2
  <2>2. \A x \in {a, b} : (\A y \in {a, b} : x <= y) => x = b
    BY <1>2
  <2> QED
    BY <1>2, <2>1, <2>2 DEF Min
<1> QED
  BY <1>1, <1>2

LEMMA GreatestIs ==
    ASSUME NEW a \in Int, NEW b \in Int, NEW c \in Int
    PROVE  LET m == Max({a, b, c})
           IN  m \in {a, b, c} /\ m >= a /\ m >= b /\ m >= c
<1> DEFINE S == {a, b, c}
<1>1. \E x \in S : \A y \in S : x >= y
  <2>1. CASE a >= b /\ a >= c
    BY <2>1
  <2>2. CASE b >= a /\ b >= c
    BY <2>2
  <2>3. CASE c >= a /\ c >= b
    BY <2>3
  <2> QED
    BY <2>1, <2>2, <2>3
<1>2. Max(S) \in S /\ \A y \in S : Max(S) >= y
  <2> HIDE DEF S
  <2> QED
    BY <1>1 DEF Max
<1> QED
  BY <1>2

(* How long a period counts at most and at least. *)
LEMMA ClampIs ==
    ASSUME NEW actual \in Nat, NEW expected \in Nat \ {0}
    PROVE  LET c == ClampAdjustment(actual, expected)
           IN  /\ c \in Nat \ {0}
               /\ c <= expected * 4
               /\ c >= expected \div 4
               /\ actual >= expected => c >= expected
               /\ 1 <= actual /\ actual <= expected => c <= expected
<1> DEFINE q == expected \div 4
           m == Max({1, q, actual})
           c == ClampAdjustment(actual, expected)
<1>1. q \in Nat /\ q <= expected /\ expected * 4 \in Nat \ {0} /\ expected <= expected * 4
  OBVIOUS
<1>2. c = Min({expected * 4, m})
  BY DEF ClampAdjustment
<1> HIDE DEF q, c
<1>3. m \in {1, q, actual} /\ m >= 1 /\ m >= q /\ m >= actual
  <2>1. 1 \in Int /\ q \in Int /\ actual \in Int
    BY <1>1
  <2> QED
    BY <2>1, GreatestIs, Zenon
<1> HIDE DEF m
<1>4. m \in Nat \ {0}
  BY <1>1, <1>3
<1>5. c = IF expected * 4 <= m THEN expected * 4 ELSE m
  BY <1>1, <1>2, <1>4, LesserIs
<1>6. c \in Nat \ {0} /\ c <= expected * 4 /\ c >= q
  BY <1>1, <1>3, <1>4, <1>5
<1>7. actual >= expected => c >= expected
  BY <1>1, <1>3, <1>4, <1>5
<1>8. 1 <= actual /\ actual <= expected => c <= expected
  BY <1>1, <1>3, <1>4, <1>5
<1> QED
  BY <1>6, <1>7, <1>8 DEF q, c

LEMMA ClampRises ==
    ASSUME NEW a \in Nat, NEW b \in Nat, a <= b, NEW expected \in Nat \ {0}
    PROVE  ClampAdjustment(a, expected) <= ClampAdjustment(b, expected)
<1> DEFINE q == expected \div 4
           m(x) == Max({1, q, x})
<1>1. q \in Nat /\ expected * 4 \in Nat
  OBVIOUS
<1> HIDE DEF q
<1>2. ASSUME NEW x \in Nat
      PROVE  m(x) \in {1, q, x} /\ m(x) >= 1 /\ m(x) >= q /\ m(x) >= x
  <2>1. 1 \in Int /\ q \in Int /\ x \in Int
    BY <1>1
  <2> QED
    BY <2>1, GreatestIs, Zenon
<1>3. ASSUME NEW x \in Nat
      PROVE  /\ m(x) \in Nat
             /\ ClampAdjustment(x, expected) = IF expected * 4 <= m(x) THEN expected * 4 ELSE m(x)
  <2>1. m(x) \in Nat
    <3> HIDE DEF m
    <3> QED
      BY <1>1, <1>2
  <2>2. ClampAdjustment(x, expected) = Min({expected * 4, m(x)})
    BY DEF ClampAdjustment, q
  <2> HIDE DEF m
  <2> QED
    BY <1>1, <2>1, <2>2, LesserIs
<1> HIDE DEF m
<1>4. m(a) <= m(b)
  BY <1>1, <1>2, <1>3
<1> QED
  BY <1>1, <1>3, <1>4

(* The target after a period: before it is rounded, and after. *)
Quotient(old, actual, expected) == (old * ClampAdjustment(actual, expected)) \div expected
Limited(old, actual, expected) ==
    LET q == Quotient(old, actual, expected)
    IN  IF q <= Limit THEN q ELSE Limit

LEMMA QuotientIsScaled ==
    ASSUME NEW old \in Nat, NEW actual \in Nat \ {0}, NEW expected \in Nat \ {0}
    PROVE  LET q == Quotient(old, actual, expected)
           IN  /\ q \in Nat
               /\ q <= old * 4
               /\ actual >= expected => q >= old
               /\ actual <= expected => q <= old
               /\ old >= 7 => q >= 1
<1> DEFINE c == ClampAdjustment(actual, expected)
           q == (old * c) \div expected
<1>1. /\ c \in Nat \ {0}
      /\ c <= expected * 4
      /\ c >= expected \div 4
      /\ actual >= expected => c >= expected
      /\ actual <= expected => c <= expected
  <2>1. 1 <= actual /\ actual \in Nat
    OBVIOUS
  <2> HIDE DEF q
  <2> QED
    BY <2>1, ClampIs
<1>2. q = Quotient(old, actual, expected)
  BY DEF Quotient
<1> HIDE DEF c
<1>3. old * c \in Nat
  BY <1>1
<1>4. q \in Nat /\ q * expected <= old * c /\ \A k \in Nat : old * c >= k * expected <=> q >= k
  BY <1>3, QuotientBounds
<1> HIDE DEF q
<1>m. \A a, b, d \in Nat : a <= b => d * a <= d * b
  OBVIOUS
<1>5. q <= old * 4
  <2>1. old * c <= old * (expected * 4)
    BY <1>1, <1>m
  <2>2. old * (expected * 4) = (old * 4) * expected
    OBVIOUS
  <2>3. q * expected <= (old * 4) * expected
    <3>1. q * expected \in Int /\ (old * 4) * expected \in Int
      BY <1>4
    <3> QED
      BY <1>3, <1>4, <2>1, <2>2, <3>1
  <2>4. \A a, b \in Nat : a * expected <= b * expected => a <= b
    OBVIOUS
  <2>5. old * 4 \in Nat
    OBVIOUS
  <2> QED
    BY <1>4, <2>3, <2>4, <2>5
<1>6. ASSUME actual >= expected PROVE q >= old
  <2>1. old * c >= old * expected
    BY <1>1, <1>6, <1>m
  <2> QED
    BY <1>4, <2>1
<1>7. ASSUME actual <= expected PROVE q <= old
  <2>1. old * c <= old * expected /\ old * expected \in Nat
    BY <1>1, <1>7, <1>m
  <2>2. q * expected <= old * expected
    <3>1. q * expected \in Int
      BY <1>4
    <3> QED
      BY <1>3, <1>4, <2>1, <3>1
  <2>3. \A a, b \in Nat : a * expected <= b * expected => a <= b
    OBVIOUS
  <2> QED
    BY <1>4, <2>2, <2>3
<1>8. ASSUME old >= 7 PROVE q >= 1
  <2>1. c >= 1 /\ c >= expected \div 4
    BY <1>1
  <2>2. 7 * c >= expected
    BY <1>1, <2>1
  <2>3. old * c >= 7 * c
    <3>1. \A a, b \in Nat : a >= 7 => a * b >= 7 * b
      OBVIOUS
    <3> QED
      BY <1>1, <1>8, <3>1
  <2>4. old * c >= 1 * expected
    BY <1>1, <1>3, <2>2, <2>3
  <2> QED
    BY <1>4, <2>4
<1> QED
  BY <1>2, <1>4, <1>5, <1>6, <1>7, <1>8

LEMMA QuotientRises ==
    ASSUME NEW old \in Nat, NEW a \in Nat \ {0}, NEW b \in Nat \ {0}, a <= b,
           NEW expected \in Nat \ {0}
    PROVE  Quotient(old, a, expected) <= Quotient(old, b, expected)
<1> DEFINE c == ClampAdjustment(a, expected)
           d == ClampAdjustment(b, expected)
<1>1. c \in Nat /\ d \in Nat /\ c <= d
  BY ClampIs, ClampRises
<1>2. Quotient(old, a, expected) = (old * c) \div expected
  BY DEF Quotient
<1>3. Quotient(old, b, expected) = (old * d) \div expected
  BY DEF Quotient
<1> HIDE DEF c, d
<1>4. old * c \in Nat /\ old * d \in Nat /\ old * c <= old * d
  <2>1. \A x, y, z \in Nat : x <= y => z * x <= z * y
    OBVIOUS
  <2> QED
    BY <1>1, <2>1
<1>5. (old * c) \div expected \in Nat /\ ((old * c) \div expected) * expected <= old * c
  BY <1>4, QuotientBounds
<1> DEFINE p == (old * c) \div expected
<1>6. p * expected \in Nat /\ old * d >= p * expected
  BY <1>4, <1>5
<1> HIDE DEF p
<1>7. p \in Nat
  BY <1>5 DEF p
<1>8. (old * d) \div expected >= p
  BY <1>4, <1>6, <1>7, QuotientBounds
<1> QED
  BY <1>2, <1>3, <1>8 DEF p
LEMMA LimitType == Limit \in Nat /\ Limit < Highest
<1> DEFINE m == PowLimitBits.mantissa % Half
           e == PowLimitBits.exponent
<1>1. m \in Nat /\ m < Half /\ e \in Nat
  BY DifficultyAssumption, HalfIs
<1>2. Limit = IF e <= 3 THEN m \div Weight[3 - e] ELSE (m * Weight[e - 3]) % Highest
  BY DEF Limit, CompactToTarget
<1>3. Highest \in Nat \ {0} /\ Half <= Highest
  <2>1. Weight[3] <= Weight[Digits] /\ Weight[Digits] \in Nat \ {0}
    BY DifficultyAssumption, WeightType, WeightsRise
  <2> QED
    BY <2>1, HalfIs DEF Highest
<1> HIDE DEF m, e
<1>4. CASE e <= 3
  <2>1. 3 - e \in Nat
    BY <1>1, <1>4
  <2>2. Weight[3 - e] \in Nat \ {0}
    BY <2>1, WeightType
  <2>3. \A x \in Nat, w \in Nat \ {0} : x \div w \in Nat /\ x \div w <= x
    OBVIOUS
  <2>4. Limit \in Nat /\ Limit <= m
    BY <1>1, <1>2, <1>4, <2>2, <2>3
  <2> QED
    BY <1>1, <1>3, <2>4, HalfIs
<1>5. CASE ~(e <= 3)
  <2>1. e - 3 \in Nat
    BY <1>1, <1>5
  <2>2. Weight[e - 3] \in Nat
    BY <2>1, WeightType
  <2>3. m * Weight[e - 3] \in Nat
    BY <1>1, <2>2
  <2> QED
    BY <1>2, <1>3, <1>5, <2>3
<1> QED
  BY <1>4, <1>5

(* How long a period of the inputs has taken. *)
Took(e) == IF Interval # 1 /\ e > Spacing THEN e - Spacing ELSE 1
Expected == Spacing * Interval

LEMMA NextIs ==
    ASSUME NEW n \in Nat \ {0}, n % Interval = 0, NEW e \in Nat, NEW bits,
           CompactToTarget(bits) \in Nat, CompactToTarget(bits) * 4 < Highest
    PROVE  CalculateNextWorkRequired(Period(n, e, bits))
               = TargetToCompact(Limited(CompactToTarget(bits), Took(e), Expected))
<1> DEFINE blocks == Period(n, e, bits)
           old == CompactToTarget(bits)
           first == blocks[n - Interval + 1]
           last == blocks[n]
           actual == Elapsed(first, last)
           wanted == MulDivTarget(old, ClampAdjustment(actual, Expected), Expected)
<1>1. Interval \in Nat \ {0} /\ Spacing \in Nat \ {0} /\ Expected \in Nat \ {0}
  BY DifficultyAssumption, PeriodAssumption DEF Expected
<1>2. n >= Interval
  <2> SUFFICES ASSUME n < Interval PROVE FALSE
    BY <1>1
  <2>1. \A i \in Nat \ {0} : n < i => n % i = n
    OBVIOUS
  <2> QED
    BY <1>1, <2>1
<1>3. /\ blocks = [i \in 1 .. n |-> [height |-> i - 1, bits |-> bits,
                                     timestamp |-> IF i = n THEN e ELSE Spacing]]
      /\ Len(blocks) = n
  BY DEF Period
<1>4. n \in 1 .. n /\ n - Interval + 1 \in 1 .. n /\ (n - Interval + 1 = n <=> Interval = 1)
  BY <1>1, <1>2
<1>5. last.height = n - 1 /\ last.bits = bits /\ last.timestamp = e
  BY <1>3, <1>4
<1>6. first.timestamp = IF Interval = 1 THEN e ELSE Spacing
  BY <1>3, <1>4
<1>7. actual = Took(e)
  BY <1>1, <1>5, <1>6 DEF Elapsed, Took
<1>8. (last.height + 1) % Interval = 0
  <2>1. (n - 1) + 1 = n
    OBVIOUS
  <2> QED
    BY <1>5, <2>1
<1>9. CalculateNextWorkRequired(blocks) = TargetToCompact(Min({wanted, Limit}))
  <2>1. n # 0 /\ Interval # 0 /\ ~(n < Interval)
    BY <1>1, <1>2
  <2>2. Len(blocks) = n
    BY <1>3
  <2> HIDE DEF blocks
  <2> QED
    BY <1>5, <1>8, <2>1, <2>2 DEF CalculateNextWorkRequired, Limit, Expected
<1> HIDE DEF blocks, actual, first, last, old
<1>10. Took(e) \in Nat \ {0}
  BY <1>1 DEF Took
<1>11. old \in Nat /\ old * 4 < Highest
  BY DEF old
<1>12. wanted = Quotient(old, Took(e), Expected)
  <2>1. Quotient(old, Took(e), Expected) \in Nat /\ Quotient(old, Took(e), Expected) <= old * 4
    BY <1>1, <1>10, <1>11, QuotientIsScaled
  <2>2. wanted = Quotient(old, Took(e), Expected) % Highest
    BY <1>7 DEF MulDivTarget, Quotient
  <2>3. Highest \in Nat
    BY WeightType, DifficultyAssumption DEF Highest
  <2>4. \A q, h \in Nat : q < h => q % h = q
    OBVIOUS
  <2>5. Quotient(old, Took(e), Expected) < Highest
    BY <1>11, <2>1, <2>3
  <2> QED
    BY <2>1, <2>2, <2>3, <2>4, <2>5
<1> HIDE DEF wanted
<1>13. wanted \in Nat
  BY <1>1, <1>10, <1>11, <1>12, QuotientIsScaled
<1>14. Min({wanted, Limit}) = Limited(old, Took(e), Expected)
  BY <1>12, <1>13, LimitType, LesserIs DEF Limited
<1> QED
  BY <1>9, <1>14 DEF blocks, old

(* The work follows the time a period took, whatever the size of targets   *)
(* and mantissas, the length of periods and the limit.                     *)
THEOREM WorkFollowsTime == Spec => []RetargetFollowsTime
<1>1. IsComputed => RetargetFollowsTime
  <2> SUFFICES ASSUME IsComputed, task = "work", input.blocks # <<>> PROVE RetargetFollowsTime
    BY DEF RetargetFollowsTime
  <2>1. input \in WorkInputs /\ answer = CalculateNextWorkRequired(input.blocks)
    BY DEF IsComputed
  <2>2. PICK n \in 0 .. 2 * Interval, e \in 0 .. MaxElapsed, t \in 1 .. Limit :
            input.blocks = Period(n, e, TargetToCompact(t))
    BY <2>1 DEF WorkInputs
  <2> DEFINE blocks == input.blocks
             bits == TargetToCompact(t)
             old == Rounded(t)
             later == [blocks EXCEPT ![n].timestamp = @ + 1]
             q == Limited(old, Took(e), Expected)
             r == Limited(old, Took(e + 1), Expected)
  <2>3. Interval \in Nat \ {0} /\ Spacing \in Nat \ {0} /\ Expected \in Nat \ {0}
    BY DifficultyAssumption, PeriodAssumption DEF Expected
  <2>4. n \in Nat /\ e \in Nat /\ t \in Nat \ {0} /\ t <= Limit /\ t < Highest /\ e + 1 \in Nat
    <3>1. 2 * Interval \in Int /\ Highest \in Nat
      BY <2>3, WeightType, DifficultyAssumption DEF Highest
    <3> QED
      BY <2>2, <3>1, LimitType, PeriodAssumption
  <2>5. blocks = [i \in 1 .. n |-> [height |-> i - 1, bits |-> bits,
                                   timestamp |-> IF i = n THEN e ELSE Spacing]]
    BY <2>2 DEF Period
  <2>6. n # 0
    <3> SUFFICES ASSUME n = 0 PROVE FALSE
      OBVIOUS
    <3>1. 1 .. n = {}
      OBVIOUS
    <3> QED
      BY <2>5, <3>1
  <2>7. Len(blocks) = n /\ n \in 1 .. n /\ n \in Nat \ {0}
    BY <2>4, <2>5, <2>6
  <2>8. blocks[n].bits = bits /\ blocks[n].timestamp = e /\ blocks[n].height = n - 1
    BY <2>5, <2>7
  <2>9. later = Period(n, e + 1, bits)
    <3>1. \A i \in 1 .. n : i # n => later[i] = Period(n, e + 1, bits)[i]
      BY <2>5, <2>7 DEF Period
    <3>2. later[n] = Period(n, e + 1, bits)[n]
      <4>1. blocks[n] = [height |-> n - 1, bits |-> bits, timestamp |-> e]
        BY <2>5, <2>7
      <4>2. later[n] = [blocks[n] EXCEPT !.timestamp = @ + 1]
        BY <2>5, <2>7
      <4> QED
        BY <2>7, <4>1, <4>2 DEF Period
    <3>3. later = [i \in 1 .. n |-> later[i]]
      BY <2>5
    <3>4. Period(n, e + 1, bits) = [i \in 1 .. n |-> Period(n, e + 1, bits)[i]]
      BY DEF Period
    <3>5. \A i \in 1 .. n : later[i] = Period(n, e + 1, bits)[i]
      BY <3>1, <3>2
    <3> HIDE DEF later
    <3> QED
      BY <3>3, <3>4, <3>5
  <2>10. old \in Nat /\ old <= t /\ old = CompactToTarget(bits)
    BY <2>4, RoundType DEF Rounded
  <2>11. CASE n % Interval # 0
    <3>1. (blocks[n].height + 1) % Interval # 0
      <4>1. (n - 1) + 1 = n
        BY <2>4
      <4> QED
        BY <2>8, <2>11, <4>1
    <3>2. answer = blocks[n].bits
      <4> HIDE DEF blocks
      <4> QED
        BY <2>1, <2>3, <2>6, <2>7, <3>1 DEF CalculateNextWorkRequired, blocks
    <3> HIDE DEF blocks
    <3> QED
      BY <2>7, <2>11, <3>2 DEF RetargetFollowsTime, blocks
  <2>12. CASE n % Interval = 0
    <3> SUFFICES ASSUME old * 4 < Highest
                 PROVE  /\ e - Spacing >= Expected => CompactToTarget(answer) >= old
                        /\ e - Spacing <= Expected => CompactToTarget(answer) <= old
                        /\ CompactToTarget(answer) <= Min({old * 4, Limit})
                        /\ old >= 7 => CompactToTarget(answer) > 0
                        /\ CompactToTarget(answer)
                               <= CompactToTarget(CalculateNextWorkRequired(later))
      <4> HIDE DEF blocks, old, later, bits
      <4>1. ~(n % Interval # 0)
        BY <2>12
      <4> QED
        BY <2>7, <2>8, <2>10, <4>1 DEF RetargetFollowsTime, Expected, blocks, later
    <3>1. answer = TargetToCompact(q)
      BY <2>1, <2>2, <2>4, <2>7, <2>10, <2>12, NextIs
    <3>2. CalculateNextWorkRequired(later) = TargetToCompact(r)
      BY <2>4, <2>7, <2>9, <2>10, <2>12, NextIs
    <3>3. Took(e) \in Nat \ {0} /\ Took(e + 1) \in Nat \ {0} /\ Took(e) <= Took(e + 1)
      BY <2>3, <2>4 DEF Took
    <3> DEFINE x == Quotient(old, Took(e), Expected)
               y == Quotient(old, Took(e + 1), Expected)
    <3> HIDE DEF old, later, bits, blocks
    <3>4. /\ x \in Nat /\ x <= old * 4
          /\ Took(e) >= Expected => x >= old
          /\ Took(e) <= Expected => x <= old
          /\ old >= 7 => x >= 1
      BY <2>3, <2>10, <3>3, QuotientIsScaled
    <3>5. y \in Nat /\ x <= y
      BY <2>3, <2>10, <3>3, QuotientIsScaled, QuotientRises
    <3>6. /\ q = IF x <= Limit THEN x ELSE Limit
          /\ r = IF y <= Limit THEN y ELSE Limit
      BY DEF Limited
    <3> HIDE DEF x, y, q, r
    <3>7. Limit \in Nat /\ Limit < Highest /\ Limit >= 1 /\ old <= Limit /\ Highest \in Nat
      BY <2>4, <2>10, LimitType, WeightType, DifficultyAssumption DEF Highest
    <3>8. q \in Nat /\ r \in Nat /\ q <= r /\ q <= Limit /\ r < Highest /\ q < Highest
      BY <3>4, <3>5, <3>6, <3>7
    <3>9. Rounded(q) \in Nat /\ Rounded(q) <= q /\ (q # 0 => Rounded(q) # 0)
      BY <3>8, RoundType
    <3>10. Rounded(q) <= Rounded(r)
      BY <3>8, RoundRises
    <3>11. CompactToTarget(answer) = Rounded(q)
      BY <3>1 DEF Rounded
    <3>12. CompactToTarget(CalculateNextWorkRequired(later)) = Rounded(r)
      BY <3>2 DEF Rounded
    <3>13. ASSUME e - Spacing >= Expected PROVE Rounded(q) >= old
      <4>1. Took(e) >= Expected
        <5>1. Interval # 1 => Took(e) = e - Spacing
          BY <2>3, <2>4, <3>13 DEF Took
        <5>2. Interval = 1 => Expected = 1
          BY PeriodAssumption DEF Expected
        <5> QED
          BY <2>3, <3>3, <3>13, <5>1, <5>2
      <4>2. q >= old
        BY <2>10, <3>4, <3>6, <3>7, <4>1
      <4>3. Rounded(old) = old
        BY <2>4, RoundAgain DEF old
      <4>4. Rounded(old) <= Rounded(q)
        BY <2>10, <3>8, <4>2, RoundRises
      <4> QED
        BY <2>10, <3>9, <4>3, <4>4
    <3>14. ASSUME e - Spacing <= Expected PROVE Rounded(q) <= old
      <4>1. Took(e) <= Expected
        BY <2>3, <2>4, <3>14 DEF Took
      <4> QED
        BY <2>10, <3>4, <3>6, <3>7, <3>8, <3>9, <4>1
    <3>15. Rounded(q) <= Min({old * 4, Limit})
      <4>1. Min({old * 4, Limit}) = IF old * 4 <= Limit THEN old * 4 ELSE Limit
        BY <2>10, <3>7, LesserIs
      <4> QED
        BY <2>10, <3>4, <3>6, <3>7, <3>8, <3>9, <4>1
    <3>16. old >= 7 => Rounded(q) > 0
      BY <3>4, <3>6, <3>7, <3>8, <3>9
    <3> QED
      BY <3>10, <3>11, <3>12, <3>13, <3>14, <3>15, <3>16
  <2> QED
    BY <2>11, <2>12
<1> QED
  BY <1>1, AlwaysComputed, PTL

-----------------------------------------------------------------------------
(* Amounts. *)

LEMMA PlaceIs == Powers(Place, Radix)
<1>1. Place = CHOOSE p : p = [k \in Nat |-> IF k = 0 THEN 1 ELSE Radix * p[k - 1]]
  BY DEF Place
<1>2. Place = CHOOSE p : PowerTable(p, Radix)
  BY <1>1 DEF PowerTable
<1> QED
  BY <1>2, PowersAre, AmountAssumption

LEMMA ProductType == \A x, y \in Nat : x * y \in Nat
OBVIOUS

LEMMA WithoutLast ==
    ASSUME NEW a \in Nat, NEW k \in Nat \ {0}
    PROVE  (a + 1 .. a + k) \ {a + k} = a + 1 .. a + (k - 1)
<1> SUFFICES ASSUME NEW x
             PROVE  x \in (a + 1 .. a + k) \ {a + k} <=> x \in a + 1 .. a + (k - 1)
  OBVIOUS
<1> QED
  OBVIOUS

(* v is the value of the first i digits, for each i. *)
ValueTable(v, digits) ==
    /\ v \in [0 .. Len(digits) -> Nat]
    /\ v[0] = 0
    /\ \A i \in 1 .. Len(digits) : v[i] = v[i - 1] * Radix + digits[i]

LEMMA ValueIs ==
    ASSUME NEW s \in Seq(Nat)
    PROVE  \E v : ValueTable(v, s) /\ Value(s) = v[Len(s)]
<1> DEFINE n == Len(s)
           Table(v) == v = [i \in 0 .. n |-> IF i = 0 THEN 0 ELSE v[i - 1] * Radix + s[i]]
           F == [q \in Nat \X (1 .. n) |-> q[1] * Radix + s[q[2]]]
<1>1. n \in Nat /\ \A i \in 1 .. n : s[i] \in Nat
  OBVIOUS
<1>2. Radix \in Nat
  BY AmountAssumption
<1> HIDE DEF n
<1>3. \A x \in Nat, i \in 1 .. n : F[<<x, i>>] = x * Radix + s[i]
  OBVIOUS
<1>4. IsStep(F, Nat, n)
  <2>1. ASSUME NEW q \in Nat \X (1 .. n) PROVE q[1] * Radix + s[q[2]] \in Nat
    <3>1. q[1] \in Nat /\ s[q[2]] \in Nat
      BY <1>1
    <3>2. q[1] * Radix \in Nat
      BY <1>2, <3>1, ProductType
    <3> QED
      BY <3>1, <3>2
  <2> QED
    BY <2>1 DEF IsStep
<1> HIDE DEF F
<1>5. PICK g : Iterates(g, F, Nat, n, 0)
  BY <1>1, <1>4, RecursionExists
<1>6. /\ g \in [0 .. n -> Nat]
      /\ g[0] = 0
      /\ \A i \in 1 .. n : g[i] = g[i - 1] * Radix + s[i]
  <2>1. g \in [0 .. n -> Nat] /\ g[0] = 0 /\ \A i \in 1 .. n : g[i] = F[<<g[i - 1], i>>]
    BY <1>5 DEF Iterates
  <2>2. ASSUME NEW i \in 1 .. n PROVE g[i] = g[i - 1] * Radix + s[i]
    <3>1. i - 1 \in 0 .. n
      BY <1>1
    <3>2. g[i - 1] \in Nat
      BY <2>1, <3>1
    <3> QED
      BY <1>3, <2>1, <3>2
  <2> QED
    BY <2>1, <2>2
<1>7. Table(g)
  <2>1. \A i \in 0 .. n : g[i] = IF i = 0 THEN 0 ELSE g[i - 1] * Radix + s[i]
    BY <1>1, <1>6
  <2>2. g = [i \in 0 .. n |-> g[i]]
    BY <1>6
  <2> QED
    BY <2>1, <2>2
<1> DEFINE v == CHOOSE v : Table(v)
<1>8. Table(v)
  BY <1>7
<1>9. Value(s) = v[n]
  BY DEF Value, n
<1> HIDE DEF v
<1>10. v[0] = 0 /\ \A i \in 1 .. n : v[i] = v[i - 1] * Radix + s[i]
  BY <1>1, <1>8
<1>11. \A i \in 0 .. n : v[i] = g[i]
  <2> DEFINE Bad == {i \in 0 .. n : v[i] # g[i]}
  <2> SUFFICES ASSUME Bad # {} PROVE FALSE
    OBVIOUS
  <2>1. Bad \subseteq Nat
    BY <1>1
  <2> HIDE DEF Bad
  <2>2. PICK k \in Bad : \A j \in Bad : k <= j
    BY <2>1, LeastNat
  <2>3. k \in 0 .. n /\ v[k] # g[k]
    BY <2>2 DEF Bad
  <2>4. k # 0
    BY <1>6, <1>10, <2>3
  <2>5. k \in 1 .. n /\ k - 1 \in 0 .. n /\ ~(k <= k - 1)
    BY <1>1, <2>3, <2>4
  <2>6. v[k - 1] = g[k - 1]
    BY <2>2, <2>5 DEF Bad
  <2> QED
    BY <1>6, <1>10, <2>3, <2>5, <2>6
<1>12. v = g
  <2>1. v = [i \in 0 .. n |-> v[i]]
    BY <1>8
  <2> QED
    BY <1>6, <1>11, <2>1
<1>13. ValueTable(v, s) /\ Value(s) = v[Len(s)]
  BY <1>6, <1>9, <1>12 DEF ValueTable, n
<1> QED
  BY <1>13

LEMMA ValueType == \A s \in Seq(Nat) : Value(s) \in Nat
<1> TAKE s \in Seq(Nat)
<1>1. PICK v : ValueTable(v, s) /\ Value(s) = v[Len(s)]
  BY ValueIs
<1>2. Len(s) \in 0 .. Len(s)
  OBVIOUS
<1> QED
  BY <1>1, <1>2 DEF ValueTable

(* The value of a text that stands after a others, and c places before the *)
(* last one, is the sum of what its digits are worth.                      *)
LEMMA ValueIsSum ==
    ASSUME NEW s \in Seq(Nat), NEW a \in Nat, NEW c \in Nat, NEW worth,
           \A i \in 1 .. Len(s) : worth[a + i] = s[i] * Place[Len(s) - i + c]
    PROVE  Value(s) * Place[c] = SumFunctionOnSet(worth, a + 1 .. a + Len(s))
<1> DEFINE n == Len(s)
           Part(i) == SumFunctionOnSet(worth, a + 1 .. a + i)
<1>1. PICK v : ValueTable(v, s) /\ Value(s) = v[n]
  BY ValueIs
<1>2. n \in Nat /\ \A i \in 1 .. n : s[i] \in Nat
  OBVIOUS
<1>3. /\ v \in [0 .. n -> Nat] /\ v[0] = 0
      /\ \A i \in 1 .. n : v[i] = v[i - 1] * Radix + s[i]
  BY <1>1 DEF ValueTable
<1>4. \A i \in 1 .. n : worth[a + i] = s[i] * Place[n - i + c]
  OBVIOUS
<1> HIDE DEF n
<1>5. \A k \in Nat : Place[k] \in Nat /\ Place[k + 1] = Radix * Place[k]
  BY PlaceIs DEF Powers
<1>6. Radix \in Nat
  BY AmountAssumption
<1> DEFINE Bad == {i \in 0 .. n : v[i] * Place[n - i + c] # Part(i)}
<1>7. Bad = {}
  <2> SUFFICES ASSUME Bad # {} PROVE FALSE
    OBVIOUS
  <2>1. Bad \subseteq Nat
    BY <1>2
  <2> HIDE DEF Bad
  <2>2. PICK k \in Bad : \A j \in Bad : k <= j
    BY <2>1, LeastNat
  <2>3. k \in 0 .. n /\ v[k] * Place[n - k + c] # Part(k)
    BY <2>2 DEF Bad
  <2>4. k # 0
    <3> SUFFICES ASSUME k = 0 PROVE FALSE
      OBVIOUS
    <3>1. a + 1 .. a + 0 = {}
      OBVIOUS
    <3>2. Part(0) = 0
      BY <3>1, SumOfNothing
    <3>3. v[0] * Place[n - 0 + c] = 0
      <4>1. n - 0 + c \in Nat
        BY <1>2
      <4>2. Place[n - 0 + c] \in Nat
        BY <1>5, <4>1
      <4> HIDE DEF Bad
      <4> QED
        BY <1>3, <4>2
    <3> QED
      BY <2>3, <3>2, <3>3
  <2>5. k \in 1 .. n /\ k - 1 \in 0 .. n /\ ~(k <= k - 1) /\ n - k + c \in Nat
    BY <1>2, <2>3, <2>4
  <2>6. v[k - 1] * Place[n - (k - 1) + c] = Part(k - 1)
    BY <2>2, <2>5 DEF Bad
  <2>7. n - (k - 1) + c = (n - k + c) + 1
    BY <1>2, <2>5
  <2>8. Place[n - (k - 1) + c] = Radix * Place[n - k + c]
    BY <1>5, <2>5, <2>7
  <2>9. Part(k) = worth[a + k] + Part(k - 1)
    <3> DEFINE A == a + 1 .. a + k
    <3>1. IsFiniteSet(A) /\ a + k \in A /\ A \ {a + k} = a + 1 .. a + (k - 1)
      <4>1. k \in Nat \ {0} /\ k >= 1
        BY <1>2, <2>5
      <4>2. IsFiniteSet(A)
        BY <4>1, FS_Interval
      <4>3. a + 1 \in Int /\ a + k \in Int /\ a + 1 <= a + k /\ a + k - 1 = a + (k - 1)
        BY <4>1
      <4>4. a + k \in A
        BY <4>3
      <4>5. A \ {a + k} = a + 1 .. a + (k - 1)
        BY <4>1, WithoutLast, Zenon
      <4> QED
        BY <4>2, <4>3, <4>4, <4>5
    <3>2. \A x \in A : worth[x] \in Int
      <4> TAKE x \in A
      <4>1. x - a \in 1 .. n /\ a + (x - a) = x /\ n - (x - a) + c \in Nat
        BY <1>2, <2>5
      <4>2. worth[x] = s[x - a] * Place[n - (x - a) + c]
        BY <1>4, <4>1
      <4>3. s[x - a] \in Nat /\ Place[n - (x - a) + c] \in Nat
        BY <1>2, <1>5, <4>1
      <4> QED
        BY <4>2, <4>3, ProductType
    <3> HIDE DEF A
    <3>3. SumFunctionOnSet(worth, A) = worth[a + k] + SumFunctionOnSet(worth, A \ {a + k})
      BY <3>1, <3>2, SumRemove
    <3> QED
      BY <3>1, <3>3 DEF A
  <2>10. v[k - 1] \in Nat /\ s[k] \in Nat /\ Place[n - k + c] \in Nat
    BY <1>2, <1>3, <1>5, <2>5
  <2>11. v[k] = v[k - 1] * Radix + s[k]
    BY <1>3, <2>5
  <2>12. v[k] * Place[n - k + c] = s[k] * Place[n - k + c] + v[k - 1] * (Radix * Place[n - k + c])
    <3> DEFINE x == v[k - 1]
               d == s[k]
               w == Place[n - k + c]
    <3>1. x \in Nat /\ d \in Nat /\ w \in Nat
      BY <2>10
    <3> HIDE DEF x, d, w
    <3>2. (x * Radix + d) * w = d * w + x * (Radix * w)
      BY <1>6, <3>1
    <3> QED
      BY <2>11, <3>2 DEF x, d, w
  <2>13. worth[a + k] = s[k] * Place[n - k + c]
    BY <1>4, <2>5
  <2> QED
    BY <2>3, <2>6, <2>8, <2>9, <2>12, <2>13
<1>8. n \in 0 .. n /\ n - n + c = c
  BY <1>2
<1> HIDE DEF Part
<1>9. v[n] * Place[c] = Part(n)
  BY <1>7, <1>8
<1> QED
  BY <1>1, <1>9 DEF Part, n

(* Zeros that are appended move the digits before them. *)
LEMMA ValueOfPadded ==
    ASSUME NEW s \in Seq(Nat), NEW n \in Nat
    PROVE  Value(s \o Zeros(n)) = Value(s) * Place[n]
<1> DEFINE t == s \o Zeros(n)
           m == Len(s)
           worth == [i \in 1 .. m + n |-> t[i] * Place[(m + n) - i + 0]]
<1>1. Zeros(n) \in Seq(Nat) /\ Len(Zeros(n)) = n /\ \A i \in 1 .. n : Zeros(n)[i] = 0
  BY DEF Zeros
<1>2. /\ t \in Seq(Nat) /\ m \in Nat /\ Len(t) = m + n
      /\ \A i \in 1 .. m : t[i] = s[i]
      /\ \A i \in m + 1 .. m + n : t[i] = 0
  <2>1. /\ t \in Seq(Nat) /\ Len(t) = m + Len(Zeros(n)) /\ m \in Nat
        /\ \A i \in 1 .. m + Len(Zeros(n)) : t[i] = IF i <= m THEN s[i] ELSE Zeros(n)[i - m]
    <3> DEFINE z == Zeros(n)
    <3>1. z \in Seq(Nat)
      BY <1>1
    <3> HIDE DEF z, worth
    <3>2. /\ s \o z \in Seq(Nat) /\ Len(s \o z) = Len(s) + Len(z)
          /\ \A i \in 1 .. Len(s) + Len(z) : (s \o z)[i] = IF i <= Len(s) THEN s[i] ELSE z[i - Len(s)]
      BY <3>1, ConcatProperties
    <3> QED
      BY <3>2 DEF z
  <2> HIDE DEF t, m
  <2>2. ASSUME NEW i \in m + 1 .. m + n PROVE t[i] = 0
    <3>1. i - m \in 1 .. n /\ ~(i <= m) /\ i \in 1 .. m + n
      BY <2>1
    <3> QED
      BY <1>1, <2>1, <3>1
  <2> QED
    BY <1>1, <2>1, <2>2
<1> HIDE DEF t
<1>3. Value(t) * Place[0] = SumFunctionOnSet(worth, 0 + 1 .. 0 + Len(t))
  <2>1. \A i \in 1 .. Len(t) : worth[0 + i] = t[i] * Place[Len(t) - i + 0]
    BY <1>2
  <2>2. t \in Seq(Nat) /\ 0 \in Nat
    BY <1>2
  <2> HIDE DEF worth, m
  <2> QED
    BY <2>1, <2>2, ValueIsSum
<1>4. Value(s) * Place[n] = SumFunctionOnSet(worth, 0 + 1 .. 0 + Len(s))
  <2>1. \A i \in 1 .. Len(s) : worth[0 + i] = s[i] * Place[Len(s) - i + n]
    <3> TAKE i \in 1 .. Len(s)
    <3>1. (m + n) - i + 0 = Len(s) - i + n /\ 0 + i = i /\ i \in 1 .. m + n
      BY <1>2
    <3> QED
      BY <1>2, <3>1
  <2> HIDE DEF worth
  <2> QED
    BY <2>1, ValueIsSum
<1> DEFINE A == 1 .. m
           B == m + 1 .. m + n
<1>5. /\ 0 + 1 .. 0 + Len(t) = A \cup B /\ 0 + 1 .. 0 + Len(s) = A /\ A \cap B = {}
      /\ IsFiniteSet(A) /\ IsFiniteSet(B)
  <2>1. IsFiniteSet(A) /\ IsFiniteSet(B)
    <3>1. 1 \in Int /\ m \in Int /\ m + 1 \in Int /\ m + n \in Int
      BY <1>2
    <3> HIDE DEF m
    <3> QED
      BY <3>1, FS_Interval
  <2>2. A \cup B = 1 .. m + n /\ A \cap B = {}
    <3> HIDE DEF m
    <3> QED
      BY <1>2
  <2> QED
    BY <1>2, <2>1, <2>2
<1>6. \A i \in A \cup B : worth[i] \in Int
  <2>1. \A k \in Nat : Place[k] \in Nat
    BY PlaceIs DEF Powers
  <2> TAKE i \in A \cup B
  <2>2. i \in 1 .. m + n /\ (m + n) - i + 0 \in Nat /\ t[i] \in Nat
    BY <1>2
  <2>3. t[i] * Place[(m + n) - i + 0] \in Int
    BY <2>1, <2>2
  <2> QED
    BY <2>2, <2>3
<1>7. \A i \in B : worth[i] = 0
  <2> TAKE i \in B
  <2>1. i \in 1 .. m + n /\ t[i] = 0 /\ (m + n) - i + 0 \in Nat
    BY <1>2
  <2>2. Place[(m + n) - i + 0] \in Nat
    BY <2>1, PlaceIs DEF Powers
  <2> QED
    BY <2>1, <2>2
<1> HIDE DEF worth, A, B
<1>8. SumFunctionOnSet(worth, B) = 0
  BY <1>5, <1>7, SumOfZeros
<1>9. SumFunctionOnSet(worth, A \cup B) = SumFunctionOnSet(worth, A) + SumFunctionOnSet(worth, B)
  BY <1>5, <1>6, SumDisjoint
<1>10. SumFunctionOnSet(worth, A) \in Int
  BY <1>5, <1>6, SumType
<1>11. Place[0] = 1 /\ Value(t) \in Nat
  BY <1>2, ValueType, PlaceIs DEF Powers
<1>12. Value(t) * 1 = SumFunctionOnSet(worth, A) + 0
  BY <1>3, <1>5, <1>8, <1>9, <1>11
<1>13. Value(s) * Place[n] = SumFunctionOnSet(worth, A)
  BY <1>4, <1>5
<1>14. Value(t) = Value(s) * Place[n]
  BY <1>10, <1>11, <1>12, <1>13
<1> QED
  BY <1>14 DEF t

(* What stands before the first point p, or before the end, and after it.  *)
IsFirstPoint(text, p) ==
    /\ p \in 1 .. Len(text) + 1
    /\ \A i \in 1 .. p - 1 : text[i] # Point
    /\ p <= Len(text) => text[p] = Point

LEMMA FirstPointIs ==
    ASSUME NEW text \in Seq(Int)
    PROVE  \E p : IsFirstPoint(text, p) /\ Whole(text) = SubSeq(text, 1, p - 1)
<1> DEFINE n == Len(text)
           t == text \o <<Point>>
           I == {i \in 1 .. Len(t) : t[i] = Point}
<1>1. /\ n \in Nat /\ Len(t) = n + 1 /\ t[n + 1] = Point
      /\ \A i \in 1 .. n : t[i] = text[i]
  <2>1. Point \in Int
    BY DEF Point
  <2> QED
    BY <2>1
<1> HIDE DEF t, n
<1>2. n + 1 \in I /\ I \subseteq Nat
  BY <1>1
<1>3. PICK m \in I : \A k \in I : m <= k
  BY <1>2, LeastNat
<1>4. m = Min(I)
  <2>1. I \subseteq Int
    BY <1>2
  <2> HIDE DEF I
  <2>2. \A x \in I : (\A k \in I : x <= k) => x = m
    BY <1>3, <2>1
  <2> QED
    BY <1>3, <2>2 DEF Min
<1>5. SelectInSeq(t, LAMBDA c : c = Point) = m
  BY <1>2, <1>4 DEF SelectInSeq
<1>6. IsFirstPoint(text, m)
  <2>1. m \in 1 .. n + 1 /\ t[m] = Point
    BY <1>1, <1>3
  <2>2. ASSUME NEW i \in 1 .. m - 1 PROVE text[i] # Point
    <3>1. i \in 1 .. n /\ i \in 1 .. Len(t) /\ ~(m <= i)
      BY <1>1, <2>1
    <3>2. i \notin I
      BY <1>3, <3>1
    <3> QED
      BY <1>1, <3>1, <3>2
  <2>3. m <= n => text[m] = Point
    BY <1>1, <2>1
  <2> QED
    BY <2>1, <2>2, <2>3 DEF IsFirstPoint, n
<1>7. Whole(text) = SubSeq(text, 1, m - 1)
  BY <1>5 DEF Whole, t
<1> QED
  BY <1>6, <1>7

LEMMA FirstPointOnce ==
    ASSUME NEW text \in Seq(Int), NEW p, NEW q, IsFirstPoint(text, p), IsFirstPoint(text, q)
    PROVE  p = q
<1>1. p \in Int /\ q \in Int /\ Len(text) \in Nat
  BY DEF IsFirstPoint
<1>2. ~(p < q)
  <2> SUFFICES ASSUME p < q PROVE FALSE
    OBVIOUS
  <2>1. p \in 1 .. q - 1 /\ p <= Len(text)
    BY <1>1 DEF IsFirstPoint
  <2> QED
    BY <2>1 DEF IsFirstPoint
<1>3. ~(q < p)
  <2> SUFFICES ASSUME q < p PROVE FALSE
    OBVIOUS
  <2>1. q \in 1 .. p - 1 /\ q <= Len(text)
    BY <1>1 DEF IsFirstPoint
  <2> QED
    BY <2>1 DEF IsFirstPoint
<1> QED
  BY <1>1, <1>2, <1>3

LEMMA PartsAre ==
    ASSUME NEW text \in Seq(Int), NEW p, IsFirstPoint(text, p)
    PROVE  /\ Whole(text) \in Seq(Int)
           /\ Len(Whole(text)) = p - 1
           /\ \A i \in 1 .. p - 1 : Whole(text)[i] = text[i]
           /\ Fraction(text) \in Seq(Int)
           /\ Len(Fraction(text)) = IF p > Len(text) THEN 0 ELSE Len(text) - p
           /\ \A i \in 1 .. Len(text) - p : Fraction(text)[i] = text[p + i]
<1> DEFINE n == Len(text)
<1>1. n \in Nat /\ \A i \in 1 .. n : text[i] \in Int
  OBVIOUS
<1>2. p \in 1 .. n + 1
  BY DEF IsFirstPoint
<1> HIDE DEF n
<1>3. Whole(text) = SubSeq(text, 1, p - 1)
  BY FirstPointIs, FirstPointOnce
<1>4. /\ Whole(text) \in Seq(Int) /\ Len(Whole(text)) = p - 1
      /\ \A i \in 1 .. p - 1 : Whole(text)[i] = text[i]
  <2>1. 1 \in Int /\ p - 1 \in Int /\ \A i \in 1 .. p - 1 : text[i] \in Int
    BY <1>1, <1>2
  <2>2. /\ SubSeq(text, 1, p - 1) \in Seq(Int)
        /\ Len(SubSeq(text, 1, p - 1)) = IF 1 <= p - 1 THEN (p - 1) - 1 + 1 ELSE 0
        /\ \A i \in 1 .. (p - 1) - 1 + 1 : SubSeq(text, 1, p - 1)[i] = text[1 + i - 1]
    BY <2>1, SubSeqProperties
  <2>3. (p - 1) - 1 + 1 = p - 1 /\ \A i \in 1 .. p - 1 : 1 + i - 1 = i
    BY <1>2
  <2> QED
    BY <1>2, <1>3, <2>2, <2>3
<1>5. Fraction(text) = SubSeq(text, p + 1, n)
  <2>1. Len(Whole(text)) + 2 = p + 1
    BY <1>2, <1>4
  <2> QED
    BY <2>1 DEF Fraction, n
<1>6. /\ Fraction(text) \in Seq(Int)
      /\ Len(Fraction(text)) = IF p > n THEN 0 ELSE n - p
      /\ \A i \in 1 .. n - p : Fraction(text)[i] = text[p + i]
  <2>1. p + 1 \in Int /\ n \in Int /\ \A i \in p + 1 .. n : text[i] \in Int
    BY <1>1, <1>2
  <2>2. /\ SubSeq(text, p + 1, n) \in Seq(Int)
        /\ Len(SubSeq(text, p + 1, n)) = IF p + 1 <= n THEN n - (p + 1) + 1 ELSE 0
        /\ \A i \in 1 .. n - (p + 1) + 1 : SubSeq(text, p + 1, n)[i] = text[(p + 1) + i - 1]
    BY <2>1, SubSeqProperties
  <2>3. n - (p + 1) + 1 = n - p /\ \A i \in 1 .. n - p : (p + 1) + i - 1 = p + i
    BY <1>1, <1>2
  <2>4. Len(Fraction(text)) = IF p > n THEN 0 ELSE n - p
    BY <1>1, <1>2, <1>5, <2>2, <2>3
  <2> QED
    BY <1>5, <2>2, <2>3, <2>4
<1> QED
  BY <1>4, <1>6 DEF n

(* The digits of a number are worth the number. *)
LEMMA NumeralIs ==
    ASSUME NEW n \in Nat, NEW size \in Nat, n < Place[size]
    PROVE  /\ Numeral(n, size) \in Seq(Digit) /\ Len(Numeral(n, size)) = size
           /\ Value(Numeral(n, size)) = n
<1> DEFINE s == Numeral(n, size)
<1>1. Radix \in Nat \ {0}
  BY AmountAssumption
<1>2. \A k \in Nat : Place[k] \in Nat \ {0} /\ Place[k + 1] = Radix * Place[k]
  BY PlaceIs DEF Powers
<1>3. Place[0] = 1
  BY PlaceIs DEF Powers
<1>4. \A i \in 1 .. size : (n \div Place[size - i]) % Radix \in Digit
  <2> TAKE i \in 1 .. size
  <2>1. Place[size - i] \in Nat \ {0}
    BY <1>2
  <2> DEFINE q == n \div Place[size - i]
  <2>2. q \in Nat
    BY <2>1
  <2> HIDE DEF q
  <2>3. q % Radix \in 0 .. Radix - 1
    BY <1>1, <2>2
  <2> QED
    BY <2>3 DEF q, Digit
<1>5. /\ s \in Seq(Digit) /\ Len(s) = size
      /\ \A i \in 1 .. size : s[i] = (n \div Place[size - i]) % Radix
  BY <1>4 DEF Numeral
<1> HIDE DEF s
<1>6. s \in Seq(Nat)
  <2>1. Digit \subseteq Nat
    BY <1>1 DEF Digit
  <2>2. \A i \in 1 .. size : s[i] \in Nat
    BY <1>4, <1>5, <2>1
  <2>3. s = [i \in 1 .. size |-> s[i]]
    BY <1>5
  <2>4. [i \in 1 .. size |-> s[i]] \in Seq(Nat)
    BY <2>2
  <2> QED
    BY <2>3, <2>4, Zenon
<1>7. PICK v : ValueTable(v, s) /\ Value(s) = v[Len(s)]
  BY <1>6, ValueIs
<1>8. /\ v[0] = 0
      /\ \A i \in 1 .. size : v[i] = v[i - 1] * Radix + s[i]
  BY <1>5, <1>7 DEF ValueTable
<1> DEFINE Bad == {i \in 0 .. size : v[i] # n \div Place[size - i]}
<1>9. Bad = {}
  <2> SUFFICES ASSUME Bad # {} PROVE FALSE
    OBVIOUS
  <2>1. Bad \subseteq Nat
    OBVIOUS
  <2> HIDE DEF Bad
  <2>2. PICK k \in Bad : \A j \in Bad : k <= j
    BY <2>1, LeastNat
  <2>3. k \in 0 .. size /\ v[k] # n \div Place[size - k]
    BY <2>2 DEF Bad
  <2>4. k # 0
    <3>1. Place[size] \in Nat \ {0}
      BY <1>2
    <3>2. n \div Place[size] = 0
      BY <3>1
    <3>3. size - 0 = size
      OBVIOUS
    <3> QED
      BY <1>8, <2>3, <3>2, <3>3
  <2>5. k \in 1 .. size /\ k - 1 \in 0 .. size /\ ~(k <= k - 1) /\ size - k \in Nat
    BY <2>3, <2>4
  <2>6. v[k - 1] = n \div Place[size - (k - 1)]
    BY <2>2, <2>5 DEF Bad
  <2>7. size - (k - 1) = (size - k) + 1
    BY <2>5
  <2> DEFINE w == Place[size - k]
             q == n \div w
  <2>8. w \in Nat \ {0} /\ Place[size - (k - 1)] = Radix * w
    BY <1>2, <2>5, <2>7
  <2> HIDE DEF w
  <2>9. q \in Nat
    BY <2>8
  <2>10. n \div (Radix * w) = q \div Radix
    <3>1. (n \div w) \div Radix = n \div (w * Radix)
      BY <1>1, <2>8, QuotientTwice
    <3>2. w * Radix = Radix * w
      BY <1>1, <2>8
    <3> QED
      BY <3>1, <3>2
  <2>11. s[k] = q % Radix
    BY <1>5, <2>5 DEF w
  <2> HIDE DEF q
  <2>12. q = (q \div Radix) * Radix + (q % Radix)
    BY <1>1, <2>9
  <2>13. v[k] = (q \div Radix) * Radix + (q % Radix)
    BY <1>8, <2>5, <2>6, <2>8, <2>10, <2>11
  <2> QED
    BY <2>3, <2>12, <2>13 DEF q, w
<1>10. size \in 0 .. size /\ size - size = 0
  OBVIOUS
<1>11. v[size] = n \div 1
  BY <1>3, <1>9, <1>10
<1>12. Value(s) = n
  BY <1>5, <1>7, <1>11
<1> QED
  BY <1>5, <1>12 DEF s

(* Every number has a numeral. *)
LEMMA PlaceExceeds == \A n \in Nat : n < Place[n]
<1> DEFINE Bad == {n \in Nat : ~(n < Place[n])}
<1> SUFFICES ASSUME Bad # {} PROVE FALSE
  OBVIOUS
<1>1. Bad \subseteq Nat
  OBVIOUS
<1> HIDE DEF Bad
<1>2. PICK k \in Bad : \A n \in Bad : k <= n
  BY <1>1, LeastNat
<1>3. k \in Nat /\ ~(k < Place[k])
  BY <1>2 DEF Bad
<1>4. Place[0] = 1 /\ \A n \in Nat : Place[n] \in Nat \ {0} /\ Place[n + 1] = Radix * Place[n]
  BY PlaceIs DEF Powers
<1>5. k # 0
  BY <1>3, <1>4
<1>6. k - 1 \in Nat /\ ~(k <= k - 1) /\ (k - 1) + 1 = k
  BY <1>3, <1>5
<1>7. k - 1 < Place[k - 1]
  BY <1>2, <1>6 DEF Bad
<1>8. \A w \in Nat : Radix * w >= 2 * w
  <2>1. Radix \in Nat /\ Radix >= 2
    BY AmountAssumption
  <2> QED
    BY <2>1
<1>9. Place[k] = Radix * Place[k - 1] /\ Place[k - 1] \in Nat \ {0}
  BY <1>4, <1>6
<1>10. Place[k] >= 2 * Place[k - 1] /\ Place[k] \in Nat
  BY <1>3, <1>4, <1>8, <1>9
<1> QED
  BY <1>3, <1>7, <1>9, <1>10

LEMMA DigitsAreNumbers == \A s \in Seq(Digit) : s \in Seq(Nat) /\ s \in Seq(Int)
<1>1. Digit \subseteq Nat /\ Digit \subseteq Int
  BY AmountAssumption DEF Digit
<1>2. Seq(Digit) \subseteq Seq(Nat) /\ Seq(Digit) \subseteq Seq(Int)
  BY <1>1, SeqMonotonic
<1> QED
  BY <1>2

(* What is read from a text whose digits are digits. *)
LEMMA ReadIs ==
    ASSUME NEW text \in Seq(Int), text # <<>>,
           Whole(text) \in Seq(Digit), Fraction(text) \in Seq(Digit),
           Len(Fraction(text)) <= Decimals
    PROVE  LET worth == Value(Whole(text)) * Place[Decimals]
                        + Value(Fraction(text)) * Place[Decimals - Len(Fraction(text))]
           IN  FromCoinsString(text) = {worth} \cap 0 .. MaxSupply
<1> DEFINE W == Value(Whole(text))
           f == Fraction(text)
           F == Value(f) * Place[Decimals - Len(f)]
           padded == f \o Zeros(Decimals - Len(f))
<1>1. Whole(text) \in Seq(Nat) /\ f \in Seq(Nat)
  BY DigitsAreNumbers
<1>2. Decimals \in Nat /\ Len(f) \in Nat /\ Decimals - Len(f) \in Nat
  BY AmountAssumption
<1>3. Value(padded) = F
  BY <1>1, <1>2, ValueOfPadded
<1>4. W \in Nat /\ Value(f) \in Nat
  BY <1>1, ValueType
<1>5. Atom \in Nat \ {0} /\ Place[Decimals - Len(f)] \in Nat
  BY <1>2, PlaceIs DEF Powers, Atom
<1>6. F \in Nat
  BY <1>4, <1>5, ProductType
<1>7. MaxSupply \in Nat /\ UintMax \in Nat /\ MaxSupply <= UintMax
  BY AmountAssumption
<1>8. Range(Whole(text) \o f) \subseteq Digit
  <2>1. Whole(text) \o f \in Seq(Digit)
    BY ConcatProperties
  <2> DEFINE t == Whole(text) \o f
  <2> HIDE DEF t
  <2>2. t \in Seq(Digit)
    BY <2>1 DEF t
  <2>3. \A i \in DOMAIN t : t[i] \in Digit
    BY <2>2
  <2> QED
    BY <2>3 DEF Range, t
<1>9. FromCoinsString(text) = IF W <= UintMax /\ W <= MaxSupply \div Atom
                               THEN ({W * Atom + F} \cap 0 .. UintMax) \cap 0 .. MaxSupply
                               ELSE {}
  BY <1>3, <1>8 DEF FromCoinsString, Atoms, Add
<1> HIDE DEF W, F
<1>10. W * Atom \in Nat
  BY <1>4, <1>5, ProductType
<1>11. W <= MaxSupply \div Atom <=> W * Atom <= MaxSupply
  BY <1>4, <1>5, <1>7, QuotientBounds
<1>12. W <= W * Atom
  BY <1>4, <1>5
<1>13. FromCoinsString(text) = {W * Atom + F} \cap 0 .. MaxSupply
  <2>1. CASE W * Atom <= MaxSupply
    BY <1>4, <1>6, <1>7, <1>9, <1>10, <1>11, <1>12, <2>1
  <2>2. CASE ~(W * Atom <= MaxSupply)
    <3>1. W * Atom + F > MaxSupply
      BY <1>6, <1>7, <1>10, <2>2
    <3> QED
      BY <1>6, <1>7, <1>9, <1>10, <1>11, <2>2, <3>1
  <2> QED
    BY <2>1, <2>2
<1> QED
  BY <1>13 DEF W, F, Atom

(* What is written is read as what it was. *)
LEMMA ReadAgain ==
    ASSUME NEW atoms \in 0 .. MaxSupply
    PROVE  FromCoinsString(ToCoinsString(atoms)) = {atoms}
<1> DEFINE coins == atoms \div Atom
           rest == atoms % Atom
           Spans(k) == coins < Place[k] /\ (k = 1 \/ coins >= Place[k - 1])
           size == CHOOSE k \in 1 .. coins + 1 : Spans(k)
           whole == Numeral(coins, size)
           fraction == Numeral(rest, Decimals)
           text == whole \o <<Point>> \o fraction
<1>1. atoms \in Nat /\ MaxSupply \in Nat /\ atoms <= MaxSupply /\ Decimals \in Nat
  BY AmountAssumption
<1>2. Atom \in Nat \ {0}
  BY <1>1, PlaceIs DEF Powers, Atom
<1>3. coins \in Nat /\ rest \in Nat /\ rest < Atom /\ atoms = coins * Atom + rest
  BY <1>1, <1>2
<1>4. text = ToCoinsString(atoms)
  BY DEF ToCoinsString
<1> HIDE DEF coins, rest
<1>5. \A k \in Nat : Place[k] \in Nat \ {0}
  BY PlaceIs DEF Powers
<1>6. size \in 1 .. coins + 1 /\ Spans(size)
  <2> DEFINE Over == {k \in 1 .. coins + 1 : coins < Place[k]}
  <2>1. coins + 1 \in Over
    <3>1. coins + 1 \in Nat /\ coins + 1 < Place[coins + 1] /\ Place[coins + 1] \in Nat
      BY <1>3, <1>5, PlaceExceeds
    <3> QED
      BY <1>3, <3>1
  <2>2. Over \subseteq Nat
    OBVIOUS
  <2> HIDE DEF Over
  <2>3. PICK k \in Over : \A j \in Over : k <= j
    BY <2>1, <2>2, LeastNat
  <2>4. k \in 1 .. coins + 1 /\ coins < Place[k]
    BY <2>3 DEF Over
  <2>5. k # 1 => coins >= Place[k - 1]
    <3> SUFFICES ASSUME k # 1 PROVE coins >= Place[k - 1]
      OBVIOUS
    <3>1. k - 1 \in 1 .. coins + 1 /\ ~(k <= k - 1) /\ k - 1 \in Nat
      BY <1>3, <2>4
    <3>2. k - 1 \notin Over
      BY <2>3, <3>1
    <3>3. ~(coins < Place[k - 1]) /\ Place[k - 1] \in Nat
      BY <1>5, <3>1, <3>2 DEF Over
    <3> QED
      BY <1>3, <3>3
  <2>6. Spans(k)
    BY <2>4, <2>5
  <2> HIDE DEF Spans
  <2> QED
    BY <2>4, <2>6
<1> HIDE DEF size
<1>7. size \in Nat \ {0} /\ coins < Place[size]
  BY <1>3, <1>6
<1>8. whole \in Seq(Digit) /\ Len(whole) = size /\ Value(whole) = coins
  BY <1>3, <1>7, NumeralIs
<1>9. fraction \in Seq(Digit) /\ Len(fraction) = Decimals /\ Value(fraction) = rest
  BY <1>1, <1>3, NumeralIs DEF Atom
<1> HIDE DEF whole, fraction
<1>10. Digit \subseteq Nat /\ Point \notin Digit /\ Point \in Int
  BY AmountAssumption DEF Digit, Point
<1>11. /\ text \in Seq(Int) /\ Len(text) = size + 1 + Decimals
       /\ \A i \in 1 .. size : text[i] = whole[i]
       /\ text[size + 1] = Point
       /\ \A i \in 1 .. Decimals : text[size + 1 + i] = fraction[i]
  <2>1. whole \in Seq(Int) /\ <<Point>> \in Seq(Int) /\ fraction \in Seq(Int) /\ Len(<<Point>>) = 1
    <3>1. whole \in Seq(Int) /\ fraction \in Seq(Int)
      BY <1>8, <1>9, DigitsAreNumbers
    <3>2. Point \in Int
      BY <1>10
    <3> HIDE DEF text
    <3>3. <<Point>> \in Seq(Int) /\ Len(<<Point>>) = 1
      BY <3>2
    <3> QED
      BY <3>1, <3>3
  <2> DEFINE head == whole \o <<Point>>
  <2>2. /\ head \in Seq(Int) /\ Len(head) = size + 1
        /\ \A i \in 1 .. size : head[i] = whole[i]
        /\ head[size + 1] = Point
    BY <1>7, <1>8, <2>1
  <2>3. text = head \o fraction
    OBVIOUS
  <2> HIDE DEF head, text
  <2>4. /\ head \o fraction \in Seq(Int) /\ Len(head \o fraction) = Len(head) + Len(fraction)
        /\ \A i \in 1 .. Len(head) + Len(fraction) :
              (head \o fraction)[i] = IF i <= Len(head) THEN head[i] ELSE fraction[i - Len(head)]
    BY <2>1, <2>2, ConcatProperties
  <2>5. /\ text \in Seq(Int) /\ Len(text) = size + 1 + Decimals
        /\ \A i \in 1 .. size + 1 + Decimals :
              text[i] = IF i <= size + 1 THEN head[i] ELSE fraction[i - (size + 1)]
    BY <1>9, <2>2, <2>3, <2>4
  <2>6. \A i \in 1 .. size + 1 : i \in 1 .. size + 1 + Decimals /\ i <= size + 1
    BY <1>1, <1>7
  <2>7. \A i \in 1 .. Decimals : /\ size + 1 + i \in 1 .. size + 1 + Decimals
                                 /\ ~(size + 1 + i <= size + 1)
                                 /\ size + 1 + i - (size + 1) = i
    BY <1>1, <1>7
  <2>8. size + 1 \in 1 .. size + 1 /\ \A i \in 1 .. size : i \in 1 .. size + 1
    BY <1>7
  <2> QED
    BY <2>2, <2>5, <2>6, <2>7, <2>8
<1> HIDE DEF text
<1>12. IsFirstPoint(text, size + 1)
  <2>1. \A i \in 1 .. size : text[i] # Point
    <3> TAKE i \in 1 .. size
    <3>1. whole[i] \in Digit
      BY <1>8
    <3> QED
      BY <1>10, <1>11, <3>1
  <2>2. size + 1 \in 1 .. Len(text) + 1 /\ (size + 1) - 1 = size
    BY <1>1, <1>7, <1>11
  <2> QED
    BY <1>11, <2>1, <2>2 DEF IsFirstPoint
<1>13. Whole(text) = whole
  <2>1. /\ Whole(text) \in Seq(Int) /\ Len(Whole(text)) = (size + 1) - 1
        /\ \A i \in 1 .. (size + 1) - 1 : Whole(text)[i] = text[i]
    BY <1>11, <1>12, PartsAre
  <2>2. (size + 1) - 1 = size /\ whole \in Seq(Int)
    BY <1>7, <1>8, DigitsAreNumbers
  <2> QED
    BY <1>8, <1>11, <2>1, <2>2, SeqEqual
<1>14. Fraction(text) = fraction
  <2>1. /\ Fraction(text) \in Seq(Int)
        /\ Len(Fraction(text)) = IF size + 1 > Len(text) THEN 0 ELSE Len(text) - (size + 1)
        /\ \A i \in 1 .. Len(text) - (size + 1) : Fraction(text)[i] = text[size + 1 + i]
    BY <1>11, <1>12, PartsAre
  <2>2. Len(text) - (size + 1) = Decimals /\ ~(size + 1 > Len(text)) /\ fraction \in Seq(Int)
    BY <1>1, <1>7, <1>9, <1>11, DigitsAreNumbers
  <2> QED
    BY <1>9, <1>11, <2>1, <2>2, SeqEqual
<1>15. text # <<>>
  <2>1. Len(text) # 0
    BY <1>1, <1>7, <1>11
  <2> QED
    BY <2>1
<1>16. FromCoinsString(text) =
           {coins * Place[Decimals] + rest * Place[Decimals - Decimals]} \cap 0 .. MaxSupply
  <2>1. Decimals <= Decimals
    BY <1>1
  <2> QED
    BY <1>8, <1>9, <1>11, <1>13, <1>14, <1>15, <2>1, ReadIs
<1>17. Place[Decimals - Decimals] = 1
  <2>1. Decimals - Decimals = 0
    BY <1>1
  <2> QED
    BY <2>1, PlaceIs DEF Powers
<1>18. FromCoinsString(text) = {atoms}
  <2>1. rest * 1 = rest
    BY <1>3
  <2> QED
    BY <1>3, <1>16, <1>17, <2>1 DEF Atom
<1> QED
  BY <1>4, <1>18

(* What AmountIsExact says of a text. *)
PointsOf(text) == {i \in DOMAIN text : text[i] = Point}
PlacesOf(text, i) ==
    Decimals + Cardinality({j \in i + 1 .. Len(text) : text[j] # Point})
        - (IF PointsOf(text) = {} THEN 0 ELSE Len(text) - Max(PointsOf(text)))
DigitWorth(text) ==
    [i \in DOMAIN text \ PointsOf(text) |-> text[i] * Place[PlacesOf(text, i)]]
IsAmount(text) ==
    /\ text # <<>> /\ Range(text) \subseteq Digit \cup {Point}
    /\ Cardinality(PointsOf(text)) <= 1
    /\ \A p \in PointsOf(text) : Len(text) - p <= Decimals

(* The points of a text that can be read: the first one, or none. *)
LEMMA PointsAre ==
    ASSUME NEW text \in Seq(Int), NEW p, IsFirstPoint(text, p),
           \A i \in 1 .. Len(text) : i # p => text[i] \in Digit
    PROVE  PointsOf(text) = IF p > Len(text) THEN {} ELSE {p}
<1> DEFINE n == Len(text)
<1>1. n \in Nat /\ DOMAIN text = 1 .. n
  OBVIOUS
<1>2. p \in 1 .. n + 1 /\ (p <= n => text[p] = Point)
  BY DEF IsFirstPoint
<1>3. Point \notin Digit
  BY AmountAssumption DEF Digit, Point
<1>4. \A i \in 1 .. n : text[i] = Point => i = p
  BY <1>3
<1>5. PointsOf(text) = {i \in 1 .. n : text[i] = Point}
  BY <1>1 DEF PointsOf
<1> HIDE DEF n
<1>6. CASE p > n
  BY <1>1, <1>2, <1>4, <1>5, <1>6 DEF n
<1>7. CASE ~(p > n)
  <2>1. p \in 1 .. n /\ text[p] = Point
    BY <1>1, <1>2, <1>7
  <2>2. {i \in 1 .. n : text[i] = Point} = {p}
    BY <1>4, <2>1
  <2> QED
    BY <1>5, <1>7, <2>2 DEF n
<1> QED
  BY <1>6, <1>7

(* What the code asks of the two parts is what makes a text an amount. *)
LEMMA AmountsAre ==
    ASSUME NEW text \in Seq(Int), NEW p, IsFirstPoint(text, p)
    PROVE  IsAmount(text) <=>
               /\ text # <<>>
               /\ Len(Fraction(text)) <= Decimals
               /\ \A i \in 1 .. Len(text) : i # p => text[i] \in Digit
<1> DEFINE n == Len(text)
           Good == /\ text # <<>>
                   /\ Len(Fraction(text)) <= Decimals
                   /\ \A i \in 1 .. n : i # p => text[i] \in Digit
<1>1. n \in Nat /\ DOMAIN text = 1 .. n
  OBVIOUS
<1>2. p \in 1 .. n + 1 /\ (p <= n => text[p] = Point)
  BY DEF IsFirstPoint
<1>3. Len(Fraction(text)) = IF p > n THEN 0 ELSE n - p
  BY PartsAre
<1>4. Decimals \in Nat
  BY AmountAssumption
<1>5. Range(text) \subseteq Digit \cup {Point} <=> \A i \in 1 .. n : text[i] \in Digit \cup {Point}
  BY <1>1 DEF Range
<1>6. ASSUME Good PROVE IsAmount(text)
  <2>1. PointsOf(text) = IF p > n THEN {} ELSE {p}
    BY <1>6, PointsAre
  <2>2. Cardinality(PointsOf(text)) <= 1
    <3>1. Cardinality({p}) = 1 /\ Cardinality({}) = 0
      BY FS_Singleton, FS_EmptySet
    <3>2. PointsOf(text) = {} \/ PointsOf(text) = {p}
      BY <2>1
    <3>3. CASE PointsOf(text) = {}
      <4>1. Cardinality(PointsOf(text)) = 0
        BY <3>1, <3>3, Zenon
      <4> QED
        BY <4>1
    <3>4. CASE PointsOf(text) = {p}
      <4>1. Cardinality(PointsOf(text)) = 1
        BY <3>1, <3>4, Zenon
      <4> QED
        BY <4>1
    <3> QED
      BY <3>2, <3>3, <3>4
  <2>3. \A i \in 1 .. n : text[i] \in Digit \cup {Point}
    BY <1>1, <1>2, <1>6
  <2>4. \A q \in PointsOf(text) : Len(text) - q <= Decimals
    BY <1>1, <1>2, <1>3, <1>6, <2>1
  <2> QED
    BY <1>5, <1>6, <2>2, <2>3, <2>4 DEF IsAmount
<1>7. ASSUME IsAmount(text) PROVE Good
  <2>1. /\ text # <<>>
        /\ \A i \in 1 .. n : text[i] \in Digit \cup {Point}
        /\ Cardinality(PointsOf(text)) <= 1
        /\ \A q \in PointsOf(text) : Len(text) - q <= Decimals
    BY <1>5, <1>7 DEF IsAmount
  <2>2. ASSUME NEW i \in 1 .. n, i # p PROVE text[i] # Point
    <3> SUFFICES ASSUME text[i] = Point PROVE FALSE
      OBVIOUS
    <3>1. p <= n
      <4> SUFFICES ASSUME p = n + 1 PROVE FALSE
        BY <1>1, <1>2
      <4>1. i \in 1 .. p - 1
        BY <1>1
      <4> QED
        BY <4>1 DEF IsFirstPoint
    <3>2. i \in PointsOf(text) /\ p \in PointsOf(text)
      BY <1>1, <1>2, <3>1 DEF PointsOf
    <3>3. IsFiniteSet(PointsOf(text))
      <4>1. IsFiniteSet(1 .. n)
        BY <1>1, FS_Interval
      <4>2. PointsOf(text) \subseteq 1 .. n
        BY <1>1 DEF PointsOf
      <4> QED
        BY <4>1, <4>2, FS_Subset
    <3> DEFINE P == PointsOf(text)
               R == P \ {i}
    <3>4. IsFiniteSet(R) /\ Cardinality(R) = Cardinality(P) - 1 /\ Cardinality(P) \in Nat
      BY <3>2, <3>3, FS_RemoveElement, FS_CardinalityType
    <3>5. p \in R
      BY <2>2, <3>2
    <3> HIDE DEF R
    <3>6. Cardinality(R) # 0
      BY <3>4, <3>5, FS_EmptySet
    <3>7. Cardinality(R) \in Nat
      BY <3>4, FS_CardinalityType
    <3> QED
      BY <2>1, <3>4, <3>6, <3>7
  <2>3. \A i \in 1 .. n : i # p => text[i] \in Digit
    BY <2>1, <2>2
  <2>4. PointsOf(text) = IF p > n THEN {} ELSE {p}
    BY <2>3, PointsAre
  <2>5. Len(Fraction(text)) <= Decimals
    <3>1. CASE p > n
      BY <1>3, <1>4, <3>1
    <3>2. CASE ~(p > n)
      <4>1. p \in PointsOf(text)
        BY <2>4, <3>2
      <4>2. Len(text) - p <= Decimals
        BY <2>1, <4>1
      <4> QED
        BY <1>3, <3>2, <4>2
    <3> QED
      BY <3>1, <3>2
  <2> QED
    BY <2>1, <2>3, <2>5
<1> QED
  BY <1>6, <1>7

(* A digit of a text that can be read is worth a power by its distance     *)
(* from the point, which the number of places to its right gives.          *)
LEMMA PlacesAre ==
    ASSUME NEW text \in Seq(Int), NEW p, IsFirstPoint(text, p),
           \A i \in 1 .. Len(text) : i # p => text[i] \in Digit
    PROVE  /\ \A i \in 1 .. p - 1 : PlacesOf(text, i) = (p - 1) - i + Decimals
           /\ \A i \in 1 .. Len(text) - p :
                 PlacesOf(text, p + i) = (Len(text) - p) - i + (Decimals - (Len(text) - p))
<1> DEFINE n == Len(text)
           Right(i) == {j \in i + 1 .. n : text[j] # Point}
<1>1. n \in Nat /\ Decimals \in Nat
  BY AmountAssumption
<1>2. p \in 1 .. n + 1
  BY DEF IsFirstPoint
<1>3. PointsOf(text) = IF p > n THEN {} ELSE {p}
  BY PointsAre
<1>4. Point \notin Digit
  BY AmountAssumption DEF Digit, Point
<1>5. \A j \in 1 .. n : text[j] # Point <=> j # p
  <2>1. p <= n => text[p] = Point
    BY DEF IsFirstPoint
  <2> QED
    BY <1>1, <1>2, <1>4, <2>1
<1>6. \A i \in 1 .. n : PlacesOf(text, i)
          = Decimals + Cardinality(Right(i)) - (IF p > n THEN 0 ELSE n - p)
  <2>1. p <= n => Max(PointsOf(text)) = p
    <3> HAVE p <= n
    <3>1. PointsOf(text) = {p} /\ p \in Int /\ p >= p
      BY <1>1, <1>2, <1>3
    <3> QED
      BY <3>1 DEF Max
  <2>2. PointsOf(text) = {} <=> p > n
    BY <1>1, <1>2, <1>3
  <2> QED
    BY <1>1, <1>2, <2>1, <2>2 DEF PlacesOf
<1>7. \A i \in 1 .. n : Right(i) = (i + 1 .. n) \ {p}
  BY <1>1, <1>5
<1> HIDE DEF n, Right
<1>8. \A i \in 1 .. n : /\ IsFiniteSet(i + 1 .. n)
                        /\ Cardinality(i + 1 .. n) = n - i
  <2> TAKE i \in 1 .. n
  <2>1. i + 1 \in Int /\ n \in Int
    BY <1>1
  <2>2. IsFiniteSet(i + 1 .. n) /\ Cardinality(i + 1 .. n) = IF i + 1 > n THEN 0 ELSE n - (i + 1) + 1
    BY <2>1, FS_Interval
  <2> QED
    BY <1>1, <2>2
<1>9. \A i \in 1 .. n : Cardinality(Right(i)) = IF p \in i + 1 .. n THEN n - i - 1 ELSE n - i
  <2> TAKE i \in 1 .. n
  <2>1. Cardinality((i + 1 .. n) \ {p})
            = IF p \in i + 1 .. n THEN Cardinality(i + 1 .. n) - 1 ELSE Cardinality(i + 1 .. n)
    BY <1>8, FS_RemoveElement
  <2> QED
    BY <1>7, <1>8, <2>1
<1>10. ASSUME NEW i \in 1 .. p - 1 PROVE PlacesOf(text, i) = (p - 1) - i + Decimals
  <2>1. i \in 1 .. n /\ (p \in i + 1 .. n <=> p <= n)
    BY <1>1, <1>2
  <2>2. Cardinality(Right(i)) = IF p <= n THEN n - i - 1 ELSE n - i
    BY <1>9, <2>1
  <2>3. PlacesOf(text, i) = Decimals + Cardinality(Right(i)) - (IF p > n THEN 0 ELSE n - p)
    BY <1>6, <2>1
  <2>4. CASE p <= n
    BY <1>1, <1>2, <2>2, <2>3, <2>4
  <2>5. CASE ~(p <= n)
    BY <1>1, <1>2, <2>2, <2>3, <2>5
  <2> QED
    BY <2>4, <2>5
<1>11. ASSUME NEW i \in 1 .. n - p
       PROVE  PlacesOf(text, p + i) = (n - p) - i + (Decimals - (n - p))
  <2>1. p + i \in 1 .. n /\ ~(p \in (p + i) + 1 .. n) /\ ~(p > n)
    BY <1>1, <1>2
  <2>2. Cardinality(Right(p + i)) = n - (p + i)
    BY <1>9, <2>1
  <2>3. PlacesOf(text, p + i) = Decimals + Cardinality(Right(p + i)) - (IF p > n THEN 0 ELSE n - p)
    BY <1>6, <2>1
  <2> QED
    BY <1>1, <1>2, <2>1, <2>2, <2>3
<1> QED
  BY <1>10, <1>11 DEF n

(* What is read from a text is what its digits are worth. *)
LEMMA ReadIsExact ==
    ASSUME NEW text \in Seq(Int)
    PROVE  FromCoinsString(text)
               = IF IsAmount(text) THEN {SumFunction(DigitWorth(text))} \cap 0 .. MaxSupply ELSE {}
<1> DEFINE n == Len(text)
           w == Whole(text)
           f == Fraction(text)
<1>1. PICK p : IsFirstPoint(text, p)
  BY FirstPointIs
<1>2. /\ w \in Seq(Int) /\ Len(w) = p - 1
      /\ \A i \in 1 .. p - 1 : w[i] = text[i]
      /\ f \in Seq(Int) /\ Len(f) = IF p > n THEN 0 ELSE n - p
      /\ \A i \in 1 .. n - p : f[i] = text[p + i]
  BY <1>1, PartsAre
<1>3. n \in Nat /\ DOMAIN text = 1 .. n /\ p \in 1 .. n + 1
  BY <1>1 DEF IsFirstPoint
<1> DEFINE AllDigits(q) == \A i \in 1 .. n : i # q => text[i] \in Digit
<1>4. IsAmount(text) <=> text # <<>> /\ Len(f) <= Decimals /\ AllDigits(p)
  BY <1>1, AmountsAre
<1>5. AllDigits(p) <=> w \in Seq(Digit) /\ f \in Seq(Digit)
  <2> HIDE DEF w, f, n
  <2>1. ASSUME AllDigits(p) PROVE w \in Seq(Digit) /\ f \in Seq(Digit)
    <3>1. \A i \in 1 .. Len(w) : w[i] \in Digit
      BY <1>2, <1>3, <2>1
    <3>2. \A i \in 1 .. Len(f) : f[i] \in Digit
      <4> TAKE i \in 1 .. Len(f)
      <4>1. i \in 1 .. n - p /\ p + i \in 1 .. n /\ p + i # p
        BY <1>2, <1>3
      <4> QED
        BY <1>2, <2>1, <4>1
    <3>3. \A s \in Seq(Int) : (\A i \in 1 .. Len(s) : s[i] \in Digit) => s \in Seq(Digit)
      OBVIOUS
    <3> QED
      BY <1>2, <3>1, <3>2, <3>3
  <2>2. ASSUME w \in Seq(Digit), f \in Seq(Digit) PROVE AllDigits(p)
    <3>1. SUFFICES ASSUME NEW i \in 1 .. n, i # p PROVE text[i] \in Digit
      OBVIOUS
    <3>2. CASE i < p
      <4>1. i \in 1 .. p - 1 /\ i \in 1 .. Len(w)
        BY <1>2, <1>3, <3>2
      <4>2. w[i] \in Digit
        BY <2>2, <4>1
      <4> QED
        BY <1>2, <4>1, <4>2
    <3>3. CASE i > p
      <4>1. i - p \in 1 .. n - p /\ i - p \in 1 .. Len(f) /\ p + (i - p) = i
        BY <1>2, <1>3, <3>3
      <4>2. f[i - p] \in Digit
        BY <2>2, <4>1
      <4> QED
        BY <1>2, <4>1, <4>2
    <3> QED
      BY <1>3, <3>1, <3>2, <3>3
  <2> QED
    BY <2>1, <2>2
<1>6. ASSUME ~IsAmount(text) PROVE FromCoinsString(text) = {}
  <2>1. Range(w \o f) \subseteq Digit => w \in Seq(Digit) /\ f \in Seq(Digit)
    <3> HAVE Range(w \o f) \subseteq Digit
    <3> HIDE DEF w, f
    <3> DEFINE t == w \o f
    <3>1. /\ Len(w) \in Nat /\ Len(f) \in Nat
          /\ t \in Seq(Int) /\ Len(t) = Len(w) + Len(f)
          /\ \A i \in 1 .. Len(w) : t[i] = w[i]
          /\ \A i \in 1 .. Len(f) : t[Len(w) + i] = f[i]
      <4>1. w \in Seq(Int) /\ f \in Seq(Int)
        BY <1>2
      <4>2. Len(w) \in Nat /\ Len(f) \in Nat
        BY <4>1
      <4>3. /\ t \in Seq(Int) /\ Len(t) = Len(w) + Len(f)
            /\ \A i \in 1 .. Len(w) + Len(f) : t[i] = IF i <= Len(w) THEN w[i] ELSE f[i - Len(w)]
        BY <4>1, ConcatProperties
      <4> HIDE DEF t
      <4>4. \A i \in 1 .. Len(w) : t[i] = w[i]
        <5> TAKE i \in 1 .. Len(w)
        <5>1. i \in 1 .. Len(w) + Len(f) /\ i <= Len(w)
          BY <4>2
        <5> QED
          BY <4>3, <5>1
      <4>5. \A i \in 1 .. Len(f) : t[Len(w) + i] = f[i]
        <5> TAKE i \in 1 .. Len(f)
        <5>1. Len(w) + i \in 1 .. Len(w) + Len(f) /\ ~(Len(w) + i <= Len(w)) /\ Len(w) + i - Len(w) = i
          BY <4>2
        <5> QED
          BY <4>3, <5>1
      <4> QED
        BY <4>2, <4>3, <4>4, <4>5
    <3> HIDE DEF t
    <3>2. \A i \in 1 .. Len(t) : t[i] \in Digit
      <4>1. DOMAIN t = 1 .. Len(t) /\ Range(t) \subseteq Digit
        BY <3>1 DEF t
      <4> QED
        BY <4>1 DEF Range
    <3>3. \A i \in 1 .. Len(w) : w[i] \in Digit
      BY <3>1, <3>2
    <3>4. \A i \in 1 .. Len(f) : f[i] \in Digit
      BY <3>1, <3>2
    <3>5. \A s \in Seq(Int) : (\A i \in 1 .. Len(s) : s[i] \in Digit) => s \in Seq(Digit)
      OBVIOUS
    <3> QED
      BY <1>2, <3>3, <3>4, <3>5
  <2>2. ~(text # <<>> /\ Len(f) <= Decimals /\ Range(w \o f) \subseteq Digit)
    BY <1>4, <1>5, <1>6, <2>1
  <2> QED
    BY <2>2 DEF FromCoinsString
<1>7. ASSUME IsAmount(text)
      PROVE  FromCoinsString(text) = {SumFunction(DigitWorth(text))} \cap 0 .. MaxSupply
  <2> DEFINE worth == DigitWorth(text)
             A == 1 .. p - 1
             B == p + 1 .. p + Len(f)
  <2>1. text # <<>> /\ Len(f) <= Decimals /\ AllDigits(p) /\ w \in Seq(Digit) /\ f \in Seq(Digit)
    BY <1>4, <1>5, <1>7
  <2>2. PointsOf(text) = IF p > n THEN {} ELSE {p}
    BY <1>1, <2>1, PointsAre
  <2>3. /\ \A i \in 1 .. p - 1 : PlacesOf(text, i) = (p - 1) - i + Decimals
        /\ \A i \in 1 .. n - p : PlacesOf(text, p + i) = (n - p) - i + (Decimals - (n - p))
    BY <1>1, <2>1, PlacesAre
  <2>4. w \in Seq(Nat) /\ f \in Seq(Nat)
    BY <2>1, DigitsAreNumbers
  <2>5. Decimals \in Nat /\ Len(f) \in Nat /\ Decimals - Len(f) \in Nat
    BY <2>1, AmountAssumption
  <2>6. Len(f) # 0 => Len(f) = n - p /\ p <= n
    <3> HIDE DEF w, f, n
    <3>1. Len(f) = IF p > n THEN 0 ELSE n - p
      BY <1>2
    <3> QED
      BY <1>3, <3>1
  <2>7. DOMAIN worth = (1 .. n) \ PointsOf(text)
    BY <1>3 DEF DigitWorth
  <2>8. \A i \in (1 .. n) \ PointsOf(text) : worth[i] = text[i] * Place[PlacesOf(text, i)]
    BY <1>3 DEF DigitWorth
  <2> HIDE DEF worth, w, f, n
  <2>9. (1 .. n) \ PointsOf(text) = A \cup B /\ A \cap B = {}
    <3>1. CASE p > n
      <4>1. p = n + 1 /\ Len(f) = 0
        BY <1>2, <1>3, <3>1
      <4> QED
        BY <1>3, <2>2, <3>1, <4>1
    <3>2. CASE ~(p > n)
      <4>1. Len(f) = n - p /\ PointsOf(text) = {p} /\ p \in 1 .. n
        BY <1>2, <1>3, <2>2, <3>2
      <4>2. p + Len(f) = n
        BY <1>3, <4>1
      <4> QED
        BY <1>3, <4>1, <4>2
    <3> QED
      BY <3>1, <3>2
  <2>10. \A i \in A : worth[i] = w[i] * Place[Len(w) - i + Decimals]
    <3> TAKE i \in A
    <3>1. i \in (1 .. n) \ PointsOf(text)
      BY <2>9
    <3>2. PlacesOf(text, i) = Len(w) - i + Decimals /\ w[i] = text[i]
      BY <1>2, <2>3
    <3> QED
      BY <2>8, <3>1, <3>2
  <2>11. \A i \in 1 .. Len(f) :
             worth[p + i] = f[i] * Place[Len(f) - i + (Decimals - Len(f))]
    <3> TAKE i \in 1 .. Len(f)
    <3>1. Len(f) = n - p /\ i \in 1 .. n - p /\ p + i \in B
      BY <1>3, <2>5, <2>6
    <3>2. p + i \in (1 .. n) \ PointsOf(text)
      BY <2>9, <3>1
    <3>3. PlacesOf(text, p + i) = Len(f) - i + (Decimals - Len(f)) /\ f[i] = text[p + i]
      BY <1>2, <2>3, <3>1
    <3> QED
      BY <2>8, <3>2, <3>3
  <2>12. Value(w) * Place[Decimals] = SumFunctionOnSet(worth, A)
    <3>1. \A i \in 1 .. Len(w) : worth[0 + i] = w[i] * Place[Len(w) - i + Decimals]
      BY <1>2, <2>10
    <3>2. Value(w) * Place[Decimals] = SumFunctionOnSet(worth, 0 + 1 .. 0 + Len(w))
      BY <2>4, <2>5, <3>1, ValueIsSum
    <3>3. 0 + 1 .. 0 + Len(w) = A
      BY <1>2, <1>3
    <3> QED
      BY <3>2, <3>3
  <2>13. Value(f) * Place[Decimals - Len(f)] = SumFunctionOnSet(worth, B)
    <3>1. p \in Nat
      BY <1>3
    <3> QED
      BY <2>4, <2>5, <2>11, <3>1, ValueIsSum
  <2>14. IsFiniteSet(A) /\ IsFiniteSet(B)
    <3>1. 1 \in Int /\ p - 1 \in Int /\ p + 1 \in Int /\ p + Len(f) \in Int
      BY <1>3, <2>5
    <3> QED
      BY <3>1, FS_Interval
  <2>15. \A i \in A \cup B : worth[i] \in Int
    <3>1. \A k \in Nat : Place[k] \in Nat
      BY PlaceIs DEF Powers
    <3>2. ASSUME NEW i \in A PROVE worth[i] \in Int
      <4>1. w[i] \in Nat /\ Place[Len(w) - i + Decimals] \in Nat
        BY <1>2, <1>3, <2>4, <2>5, <3>1
      <4> QED
        BY <2>10, <4>1, ProductType
    <3>3. ASSUME NEW i \in B PROVE worth[i] \in Int
      <4>1. i - p \in 1 .. Len(f) /\ p + (i - p) = i
        BY <1>3, <2>5
      <4>2. Len(f) - (i - p) + (Decimals - Len(f)) \in Nat
        BY <2>5, <4>1
      <4>3. f[i - p] \in Nat /\ Place[Len(f) - (i - p) + (Decimals - Len(f))] \in Nat
        BY <2>4, <3>1, <4>1, <4>2
      <4>4. worth[i] = f[i - p] * Place[Len(f) - (i - p) + (Decimals - Len(f))]
        BY <2>11, <4>1
      <4> QED
        BY <4>3, <4>4, ProductType
    <3> QED
      BY <3>2, <3>3
  <2> HIDE DEF A, B
  <2>16. SumFunctionOnSet(worth, A \cup B) = SumFunctionOnSet(worth, A) + SumFunctionOnSet(worth, B)
    BY <2>9, <2>14, <2>15, SumDisjoint
  <2>17. SumFunction(worth) = Value(w) * Place[Decimals] + Value(f) * Place[Decimals - Len(f)]
    BY <2>7, <2>9, <2>12, <2>13, <2>16 DEF SumFunction
  <2>18. FromCoinsString(text) =
             {Value(w) * Place[Decimals] + Value(f) * Place[Decimals - Len(f)]} \cap 0 .. MaxSupply
    BY <2>1, ReadIs DEF w, f
  <2> QED
    BY <2>17, <2>18 DEF worth
<1> QED
  BY <1>6, <1>7

(* What is read is exact (Amount::FromCoinsString): for any radix, number  *)
(* of decimals and supply, a text is an amount if its digits, each with    *)
(* the weight of its place, say so, and it is written as a text that is    *)
(* read as the same amount again.                                          *)
THEOREM ReadsExactly == Spec => []AmountIsExact
<1>1. ASSUME IsComputed PROVE AmountIsExact
  <2> SUFFICES ASSUME task = "read" PROVE AmountIsExact
    BY DEF AmountIsExact
  <2> DEFINE text == input.text
  <2>1. input \in AmountInputs /\ answer = FromCoinsString(text)
    BY <1>1 DEF IsComputed
  <2>2. text \in Seq(Int)
    <3>1. text \in SeqOf({Point, -2} \cup Digit, MaxText)
      BY <2>1 DEF AmountInputs
    <3>2. PICK m \in 0 .. MaxText : text \in [1 .. m -> {Point, -2} \cup Digit]
      BY <3>1 DEF SeqOf
    <3>3. {Point, -2} \cup Digit \subseteq Int /\ m \in Nat
      BY AmountAssumption DEF Point, Digit
    <3> HIDE DEF text
    <3>4. text \in [1 .. m -> Int]
      BY <3>2, <3>3
    <3> QED
      BY <3>3, <3>4
  <2> HIDE DEF text
  <2>3. answer = IF IsAmount(text) THEN {SumFunction(DigitWorth(text))} \cap 0 .. MaxSupply ELSE {}
    BY <2>1, <2>2, ReadIsExact
  <2>4. \A atoms \in answer : FromCoinsString(ToCoinsString(atoms)) = {atoms}
    BY <2>3, ReadAgain
  <2> QED
    BY <2>3, <2>4 DEF AmountIsExact, IsAmount, DigitWorth, PlacesOf, PointsOf, text
<1> QED
  BY <1>1, AlwaysComputed, PTL

-----------------------------------------------------------------------------
(* Starting. *)

(* What a line of the file can make of a configuration: a line that sets a *)
(* field has the field, "=" and the value, and then nothing or a comment.  *)
Sets(line, field) == Len(line) > 2 /\ line[1] = field
Token == {"#", "=", "network", "datadir", "safe_start", "port", "oops", "devnet", "testnet",
          "mainnet", "regtest", "a", "b", "e", "no", "yes", "0"}
IsLine(line) ==
    /\ line \in Seq(Token)
    /\ \/ line = <<>>
       \/ Len(line) > 0 /\ line[1] = "#"
       \/ Len(line) > 1 /\ line[1] # "=" /\ line[2] = "#"
       \/ /\ Len(line) > 2 /\ line[1] \notin {"#", "="} /\ line[2] = "=" /\ line[3] # "#"
          /\ Len(line) = 3 \/ line[4] = "#"

(* The same configuration but for what one line says. *)
Follows(c, cfg, line) ==
    /\ DOMAIN c = DOMAIN cfg
    /\ \A field \in {"network", "datadir"} :
          c[field] = IF Sets(line, field) THEN <<line[3]>> ELSE cfg[field]
    /\ IF Sets(line, "safe_start") THEN c.safe_start <=> line[3] \in Truths
                                   ELSE c.safe_start = cfg.safe_start

(* Where a token is first, and that it is nowhere. *)
LEMMA FirstIs ==
    ASSUME NEW text, NEW token, Len(text) \in Nat,
           NEW k \in 1 .. Len(text), text[k] = token, \A i \in 1 .. k - 1 : text[i] # token
    PROVE  First(text, token) = k
<1> DEFINE I == {i \in 1 .. Len(text) : text[i] = token}
<1>1. k \in I /\ I \subseteq Int /\ \A i \in I : k <= i
  OBVIOUS
<1> HIDE DEF I
<1>2. Min(I) = k
  <2>1. \A x \in I : (\A y \in I : x <= y) => x = k
    BY <1>1
  <2> QED
    BY <1>1, <2>1 DEF Min
<1> QED
  BY <1>1, <1>2 DEF First, SelectInSeq, I

LEMMA FirstNone ==
    ASSUME NEW text, NEW token, \A i \in 1 .. Len(text) : text[i] # token
    PROVE  First(text, token) = 0
BY DEF First, SelectInSeq

(* A part of one token. *)
LEMMA SingleIs == \A s \in Seq(Token) : Len(s) = 1 => s = <<s[1]>>
OBVIOUS

LEMMA OneWord ==
    ASSUME NEW s \in Seq(Token), NEW i \in 1 .. Len(s)
    PROVE  SubSeq(s, i, i) = <<s[i]>>
<1>1. /\ i \in Int /\ i <= i /\ i - i + 1 = 1 /\ 1 \in 1 .. i - i + 1 /\ i + 1 - 1 = i
      /\ \A j \in i .. i : s[j] \in Token
  OBVIOUS
<1> DEFINE t == SubSeq(s, i, i)
<1>2. /\ t \in Seq(Token) /\ Len(t) = i - i + 1
      /\ \A j \in 1 .. i - i + 1 : t[j] = s[i + j - 1]
  BY <1>1, SubSeqProperties
<1> HIDE DEF t
<1>3. t[1] = s[i]
  BY <1>1, <1>2
<1>4. t \in Seq(Token) /\ Len(t) = 1
  BY <1>1, <1>2
<1> QED
  BY <1>3, <1>4, SingleIs DEF t

LEMMA ReadSwitch ==
    ASSUME NEW field \in Switches, NEW text
    PROVE  Read(field, text) = {on \in BOOLEAN : on <=> text \in {<<t>> : t \in Truths}}
BY DEF Read, Switches, Counts, Lists

(* The effect of a line that sets a field. *)
LEMMA LineSets ==
    ASSUME NEW cfg, DOMAIN cfg = DOMAIN Default, NEW line \in Seq(Token),
           Len(line) > 2, line[1] \notin {"#", "="}, line[2] = "=", line[3] # "#",
           Len(line) = 3 \/ line[4] = "#",
           NEW c \in ApplyLine(cfg, line)
    PROVE  Follows(c, cfg, line)
<1> DEFINE n == Len(line)
           hash == First(line, "#")
           body == IF hash = 0 THEN line ELSE SubSeq(line, 1, hash - 1)
           k == line[1]
           v == line[3]
<1>1. n \in Nat /\ n >= 3 /\ \A i \in 1 .. n : line[i] \in Token
  OBVIOUS
<1>2. body \in Seq(Token) /\ Len(body) = 3 /\ body[1] = k /\ body[2] = "=" /\ body[3] = v
  <2>1. CASE n = 3
    <3>1. \A i \in 1 .. 3 : line[i] # "#"
      OBVIOUS
    <3>2. hash = 0
      BY <2>1, <3>1, FirstNone
    <3> QED
      BY <2>1, <3>2
  <2>2. CASE n # 3
    <3>1. 4 \in 1 .. n /\ line[4] = "#" /\ \A i \in 1 .. 4 - 1 : line[i] # "#"
      <4>1. line[1] # "#" /\ line[2] # "#" /\ line[3] # "#"
        OBVIOUS
      <4>2. \A i \in 1 .. 4 - 1 : i = 1 \/ i = 2 \/ i = 3
        OBVIOUS
      <4>3. line[4] = "#"
        BY <2>2
      <4>4. 4 <= n
        <5> HIDE DEF n
        <5> QED
          BY <1>1, <2>2
      <4>5. 4 \in 1 .. n
        <5> HIDE DEF n
        <5> QED
          BY <1>1, <4>4
      <4> QED
        BY <4>1, <4>2, <4>3, <4>5
    <3>2. hash = 4
      BY <1>1, <3>1, FirstIs
    <3>3. body = SubSeq(line, 1, 3)
      BY <3>2
    <3>4. \A i \in 1 .. 3 : line[i] \in Token
      BY <1>1
    <3> HIDE DEF body
    <3>5. /\ SubSeq(line, 1, 3) \in Seq(Token) /\ Len(SubSeq(line, 1, 3)) = 3 - 1 + 1
          /\ \A i \in 1 .. 3 - 1 + 1 : SubSeq(line, 1, 3)[i] = line[1 + i - 1]
      BY <3>4, SubSeqProperties
    <3>6. Len(body) = 3 /\ \A i \in 1 .. 3 : body[i] = line[i]
      BY <3>3, <3>5
    <3> QED
      BY <3>3, <3>5, <3>6
  <2> QED
    BY <2>1, <2>2
<1> HIDE DEF body
<1>3. First(body, "=") = 2
  <2>1. 2 \in 1 .. Len(body) /\ body[2] = "=" /\ \A i \in 1 .. 2 - 1 : body[i] # "="
    BY <1>2
  <2> QED
    BY <1>2, <2>1, FirstIs
<1> DEFINE e == First(body, "=")
           key == SubSeq(body, 1, e - 1)
           value == SubSeq(body, e + 1, Len(body))
<1>4. c \in IF body = <<>> THEN {cfg}
            ELSE IF e = 0 THEN {}
            ELSE IF key \notin DOMAIN FieldOf THEN {cfg}
            ELSE {[cfg EXCEPT ![FieldOf[key]] = x] : x \in Read(FieldOf[key], value)}
  BY Zenon DEF ApplyLine, body, hash
<1>5. key = <<k>> /\ value = <<v>>
  <2>1. e - 1 = 1 /\ e + 1 = 3 /\ Len(body) = 3
    BY <1>2, <1>3
  <2>2. key = SubSeq(body, 1, 1) /\ value = SubSeq(body, 3, 3)
    <3> HIDE DEF e
    <3> QED
      BY <2>1
  <2>3. 1 \in 1 .. Len(body) /\ 3 \in 1 .. Len(body)
    BY <2>1
  <2>4. SubSeq(body, 1, 1) = <<body[1]>> /\ SubSeq(body, 3, 3) = <<body[3]>>
    BY <1>2, <2>3, OneWord
  <2> QED
    BY <1>2, <2>2, <2>4
<1>7. body # <<>> /\ e # 0
  <2>1. Len(body) # 0
    BY <1>2
  <2> QED
    BY <1>3, <2>1
<1> HIDE DEF e, key, value
<1>8. c \in IF <<k>> \notin DOMAIN FieldOf THEN {cfg}
            ELSE {[cfg EXCEPT ![FieldOf[<<k>>]] = x] : x \in Read(FieldOf[<<k>>], <<v>>)}
  BY <1>4, <1>5, <1>7, Zenon
<1> DEFINE Fields == DOMAIN Default
           field == FieldOf[<<k>>]
<1>9. /\ <<k>> \in DOMAIN FieldOf <=> k \in Fields \cup {"maxconnections", "seedpeer"}
      /\ k \in Fields => field = k
      /\ k = "maxconnections" => field = "maxpeers"
      /\ k = "seedpeer" => field = "seednode"
  <2>1. "maxconnections" \notin Fields /\ "seedpeer" \notin Fields
    BY DEF Default
  <2>2. <<k>> \in {<<x>> : x \in Fields \cup {"maxconnections", "seedpeer"}}
            <=> k \in Fields \cup {"maxconnections", "seedpeer"}
    OBVIOUS
  <2>3. /\ <<k>>[1] = k
        /\ <<k>> = <<"maxconnections">> <=> k = "maxconnections"
        /\ <<k>> = <<"seedpeer">> <=> k = "seedpeer"
    OBVIOUS
  <2> HIDE DEF Fields
  <2> QED
    BY <2>1, <2>2, <2>3 DEF FieldOf, Fields
<1>10. {"network", "datadir", "safe_start", "maxpeers", "seednode"} \subseteq Fields
  BY DEF Default
<1>11. CASE <<k>> \notin DOMAIN FieldOf
  <2>1. k \notin {"network", "datadir", "safe_start"} /\ c = cfg
    BY <1>8, <1>9, <1>10, <1>11
  <2> QED
    BY <2>1 DEF Follows, Sets
<1>12. CASE <<k>> \in DOMAIN FieldOf
  <2>1. PICK x \in Read(field, <<v>>) : c = [cfg EXCEPT ![field] = x]
    BY <1>8, <1>12
  <2>2. field \in Fields /\ (\A f \in {"network", "datadir", "safe_start"} : field = f <=> k = f)
    BY <1>9, <1>10, <1>12
  <2> HIDE DEF field, Fields
  <2>3. DOMAIN c = DOMAIN cfg /\ c[field] = x /\ \A f \in DOMAIN cfg : f # field => c[f] = cfg[f]
    BY <2>1, <2>2 DEF Fields
  <2>4. {"network", "datadir", "safe_start"} \subseteq DOMAIN cfg
    BY <1>10 DEF Fields
  <2>5. field \in {"network", "datadir"} => x = <<v>>
    BY <2>1 DEF Read, Switches, Counts, Lists
  <2>6. field = "safe_start" => (x <=> v \in Truths)
    <3> HAVE field = "safe_start"
    <3>1. x \in {on \in BOOLEAN : on <=> <<v>> \in {<<t>> : t \in Truths}}
      BY <2>1, ReadSwitch DEF Switches
    <3>2. <<v>> \in {<<t>> : t \in Truths} <=> v \in Truths
      OBVIOUS
    <3> QED
      BY <3>1, <3>2, Zenon
  <2>7. ASSUME NEW f \in {"network", "datadir"} PROVE c[f] = IF Sets(line, f) THEN <<line[3]>> ELSE cfg[f]
    BY <1>1, <2>2, <2>3, <2>4, <2>5 DEF Sets
  <2>8. IF Sets(line, "safe_start") THEN c.safe_start <=> line[3] \in Truths
                                   ELSE c.safe_start = cfg.safe_start
    <3>1. CASE k = "safe_start"
      <4>1. c.safe_start = x
        BY <2>2, <2>3, <3>1
      <4> QED
        BY <1>1, <2>2, <2>6, <3>1, <4>1 DEF Sets
    <3>2. CASE k # "safe_start"
      BY <2>2, <2>3, <2>4, <3>2 DEF Sets
    <3> QED
      BY <3>1, <3>2
  <2> QED
    BY <2>3, <2>7, <2>8 DEF Follows
<1> QED
  BY <1>11, <1>12

(* Each line of a file changes what it says and nothing else. *)
LEMMA LineFollows ==
    ASSUME NEW cfg, DOMAIN cfg = DOMAIN Default, NEW line, IsLine(line),
           NEW c \in ApplyLine(cfg, line)
    PROVE  Follows(c, cfg, line)
<1> DEFINE hash == First(line, "#")
           body == IF hash = 0 THEN line ELSE SubSeq(line, 1, hash - 1)
           e == First(body, "=")
<1>1. line \in Seq(Token) /\ Len(line) \in Nat
  BY DEF IsLine
<1>2. /\ body = <<>> => c = cfg
      /\ body # <<>> => e # 0
  BY Zenon DEF ApplyLine, body, hash
<1>3. CASE line = <<>>
  <2>1. \A i \in 1 .. Len(line) : line[i] # "#"
    BY <1>3
  <2>2. hash = 0
    BY <2>1, FirstNone
  <2>3. c = cfg /\ Len(line) = 0
    BY <1>2, <1>3, <2>2
  <2> QED
    BY <2>3 DEF Follows, Sets
<1>4. CASE Len(line) > 0 /\ line[1] = "#"
  <2>1. 1 \in 1 .. Len(line) /\ \A i \in 1 .. 1 - 1 : line[i] # "#"
    BY <1>1, <1>4
  <2>2. hash = 1
    BY <1>1, <1>4, <2>1, FirstIs
  <2>3. SubSeq(line, 1, 0) = <<>>
    BY SubSeqEmpty
  <2>4. body = <<>>
    <3> HIDE DEF hash
    <3> QED
      BY <2>2, <2>3
  <2>5. c = cfg /\ line[1] \notin {"network", "datadir", "safe_start"}
    BY <1>2, <1>4, <2>4
  <2> QED
    BY <2>5 DEF Follows, Sets
<1>5. CASE Len(line) > 1 /\ line[1] # "=" /\ line[2] = "#" /\ line[1] # "#"
  <2>1. 2 \in 1 .. Len(line) /\ \A i \in 1 .. 2 - 1 : line[i] # "#"
    <3>1. \A i \in 1 .. 2 - 1 : i = 1
      OBVIOUS
    <3> QED
      BY <1>1, <1>5, <3>1
  <2>2. hash = 2
    BY <1>1, <1>5, <2>1, FirstIs
  <2>3. SubSeq(line, 1, 1) = <<line[1]>>
    <3>1. 1 \in 1 .. Len(line)
      BY <1>1, <1>5
    <3> QED
      BY <1>1, <3>1, OneWord
  <2>4. body = <<line[1]>>
    <3> HIDE DEF hash
    <3> QED
      BY <2>2, <2>3
  <2> HIDE DEF body
  <2>5. body # <<>> /\ \A i \in 1 .. Len(body) : body[i] # "="
    BY <1>5, <2>4
  <2>6. e = 0
    BY <2>5, FirstNone
  <2> QED
    BY <1>2, <2>5, <2>6
<1>6. CASE /\ Len(line) > 2 /\ line[1] \notin {"#", "="} /\ line[2] = "=" /\ line[3] # "#"
           /\ Len(line) = 3 \/ line[4] = "#"
  BY <1>1, <1>6, LineSets
<1> QED
  BY <1>3, <1>4, <1>5, <1>6 DEF IsLine

(* The members of a set of numbers up to k, and the last of them. *)
UpTo(S, k) == {i \in S : i <= k}

(* How the last number up to k moves when k does. *)
LEMMA LastStep ==
    ASSUME NEW S, S \subseteq Nat, NEW k \in Int
    PROVE  /\ k \in S => UpTo(S, k) # {} /\ Max(UpTo(S, k)) = k
           /\ k \notin S => UpTo(S, k) = UpTo(S, k - 1)
<1>1. ASSUME k \in S PROVE UpTo(S, k) # {} /\ Max(UpTo(S, k)) = k
  <2> DEFINE U == UpTo(S, k)
  <2>1. k \in U /\ \A i \in U : i \in Nat /\ k >= i
    <3>1. \A i \in U : i \in S /\ i <= k
      BY DEF UpTo
    <3>2. k \in U
      BY <1>1 DEF UpTo
    <3> HIDE DEF U
    <3> QED
      BY <3>1, <3>2
  <2> HIDE DEF U
  <2>2. \A x \in U : (\A y \in U : x >= y) => x = k
    BY <2>1
  <2>3. Max(U) = k
    BY <2>1, <2>2 DEF Max
  <2> QED
    BY <2>1, <2>3 DEF U
<1>2. ASSUME k \notin S PROVE UpTo(S, k) = UpTo(S, k - 1)
  <2>1. \A i \in S : i <= k <=> i <= k - 1
    BY <1>2
  <2> QED
    BY <2>1 DEF UpTo
<1> QED
  BY <1>1, <1>2

(* What the lines of a file say of a field. *)
Given(lines, field) == {i \in DOMAIN lines : Sets(lines[i], field)}
IsGiven(c, cfg, lines, k) ==
    /\ DOMAIN c = DOMAIN cfg
    /\ \A field \in {"network", "datadir"} :
          LET given == UpTo(Given(lines, field), k)
          IN  c[field] = IF given = {} THEN cfg[field] ELSE <<lines[Max(given)][3]>>
    /\ LET given == UpTo(Given(lines, "safe_start"), k)
       IN  IF given = {} THEN c.safe_start = cfg.safe_start
           ELSE c.safe_start <=> lines[Max(given)][3] \in Truths

(* After each line the last that set a field decides; so it is at the end. *)
LEMMA GivenStep ==
    ASSUME NEW cfg, DOMAIN cfg = DOMAIN Default, NEW lines, NEW k \in Nat \ {0},
           DOMAIN lines = 1 .. Len(lines), k \in DOMAIN lines, IsLine(lines[k]),
           NEW old, IsGiven(old, cfg, lines, k - 1), NEW c \in ApplyLine(old, lines[k])
    PROVE  IsGiven(c, cfg, lines, k)
<1>1. Follows(c, old, lines[k])
  BY LineFollows DEF IsGiven
<1>2. \A field : /\ k \in Given(lines, field) <=> Sets(lines[k], field)
                 /\ Given(lines, field) \subseteq Nat
  BY DEF Given
<1> DEFINE given(field) == UpTo(Given(lines, field), k)
           before(field) == UpTo(Given(lines, field), k - 1)
<1>3. \A field : IF Sets(lines[k], field) THEN given(field) # {} /\ Max(given(field)) = k
                                          ELSE given(field) = before(field)
  BY <1>2, LastStep
<1>4. ASSUME NEW field \in {"network", "datadir"}
      PROVE  c[field] = IF given(field) = {} THEN cfg[field] ELSE <<lines[Max(given(field))][3]>>
  <2>1. c[field] = IF Sets(lines[k], field) THEN <<lines[k][3]>> ELSE old[field]
    BY <1>1 DEF Follows
  <2>2. old[field] = IF before(field) = {} THEN cfg[field] ELSE <<lines[Max(before(field))][3]>>
    BY DEF IsGiven
  <2> HIDE DEF given, before
  <2> QED
    BY <1>3, <2>1, <2>2
<1>5. IF given("safe_start") = {} THEN c.safe_start = cfg.safe_start
      ELSE c.safe_start <=> lines[Max(given("safe_start"))][3] \in Truths
  <2>1. IF Sets(lines[k], "safe_start") THEN c.safe_start <=> lines[k][3] \in Truths
                                        ELSE c.safe_start = old.safe_start
    BY <1>1 DEF Follows
  <2>2. IF before("safe_start") = {} THEN old.safe_start = cfg.safe_start
        ELSE old.safe_start <=> lines[Max(before("safe_start"))][3] \in Truths
    BY DEF IsGiven
  <2> HIDE DEF given, before
  <2>3. CASE Sets(lines[k], "safe_start")
    BY <1>3, <2>1, <2>3
  <2>4. CASE ~Sets(lines[k], "safe_start")
    BY <1>3, <2>1, <2>2, <2>4
  <2> QED
    BY <2>3, <2>4
<1>6. DOMAIN c = DOMAIN cfg
  BY <1>1 DEF Follows, IsGiven
<1> QED
  BY <1>4, <1>5, <1>6 DEF IsGiven

LEMMA LinesAreGiven ==
    ASSUME NEW cfg, DOMAIN cfg = DOMAIN Default, NEW lines,
           Len(lines) \in Nat, DOMAIN lines = 1 .. Len(lines),
           \A i \in DOMAIN lines : IsLine(lines[i]),
           NEW c \in ApplyLines(cfg, lines)
    PROVE  IsGiven(c, cfg, lines, Len(lines))
<1> DEFINE n == Len(lines)
           Entry(g, i) == IF i = 0 THEN {cfg} ELSE UNION {ApplyLine(x, lines[i]) : x \in g[i - 1]}
           Table(g, k) == g = [i \in 0 .. k |-> Entry(g, i)]
           NoTable == {k \in 0 .. n : ~\E g : Table(g, k)}
<1>1. NoTable = {}
  <2> SUFFICES ASSUME NoTable # {} PROVE FALSE
    OBVIOUS
  <2>1. NoTable \subseteq Nat
    OBVIOUS
  <2> HIDE DEF NoTable
  <2>2. PICK k \in NoTable : \A j \in NoTable : k <= j
    BY <2>1, LeastNat
  <2>3. k \in 0 .. n /\ ~\E g : Table(g, k)
    BY <2>2 DEF NoTable
  <2>4. CASE k = 0
    <3> DEFINE g == [i \in 0 .. 0 |-> {cfg}]
    <3>1. \A i \in 0 .. 0 : Entry(g, i) = {cfg}
      OBVIOUS
    <3>2. Table(g, 0)
      BY <3>1
    <3> QED
      BY <2>3, <2>4, <3>2
  <2>5. CASE k # 0
    <3>1. k - 1 \in 0 .. n /\ ~(k <= k - 1) /\ k \in 1 .. n
      BY <2>3, <2>5
    <3>2. PICK g : Table(g, k - 1)
      BY <2>2, <3>1 DEF NoTable
    <3> DEFINE h == [i \in 0 .. k |-> IF i = k THEN Entry(g, k) ELSE g[i]]
    <3>3. ASSUME NEW i \in 0 .. k PROVE h[i] = Entry(h, i)
      <4>1. CASE i = 0
        BY <3>1, <3>2, <4>1
      <4>2. CASE i # 0
        <5>1. i - 1 \in 0 .. k /\ i - 1 # k
          BY <3>1, <4>2
        <5>2. h[i - 1] = g[i - 1]
          BY <5>1
        <5>3. Entry(h, i) = Entry(g, i)
          BY <4>2, <5>2
        <5>4. CASE i = k
          BY <5>3, <5>4
        <5>5. CASE i # k
          <6>1. i \in 0 .. k - 1
            BY <3>1, <5>5
          <6>2. g[i] = Entry(g, i)
            BY <3>2, <6>1
          <6> QED
            BY <5>3, <5>5, <6>2
        <5> QED
          BY <5>4, <5>5
      <4> QED
        BY <4>1, <4>2
    <3>4. h = [i \in 0 .. k |-> h[i]]
      OBVIOUS
    <3> HIDE DEF h, Entry
    <3>5. Table(h, k)
      BY <3>3, <3>4
    <3> QED
      BY <2>3, <3>5
  <2> QED
    BY <2>4, <2>5
<1> DEFINE after == CHOOSE g : Table(g, n)
<1>2. Table(after, n)
  <2>1. n \in 0 .. n
    OBVIOUS
  <2>2. ~(n \in NoTable)
    <3> HIDE DEF NoTable
    <3> QED
      BY <1>1
  <2> HIDE DEF Table, n
  <2>3. \E g : Table(g, n)
    BY <2>1, <2>2
  <2> QED
    BY <2>3
<1>3. ApplyLines(cfg, lines) = after[n]
  BY DEF ApplyLines
<1> HIDE DEF after
<1>4. \A i \in 0 .. n : after[i] = Entry(after, i)
  BY <1>2
<1> DEFINE Wrong == {k \in 0 .. n : \E x \in after[k] : ~IsGiven(x, cfg, lines, k)}
<1>5. Wrong = {}
  <2> SUFFICES ASSUME Wrong # {} PROVE FALSE
    OBVIOUS
  <2>1. Wrong \subseteq Nat
    OBVIOUS
  <2> HIDE DEF Wrong
  <2>2. PICK k \in Wrong : \A j \in Wrong : k <= j
    BY <2>1, LeastNat
  <2>3. k \in 0 .. n
    BY <2>2 DEF Wrong
  <2>4. PICK x \in after[k] : ~IsGiven(x, cfg, lines, k)
    BY <2>2 DEF Wrong
  <2>5. k # 0
    <3> SUFFICES ASSUME k = 0 PROVE FALSE
      OBVIOUS
    <3>1. x = cfg
      BY <1>4, <2>3, <2>4
    <3>2. \A field : UpTo(Given(lines, field), 0) = {}
      BY DEF UpTo, Given
    <3>3. IsGiven(cfg, cfg, lines, 0)
      BY <3>2 DEF IsGiven
    <3> QED
      BY <2>4, <3>1, <3>3
  <2>6. k \in Nat \ {0} /\ k - 1 \in 0 .. n /\ ~(k <= k - 1) /\ k \in DOMAIN lines
    BY <2>3, <2>5
  <2>7. PICK old \in after[k - 1] : x \in ApplyLine(old, lines[k])
    <3>1. after[k] = UNION {ApplyLine(y, lines[k]) : y \in after[k - 1]}
      BY <1>4, <2>3, <2>5
    <3> QED
      BY <2>4, <3>1
  <2>8. IsGiven(old, cfg, lines, k - 1)
    BY <2>2, <2>6 DEF Wrong
  <2>9. IsGiven(x, cfg, lines, k)
    BY <2>6, <2>7, <2>8, GivenStep
  <2> QED
    BY <2>4, <2>9
<1>6. n \in 0 .. n
  OBVIOUS
<1> QED
  BY <1>3, <1>5, <1>6

(* Whether a word is the value of the option before it, by its place. *)
IsValueOf(is, args) ==
    is = [i \in 1 .. Len(args) |-> i > 1 /\ ~is[i - 1] /\ args[i - 1] \in NeedsValue]

(* The words of W that are no values. *)
Standing(args, is, W) == {i \in DOMAIN args : args[i] \in W /\ ~is[i]}
SafeWords == {"--safe-start", "--unsafe-start"}

(* What the first k words make of a configuration. *)
IsTaken(t, start, args, is, k) ==
    /\ DOMAIN t = {"cfg", "pending"} /\ DOMAIN t.cfg = DOMAIN Default
    /\ t.pending = IF k # 0 /\ args[k] \in NeedsValue /\ ~is[k] THEN args[k] ELSE ""
    /\ \A field \in {"network", "datadir"} :
          LET chosen == UpTo(Standing(args, is, {Options[field]}), k - 1)
          IN  t.cfg[field] = IF chosen = {} THEN start[field] ELSE Text(args[Max(chosen) + 1])
    /\ LET chosen == UpTo(Standing(args, is, SafeWords), k)
       IN  IF chosen = {} THEN t.cfg.safe_start = start.safe_start
           ELSE t.cfg.safe_start <=> args[Max(chosen)] = "--safe-start"

(* No two options have one name, and no switch has an option's. *)
LEMMA OptionNames ==
    /\ DOMAIN Options = {"network", "datadir", "port", "maxpeers", "bind", "connect",
                         "addnode", "seednode", "listen"}
    /\ \A f, g \in DOMAIN Options : Options[f] = Options[g] => f = g
    /\ \A f \in DOMAIN Options : Options[f] \in NeedsValue \ ({"", "--conf"} \cup SafeWords)
    /\ \A w \in NeedsValue : w = "--conf" \/ \E f \in DOMAIN Options : w = Options[f]
    /\ NeedsValue \cap ({""} \cup DOMAIN Settings) = {}
<1>1. /\ DOMAIN Options = {"network", "datadir", "port", "maxpeers", "bind", "connect",
                           "addnode", "seednode", "listen"}
      /\ Options.network = "--network" /\ Options.datadir = "--datadir"
      /\ Options.port = "--port" /\ Options.maxpeers = "--maxconnections"
      /\ Options.bind = "--bind" /\ Options.connect = "--connect"
      /\ Options.addnode = "--addnode" /\ Options.seednode = "--seednode"
      /\ Options.listen = "--listen"
  BY DEF Options
<1>2. \A w : w \in NeedsValue <=> w = "--conf" \/ \E f \in DOMAIN Options : w = Options[f]
  BY DEF NeedsValue, Range
<1>3. DOMAIN Settings = {"--json", "--no-color", "--safe-start", "--unsafe-start"}
  BY DEF Settings
<1>4. \A f, g \in DOMAIN Options : Options[f] = Options[g] => f = g
  BY <1>1
<1>5. ASSUME NEW f \in DOMAIN Options
      PROVE  Options[f] \in NeedsValue \ ({"", "--conf"} \cup SafeWords)
  <2>1. Options[f] \in NeedsValue
    BY <1>2
  <2> QED
    BY <1>1, <2>1 DEF SafeWords
<1>6. ASSUME NEW w \in NeedsValue PROVE w \notin {""} \cup DOMAIN Settings
  <2>1. CASE w = "--conf"
    BY <1>3, <2>1
  <2>2. CASE \E f \in DOMAIN Options : w = Options[f]
    BY <1>1, <1>3, <2>2
  <2> QED
    BY <1>2, <2>1, <2>2
<1> QED
  BY <1>1, <1>2, <1>4, <1>5, <1>6

(* An option sets its own field and no other. *)
LEMMA OptionSets ==
    ASSUME NEW cfg, DOMAIN cfg = DOMAIN Default, NEW option \in NeedsValue, NEW word,
           NEW c \in WithOption(cfg, option, word)
    PROVE  /\ DOMAIN c = DOMAIN cfg
           /\ c.safe_start = cfg.safe_start
           /\ \A field \in {"network", "datadir"} :
                 c[field] = IF option = Options[field] THEN Text(word) ELSE cfg[field]
<1>1. CASE option = "--conf"
  <2>1. c = cfg
    BY <1>1 DEF WithOption
  <2> QED
    BY <1>1, <2>1, OptionNames
<1>2. CASE option # "--conf"
  <2> DEFINE f == CHOOSE g \in DOMAIN Options : Options[g] = option
  <2>1. f \in DOMAIN Options /\ Options[f] = option
    BY <1>2, OptionNames
  <2>2. c \in IF f \in Lists THEN {[cfg EXCEPT ![f] = Append(@, word)]}
              ELSE {[cfg EXCEPT ![f] = v] : v \in Read(f, Text(word))}
    BY <1>2 DEF WithOption
  <2> HIDE DEF f
  <2>3. \E v : c = [cfg EXCEPT ![f] = v] /\ (f \notin Lists => v \in Read(f, Text(word)))
    BY <2>2
  <2>4. PICK v : c = [cfg EXCEPT ![f] = v] /\ (f \notin Lists => v \in Read(f, Text(word)))
    BY <2>3
  <2>5. f # "safe_start" /\ \A g \in {"network", "datadir"} : f = g <=> option = Options[g]
    BY <2>1, OptionNames
  <2>6. f \in {"network", "datadir"} => v = Text(word)
    BY <2>4 DEF Read, Switches, Counts, Lists
  <2>7. {"network", "datadir", "safe_start"} \subseteq DOMAIN cfg
    BY DEF Default
  <2> QED
    BY <2>4, <2>5, <2>6, <2>7
<1> QED
  BY <1>1, <1>2

(* A switch sets its own field and no other. *)
LEMMA SwitchSets ==
    ASSUME NEW cfg, DOMAIN cfg = DOMAIN Default, NEW word \in DOMAIN Settings
    PROVE  LET c == With(cfg, Settings[word])
           IN  /\ DOMAIN c = DOMAIN cfg
               /\ \A field \in {"network", "datadir"} : c[field] = cfg[field]
               /\ IF word \in SafeWords THEN c.safe_start <=> word = "--safe-start"
                                        ELSE c.safe_start = cfg.safe_start
<1> DEFINE s == Settings[word]
           c == With(cfg, s)
<1>1. /\ word = "--json" => s = [json |-> TRUE]
      /\ word = "--no-color" => s = [no_color |-> TRUE]
      /\ word = "--safe-start" => s = [safe_start |-> TRUE]
      /\ word = "--unsafe-start" => s = [safe_start |-> FALSE]
      /\ word \in {"--json", "--no-color", "--safe-start", "--unsafe-start"}
  BY DEF Settings
<1>2. {"network", "datadir", "safe_start", "json", "no_color"} \subseteq DOMAIN cfg
  BY DEF Default
<1>3. /\ DOMAIN s \subseteq {"json", "no_color", "safe_start"}
      /\ word \in SafeWords => "safe_start" \in DOMAIN s /\ (s.safe_start <=> word = "--safe-start")
      /\ word \notin SafeWords => "safe_start" \notin DOMAIN s
  BY <1>1 DEF SafeWords
<1> HIDE DEF s
<1>4. /\ DOMAIN c = DOMAIN cfg
      /\ \A f \in DOMAIN c : c[f] = IF f \in DOMAIN s THEN s[f] ELSE cfg[f]
  BY DEF With
<1> HIDE DEF c
<1>5. DOMAIN c = DOMAIN cfg
  BY <1>2, <1>3, <1>4
<1>6. \A field \in {"network", "datadir"} : c[field] = cfg[field]
  BY <1>2, <1>3, <1>4
<1>7. IF word \in SafeWords THEN c.safe_start <=> word = "--safe-start"
                            ELSE c.safe_start = cfg.safe_start
  BY <1>2, <1>3, <1>4
<1> QED
  BY <1>5, <1>6, <1>7 DEF c, s

(* After each word the last option that has had its value decides. *)
LEMMA TakenStep ==
    ASSUME NEW start, NEW args, Len(args) \in Nat, DOMAIN args = 1 .. Len(args),
           NEW is, IsValueOf(is, args), NEW k \in 1 .. Len(args),
           NEW old, IsTaken(old, start, args, is, k - 1), NEW t \in TakeWord(old, args[k])
    PROVE  IsTaken(t, start, args, is, k)
<1> DEFINE word == args[k]
           of(field) == Standing(args, is, {Options[field]})
           safe == Standing(args, is, SafeWords)
           fields == {"network", "datadir"}
<1>1. is[k] <=> k > 1 /\ ~is[k - 1] /\ args[k - 1] \in NeedsValue
  BY DEF IsValueOf
<1>2. k \in Nat \ {0} /\ k - 1 \in Nat /\ (k - 1 = 0 <=> ~(k > 1)) /\ k - 1 + 1 = k /\ k - 1 - 1 = k - 2
  OBVIOUS
<1>3. /\ \A field \in fields : of(field) \subseteq Nat
      /\ safe \subseteq Nat
      /\ k \in safe <=> word \in SafeWords /\ ~is[k]
  BY DEF Standing
<1>4. \A field \in fields : k - 1 \in of(field) <=> k > 1 /\ args[k - 1] = Options[field] /\ ~is[k - 1]
  <2>1. k - 1 \in DOMAIN args <=> k > 1
    OBVIOUS
  <2> QED
    BY <2>1 DEF Standing
<1>5. /\ \A field \in fields :
            IF k - 1 \in of(field)
            THEN UpTo(of(field), k - 1) # {} /\ Max(UpTo(of(field), k - 1)) = k - 1
            ELSE UpTo(of(field), k - 1) = UpTo(of(field), k - 2)
      /\ IF k \in safe THEN UpTo(safe, k) # {} /\ Max(UpTo(safe, k)) = k
                       ELSE UpTo(safe, k) = UpTo(safe, k - 1)
  <2> HIDE DEF of, safe
  <2>1. k - 1 \in Int /\ k \in Int
    OBVIOUS
  <2>2. ASSUME NEW field \in fields
        PROVE  IF k - 1 \in of(field)
               THEN UpTo(of(field), k - 1) # {} /\ Max(UpTo(of(field), k - 1)) = k - 1
               ELSE UpTo(of(field), k - 1) = UpTo(of(field), k - 2)
    <3>1. of(field) \subseteq Nat
      BY <1>3
    <3> QED
      BY <1>2, <2>1, <3>1, LastStep
  <2>3. IF k \in safe THEN UpTo(safe, k) # {} /\ Max(UpTo(safe, k)) = k
                      ELSE UpTo(safe, k) = UpTo(safe, k - 1)
    BY <1>3, <2>1, LastStep
  <2> QED
    BY <2>2, <2>3
<1>6. /\ DOMAIN old = {"cfg", "pending"} /\ DOMAIN old.cfg = DOMAIN Default
      /\ old.pending = IF is[k] THEN args[k - 1] ELSE ""
      /\ \A field \in fields :
            old.cfg[field] = IF UpTo(of(field), k - 2) = {} THEN start[field]
                             ELSE Text(args[Max(UpTo(of(field), k - 2)) + 1])
      /\ IF UpTo(safe, k - 1) = {} THEN old.cfg.safe_start = start.safe_start
         ELSE old.cfg.safe_start <=> args[Max(UpTo(safe, k - 1))] = "--safe-start"
  BY <1>1, <1>2 DEF IsTaken
<1> HIDE DEF of, safe
<1>7. SUFFICES /\ DOMAIN t = {"cfg", "pending"} /\ DOMAIN t.cfg = DOMAIN Default
               /\ t.pending = IF word \in NeedsValue /\ ~is[k] THEN word ELSE ""
               /\ \A field \in fields :
                     t.cfg[field] = IF k - 1 \in of(field) THEN Text(word) ELSE old.cfg[field]
               /\ IF k \in safe THEN t.cfg.safe_start <=> word = "--safe-start"
                                ELSE t.cfg.safe_start = old.cfg.safe_start
  <2> HIDE DEF fields
  <2>1. \A field \in fields :
          t.cfg[field] = IF UpTo(of(field), k - 1) = {} THEN start[field]
                         ELSE Text(args[Max(UpTo(of(field), k - 1)) + 1])
    BY <1>2, <1>5, <1>6, <1>7
  <2>2. IF UpTo(safe, k) = {} THEN t.cfg.safe_start = start.safe_start
        ELSE t.cfg.safe_start <=> args[Max(UpTo(safe, k))] = "--safe-start"
    <3>1. CASE k \in safe
      BY <1>5, <1>7, <3>1
    <3>2. CASE k \notin safe
      BY <1>5, <1>6, <1>7, <3>2
    <3> QED
      BY <3>1, <3>2
  <2> QED
    BY <1>2, <1>7, <2>1, <2>2 DEF IsTaken, of, safe, fields
<1>8. CASE is[k]
  <2>1. old.pending # "" /\ old.pending \in NeedsValue /\ old.pending = args[k - 1]
    BY <1>1, <1>6, <1>8, OptionNames
  <2>2. PICK c \in WithOption(old.cfg, old.pending, word) : t = [old EXCEPT !.cfg = c, !.pending = ""]
    BY <2>1 DEF TakeWord
  <2>3. DOMAIN t = {"cfg", "pending"} /\ t.cfg = c /\ t.pending = ""
    BY <1>6, <2>2
  <2>4. /\ DOMAIN c = DOMAIN old.cfg
        /\ c.safe_start = old.cfg.safe_start
        /\ \A field \in fields :
              c[field] = IF old.pending = Options[field] THEN Text(word) ELSE old.cfg[field]
    <3>1. DOMAIN old.cfg = DOMAIN Default /\ old.pending \in NeedsValue
      BY <1>6, <2>1
    <3>2. c \in WithOption(old.cfg, old.pending, word)
      OBVIOUS
    <3> QED
      <4> HIDE DEF word
      <4> DEFINE cfg == old.cfg
                 option == old.pending
      <4>1. DOMAIN cfg = DOMAIN Default /\ option \in NeedsValue /\ c \in WithOption(cfg, option, word)
        BY <3>1, <3>2
      <4> HIDE DEF cfg, option
      <4>2. DOMAIN c = DOMAIN cfg
        BY <4>1, OptionSets
      <4>3. c.safe_start = cfg.safe_start
        BY <4>1, OptionSets
      <4>4. \A field \in {"network", "datadir"} :
                 c[field] = IF option = Options[field] THEN Text(word) ELSE cfg[field]
        BY <4>1, OptionSets
      <4> QED
        BY <4>2, <4>3, <4>4 DEF cfg, option
  <2> HIDE DEF fields, word
  <2> QED
    BY <1>1, <1>3, <1>4, <1>6, <1>8, <2>1, <2>3, <2>4
<1>9. CASE ~is[k]
  <2>1. old.pending = ""
    BY <1>6, <1>9
  <2>2. \A field \in fields : k - 1 \notin of(field)
    BY <1>1, <1>4, <1>9, OptionNames
  <2>3. t \in IF word \in NeedsValue THEN {[old EXCEPT !.pending = word]}
              ELSE IF word \in DOMAIN Settings THEN {[old EXCEPT !.cfg = With(@, Settings[word])]}
              ELSE IF word \in Dashed \ {"--help", "--version"} THEN {}
              ELSE {old}
    BY <2>1 DEF TakeWord
  <2> HIDE DEF word, fields
  <2>4. CASE word \in NeedsValue
    <3>1. t = [old EXCEPT !.pending = word]
      BY <2>3, <2>4
    <3>2. DOMAIN t = {"cfg", "pending"} /\ t.cfg = old.cfg /\ t.pending = word
      BY <1>6, <3>1
    <3>3. word \notin SafeWords
      BY <2>4, OptionNames DEF SafeWords, Settings
    <3> QED
      BY <1>3, <1>6, <1>9, <2>2, <2>4, <3>2, <3>3
  <2>5. CASE word \notin NeedsValue /\ word \in DOMAIN Settings
    <3>1. t = [old EXCEPT !.cfg = With(@, Settings[word])]
      BY <2>3, <2>5
    <3>2. DOMAIN t = {"cfg", "pending"} /\ t.cfg = With(old.cfg, Settings[word]) /\ t.pending = ""
      BY <1>6, <2>1, <3>1
    <3>3. LET c == With(old.cfg, Settings[word])
          IN  /\ DOMAIN c = DOMAIN old.cfg
              /\ \A field \in {"network", "datadir"} : c[field] = old.cfg[field]
              /\ IF word \in SafeWords THEN c.safe_start <=> word = "--safe-start"
                                       ELSE c.safe_start = old.cfg.safe_start
      BY <1>6, <2>5, SwitchSets
    <3> DEFINE c == With(old.cfg, Settings[word])
    <3>4. /\ DOMAIN c = DOMAIN old.cfg
          /\ \A field \in fields : c[field] = old.cfg[field]
          /\ IF word \in SafeWords THEN c.safe_start <=> word = "--safe-start"
                                   ELSE c.safe_start = old.cfg.safe_start
      BY <3>3 DEF fields
    <3> HIDE DEF c
    <3>5. t.cfg = c
      BY <3>2 DEF c
    <3> QED
      BY <1>3, <1>6, <1>9, <2>2, <2>5, <3>2, <3>4, <3>5
  <2>6. CASE word \notin NeedsValue /\ word \notin DOMAIN Settings
    <3>1. t = old
      BY <2>3, <2>6
    <3>2. word \notin SafeWords
      BY <2>6 DEF SafeWords, Settings
    <3> QED
      BY <1>3, <1>6, <1>9, <2>1, <2>2, <2>6, <3>1, <3>2
  <2> QED
    BY <2>4, <2>5, <2>6
<1> QED
  BY <1>8, <1>9

(* A configuration that the whole command line has made. *)
IsConfigured(c, start, args, is) ==
    \E t : IsTaken(t, start, args, is, Len(args)) /\ t.pending = "" /\ c = t.cfg

(* So it is when the command line has been read. *)
LEMMA WordsAreTaken ==
    ASSUME NEW start, DOMAIN start = DOMAIN Default, NEW args,
           Len(args) \in Nat, DOMAIN args = 1 .. Len(args), NEW is, IsValueOf(is, args),
           NEW c \in ApplyArgs(start, args)
    PROVE  IsConfigured(c, start, args, is)
<1> DEFINE n == Len(args)
           first == [cfg |-> start, pending |-> ""]
           Entry(g, i) == IF i = 0 THEN {first} ELSE UNION {TakeWord(x, args[i]) : x \in g[i - 1]}
           Table(g, k) == g = [i \in 0 .. k |-> Entry(g, i)]
           NoTable == {k \in 0 .. n : ~\E g : Table(g, k)}
<1>0. n \in Nat
  OBVIOUS
<1>1. NoTable = {}
  <2> SUFFICES ASSUME NoTable # {} PROVE FALSE
    OBVIOUS
  <2> HIDE DEF n, first
  <2>1. NoTable \subseteq Nat
    <3> HIDE DEF Table
    <3> QED
      BY <1>0
  <2> HIDE DEF NoTable
  <2>2. PICK k \in NoTable : \A j \in NoTable : k <= j
    BY <2>1, LeastNat
  <2>3. k \in 0 .. n /\ ~\E g : Table(g, k)
    BY <2>2 DEF NoTable
  <2>4. CASE k = 0
    <3> DEFINE g == [i \in 0 .. 0 |-> {first}]
    <3>1. \A i \in 0 .. 0 : Entry(g, i) = {first}
      OBVIOUS
    <3>2. Table(g, 0)
      BY <3>1
    <3> QED
      BY <2>3, <2>4, <3>2
  <2>5. CASE k # 0
    <3>1. k - 1 \in 0 .. n /\ ~(k <= k - 1) /\ k \in 1 .. n
      <4> HIDE DEF Table
      <4> QED
        BY <1>0, <2>3, <2>5
    <3>2. PICK g : Table(g, k - 1)
      BY <2>2, <3>1 DEF NoTable
    <3> DEFINE h == [i \in 0 .. k |-> IF i = k THEN Entry(g, k) ELSE g[i]]
    <3>3. ASSUME NEW i \in 0 .. k PROVE h[i] = Entry(h, i)
      <4>1. CASE i = 0
        <5>1. g[0] = Entry(g, 0) /\ 0 # k
          BY <3>1, <3>2
        <5>2. h[0] = g[0]
          BY <5>1, <3>1
        <5> QED
          BY <4>1, <5>1, <5>2
      <4>2. CASE i # 0
        <5>1. i - 1 \in 0 .. k /\ i - 1 # k
          BY <3>1, <4>2
        <5>2. h[i - 1] = g[i - 1]
          BY <5>1
        <5>3. Entry(h, i) = Entry(g, i)
          BY <4>2, <5>2
        <5>4. CASE i = k
          <6>1. h[k] = Entry(g, k)
            <7> HIDE DEF Entry
            <7> QED
              BY <5>4
          <6> QED
            BY <5>3, <5>4, <6>1
        <5>5. CASE i # k
          <6>1. i \in 0 .. k - 1
            BY <3>1, <5>5
          <6>2. g[i] = Entry(g, i)
            BY <3>2, <6>1
          <6> QED
            BY <5>3, <5>5, <6>2
        <5> QED
          BY <5>4, <5>5
      <4> QED
        BY <4>1, <4>2
    <3>4. h = [i \in 0 .. k |-> h[i]]
      OBVIOUS
    <3> HIDE DEF h, Entry
    <3>5. Table(h, k)
      BY <3>3, <3>4
    <3> QED
      BY <2>3, <3>5
  <2> QED
    BY <2>4, <2>5
<1> DEFINE after == CHOOSE g : Table(g, n)
<1>2. Table(after, n)
  <2>1. n \in 0 .. n
    OBVIOUS
  <2>2. ~(n \in NoTable)
    <3> HIDE DEF NoTable
    <3> QED
      BY <1>1
  <2> HIDE DEF Table, n
  <2>3. \E g : Table(g, n)
    BY <2>1, <2>2
  <2> QED
    BY <2>3
<1>3. ApplyArgs(start, args) = {t.cfg : t \in {x \in after[n] : x.pending = ""}}
  BY DEF ApplyArgs
<1> HIDE DEF after
<1>4. \A i \in 0 .. n : after[i] = Entry(after, i)
  BY <1>2
<1> DEFINE Wrong == {k \in 0 .. n : \E x \in after[k] : ~IsTaken(x, start, args, is, k)}
<1>5. Wrong = {}
  <2> SUFFICES ASSUME Wrong # {} PROVE FALSE
    OBVIOUS
  <2>1. Wrong \subseteq Nat
    OBVIOUS
  <2> HIDE DEF Wrong
  <2>2. PICK k \in Wrong : \A j \in Wrong : k <= j
    BY <2>1, LeastNat
  <2>3. k \in 0 .. n
    BY <2>2 DEF Wrong
  <2>4. PICK x \in after[k] : ~IsTaken(x, start, args, is, k)
    BY <2>2 DEF Wrong
  <2>5. k # 0
    <3> SUFFICES ASSUME k = 0 PROVE FALSE
      OBVIOUS
    <3>1. x = first
      BY <1>4, <2>3, <2>4
    <3>2. \A W : UpTo(Standing(args, is, W), 0) = {} /\ UpTo(Standing(args, is, W), 0 - 1) = {}
      BY DEF UpTo, Standing
    <3>3. IsTaken(first, start, args, is, 0)
      BY <3>2 DEF IsTaken
    <3> QED
      BY <2>4, <3>1, <3>3
  <2>6. k \in 1 .. n /\ k - 1 \in 0 .. n /\ ~(k <= k - 1)
    BY <2>3, <2>5
  <2>7. PICK old \in after[k - 1] : x \in TakeWord(old, args[k])
    <3>1. after[k] = UNION {TakeWord(y, args[k]) : y \in after[k - 1]}
      BY <1>4, <2>3, <2>5
    <3> QED
      BY <2>4, <3>1
  <2>8. IsTaken(old, start, args, is, k - 1)
    BY <2>2, <2>6 DEF Wrong
  <2>9. IsTaken(x, start, args, is, k)
    BY <2>6, <2>7, <2>8, TakenStep
  <2> QED
    BY <2>4, <2>9
<1>6. n \in 0 .. n
  OBVIOUS
<1>7. PICK t \in after[n] : t.pending = "" /\ c = t.cfg
  BY <1>3
<1>8. IsTaken(t, start, args, is, n)
  BY <1>5, <1>6
<1> QED
  BY <1>7, <1>8 DEF IsConfigured

(* There is always a table of the words that are values. *)
LEMMA ValuesExist ==
    ASSUME NEW args, Len(args) \in Nat
    PROVE  \E is : IsValueOf(is, args)
<1> DEFINE n == Len(args)
           F == [pair \in BOOLEAN \X (1 .. n) |->
                    pair[2] > 1 /\ ~pair[1] /\ args[pair[2] - 1] \in NeedsValue]
<1>1. IsStep(F, BOOLEAN, n)
  BY DEF IsStep
<1> HIDE DEF F
<1>2. PICK g : Iterates(g, F, BOOLEAN, n, FALSE)
  BY <1>1, RecursionExists
<1> DEFINE is == [i \in 1 .. n |-> g[i]]
<1>3. ASSUME NEW i \in 1 .. n
      PROVE  is[i] = (i > 1 /\ ~is[i - 1] /\ args[i - 1] \in NeedsValue)
  <2>1. g[i] = F[<<g[i - 1], i>>] /\ g[i - 1] \in BOOLEAN /\ i - 1 \in 0 .. n
    BY <1>2 DEF Iterates
  <2>2. g[i] = (i > 1 /\ ~g[i - 1] /\ args[i - 1] \in NeedsValue)
    BY <2>1 DEF F
  <2>3. i > 1 => is[i - 1] = g[i - 1]
    OBVIOUS
  <2> QED
    BY <2>2, <2>3
<1>4. is = [i \in 1 .. n |-> is[i]]
  OBVIOUS
<1> HIDE DEF is
<1>5. IsValueOf(is, args)
  BY <1>3, <1>4 DEF IsValueOf
<1> QED
  BY <1>5

(* A set of the numbers up to n has a greatest. *)
LEMMA LargestIs ==
    ASSUME NEW n \in Nat, NEW S, S \subseteq 1 .. n, S # {}
    PROVE  Max(S) \in S /\ Max(S) # 0
<1> DEFINE T == {n - i : i \in S}
<1>1. T \subseteq Nat /\ T # {}
  <2>1. \A i \in S : n - i \in Nat
    OBVIOUS
  <2> QED
    BY <2>1
<1> HIDE DEF T
<1>2. PICK m \in T : \A k \in T : m <= k
  BY <1>1, LeastNat
<1>3. PICK i \in S : m = n - i
  BY DEF T
<1>4. ASSUME NEW j \in S PROVE i >= j
  <2>1. n - j \in T
    BY DEF T
  <2>2. n - i <= n - j
    BY <1>2, <1>3, <2>1
  <2> QED
    BY <2>2
<1>5. \E x \in S : \A y \in S : x >= y
  BY <1>4
<1>6. Max(S) = CHOOSE x \in S : \A y \in S : x >= y
  BY DEF Max
<1>7. Max(S) \in S
  BY <1>5, <1>6
<1> QED
  BY <1>7

(* The files of the machine are made of lines. *)
LEMMA FilesHaveLines ==
    ASSUME NEW files \in Files, NEW path \in DOMAIN files
    PROVE  LET lines == files[path]
           IN  /\ Len(lines) \in Nat /\ DOMAIN lines = 1 .. Len(lines)
               /\ \A i \in DOMAIN lines : IsLine(lines[i])
<1>s. \A f, v \in Token : f \notin {"#", "="} /\ v # "#" => IsLine(<<f, "=", v>>)
  <2> TAKE f, v \in Token
  <2>1. "=" \in Token
    BY DEF Token
  <2>2. <<f, "=", v>> \in Seq(Token)
    BY <2>1
  <2>3. /\ Len(<<f, "=", v>>) = 3 /\ <<f, "=", v>>[1] = f
        /\ <<f, "=", v>>[2] = "=" /\ <<f, "=", v>>[3] = v
    OBVIOUS
  <2> QED
    BY <2>2, <2>3 DEF IsLine
<1>c. /\ IsLine(<<"network", "=", "testnet", "#", "a", "=", "b">>)
      /\ IsLine(<<"#", "network", "=", "regtest">>)
      /\ IsLine(<<"oops", "#", "=">>)
      /\ IsLine(<<>>)
  <2>1. IsLine(<<"network", "=", "testnet", "#", "a", "=", "b">>)
    <3>1. <<"network", "=", "testnet", "#", "a", "=", "b">> \in Seq(Token)
      BY DEF Token
    <3> QED
      BY <3>1 DEF IsLine
  <2>2. IsLine(<<"#", "network", "=", "regtest">>)
    <3>1. <<"#", "network", "=", "regtest">> \in Seq(Token)
      BY DEF Token
    <3> QED
      BY <3>1 DEF IsLine
  <2>3. IsLine(<<"oops", "#", "=">>)
    <3>1. <<"oops", "#", "=">> \in Seq(Token)
      BY DEF Token
    <3> QED
      BY <3>1 DEF IsLine
  <2>4. IsLine(<<>>)
    BY DEF IsLine
  <2> QED
    BY <2>1, <2>2, <2>3, <2>4
<1>t. /\ IsLine(<<"network", "=", "devnet">>) /\ IsLine(<<"datadir", "=", "e">>)
      /\ IsLine(<<"safe_start", "=", "no">>) /\ IsLine(<<"port", "=", "0">>)
      /\ IsLine(<<"network", "=", "regtest">>) /\ IsLine(<<"network", "=", "mainnet">>)
      /\ IsLine(<<"safe_start", "=", "yes">>)
  <2>1. {"network", "datadir", "safe_start", "port", "devnet", "e", "no", "0", "regtest",
         "mainnet", "yes"} \subseteq Token
    BY DEF Token
  <2> QED
    BY <1>s, <2>1
<1>1. \A line \in Lines \cup {<<"network", "=", "regtest">>} : IsLine(line)
  BY <1>c, <1>t DEF Lines
<1>2. \A line \in {<<"network", "=", "devnet">>, <<"safe_start", "=", "no">>,
                   <<"network", "=", "mainnet">>, <<"safe_start", "=", "yes">>, <<>>} : IsLine(line)
  BY <1>c, <1>t
<1>3. files # <<>>
  OBVIOUS
<1>4. PICK all \in SeqOf(Lines, 1) \cup TwoLines :
         files = [p \in {DefaultConf, "other"} |->
                     IF p = DefaultConf THEN all ELSE << <<"network", "=", "regtest">> >>]
  BY <1>3 DEF Files
<1>5. files[path] \in {all, << <<"network", "=", "regtest">> >>}
  BY <1>4
<1>6. CASE files[path] = << <<"network", "=", "regtest">> >>
  BY <1>1, <1>6
<1>7. CASE files[path] = all /\ all \in TwoLines
  BY <1>2, <1>7 DEF TwoLines
<1>8. CASE files[path] = all /\ all \in SeqOf(Lines, 1)
  <2>1. PICK m \in 0 .. 1 : all \in [1 .. m -> Lines]
    BY <1>8 DEF SeqOf
  <2>2. all \in Seq(Lines) /\ Len(all) = m /\ m \in Nat
    BY <2>1
  <2> QED
    BY <1>1, <1>8, <2>1, <2>2
<1> QED
  BY <1>4, <1>5, <1>6, <1>7, <1>8

(* What the file and the environment make of the defaults. *)
LEMMA LoadedIs ==
    ASSUME NEW files \in Files, NEW env \in Environments, NEW path,
           NEW start \in Load(env, files, path)
    PROVE  LET lines == IF path \in DOMAIN files THEN files[path] ELSE <<>>
               setting(field) == {i \in DOMAIN lines : Len(lines[i]) > 2 /\ lines[i][1] = field}
           IN  /\ DOMAIN start = DOMAIN Default
               /\ \A field \in {"network", "datadir"} :
                     start[field] = IF setting(field) # {} THEN <<lines[Max(setting(field))][3]>>
                                    ELSE IF field \in DOMAIN env THEN <<env[field][1]>>
                                    ELSE <<Default[field][1]>>
               /\ start.safe_start <=>
                     (setting("safe_start") # {} => lines[Max(setting("safe_start"))][3] \in Truths)
<1> DEFINE lines == IF path \in DOMAIN files THEN files[path] ELSE <<>>
           base == With(Default, env)
<1>1. /\ Len(lines) \in Nat /\ DOMAIN lines = 1 .. Len(lines)
      /\ \A i \in DOMAIN lines : IsLine(lines[i])
  <2>1. CASE path \in DOMAIN files
    BY <2>1, FilesHaveLines
  <2>2. CASE path \notin DOMAIN files
    BY <2>2
  <2> QED
    BY <2>1, <2>2
<1>2. DOMAIN base = DOMAIN Default
  BY DEF With
<1>3. /\ \A field \in {"network", "datadir"} :
            base[field] = IF field \in DOMAIN env THEN <<env[field][1]>> ELSE <<Default[field][1]>>
      /\ base.safe_start = TRUE
  <2>1. /\ {"network", "datadir", "safe_start"} \subseteq DOMAIN Default
        /\ Default.network = <<"mainnet">> /\ Default.datadir = <<"data">>
        /\ Default.safe_start = TRUE
    BY DEF Default
  <2>2. \/ DOMAIN env = {}
        \/ DOMAIN env = {"network"} /\ env.network = <<"testnet">>
        \/ DOMAIN env = {"network", "datadir"} /\ env.network = <<"devnet">> /\ env.datadir = <<"f">>
    BY DEF Environments
  <2>3. \A field \in DOMAIN Default :
           base[field] = IF field \in DOMAIN env THEN env[field] ELSE Default[field]
    BY DEF With
  <2> HIDE DEF base
  <2>4. base.safe_start = TRUE
    BY <2>1, <2>2, <2>3
  <2>5. base["network"] = IF "network" \in DOMAIN env THEN <<env.network[1]>> ELSE <<Default.network[1]>>
    BY <2>1, <2>2, <2>3
  <2>6. base["datadir"] = IF "datadir" \in DOMAIN env THEN <<env.datadir[1]>> ELSE <<Default.datadir[1]>>
    BY <2>1, <2>2, <2>3
  <2> QED
    BY <2>4, <2>5, <2>6
<1>4. IsGiven(start, base, lines, Len(lines))
  <2>1. CASE path \in DOMAIN files
    <3>1. start \in ApplyLines(base, lines)
      BY <2>1 DEF Load
    <3> HIDE DEF base, lines
    <3> QED
      BY <1>1, <1>2, <3>1, LinesAreGiven
  <2>2. CASE path \notin DOMAIN files
    <3>1. start = base
      BY <2>2 DEF Load
    <3>2. DOMAIN lines = {}
      BY <2>2
    <3> HIDE DEF base, lines
    <3>3. \A field : UpTo(Given(lines, field), Len(lines)) = {}
      BY <3>2 DEF UpTo, Given
    <3> QED
      BY <3>1, <3>3 DEF IsGiven
  <2> QED
    BY <2>1, <2>2
<1> HIDE DEF base, lines
<1> DEFINE setting(field) == {i \in DOMAIN lines : Len(lines[i]) > 2 /\ lines[i][1] = field}
<1>5. \A field : UpTo(Given(lines, field), Len(lines)) = setting(field)
  BY <1>1 DEF UpTo, Given, Sets
<1> HIDE DEF setting
<1>6. \A field \in {"network", "datadir"} :
         start[field] = IF setting(field) # {} THEN <<lines[Max(setting(field))][3]>> ELSE base[field]
  BY <1>4, <1>5 DEF IsGiven
<1>7. IF setting("safe_start") = {} THEN start.safe_start = base.safe_start
      ELSE start.safe_start <=> lines[Max(setting("safe_start"))][3] \in Truths
  BY <1>4, <1>5 DEF IsGiven
<1>8. DOMAIN start = DOMAIN Default
  BY <1>2, <1>4 DEF IsGiven
<1>9. \A field \in {"network", "datadir"} :
         start[field] = IF setting(field) # {} THEN <<lines[Max(setting(field))][3]>>
                        ELSE IF field \in DOMAIN env THEN <<env[field][1]>> ELSE <<Default[field][1]>>
  BY <1>3, <1>6
<1>10. start.safe_start <=> (setting("safe_start") # {} => lines[Max(setting("safe_start"))][3] \in Truths)
  BY <1>3, <1>7
<1> QED
  BY <1>8, <1>9, <1>10, Zenon DEF setting, lines
(* The choice of the last of the words of W that are no values. *)
LEMMA LastWordIs ==
    ASSUME NEW n \in Nat, NEW at, at \subseteq 1 .. n
    PROVE  LET last == IF at = {} THEN 0 ELSE Max(at)
           IN  /\ last = 0 <=> at = {}
               /\ at # {} => last = Max(at)
BY LargestIs

(* Of the values Told allows the code takes this one: an option is looked  *)
(* at before the file, and the file before the environment.                *)
Effective(field) ==
    LET option == LastWord(LAMBDA w : w = Options[field])
    IN  IF option # 0 THEN input.args[option + 1]
        ELSE IF Setting(field) # {} THEN FileLines[Max(Setting(field))][3]
        ELSE IF field \in DOMAIN input.env THEN input.env[field][1]
        ELSE Default[field][1]

LEMMA EffectiveIsTold ==
    ASSUME NEW field, Len(FileLines) \in Nat, DOMAIN FileLines = 1 .. Len(FileLines)
    PROVE  Effective(field) \in Told(field)
<1> DEFINE option == LastWord(LAMBDA w : w = Options[field])
           lastLines == {j \in Setting(field) : j = Max(Setting(field))}
           inFile == {FileLines[i][3] : i \in lastLines}
           inEnv == {input.env[f][1] : f \in {field} \cap DOMAIN input.env}
<1>1. Setting(field) # {} => FileLines[Max(Setting(field))][3] \in inFile
  <2>1. Setting(field) \subseteq 1 .. Len(FileLines)
    BY DEF Setting
  <2>2. Setting(field) # {} => Max(Setting(field)) \in Setting(field)
    BY <2>1, LargestIs
  <2> QED
    BY <2>2
<1>2. Setting(field) = {} => inFile = {}
  OBVIOUS
<1>3. field \in DOMAIN input.env => input.env[field][1] \in inEnv
  OBVIOUS
<1>4. field \notin DOMAIN input.env => inEnv = {}
  OBVIOUS
<1>5. Told(field) = IF option # 0 THEN {input.args[option + 1]}
                    ELSE IF inFile \cup inEnv # {} THEN inFile \cup inEnv
                    ELSE {Default[field][1]}
  BY DEF Told
<1>6. Effective(field) = IF option # 0 THEN input.args[option + 1]
                         ELSE IF Setting(field) # {} THEN FileLines[Max(Setting(field))][3]
                         ELSE IF field \in DOMAIN input.env THEN input.env[field][1]
                         ELSE Default[field][1]
  BY DEF Effective
<1> HIDE DEF option, inFile, inEnv
<1> QED
  BY <1>1, <1>2, <1>3, <1>4, <1>5, <1>6

(* A configuration that a program accepts has the directory, the network   *)
(* and the safety that the rule of OpensAsTold gives.                      *)
LEMMA ConfiguredIs ==
    ASSUME input \in StartInputs,
           NEW opened \in Configured(Conf, input.args, input.env, input.files, input.provider)
    PROVE  /\ opened.dir = <<Effective("datadir")>>
           /\ opened.network = Effective("network")
           /\ input.provider = DevOnly /\ opened.network \in {"mainnet", "testnet"} => ~EffectiveSafe
<1> DEFINE args == input.args
           n == Len(args)
           fields == {"network", "datadir"}
<1>1. input.files \in Files /\ input.env \in Environments
  BY DEF StartInputs
<1>2. n \in Nat /\ DOMAIN args = 1 .. n
  <2>1. args \in SeqOf(Words, MaxArgs)
    BY DEF StartInputs
  <2>2. PICK m \in 0 .. MaxArgs : args \in [1 .. m -> Words]
    BY <2>1 DEF SeqOf
  <2> HIDE DEF args
  <2>3. args \in Seq(Words) /\ m \in Nat
    BY <2>2
  <2> QED
    BY <2>2, <2>3
<1>3. IsValueOf(IsValue, args)
  <2>1. \E is : IsValueOf(is, args)
    BY <1>2, ValuesExist
  <2>2. IsValue = CHOOSE is : IsValueOf(is, args)
    BY DEF IsValue, IsValueOf
  <2> QED
    BY <2>1, <2>2
<1> DEFINE is == IsValue
<1>4. PICK c : /\ \E start \in Load(input.env, input.files, Conf) : c \in ApplyArgs(start, args)
               /\ c.network \in {<<net>> : net \in Networks}
               /\ Valid(c, input.provider)
               /\ opened = [dir |-> c.datadir, network |-> c.network[1], safe |-> c.safe_start]
  BY DEF Configured
<1>5. PICK start \in Load(input.env, input.files, Conf) : c \in ApplyArgs(start, args)
  BY <1>4
<1>6. /\ DOMAIN start = DOMAIN Default
      /\ \A field \in fields :
            start[field] = IF Setting(field) # {} THEN <<FileLines[Max(Setting(field))][3]>>
                           ELSE IF field \in DOMAIN input.env THEN <<input.env[field][1]>>
                           ELSE <<Default[field][1]>>
      /\ start.safe_start <=>
            (Setting("safe_start") # {} => FileLines[Max(Setting("safe_start"))][3] \in Truths)
  BY <1>1, <1>5, LoadedIs, Zenon DEF Setting, FileLines
<1> HIDE DEF args, is
<1>7. PICK t : IsTaken(t, start, args, is, n) /\ t.pending = "" /\ c = t.cfg
  <2>1. c \in ApplyArgs(start, args) /\ IsValueOf(is, args) /\ DOMAIN start = DOMAIN Default
    BY <1>3, <1>5, <1>6 DEF is
  <2>2. Len(args) \in Nat /\ DOMAIN args = 1 .. Len(args)
    BY <1>2
  <2>3. IsConfigured(c, start, args, is)
    BY <2>1, <2>2, WordsAreTaken
  <2> QED
    BY <2>3 DEF IsConfigured
<1> DEFINE of(field) == Standing(args, is, {Options[field]})
           safe == Standing(args, is, SafeWords)
<1>8. /\ \A field \in fields : of(field) \subseteq 1 .. n /\ UpTo(of(field), n - 1) = of(field)
      /\ safe \subseteq 1 .. n /\ UpTo(safe, n) = safe
  <2>1. ASSUME NEW field \in fields PROVE n \notin of(field)
    <3> SUFFICES ASSUME n \in of(field) PROVE FALSE
      OBVIOUS
    <3>1. n # 0 /\ args[n] = Options[field] /\ ~is[n]
      BY <1>2 DEF Standing, args
    <3>2. args[n] \in NeedsValue /\ args[n] # ""
      BY <3>1, OptionNames
    <3> QED
      BY <1>7, <3>1, <3>2 DEF IsTaken
  <2>2. \A W : Standing(args, is, W) \subseteq 1 .. n
    BY <1>2 DEF Standing, args
  <2> HIDE DEF of, safe, n
  <2>3. ASSUME NEW field \in fields PROVE of(field) \subseteq 1 .. n /\ UpTo(of(field), n - 1) = of(field)
    <3>1. of(field) \subseteq 1 .. n
      BY <2>2 DEF of
    <3>2. \A i \in of(field) : i <= n - 1
      BY <1>2, <2>1, <3>1
    <3> QED
      BY <3>1, <3>2 DEF UpTo
  <2>4. safe \subseteq 1 .. n
    BY <2>2 DEF safe
  <2>5. UpTo(safe, n) = safe
    <3>1. \A i \in safe : i <= n
      BY <1>2, <2>4
    <3> QED
      BY <3>1 DEF UpTo
  <2> QED
    BY <2>3, <2>4, <2>5
<1>9. /\ \A field \in fields :
            c[field] = IF of(field) = {} THEN start[field] ELSE Text(args[Max(of(field)) + 1])
      /\ IF safe = {} THEN c.safe_start = start.safe_start
         ELSE c.safe_start <=> args[Max(safe)] = "--safe-start"
  BY <1>7, <1>8 DEF IsTaken
<1>10. \A field \in fields :
          Effective(field) = IF of(field) # {} THEN args[Max(of(field)) + 1]
                             ELSE IF Setting(field) # {} THEN FileLines[Max(Setting(field))][3]
                             ELSE IF field \in DOMAIN input.env THEN input.env[field][1]
                             ELSE Default[field][1]
  <2> TAKE field \in fields
  <2>1. of(field) = {i \in DOMAIN input.args : input.args[i] = Options[field] /\ ~IsValue[i]}
    BY DEF Standing, args, is
  <2>2. LastWord(LAMBDA w : w = Options[field]) = IF of(field) = {} THEN 0 ELSE Max(of(field))
    BY <2>1, Zenon DEF LastWord
  <2> HIDE DEF of, n
  <2>3. /\ LastWord(LAMBDA w : w = Options[field]) = 0 <=> of(field) = {}
        /\ of(field) # {} => LastWord(LAMBDA w : w = Options[field]) = Max(of(field))
    BY <1>2, <1>8, <2>2, LastWordIs
  <2> QED
    BY <2>3 DEF Effective, args
<1>11. EffectiveSafe <=> IF safe # {} THEN args[Max(safe)] = "--safe-start"
                         ELSE Setting("safe_start") # {} =>
                                 FileLines[Max(Setting("safe_start"))][3] \in Truths
  <2>1. safe = {i \in DOMAIN input.args :
                   input.args[i] \in {"--safe-start", "--unsafe-start"} /\ ~IsValue[i]}
    BY DEF Standing, args, is, SafeWords
  <2>2. LastWord(LAMBDA w : w \in {"--safe-start", "--unsafe-start"})
            = IF safe = {} THEN 0 ELSE Max(safe)
    BY <2>1, Zenon DEF LastWord
  <2> HIDE DEF safe, n
  <2>3. /\ LastWord(LAMBDA w : w \in {"--safe-start", "--unsafe-start"}) = 0 <=> safe = {}
        /\ safe # {} => LastWord(LAMBDA w : w \in {"--safe-start", "--unsafe-start"}) = Max(safe)
    BY <1>2, <1>8, <2>2, LastWordIs
  <2> QED
    BY <2>3 DEF EffectiveSafe, args
<1> HIDE DEF of, safe, n
<1>12. c.datadir # <<>> /\ c.network # <<>>
  BY <1>4 DEF Valid, WellFormed
<1>13. \A field \in fields : c[field] = <<Effective(field)>>
  <2> TAKE field \in fields
  <2>1. c[field] # <<>>
    BY <1>12
  <2>2. CASE of(field) = {}
    BY <1>6, <1>9, <1>10, <2>2
  <2>3. CASE of(field) # {}
    BY <1>9, <1>10, <2>1, <2>3 DEF Text
  <2> QED
    BY <2>2, <2>3
<1>14. c.safe_start <=> EffectiveSafe
  BY <1>6, <1>9, <1>11
<1>15. opened.dir = <<Effective("datadir")>> /\ opened.network = Effective("network")
  <2>1. c.datadir = <<Effective("datadir")>> /\ c.network = <<Effective("network")>>
    BY <1>13
  <2> QED
    BY <1>4, <2>1
<1>16. ASSUME input.provider = DevOnly, opened.network \in {"mainnet", "testnet"} PROVE ~EffectiveSafe
  <2>1. c.network = <<opened.network>>
    BY <1>13, <1>15
  <2>2. IsOn(c, "mainnet") \/ IsOn(c, "testnet")
    BY <1>16, <2>1 DEF IsOn
  <2>3. c.safe_start => DevOnly \cap {"liboqs", "OQS"} # {}
    BY <1>4, <1>16, <2>2 DEF Valid, RequireLiboqs
  <2> QED
    BY <1>14, <2>3 DEF DevOnly
<1> QED
  BY <1>15, <1>16

(* Node and wallet open the chain they were told to, and no production     *)
(* network with dev-only crypto unless an unsafe start was asked for.      *)
THEOREM OpensWhatWasTold == Spec => []OpensAsTold
<1>1. ASSUME IsComputed PROVE OpensAsTold
  <2> SUFFICES ASSUME task \in {"node", "wallet"}, NEW opened \in answer
               PROVE  /\ opened.dir \in {<<dir>> : dir \in Told("datadir")}
                      /\ opened.network \in Told("network")
                      /\ input.provider = DevOnly /\ opened.network \in {"mainnet", "testnet"}
                             => ~EffectiveSafe
    BY DEF OpensAsTold
  <2>1. input \in StartInputs
    BY <1>1 DEF IsComputed
  <2>2. opened \in Configured(Conf, input.args, input.env, input.files, input.provider)
    <3>1. CASE task = "node"
      BY <1>1, <3>1 DEF IsComputed, Node, Conf
    <3>2. CASE task = "wallet"
      BY <1>1, <3>2 DEF IsComputed, WalletProgram, Conf
    <3> QED
      BY <3>1, <3>2
  <2>3. Effective("datadir") \in Told("datadir") /\ Effective("network") \in Told("network")
    <3>1. Len(FileLines) \in Nat /\ DOMAIN FileLines = 1 .. Len(FileLines)
      <4>1. CASE Conf \in DOMAIN input.files
        <5>1. input.files \in Files
          BY <2>1 DEF StartInputs
        <5> QED
          BY <4>1, <5>1, FilesHaveLines DEF FileLines
      <4>2. CASE Conf \notin DOMAIN input.files
        BY <4>2 DEF FileLines
      <4> QED
        BY <4>1, <4>2
    <3> QED
      BY <3>1, EffectiveIsTold
  <2> QED
    BY <2>1, <2>2, <2>3, ConfiguredIs
<1> QED
  BY <1>1, AlwaysComputed, PTL

-----------------------------------------------------------------------------
(* Nonces. *)

LEMMA ModType ==
    ASSUME NEW x \in Nat, NEW m \in Nat \ {0}
    PROVE  x % m \in 0 .. m - 1
OBVIOUS

BestAtLeast(try) == best \in Try /\ HashOf(job, best) <= HashOf(job, try)

(* A worker that has recorded its hash knows a best hash no worse than its *)
(* own, the one that publishes holds a solution, and once found is set the *)
(* result is there or about to be.                                         *)
SearchInv ==
    /\ TypeOK
    /\ ResultHasOneWriter
    /\ \A w \in Worker : work[w] \in {"test", "publish"} => BestAtLeast(<<w, nonce[w]>>)
    /\ \A w \in Worker : work[w] = "publish" => Solves(job, <<w, nonce[w]>>)
    /\ found => \/ \E w \in Worker : work[w] = "publish"
                \/ result \in Try /\ Solves(job, result) /\ BestAtLeast(result)
    /\ ~found => result = NoNonce

LEMMA HashType == \A c \in Candidate, try \in Try : HashOf(c, try) \in Nat
BY SearchAssumption DEF Try, HashOf

LEMMA SearchInit == EngineInit => SearchInv
<1>1. ASSUME EngineInit PROVE SearchInv
  <2>1. \A w \in Worker : work[w] = "done"
    BY <1>1 DEF EngineInit
  <2>2. nonce \in [Worker -> Nonce] /\ seen \in [Worker -> 0 .. CountSpace - 1]
    BY <1>1, SearchAssumption DEF EngineInit, Worker, Nonce
  <2>3. TypeOK
    <3>1. /\ starts \in 0 .. MaxStarts /\ stops \in 0 .. MaxStops
          /\ hashes \in 0 .. CountSpace - 1 /\ current \in 0 .. CountSpace - 1
      BY <1>1, SearchAssumption DEF EngineInit
    <3>2. stop \in BOOLEAN /\ stopped \in BOOLEAN /\ found \in BOOLEAN
      BY <1>1, Zenon DEF EngineInit
    <3>3. /\ loop = "ended" /\ mined = "never" /\ stopper = "idle" /\ job \in Candidate
          /\ work = [w \in Worker |-> "done"] /\ result = NoNonce /\ best = NoNonce
      BY <1>1 DEF EngineInit
    <3> QED
      BY <2>2, <3>1, <3>2, <3>3 DEF TypeOK
  <2>4. ~found /\ result = NoNonce
    BY <1>1 DEF EngineInit
  <2> QED
    BY <2>1, <2>3, <2>4 DEF SearchInv, ResultHasOneWriter
<1> QED
  BY <1>1

LEMMA SearchNext == SearchInv /\ [EngineNext]_engineVars => SearchInv'
<1> SUFFICES ASSUME SearchInv, [EngineNext]_engineVars PROVE SearchInv'
  OBVIOUS
<1> USE DEF SearchInv, TypeOK, ResultHasOneWriter
<1>1. CASE StartLoop \/ Begin \/ CheckStop \/ JoinWorkers \/ CallStop \/ StopEngine
  <2>1. UNCHANGED <<work, nonce, seen, found, result, hashes, best, job>>
    BY <1>1 DEF StartLoop, Begin, CheckStop, JoinWorkers, CallStop, StopEngine, loopVars, workVars, jobVars
  <2>2. TypeOK'
    <3> USE DEF loopVars, stopVars, workVars, jobVars
    <3>1. CASE StartLoop
      BY <3>1, SearchAssumption DEF StartLoop
    <3>2. CASE Begin
      BY <3>2 DEF Begin
    <3>3. CASE CheckStop
      BY <3>3 DEF CheckStop
    <3>4. CASE JoinWorkers
      BY <3>4 DEF JoinWorkers
    <3>5. CASE CallStop
      BY <3>5, SearchAssumption DEF CallStop
    <3>6. CASE StopEngine
      BY <3>6 DEF StopEngine
    <3> QED
      BY <1>1, <3>1, <3>2, <3>3, <3>4, <3>5, <3>6
  <2> QED
    BY <2>1, <2>2 DEF BestAtLeast
<1>2. CASE StartWorkers
  <2>1. nonce' \in [Worker -> Nonce] /\ hashes' \in 0 .. CountSpace - 1 /\ current' \in 0 .. CountSpace - 1
    BY <1>2, SearchAssumption DEF StartWorkers, Worker, Nonce
  <2>2. \A w \in Worker : work'[w] = "check"
    BY <1>2 DEF StartWorkers
  <2>3. TypeOK'
    BY <1>2, <2>1 DEF StartWorkers, stopVars
  <2> QED
    BY <1>2, <2>2, <2>3 DEF StartWorkers
<1>3. ASSUME NEW w \in Worker, WorkerStep(w) PROVE SearchInv'
  <2> USE DEF Go, loopVars, stopVars, jobVars
  <2>0. <<w, nonce[w]>> \in Try /\ NoNonce \notin Try
    BY SearchAssumption DEF Try
  <2>1. CASE CheckFlags(w)
    <3>1. TypeOK'
      BY <2>1 DEF CheckFlags
    <3>2. \A v \in Worker : work'[v] \in {"test", "publish"} => work'[v] = work[v]
      BY <2>1 DEF CheckFlags
    <3>3. \A v \in Worker : work[v] = "publish" => work'[v] = "publish"
      BY <2>1 DEF CheckFlags
    <3> QED
      BY <2>1, <3>1, <3>2, <3>3 DEF CheckFlags, BestAtLeast
  <2>2. CASE CountHash(w) \/ LoadCount(w) \/ StoreCount(w)
    <3>1. hashes' \in 0 .. CountSpace - 1
      <4>1. hashes + 1 \in Nat /\ CountSpace \in Nat \ {0}
        BY SearchAssumption
      <4>2. (hashes + 1) % CountSpace \in 0 .. CountSpace - 1
        BY <4>1, ModType
      <4> QED
        BY <2>2, <4>2 DEF CountHash, LoadCount, StoreCount
    <3>2. TypeOK'
      BY <2>2, <3>1 DEF CountHash, LoadCount, StoreCount
    <3>3. \A v \in Worker : work'[v] \in {"test", "publish"} => work'[v] = work[v]
      BY <2>2 DEF CountHash, LoadCount, StoreCount
    <3>4. \A v \in Worker : work[v] = "publish" => work'[v] = "publish"
      BY <2>2 DEF CountHash, LoadCount, StoreCount
    <3>5. UNCHANGED <<nonce, found, result, best, job>>
      BY <2>2 DEF CountHash, LoadCount, StoreCount
    <3> QED
      BY <3>2, <3>3, <3>4, <3>5 DEF BestAtLeast
  <2>3. CASE RecordBestHash(w)
    <3>1. best' \in Try /\ HashOf(job, best') <= HashOf(job, <<w, nonce[w]>>)
      BY <2>0, <2>3, HashType DEF RecordBestHash
    <3>2. \A try \in Try : BestAtLeast(try) => HashOf(job, best') <= HashOf(job, try)
      BY <2>0, <2>3, HashType DEF RecordBestHash, BestAtLeast
    <3>3. UNCHANGED <<nonce, found, result, job>>
      BY <2>3 DEF RecordBestHash
    <3>4. TypeOK'
      BY <2>3, <3>1 DEF RecordBestHash
    <3>5. \A v \in Worker : work'[v] = IF v = w THEN "test" ELSE work[v]
      BY <2>3 DEF RecordBestHash
    <3>6. work[w] = "record"
      BY <2>3 DEF RecordBestHash
    <3>7. ASSUME NEW v \in Worker, work'[v] \in {"test", "publish"}
          PROVE  BestAtLeast(<<v, nonce[v]>>)'
      <4>1. CASE v = w
        BY <3>1, <3>3, <4>1 DEF BestAtLeast
      <4>2. CASE v # w
        BY <3>1, <3>2, <3>3, <3>5, <3>7, <4>2 DEF BestAtLeast, Try
      <4> QED
        BY <4>1, <4>2
    <3>8. ResultHasOneWriter'
      BY <3>3, <3>5, <3>6
    <3>9. found' => \/ \E v \in Worker : work'[v] = "publish"
                    \/ result' \in Try /\ Solves(job, result') /\ BestAtLeast(result)'
      BY <3>1, <3>2, <3>3, <3>5, <3>6 DEF BestAtLeast
    <3>10. \A v \in Worker : work'[v] = "publish" => Solves(job, <<v, nonce'[v]>>)
      BY <3>3, <3>5
    <3> QED
      BY <3>3, <3>4, <3>7, <3>8, <3>9, <3>10
  <2>4. CASE NextNonce(w)
    <3>1. (nonce[w] + Threads) % NonceSpace \in Nonce
      <4>1. nonce[w] + Threads \in Nat /\ NonceSpace \in Nat \ {0}
        BY SearchAssumption DEF Nonce
      <4> QED
        BY <4>1, ModType DEF Nonce
    <3>2. TypeOK'
      BY <2>4, <3>1 DEF NextNonce
    <3>3. work[w] = "test" /\ \A v \in Worker : work'[v] = IF v = w THEN "check" ELSE work[v]
      BY <2>4 DEF NextNonce
    <3>4. UNCHANGED <<found, result, best, job>> /\ \A v \in Worker \ {w} : nonce'[v] = nonce[v]
      BY <2>4 DEF NextNonce
    <3> QED
      BY <3>2, <3>3, <3>4 DEF BestAtLeast
  <2>5. CASE Claim(w)
    <3>1. /\ work[w] = "test" /\ Solves(job, <<w, nonce[w]>>) /\ found'
          /\ UNCHANGED <<nonce, result, best, job>>
          /\ \A v \in Worker \ {w} : work'[v] = work[v]
          /\ work'[w] = IF found THEN "done" ELSE "publish"
      BY <2>5 DEF Claim
    <3>2. TypeOK'
      BY <2>5 DEF Claim
    <3>3. CASE found
      BY <3>1, <3>2, <3>3 DEF BestAtLeast
    <3>4. CASE ~found
      BY <3>1, <3>2, <3>4 DEF BestAtLeast
    <3> QED
      BY <3>3, <3>4
  <2>6. CASE Publish(w)
    <3>1. /\ work[w] = "publish" /\ result' = <<w, nonce[w]>>
          /\ UNCHANGED <<nonce, found, best, job>>
          /\ \A v \in Worker \ {w} : work'[v] = work[v]
          /\ work'[w] = "done"
      BY <2>6 DEF Publish
    <3>2. TypeOK'
      BY <2>0, <2>6 DEF Publish
    <3>3. BestAtLeast(result)' /\ Solves(job, result') /\ result' \in Try
      BY <2>0, <3>1 DEF BestAtLeast
    <3>4. \A v \in Worker : work'[v] # "publish"
      BY <3>1
    <3> QED
      BY <3>1, <3>2, <3>3, <3>4 DEF BestAtLeast
  <2> QED
    BY <1>3, <2>1, <2>2, <2>3, <2>4, <2>5, <2>6 DEF WorkerStep
<1>4. CASE UNCHANGED engineVars
  BY <1>4 DEF engineVars, loopVars, stopVars, jobVars, workVars, BestAtLeast
<1> QED
  BY <1>1, <1>2, <1>3, <1>4 DEF EngineNext, LoopStep

(* The plain object result is written by one thread, once per search. *)
THEOREM OneWriter == EngineSpec => []ResultHasOneWriter
<1>1. SearchInv => ResultHasOneWriter
  BY DEF SearchInv
<1> QED
  BY <1>1, SearchInit, SearchNext, PTL DEF EngineSpec

(* When all workers have ended and found is set, result solves the block.  *)
THEOREM MinedSolves == EngineSpec => []MinedIsSolution
<1>1. SearchInv => MinedIsSolution
  BY DEF SearchInv, MinedIsSolution, BestAtLeast
<1> QED
  BY <1>1, SearchInit, SearchNext, PTL DEF EngineSpec
=============================================================================
