----------------------------- MODULE SpendProofs -----------------------------
(***************************************************************************)
(* Theorems about a wallet that pays through a node that mines: what it    *)
(* sends costs exactly what was asked, and what it shows it can send.      *)
(***************************************************************************)
EXTENDS ChainRulesProofs, SelectionProofs, WalletSpend

-----------------------------------------------------------------------------
(* Sequences of coins. *)

(* SetToSeq lists a finite set, each member once. *)
LEMMA SetToSeqLists ==
    ASSUME NEW S, IsFiniteSet(S)
    PROVE  /\ SetToSeq(S) \in Seq(S)
           /\ IsInjective(SetToSeq(S))
           /\ Range(SetToSeq(S)) = S
<1> DEFINE n == Cardinality(S)
           q == SetToSeq(S)
<1>1. n \in Nat /\ ExistsBijection(1 .. n, S)
  BY FS_CardinalityType
<1>2. PICK f : f \in Bijection(1 .. n, S)
  BY <1>1 DEF ExistsBijection
<1>3. f \in [1 .. n -> S] /\ IsInjective(f)
  BY <1>2 DEF Bijection, Injection, IsInjective
<1>4. q \in [1 .. n -> S] /\ IsInjective(q)
  BY <1>3 DEF SetToSeq
<1> HIDE DEF q
<1>5. q \in Injection(1 .. n, S)
  BY <1>4 DEF Injection, IsInjective
<1>6. Cardinality(1 .. n) = n
  <2>1. Cardinality(1 .. n) = IF 1 > n THEN 0 ELSE n - 1 + 1
    BY <1>1, FS_Interval
  <2> QED
    BY <1>1, <2>1
<1>7. q \in Surjection(1 .. n, S)
  BY <1>5, <1>6, FS_Injection
<1>8. Range(q) = S
  BY <1>4, <1>7 DEF Surjection, Range
<1> QED
  BY <1>1, <1>4, <1>8 DEF q

(* One sequence of coins after another. *)
LEMMA ConcatCoins ==
    ASSUME NEW C, \A c \in C : c.amount \in Nat, NEW s \in Seq(C), NEW t \in Seq(C)
    PROVE  /\ s \o t \in Seq(C)
           /\ Range(s \o t) = Range(s) \cup Range(t)
           /\ IsInjective(s) /\ IsInjective(t) /\ Range(s) \cap Range(t) = {}
                  => IsInjective(s \o t)
           /\ CoinTotal(s \o t) = CoinTotal(s) + CoinTotal(t)
<1> DEFINE m == Len(s)
           n == Len(t)
           r == s \o t
           f == [i \in DOMAIN r |-> r[i].amount]
           g == [i \in DOMAIN s |-> s[i].amount]
           h == [i \in DOMAIN t |-> t[i].amount]
           name == [i \in 1 .. n |-> m + i]
<1>1. /\ m \in Nat /\ DOMAIN s = 1 .. m /\ \A i \in 1 .. m : s[i] \in C
      /\ n \in Nat /\ DOMAIN t = 1 .. n /\ \A i \in 1 .. n : t[i] \in C
  OBVIOUS
<1>2. /\ r \in Seq(C) /\ Len(r) = m + n /\ DOMAIN r = 1 .. m + n
      /\ \A i \in 1 .. m : r[i] = s[i]
      /\ \A i \in 1 .. n : r[m + i] = t[i]
  OBVIOUS
<1> HIDE DEF m, n, r
<1>3. \A i \in 1 .. m + n : i \in 1 .. m \/ \E j \in 1 .. n : i = m + j
  <2> TAKE i \in 1 .. m + n
  <2>1. i \notin 1 .. m => i - m \in 1 .. n /\ i = m + (i - m)
    BY <1>1
  <2> QED
    BY <2>1
<1>4. \A j \in 1 .. n : m + j \in 1 .. m + n /\ m + j \notin 1 .. m
  BY <1>1
<1>5. 1 .. m \subseteq 1 .. m + n
  BY <1>1
<1>6. Range(r) = Range(s) \cup Range(t)
  <2>1. ASSUME NEW c \in Range(r) PROVE c \in Range(s) \cup Range(t)
    <3>1. PICK i \in 1 .. m + n : c = r[i]
      BY <1>2 DEF Range
    <3>2. CASE i \in 1 .. m
      BY <1>1, <1>2, <3>1, <3>2 DEF Range
    <3>3. CASE i \notin 1 .. m
      <4>1. PICK j \in 1 .. n : i = m + j
        BY <1>3, <3>3
      <4> QED
        BY <1>1, <1>2, <3>1, <4>1 DEF Range
    <3> QED
      BY <3>2, <3>3
  <2>2. \A i \in 1 .. m : s[i] \in Range(r)
    BY <1>2, <1>5 DEF Range
  <2>3. \A i \in 1 .. n : t[i] \in Range(r)
    BY <1>2, <1>4 DEF Range
  <2> QED
    BY <1>1, <2>1, <2>2, <2>3 DEF Range
<1>7. ASSUME IsInjective(s), IsInjective(t), Range(s) \cap Range(t) = {} PROVE IsInjective(r)
  <2> SUFFICES ASSUME NEW i \in DOMAIN r, NEW j \in DOMAIN r, r[i] = r[j] PROVE i = j
    BY DEF IsInjective
  <2>1. CASE i \in 1 .. m /\ j \in 1 .. m
    BY <1>1, <1>2, <1>7, <2>1 DEF IsInjective
  <2>2. CASE i \notin 1 .. m /\ j \notin 1 .. m
    <3>1. PICK k \in 1 .. n, l \in 1 .. n : i = m + k /\ j = m + l
      BY <1>2, <1>3, <2>2
    <3>2. t[k] = t[l]
      BY <1>2, <3>1
    <3> QED
      BY <1>1, <1>7, <3>1, <3>2 DEF IsInjective
  <2>3. ASSUME NEW k \in DOMAIN r, NEW l \in DOMAIN r, k \in 1 .. m, l \notin 1 .. m
        PROVE  r[k] # r[l]
    <3>1. PICK x \in 1 .. n : l = m + x
      BY <1>2, <1>3, <2>3
    <3>2. r[k] \in Range(s) /\ r[l] \in Range(t)
      BY <1>1, <1>2, <2>3, <3>1 DEF Range
    <3> QED
      BY <1>7, <3>2
  <2> QED
    BY <2>1, <2>2, <2>3
<1>8. CoinTotal(r) = CoinTotal(s) + CoinTotal(t)
  <2>1. /\ CoinTotal(r) = SumFunctionOnSet(f, 1 .. m + n)
        /\ CoinTotal(s) = SumFunctionOnSet(g, 1 .. m)
        /\ CoinTotal(t) = SumFunctionOnSet(h, 1 .. n)
    BY <1>1, <1>2 DEF CoinTotal, SumFunction
  <2>2. /\ \A i \in 1 .. m : f[i] \in Int /\ f[i] = g[i]
        /\ \A i \in 1 .. n : h[i] \in Int /\ f[name[i]] = h[i]
    BY <1>1, <1>2, <1>4, <1>5
  <2>3. {name[i] : i \in 1 .. n} = (1 .. m + n) \ (1 .. m)
    BY <1>3, <1>4
  <2>4. \A i, j \in 1 .. n : name[i] = name[j] => i = j
    BY <1>1
  <2>5. /\ IsFiniteSet(1 .. m) /\ IsFiniteSet(1 .. n)
        /\ IsFiniteSet((1 .. m + n) \ (1 .. m))
    <3>1. 1 \in Int /\ m \in Int /\ n \in Int /\ m + n \in Int
      BY <1>1
    <3>2. IsFiniteSet(1 .. m) /\ IsFiniteSet(1 .. n) /\ IsFiniteSet(1 .. m + n)
      BY <3>1, FS_Interval
    <3> QED
      BY <3>2, FS_Difference
  <2> HIDE DEF f, g, h, name
  <2>6. SumFunctionOnSet(f, 1 .. m) = SumFunctionOnSet(g, 1 .. m)
    BY <2>2, <2>5, SumSame
  <2>7. SumFunctionOnSet(f, {name[i] : i \in 1 .. n}) = SumFunctionOnSet(h, 1 .. n)
    <3>1. \A i \in 1 .. n : h[i] \in Int
      BY <2>2
    <3>2. \A i \in 1 .. n : f[name[i]] = h[i]
      BY <2>2
    <3> DEFINE A == 1 .. n
    <3>3. /\ IsFiniteSet(A)
          /\ \A x \in A : h[x] \in Int
          /\ \A x, y \in A : name[x] = name[y] => x = y
          /\ \A x \in A : f[name[x]] = h[x]
      BY <2>4, <2>5, <3>1, <3>2
    <3> HIDE DEF A
    <3>4. SumFunctionOnSet(f, {name[x] : x \in A}) = SumFunctionOnSet(h, A)
      BY <3>3, SumRenamed
    <3> QED
      BY <3>4 DEF A
  <2>8. \A i \in (1 .. m) \cup ((1 .. m + n) \ (1 .. m)) : f[i] \in Int
    <3> TAKE i \in (1 .. m) \cup ((1 .. m + n) \ (1 .. m))
    <3>1. CASE i \in 1 .. m
      BY <2>2, <3>1
    <3>2. CASE i \notin 1 .. m
      BY <2>2, <2>3, <3>2
    <3> QED
      BY <3>1, <3>2
  <2>9. 1 .. m + n = (1 .. m) \cup ((1 .. m + n) \ (1 .. m))
    BY <1>5
  <2>10. SumFunctionOnSet(f, (1 .. m) \cup ((1 .. m + n) \ (1 .. m)))
            = SumFunctionOnSet(f, 1 .. m) + SumFunctionOnSet(f, (1 .. m + n) \ (1 .. m))
    BY <2>5, <2>8, SumDisjoint
  <2> QED
    BY <2>1, <2>3, <2>6, <2>7, <2>9, <2>10
<1> QED
  BY <1>2, <1>6, <1>7, <1>8 DEF r

(* What FlattenSeq makes, one sequence after the other. *)
IsFlattening(g, C, n, seqs) ==
    /\ g \in [1 .. n -> Seq(C)]
    /\ g[1] = seqs[1]
    /\ \A i \in 2 .. n : g[i] = g[i - 1] \o seqs[i]
    /\ FlattenSeq(seqs) = g[n]

LEMMA FlattenSteps ==
    ASSUME NEW C, NEW n \in Nat \ {0}, NEW seqs \in [1 .. n -> Seq(C)]
    PROVE  \E g : IsFlattening(g, C, n, seqs)
<1> DEFINE S == Seq(C)
           last == n - 1
           F == [p \in S \X (1 .. last) |-> p[1] \o seqs[p[2] + 1]]
           flat == CHOOSE h : h = [i \in 1 .. n |->
                       IF i = 1 THEN seqs[i] ELSE h[i - 1] \o seqs[i]]
<1>1. last \in Nat /\ n \in Nat /\ n # 0 /\ n = last + 1
  OBVIOUS
<1>2. FlattenSeq(seqs) = flat[n]
  <2>1. Len(seqs) = n
    OBVIOUS
  <2> QED
    BY <1>1, <2>1 DEF FlattenSeq
<1> HIDE DEF last
<1>3. \A i \in 1 .. last : i + 1 \in 1 .. n
  BY <1>1
<1>4. \A x \in S : \A i \in 1 .. last : x \o seqs[i + 1] \in S
  BY <1>3
<1>5. IsStep(F, S, last) /\ seqs[1] \in S
  BY <1>1, <1>4 DEF IsStep
<1>6. \A x \in S : \A i \in 1 .. last : F[<<x, i>>] = x \o seqs[i + 1]
  OBVIOUS
<1> HIDE DEF S, F
<1>7. PICK g : Iterates(g, F, S, last, seqs[1])
  BY <1>1, <1>5, RecursionExists
<1> DEFINE k == [i \in 1 .. n |-> g[i - 1]]
<1>8. /\ g \in [0 .. last -> S]
      /\ g[0] = seqs[1]
      /\ \A i \in 1 .. last : g[i] = g[i - 1] \o seqs[i + 1]
  <2>1. /\ g \in [0 .. last -> S]
        /\ g[0] = seqs[1]
        /\ \A i \in 1 .. last : g[i] = F[<<g[i - 1], i>>]
    BY <1>7 DEF Iterates
  <2>2. \A i \in 1 .. last : i - 1 \in 0 .. last
    BY <1>1
  <2> QED
    BY <1>6, <2>1, <2>2
<1>9. k \in [1 .. n -> S]
  BY <1>1, <1>8
<1>10. k[1] = seqs[1]
  BY <1>1, <1>8
<1>11. ASSUME NEW i \in 2 .. n PROVE k[i] = k[i - 1] \o seqs[i]
  <2>1. i - 1 \in 1 .. last /\ i - 1 \in 1 .. n /\ i \in 1 .. n /\ (i - 1) + 1 = i
    BY <1>1
  <2>2. g[i - 1] = g[(i - 1) - 1] \o seqs[(i - 1) + 1]
    BY <1>8, <2>1
  <2> QED
    BY <2>1, <2>2
<1> HIDE DEF k
<1>12. k = [i \in 1 .. n |-> IF i = 1 THEN seqs[i] ELSE k[i - 1] \o seqs[i]]
  <2>1. \A i \in 1 .. n : k[i] = IF i = 1 THEN seqs[i] ELSE k[i - 1] \o seqs[i]
    <3> TAKE i \in 1 .. n
    <3>1. i # 1 => i \in 2 .. n
      BY <1>1
    <3> QED
      BY <1>10, <1>11, <3>1
  <2> QED
    BY <1>9, <2>1
<1>13. flat = [i \in 1 .. n |-> IF i = 1 THEN seqs[i] ELSE flat[i - 1] \o seqs[i]]
  BY <1>12
<1> HIDE DEF flat
<1>14. flat[1] = seqs[1] /\ \A i \in 2 .. n : flat[i] = flat[i - 1] \o seqs[i]
  <2>1. 1 \in 1 .. n /\ \A i \in 2 .. n : i \in 1 .. n /\ i # 1
    BY <1>1
  <2> QED
    BY <1>13, <2>1
<1> DEFINE Bad == {i \in 1 .. n : flat[i] \notin S}
<1>15. Bad = {}
  <2> SUFFICES ASSUME Bad # {} PROVE FALSE
    OBVIOUS
  <2>1. Bad \subseteq Nat
    BY <1>1
  <2> HIDE DEF Bad
  <2>2. PICK i \in Bad : \A j \in Bad : i <= j
    BY <2>1, LeastNat
  <2> USE DEF Bad
  <2>3. i \in 2 .. n /\ i - 1 \in 1 .. n /\ ~(i <= i - 1)
    BY <1>1, <1>5, <1>14
  <2>4. flat[i - 1] \in S /\ seqs[i] \in S
    BY <2>2, <2>3 DEF S
  <2>5. flat[i] = flat[i - 1] \o seqs[i]
    BY <1>14, <2>3
  <2>6. flat[i] \in S
    BY <2>4, <2>5 DEF S
  <2> QED
    BY <2>2, <2>6
<1>16. flat \in [1 .. n -> S]
  <2>1. \A i \in 1 .. n : flat[i] \in S
    BY <1>15
  <2> HIDE DEF Bad
  <2> QED
    BY <1>13, <2>1
<1> QED
  BY <1>2, <1>14, <1>16 DEF S, IsFlattening

(* The coins of several sequences, one sequence after the other. *)
LEMMA FlattenCoins ==
    ASSUME NEW C, \A c \in C : c.amount \in Nat, NEW n \in Nat, NEW seqs \in [1 .. n -> Seq(C)]
    PROVE  LET q == FlattenSeq(seqs)
               total == [k \in 1 .. n |-> CoinTotal(seqs[k])]
           IN  /\ q \in Seq(C)
               /\ Range(q) = UNION {Range(seqs[k]) : k \in 1 .. n}
               /\ /\ \A k \in 1 .. n : IsInjective(seqs[k])
                  /\ \A k, l \in 1 .. n : k # l => Range(seqs[k]) \cap Range(seqs[l]) = {}
                  => IsInjective(q)
               /\ CoinTotal(q) = SumFunctionOnSet(total, 1 .. n)
<1> DEFINE q == FlattenSeq(seqs)
           total == [k \in 1 .. n |-> CoinTotal(seqs[k])]
           Coins(i) == UNION {Range(seqs[k]) : k \in 1 .. i}
           apart == /\ \A k \in 1 .. n : IsInjective(seqs[k])
                    /\ \A k, l \in 1 .. n : k # l => Range(seqs[k]) \cap Range(seqs[l]) = {}
           Good(s, i) == /\ s \in Seq(C)
                         /\ Range(s) = Coins(i)
                         /\ apart => IsInjective(s)
                         /\ CoinTotal(s) = SumFunctionOnSet(total, 1 .. i)
<1>1. CASE n = 0
  <2>1. seqs = <<>> /\ Len(seqs) = 0 /\ 1 .. n = {}
    BY <1>1
  <2>2. q = <<>>
    BY <2>1 DEF FlattenSeq
  <2>3. CoinTotal(<<>>) = 0
    BY SumOfNothing DEF CoinTotal, SumFunction
  <2>4. SumFunctionOnSet(total, {}) = 0
    BY SumOfNothing
  <2>5. Range(<<>>) = {} /\ IsInjective(<<>>) /\ <<>> \in Seq(C)
    BY DEF Range, IsInjective
  <2> HIDE DEF q, total
  <2> QED
    BY <2>1, <2>2, <2>3, <2>4, <2>5 DEF q, total
<1>2. CASE n # 0
  <2>1. PICK g : IsFlattening(g, C, n, seqs)
    <3>1. n \in Nat \ {0}
      BY <1>2
    <3>2. seqs \in [1 .. n -> Seq(C)]
      OBVIOUS
    <3> HIDE DEF q, total, Coins, apart, Good
    <3> QED
      BY ONLY <3>1, <3>2, FlattenSteps
  <2> USE DEF IsFlattening
  <2>2. \A k \in 1 .. n : total[k] \in Int /\ total[k] = CoinTotal(seqs[k])
    <3> TAKE k \in 1 .. n
    <3>1. seqs[k] \in Seq(C)
      OBVIOUS
    <3>2. \A i \in DOMAIN seqs[k] : seqs[k][i].amount \in Nat
      BY <3>1
    <3>3. IsFiniteSet(DOMAIN seqs[k])
      <4>1. DOMAIN seqs[k] = 1 .. Len(seqs[k]) /\ Len(seqs[k]) \in Nat
        BY <3>1
      <4> QED
        BY <4>1, FS_Interval
    <3>4. SumFunctionOnSet([i \in DOMAIN seqs[k] |-> seqs[k][i].amount], DOMAIN seqs[k]) \in Int
      BY <3>2, <3>3, SumType
    <3> QED
      BY <3>4 DEF CoinTotal, SumFunction
  <2> HIDE DEF total
  <2> DEFINE Bad == {i \in 1 .. n : ~Good(g[i], i)}
  <2>3. Good(g[1], 1)
    <3>1. 1 \in 1 .. n /\ 1 .. 1 = {1}
      BY <1>2
    <3>2. SumFunctionOnSet(total, 1 .. 1) = total[1]
      BY <2>2, <3>1, SumOfOne
    <3>3. Coins(1) = Range(seqs[1])
      BY <3>1
    <3> QED
      BY <2>1, <2>2, <3>1, <3>2, <3>3
  <2>4. Bad = {}
    <3> SUFFICES ASSUME Bad # {} PROVE FALSE
      OBVIOUS
    <3>1. Bad \subseteq Nat
      OBVIOUS
    <3> HIDE DEF Bad
    <3>2. PICK i \in Bad : \A j \in Bad : i <= j
      BY <3>1, LeastNat
    <3>3. i \in 1 .. n /\ ~Good(g[i], i)
      BY <3>2 DEF Bad
    <3>4. i \in 2 .. n /\ i - 1 \in 1 .. n /\ ~(i <= i - 1)
      <4>1. i # 1
        BY <2>3, <3>3
      <4> QED
        BY <3>3, <4>1
    <3>5. Good(g[i - 1], i - 1)
      BY <3>2, <3>4 DEF Bad
    <3>6. g[i] = g[i - 1] \o seqs[i]
      BY <2>1, <3>4
    <3>7. 1 .. i = (1 .. i - 1) \cup {i} /\ (1 .. i - 1) \cap {i} = {}
          /\ 1 .. i \subseteq 1 .. n
      BY <3>3
    <3> DEFINE before == g[i - 1]
    <3>8. before \in Seq(C) /\ seqs[i] \in Seq(C)
      BY <3>3, <3>5
    <3> HIDE DEF before
    <3>9. /\ before \o seqs[i] \in Seq(C)
          /\ Range(before \o seqs[i]) = Range(before) \cup Range(seqs[i])
          /\ IsInjective(before) /\ IsInjective(seqs[i]) /\ Range(before) \cap Range(seqs[i]) = {}
                => IsInjective(before \o seqs[i])
          /\ CoinTotal(before \o seqs[i]) = CoinTotal(before) + CoinTotal(seqs[i])
      BY <3>8, ConcatCoins
    <3>10. Coins(i) = Coins(i - 1) \cup Range(seqs[i])
      BY <3>7
    <3>11. SumFunctionOnSet(total, 1 .. i) = SumFunctionOnSet(total, 1 .. i - 1) + total[i]
      <4>1. IsFiniteSet(1 .. i - 1) /\ IsFiniteSet({i})
        <5>1. 1 \in Int /\ i - 1 \in Int
          BY <3>3
        <5> QED
          BY <5>1, FS_Interval, FS_Singleton
      <4>2. \A x \in (1 .. i - 1) \cup {i} : total[x] \in Int
        BY <2>2, <3>7
      <4>3. SumFunctionOnSet(total, (1 .. i - 1) \cup {i})
               = SumFunctionOnSet(total, 1 .. i - 1) + SumFunctionOnSet(total, {i})
        BY <3>7, <4>1, <4>2, SumDisjoint
      <4>4. SumFunctionOnSet(total, {i}) = total[i]
        BY <4>2, SumOfOne
      <4> QED
        BY <3>7, <4>3, <4>4
    <3>12. apart => Range(before) \cap Range(seqs[i]) = {}
      <4> SUFFICES ASSUME apart, NEW c \in Range(before), c \in Range(seqs[i]) PROVE FALSE
        OBVIOUS
      <4>1. PICK k \in 1 .. i - 1 : c \in Range(seqs[k])
        BY <3>5 DEF before
      <4>2. k \in 1 .. n /\ k # i
        BY <3>3, <4>1
      <4> QED
        BY <3>3, <4>1, <4>2
    <3>13. CoinTotal(before \o seqs[i]) = SumFunctionOnSet(total, 1 .. i)
      BY <2>2, <3>3, <3>5, <3>9, <3>11 DEF before
    <3>14. Range(before \o seqs[i]) = Coins(i)
      BY <3>5, <3>9, <3>10 DEF before
    <3>15. apart => IsInjective(before \o seqs[i])
      BY <3>3, <3>5, <3>9, <3>12 DEF before
    <3> QED
      BY <3>3, <3>6, <3>9, <3>13, <3>14, <3>15 DEF before
  <2>5. Good(q, n)
    <3>1. n \in 1 .. n
      BY <1>2
    <3> QED
      BY <2>1, <2>4, <3>1
  <2> QED
    BY <2>5 DEF total
<1> QED
  BY <1>1, <1>2

-----------------------------------------------------------------------------
(* What the wallet offers: the coins of every key of its ring. *)

Coin == [out : Outpoint, amount : Nat, owner : Address]

(* A coin stands for an output that a key of the ring may spend now. *)
IsCandidate(c) ==
    /\ c \in Coin
    /\ c.out \in DOMAIN utxos
    /\ c.amount = utxos[c.out].amount
    /\ IsSpendable(utxos[c.out], Height(chain))
    /\ c.owner = Owner(c.out)
    /\ c.owner \in Range(ring)

(* The keys of outpoints are strings, which have an order. *)
KeysAreOrdered == \A o \in Outpoint : KeyOrder(o) \in Int

(* The coins of one address, in the order SetToSeq gives them. *)
LEMMA CoinsOfAddress ==
    ASSUME IsSound(utxos), NEW address \in Address
    PROVE  LET q == SetToSeq(CoinsOf(address))
           IN  /\ CoinsOf(address) \subseteq Coin
               /\ \A c \in CoinsOf(address) :
                     /\ c.out \in DOMAIN utxos
                     /\ c.amount = utxos[c.out].amount
                     /\ IsSpendable(utxos[c.out], Height(chain))
                     /\ c.owner = Owner(c.out) /\ c.owner = address
               /\ q \in Seq(Coin) /\ IsInjective(q) /\ Range(q) = CoinsOf(address)
               /\ CoinTotal(q) = SumFunction([c \in CoinsOf(address) |-> c.amount])
<1> DEFINE S == CoinsOf(address)
           outs == {o \in DOMAIN utxos :
                       Owner(o) = address /\ IsSpendable(utxos[o], Height(chain))}
           coin == [o \in outs |-> [out |-> o, amount |-> utxos[o].amount, owner |-> address]]
           q == SetToSeq(S)
           amounts == [c \in S |-> c.amount]
<1>1. IsView(utxos) /\ IsFiniteSet(DOMAIN utxos)
  BY DEF IsSound
<1>2. S = {coin[o] : o \in outs}
  BY DEF CoinsOf
<1>3. \A o \in outs : coin[o] \in Coin
  BY <1>1 DEF IsView, UTXO, Coin
<1>4. IsFiniteSet(S)
  <2>1. IsFiniteSet(outs)
    BY <1>1, FS_Subset
  <2>2. coin \in Surjection(outs, S)
    BY <1>2 DEF Surjection
  <2> HIDE DEF coin, outs, S
  <2> QED
    BY <2>1, <2>2, FS_Surjection
<1>5. S \subseteq Coin
  BY <1>2, <1>3
<1>6. ASSUME NEW c \in S
      PROVE  /\ c.out \in DOMAIN utxos
             /\ c.amount = utxos[c.out].amount
             /\ IsSpendable(utxos[c.out], Height(chain))
             /\ c.owner = Owner(c.out) /\ c.owner = address
  BY DEF CoinsOf
<1> HIDE DEF S, coin, outs
<1>7. q \in Seq(S) /\ IsInjective(q) /\ Range(q) = S
  BY <1>4, SetToSeqLists
<1> HIDE DEF q
<1>8. q \in Seq(Coin)
  BY <1>5, <1>7
<1>9. CoinTotal(q) = SumFunction(amounts)
  <2> DEFINE A == DOMAIN q
             f == [i \in A |-> q[i].amount]
  <2>1. IsFiniteSet(A)
    <3>1. A = 1 .. Len(q) /\ Len(q) \in Nat
      BY <1>8
    <3> QED
      BY <3>1, FS_Interval
  <2>2. \A i \in A : q[i] \in S /\ q[i] \in Coin
    BY <1>5, <1>7
  <2>3. \A i \in A : f[i] \in Int /\ amounts[q[i]] = f[i]
    BY <2>2 DEF Coin
  <2>4. \A i, j \in A : q[i] = q[j] => i = j
    BY <1>7 DEF IsInjective
  <2>5. S = {q[i] : i \in A} /\ DOMAIN amounts = S
    BY <1>7 DEF Range
  <2>6. CoinTotal(q) = SumFunctionOnSet(f, A)
    BY DEF CoinTotal, SumFunction
  <2> HIDE DEF A, f, amounts
  <2>7. SumFunctionOnSet(amounts, {q[i] : i \in A}) = SumFunctionOnSet(f, A)
    BY <2>1, <2>3, <2>4, SumRenamed
  <2> QED
    BY <2>5, <2>6, <2>7 DEF SumFunction
<1> QED
  BY <1>5, <1>6, <1>7, <1>8, <1>9 DEF q, S

(* The candidates of CreateTransaction are worth the balance.  Each is     *)
(* there once unless a key is there twice.                                 *)
LEMMA CandidatesAre ==
    ASSUME IsSound(utxos), ring \in Seq(Address)
    PROVE  /\ Candidates \in Seq(Coin)
           /\ \A c \in Range(Candidates) : IsCandidate(c)
           /\ IsInjective(ring) => IsInjective(Candidates)
           /\ CoinTotal(Candidates) = AvailableBalance
<1> DEFINE n == Len(ring)
           seqs == [k \in DOMAIN ring |-> SetToSeq(CoinsOf(ring[k]))]
           total == [k \in 1 .. n |-> CoinTotal(seqs[k])]
           balance(address) == SumFunction([c \in CoinsOf(address) |-> c.amount])
<1>1. n \in Nat /\ DOMAIN ring = 1 .. n /\ \A k \in 1 .. n : ring[k] \in Address
  OBVIOUS
<1>2. ASSUME NEW k \in 1 .. n
      PROVE  /\ CoinsOf(ring[k]) \subseteq Coin
             /\ \A c \in CoinsOf(ring[k]) : IsCandidate(c) /\ c.owner = ring[k]
             /\ seqs[k] \in Seq(Coin) /\ IsInjective(seqs[k])
             /\ Range(seqs[k]) = CoinsOf(ring[k])
             /\ CoinTotal(seqs[k]) = balance(ring[k])
  <2> DEFINE a == ring[k]
  <2>1. a \in Address /\ a \in Range(ring) /\ seqs[k] = SetToSeq(CoinsOf(a))
    BY <1>1 DEF Range
  <2> HIDE DEF a
  <2>2. /\ CoinsOf(a) \subseteq Coin
        /\ \A c \in CoinsOf(a) :
              /\ c.out \in DOMAIN utxos
              /\ c.amount = utxos[c.out].amount
              /\ IsSpendable(utxos[c.out], Height(chain))
              /\ c.owner = Owner(c.out) /\ c.owner = a
        /\ SetToSeq(CoinsOf(a)) \in Seq(Coin) /\ IsInjective(SetToSeq(CoinsOf(a)))
        /\ Range(SetToSeq(CoinsOf(a))) = CoinsOf(a)
        /\ CoinTotal(SetToSeq(CoinsOf(a))) = balance(a)
    BY <2>1, CoinsOfAddress
  <2>3. \A c \in CoinsOf(a) : IsCandidate(c) /\ c.owner = a
    BY <2>1, <2>2 DEF IsCandidate
  <2> HIDE DEF seqs, balance
  <2> QED
    BY <2>1, <2>2, <2>3 DEF a
<1>3. seqs \in [1 .. n -> Seq(Coin)] /\ Candidates = FlattenSeq(seqs)
  BY <1>1, <1>2 DEF Candidates
<1>4. \A c \in Coin : c.amount \in Nat
  BY DEF Coin
<1>5. [k \in DOMAIN ring |-> balance(ring[k])] = total
  BY <1>1, <1>2
<1>6. AvailableBalance = SumFunctionOnSet(total, 1 .. n)
  <2>1. AvailableBalance = SumFunction([k \in DOMAIN ring |-> balance(ring[k])])
    BY DEF AvailableBalance
  <2>2. DOMAIN total = 1 .. n
    OBVIOUS
  <2> HIDE DEF total, balance
  <2> QED
    BY <1>5, <2>1, <2>2 DEF SumFunction
<1> HIDE DEF n, seqs, balance
<1>7. /\ FlattenSeq(seqs) \in Seq(Coin)
      /\ Range(FlattenSeq(seqs)) = UNION {Range(seqs[k]) : k \in 1 .. n}
      /\ /\ \A k \in 1 .. n : IsInjective(seqs[k])
         /\ \A k, l \in 1 .. n : k # l => Range(seqs[k]) \cap Range(seqs[l]) = {}
         => IsInjective(FlattenSeq(seqs))
      /\ CoinTotal(FlattenSeq(seqs)) = SumFunctionOnSet(total, 1 .. n)
  BY <1>1, <1>3, <1>4, FlattenCoins
<1>8. ASSUME NEW c \in Range(Candidates) PROVE IsCandidate(c)
  <2>1. PICK k \in 1 .. n : c \in Range(seqs[k])
    BY <1>3, <1>7
  <2> QED
    BY <1>2, <2>1
<1>9. ASSUME IsInjective(ring) PROVE IsInjective(Candidates)
  <2>1. ASSUME NEW k \in 1 .. n, NEW l \in 1 .. n, k # l
        PROVE  Range(seqs[k]) \cap Range(seqs[l]) = {}
    <3>1. ring[k] # ring[l]
      BY <1>1, <1>9, <2>1 DEF IsInjective
    <3> QED
      BY <1>2, <3>1
  <2> QED
    BY <1>2, <1>3, <1>7, <2>1
<1> QED
  BY <1>3, <1>6, <1>7, <1>8, <1>9

(* The search is offered what it can sort, and no output twice. *)
LEMMA CandidatesOffered ==
    ASSUME IsSound(utxos), ring \in Seq(Address), KeysAreOrdered
    PROVE  /\ IsOffer(Candidates)
           /\ \A c, d \in Range(Candidates) : c.out = d.out => c = d
<1>1. Candidates \in Seq(Coin) /\ \A c \in Range(Candidates) : IsCandidate(c)
  BY CandidatesAre
<1> HIDE DEF Candidates
<1>2. Candidates \in Seq(Range(Candidates))
  BY <1>1 DEF Range
<1>3. ASSUME NEW c \in Range(Candidates) PROVE c.amount \in Nat /\ KeyOrder(c.out) \in Int
  <2>1. c \in Coin
    BY <1>1 DEF IsCandidate
  <2> QED
    BY <2>1 DEF Coin, KeysAreOrdered
<1>4. ASSUME NEW c \in Range(Candidates), NEW d \in Range(Candidates), c.out = d.out
      PROVE  c = d
  <2>1. /\ c \in Coin /\ d \in Coin
        /\ c.amount = d.amount /\ c.owner = d.owner
    BY <1>1, <1>4 DEF IsCandidate
  <2> QED
    BY <1>4, <2>1 DEF Coin
<1> QED
  BY <1>2, <1>3, <1>4 DEF IsOffer

-----------------------------------------------------------------------------
(* What the wallet pays. *)

LEMMA OneOutput ==
    ASSUME NEW a \in Int
    PROVE  SumFunction(<<a>>) = a
<1> DEFINE s == <<a>>
<1>1. DOMAIN s = {1} /\ s[1] = a
  OBVIOUS
<1> HIDE DEF s
<1>2. SumFunctionOnSet(s, {1}) = a
  BY <1>1, SumOfOne
<1> QED
  BY <1>1, <1>2 DEF SumFunction, s

LEMMA TwoOutputs ==
    ASSUME NEW a \in Int, NEW b \in Int
    PROVE  SumFunction(<<a, b>>) = a + b
<1> DEFINE s == <<a, b>>
<1>1. DOMAIN s = {1} \cup {2} /\ s[1] = a /\ s[2] = b /\ {1} \cap {2} = {}
  OBVIOUS
<1> HIDE DEF s
<1>2. SumFunctionOnSet(s, {1}) = a /\ SumFunctionOnSet(s, {2}) = b
  BY <1>1, SumOfOne
<1>3. IsFiniteSet({1}) /\ IsFiniteSet({2}) /\ \A i \in {1} \cup {2} : s[i] \in Int
  BY <1>1, FS_Singleton
<1>4. SumFunctionOnSet(s, {1} \cup {2}) = SumFunctionOnSet(s, {1}) + SumFunctionOnSet(s, {2})
  BY <1>1, <1>3, SumDisjoint
<1> QED
  BY <1>1, <1>2, <1>4 DEF SumFunction, s

(* A payment of selected coins spends these, each once, and pays out what  *)
(* they are worth but for the fee.                                         *)
LEMMA PaymentIs ==
    ASSUME IsSound(utxos), ring \in Seq(Address), KeysAreOrdered, IsInjective(ring),
           NEW r \in Request, BranchAndBound(Candidates, r.amount + r.fee).success
    PROVE  LET selected == BranchAndBound(Candidates, r.amount + r.fee)
               tx == Payment(r, selected)
               left == selected.total - (r.amount + r.fee)
           IN  /\ tx.ins # <<>> /\ IsInjective(tx.ins)
               /\ Spends(tx) \subseteq {c.out : c \in Range(Candidates)}
               /\ selected.selected[1] \in Range(Candidates)
               /\ InputSum(utxos, tx) = selected.total
               /\ selected.total \in Nat /\ left \in Nat
               /\ tx.outs = IF left > 0 THEN <<r.amount, left>> ELSE <<r.amount>>
               /\ OutputSum(tx) = selected.total - r.fee
<1> DEFINE offer == Candidates
           target == r.amount + r.fee
           selected == BranchAndBound(offer, target)
           tx == Payment(r, selected)
           s == selected.selected
           ins == [i \in DOMAIN s |-> s[i].out]
           left == selected.total - target
<1>1. r.amount \in Nat /\ r.amount # 0 /\ r.fee \in Nat /\ target \in Nat /\ target # 0
  BY RequestAssumption
<1>2. /\ IsOffer(offer) /\ IsInjective(offer)
      /\ \A c \in Range(offer) : IsCandidate(c)
      /\ \A c, d \in Range(offer) : c.out = d.out => c = d
  BY CandidatesAre, CandidatesOffered
<1>3. selected.success
  OBVIOUS
<1>4. /\ tx.ins = ins
      /\ tx.outs = IF left > 0 THEN <<r.amount, left>> ELSE <<r.amount>>
  BY DEF Payment
<1> HIDE DEF offer, target, tx
<1>5. IsSelection(selected, offer, target)
  BY <1>1, <1>2, SearchIsSelection
<1>6. PICK S \in SUBSET DOMAIN offer : Picks(s, offer, S)
  BY <1>5 DEF IsSelection
<1> HIDE DEF selected
<1>7. /\ IsOffer(s) /\ Range(s) \subseteq Range(offer) /\ IsInjective(s)
      /\ CoinTotal(s) = WorthOf(offer, S)
  BY <1>2, <1>6, PickedIsOffer, PickedWorth
<1> HIDE DEF s
<1>8. /\ Len(s) \in Nat /\ DOMAIN s = 1 .. Len(s) /\ IsFiniteSet(DOMAIN s)
      /\ \A i \in DOMAIN s : s[i] \in Range(s) /\ s[i] \in Range(offer) /\ s[i].amount \in Nat
  BY <1>7, OfferIndices
<1>9. selected.total = CoinTotal(s) /\ CoinTotal(s) \in Nat /\ CoinTotal(s) >= target
  <2>1. WorthOf(offer, S) \in Nat
    BY <1>2, WorthMonotone
  <2> QED
    BY <1>3, <1>5, <1>7, <2>1 DEF IsSelection, s
<1>10. Len(s) # 0
  <2> SUFFICES ASSUME Len(s) = 0 PROVE FALSE
    OBVIOUS
  <2>1. DOMAIN s = {}
    BY <1>8
  <2>2. CoinTotal(s) = 0
    BY <2>1, SumOfNothing DEF CoinTotal, SumFunction
  <2> QED
    BY <1>1, <1>9, <2>2
<1>11. 1 \in DOMAIN s /\ 1 \in DOMAIN ins /\ ins # <<>>
  <2>1. 1 \in DOMAIN s
    BY <1>8, <1>10
  <2>2. DOMAIN ins = DOMAIN s
    OBVIOUS
  <2>3. DOMAIN <<>> = {}
    OBVIOUS
  <2> HIDE DEF ins
  <2> QED
    BY <2>1, <2>2, <2>3
<1>12. IsInjective(ins)
  <2> SUFFICES ASSUME NEW i \in DOMAIN s, NEW j \in DOMAIN s, s[i].out = s[j].out PROVE i = j
    BY DEF IsInjective
  <2>1. s[i] = s[j]
    BY <1>2, <1>8
  <2> QED
    BY <1>7, <2>1 DEF IsInjective
<1>13. Spends(tx) = {ins[i] : i \in DOMAIN s} /\ Spends(tx) \subseteq {c.out : c \in Range(offer)}
  BY <1>4, <1>8 DEF Spends, Range
<1>14. InputSum(utxos, tx) = CoinTotal(s)
  <2> DEFINE A == DOMAIN s
             f == [i \in A |-> s[i].amount]
             g == [o \in Spends(tx) |-> utxos[o].amount]
  <2>1. \A i \in A : f[i] \in Int /\ g[ins[i]] = f[i]
    <3> TAKE i \in A
    <3>1. IsCandidate(s[i]) /\ ins[i] \in Spends(tx) /\ s[i].amount \in Nat
      BY <1>2, <1>8, <1>13
    <3> QED
      BY <3>1 DEF IsCandidate
  <2>2. \A i, j \in A : ins[i] = ins[j] => i = j
    BY <1>12 DEF IsInjective
  <2>3. IsFiniteSet(A) /\ DOMAIN g = Spends(tx)
    BY <1>8
  <2>4. CoinTotal(s) = SumFunctionOnSet(f, A) /\ InputSum(utxos, tx) = SumFunction(g)
    BY DEF CoinTotal, SumFunction, InputSum
  <2>5. Spends(tx) = {ins[i] : i \in A}
    BY <1>13
  <2> HIDE DEF A, f, g, ins
  <2>6. SumFunctionOnSet(g, {ins[i] : i \in A}) = SumFunctionOnSet(f, A)
    BY <2>1, <2>2, <2>3, SumRenamed
  <2> QED
    BY <2>3, <2>4, <2>5, <2>6 DEF SumFunction
<1>15. left \in Nat
  BY <1>1, <1>9
<1>16. OutputSum(tx) = selected.total - r.fee
  <2>1. CASE left > 0
    <3>1. tx.outs = <<r.amount, left>>
      BY <1>4, <2>1
    <3>2. SumFunction(<<r.amount, left>>) = r.amount + left
      <4>1. r.amount \in Int /\ left \in Int
        BY <1>1, <1>15
      <4> HIDE DEF left
      <4> QED
        BY <4>1, TwoOutputs
    <3> QED
      BY <1>1, <1>9, <3>1, <3>2 DEF OutputSum, target
  <2>2. CASE ~(left > 0)
    <3>1. tx.outs = <<r.amount>> /\ selected.total = target
      BY <1>1, <1>4, <1>9, <2>2
    <3>2. SumFunction(<<r.amount>>) = r.amount
      BY <1>1, OneOutput
    <3> QED
      BY <1>1, <1>9, <3>1, <3>2 DEF OutputSum, target
  <2> QED
    BY <2>1, <2>2
<1>17. s[1] \in Range(offer)
  BY <1>8, <1>11
<1> HIDE DEF ins, left
<1>18. tx.ins # <<>> /\ IsInjective(tx.ins)
  BY <1>4, <1>11, <1>12
<1> QED
  BY <1>4, <1>9, <1>13, <1>14, <1>15, <1>16, <1>17, <1>18
     DEF s, selected, tx, left, target, offer

-----------------------------------------------------------------------------
(* No output of the view is worth nothing. *)

IsPositive(view) == \A o \in DOMAIN view : view[o].amount \in Nat \ {0}

LEMMA AppliedPositive ==
    ASSUME NEW view, IsPositive(view), NEW tx \in Tx, NEW isCoinbase, NEW height,
           CanApply(view, tx, isCoinbase, height)
    PROVE  IsPositive(Applied(view, tx, isCoinbase, height))
<1> DEFINE new == Applied(view, tx, isCoinbase, height)
<1>1. /\ DOMAIN new = (DOMAIN view \ Removes(tx, isCoinbase)) \cup Creates(tx)
      /\ \A o \in DOMAIN new :
            new[o].amount = IF o \in Creates(tx) THEN tx.outs[o[2] + 1] ELSE view[o].amount
  BY DEF Applied
<1> HIDE DEF new
<1>2. ASSUME NEW o \in Creates(tx) PROVE tx.outs[o[2] + 1] \in Nat \ {0}
  <2>1. PICK n \in 0 .. Len(tx.outs) - 1 : o = <<tx.id, n>>
    BY DEF Creates
  <2>2. tx.outs \in Seq(Nat)
    BY TxAssumption
  <2>3. n + 1 \in DOMAIN tx.outs /\ o[2] + 1 = n + 1
    BY <2>1, <2>2
  <2>4. tx.outs[n + 1] \in 1 .. MaxSupply /\ MaxSupply \in Nat
    BY <2>3, ParamsAssumption DEF CanApply
  <2> QED
    BY <2>3, <2>4
<1> QED
  BY <1>1, <1>2 DEF IsPositive, new

LEMMA BlockPositive ==
    ASSUME NEW b \in Block, NEW view, IsView(view), IsPositive(view), ConnectTxs(view, b).ok
    PROVE  IsPositive(ConnectTxs(view, b).view)
<1> DEFINE len == Len(b.txs)
<1>1. b.txs \in Seq(Tx) /\ len \in Nat /\ \A i \in 1 .. len : b.txs[i] \in Tx
  BY BlockAssumption
<1> HIDE DEF len
<1>2. PICK v \in [0 .. len -> Views] :
          /\ v[0] = view
          /\ v[len] = ConnectTxs(view, b).view
          /\ \A i \in 1 .. len :
                /\ CanApply(v[i - 1], b.txs[i], i = 1, b.height)
                /\ v[i] = Applied(v[i - 1], b.txs[i], i = 1, b.height)
  BY ConnectTxsTrace DEF len
<1> DEFINE Bad == {i \in 0 .. len : ~IsPositive(v[i])}
<1>3. Bad = {}
  <2> SUFFICES ASSUME Bad # {} PROVE FALSE
    OBVIOUS
  <2>1. Bad \subseteq Nat
    OBVIOUS
  <2> HIDE DEF Bad
  <2>2. PICK i \in Bad : \A j \in Bad : i <= j
    BY <2>1, LeastNat
  <2>3. i \in 0 .. len /\ ~IsPositive(v[i]) /\ i # 0
    BY <1>2, <2>2 DEF Bad
  <2>4. i \in 1 .. len /\ i - 1 \in 0 .. len /\ ~(i <= i - 1)
    BY <1>1, <2>3
  <2>5. IsPositive(v[i - 1])
    BY <2>2, <2>4 DEF Bad
  <2>6. IsPositive(v[i])
    BY <1>1, <1>2, <2>4, <2>5, AppliedPositive
  <2> QED
    BY <2>3, <2>6
<1>4. len \in 0 .. len
  BY <1>1
<1>5. IsPositive(v[len])
  BY <1>3, <1>4
<1> QED
  BY <1>2, <1>5

LEMMA ReplayPositive ==
    ASSUME NEW chn \in Seq(Block)
    PROVE  IsPositive(RebuildUTXO(chn).utxos)
<1> DEFINE Bad == {n \in 0 .. Len(chn) : ~IsPositive(Replayed(chn, n).utxos)}
<1>1. Bad = {}
  <2> SUFFICES ASSUME Bad # {} PROVE FALSE
    OBVIOUS
  <2>1. Bad \subseteq Nat
    OBVIOUS
  <2> HIDE DEF Bad
  <2>2. PICK n \in Bad : \A m \in Bad : n <= m
    BY <2>1, LeastNat
  <2>3. n \in 0 .. Len(chn) /\ ~IsPositive(Replayed(chn, n).utxos)
    BY <2>2 DEF Bad
  <2>4. n # 0
    BY <2>3, ReplayedNothing DEF NothingReplayed, NoUTXOs, IsPositive
  <2>5. n \in 1 .. Len(chn) /\ n - 1 \in 0 .. Len(chn) /\ ~(n <= n - 1) /\ chn[n] \in Block
    BY <2>3, <2>4
  <2> DEFINE s == Replayed(chn, n - 1)
  <2>6. IsPositive(s.utxos)
    BY <2>2, <2>5 DEF Bad
  <2>7. Replayed(chn, n) = ReplayStep(s, chn[n]) /\ IsLedgerState(s)
    BY <2>5, ReplayedNext
  <2> HIDE DEF s
  <2>8. ConnectTxs(s.utxos, chn[n]).ok => IsPositive(ConnectTxs(s.utxos, chn[n]).view)
    BY <2>5, <2>6, <2>7, BlockPositive DEF IsLedgerState
  <2>9. IsPositive(ReplayStep(s, chn[n]).utxos)
    BY <2>6, <2>8 DEF ReplayStep, ConnectBlock
  <2> QED
    BY <2>3, <2>7, <2>9
<1>2. Len(chn) \in 0 .. Len(chn)
  OBVIOUS
<1> QED
  BY <1>1, <1>2, ReplayedAll

-----------------------------------------------------------------------------
(* A wallet on a node that mines. *)

(* What the wallet builds is one of the transactions that the pool is      *)
(* specified for.                                                          *)
BuildsPayments == \A r \in Request : CreateTransaction(r) \subseteq Tx

(* The addresses that an id names are those of the outputs. *)
PaysAsNamed ==
    \A r \in Request, change \in Address : \A ins, outs :
        /\ Owner(<<PaymentId(ins, outs, <<r.to, change>>), 0>>) = r.to
        /\ Owner(<<PaymentId(ins, outs, <<r.to, change>>), 1>>) = change

RingInv == ring \in Seq(Address)

SpendInv ==
    /\ RingInv
    /\ PooledInv
    /\ PoolConsistent
    /\ StateIsReplay
    /\ Undisturbed

(* What the wallet does to the node, others may do, too. *)
LEMMA SpendStepIsStep ==
    ASSUME BuildsPayments, [SpendNext]_spendVars
    PROVE  [MinerNext]_minerVars
<1>1. ASSUME NEW r \in Request, Send(r) PROVE ChainStep
  <2>1. PICK tx \in CreateTransaction(r) : AddTransactionToMempool(tx)
    BY <1>1 DEF Send
  <2>2. tx \in Tx
    BY DEF BuildsPayments
  <2> QED
    BY <1>1, <2>1, <2>2 DEF Send, ChainStep
<1>2. ASSUME NEW address \in Address, AddKey(address) PROVE UNCHANGED minerVars
  BY <1>2 DEF AddKey
<1> QED
  BY <1>1, <1>2 DEF SpendNext, MinerNext, spendVars

LEMMA RingStep == RingInv /\ [SpendNext]_spendVars => RingInv'
<1> SUFFICES ASSUME RingInv, [SpendNext]_spendVars PROVE RingInv'
  OBVIOUS
<1>1. CASE UNCHANGED ring
  BY <1>1 DEF RingInv
<1>2. ASSUME NEW address \in Address, AddKey(address) PROVE RingInv'
  BY <1>2 DEF RingInv, AddKey
<1>3. (\E r \in Request : Send(r)) => UNCHANGED ring
  BY DEF Send
<1> QED
  BY <1>1, <1>2, <1>3 DEF SpendNext, spendVars

LEMMA InvIsExact ==
    ASSUME SpendInv, KeysAreOrdered, PaysAsNamed
    PROVE  PaymentIsExact
<1> SUFFICES ASSUME IsInjective(ring), NEW r \in Request, NEW tx \in CreateTransaction(r)
             PROVE  /\ Spends(tx) \subseteq {c.out : c \in Range(Candidates)}
                    /\ InputSum(utxos, tx) - OutputSum(tx) = r.fee
                    /\ tx.outs[1] = r.amount /\ Owner(<<tx.id, 0>>) = r.to
                    /\ Len(tx.outs) > 1 => Owner(<<tx.id, 1>>) \in Range(ring)
  BY DEF PaymentIsExact
<1> DEFINE selected == BranchAndBound(Candidates, r.amount + r.fee)
           left == selected.total - (r.amount + r.fee)
           change == selected.selected[1].owner
<1>1. IsSound(utxos) /\ ring \in Seq(Address)
  BY DEF SpendInv, RingInv, PooledInv, WorthInv, Undisturbed
<1>2. selected.success /\ tx = Payment(r, selected)
  BY DEF CreateTransaction
<1>3. /\ Spends(tx) \subseteq {c.out : c \in Range(Candidates)}
      /\ selected.selected[1] \in Range(Candidates)
      /\ InputSum(utxos, tx) = selected.total
      /\ selected.total \in Nat
      /\ tx.outs = IF left > 0 THEN <<r.amount, left>> ELSE <<r.amount>>
      /\ OutputSum(tx) = selected.total - r.fee
  BY <1>1, <1>2, PaymentIs
<1>4. IsCandidate(selected.selected[1])
  BY <1>1, <1>3, CandidatesAre
<1>5. change \in Range(ring) /\ change \in Address
  BY <1>1, <1>4 DEF IsCandidate, Range
<1>6. tx.id = PaymentId(tx.ins, tx.outs, <<r.to, change>>)
  BY <1>2 DEF Payment
<1> HIDE DEF selected, change, left
<1>7. Owner(<<tx.id, 0>>) = r.to /\ Owner(<<tx.id, 1>>) = change
  BY <1>5, <1>6 DEF PaysAsNamed
<1>8. tx.outs[1] = r.amount
  BY <1>3
<1>9. InputSum(utxos, tx) - OutputSum(tx) = r.fee
  <2>1. r.fee \in Nat
    BY RequestAssumption
  <2> QED
    BY <1>3, <2>1
<1> QED
  BY <1>3, <1>5, <1>7, <1>8, <1>9

(* What a payment spends is what was selected for it. *)
LEMMA PaymentSpends ==
    ASSUME NEW r, NEW selected
    PROVE  Spends(Payment(r, selected)) = {c.out : c \in Range(selected.selected)}
<1> DEFINE ins == [i \in DOMAIN selected.selected |-> selected.selected[i].out]
<1>1. Payment(r, selected).ins = ins
  BY DEF Payment
<1>2. Range(ins) = {c.out : c \in Range(selected.selected)}
  BY DEF Range
<1> HIDE DEF ins
<1> QED
  BY <1>1, <1>2 DEF Spends

(* What a wallet whose coins fit into one transaction has, a selection     *)
(* finds, when no coin is dust.                                            *)
LEMMA BalanceSuffices ==
    ASSUME IsSound(utxos), IsPositive(utxos), ring \in Seq(Address), KeysAreOrdered,
           Dust <= 1, Len(Candidates) <= MaxInputs,
           NEW target \in Nat, target <= AvailableBalance
    PROVE  BranchAndBound(Candidates, target).success
<1>1. /\ IsOffer(Candidates)
      /\ \A c \in Range(Candidates) : IsCandidate(c)
      /\ CoinTotal(Candidates) = AvailableBalance
  BY CandidatesAre, CandidatesOffered
<1> DEFINE offer == Candidates
<1>2. /\ Cardinality(DOMAIN offer) = Len(offer)
      /\ \A i \in DOMAIN offer : offer[i] \in Range(offer)
  BY <1>1, OfferIndices
<1>3. Worthwhile(offer) = DOMAIN offer
  <2>1. ASSUME NEW i \in DOMAIN offer PROVE offer[i].amount >= Dust
    <3>1. IsCandidate(offer[i])
      BY <1>1, <1>2
    <3>2. offer[i].amount \in Nat \ {0}
      BY <3>1 DEF IsCandidate, IsPositive
    <3> QED
      BY <3>2, PolicyAssumption
  <2> QED
    BY <2>1 DEF Worthwhile
<1>4. WorthOf(offer, DOMAIN offer) = AvailableBalance
  BY <1>1, CoinTotalIsWorth
<1>5. AvailableBalance \in Nat
  <2>1. WorthOf(offer, DOMAIN offer) \in Nat
    BY <1>1, WorthMonotone
  <2> QED
    BY <1>4, <2>1
<1>6. Len(offer) <= MaxInputs
  OBVIOUS
<1> HIDE DEF offer
<1>7. /\ Cardinality(Worthwhile(offer)) <= MaxInputs
      /\ WorthOf(offer, Worthwhile(offer)) >= target
  BY <1>2, <1>3, <1>4, <1>5, <1>6
<1>8. IsOffer(offer)
  BY <1>1 DEF offer
<1>9. BranchAndBound(offer, target).success
  BY <1>7, <1>8, SearchIsSelection
<1> QED
  BY <1>9 DEF offer

LEMMA InvIsSendable ==
    ASSUME SpendInv, BuildsPayments, KeysAreOrdered, Dust <= 1
    PROVE  BalanceIsSendable
<1> SUFFICES ASSUME up, IsInjective(ring), Len(Candidates) <= MaxInputs,
                    NEW r \in Request, r.amount + r.fee <= AvailableBalance
             PROVE  LET chosen == Range(BranchAndBound(Candidates, r.amount + r.fee).selected)
                    IN  (\A c \in chosen : Signable(c.out) /\ c.out \notin pool.spent)
                            <=> \E tx \in CreateTransaction(r) :
                                    Accepts(pool, tx, utxos, Height(chain))
  BY DEF BalanceIsSendable
<1> DEFINE selected == BranchAndBound(Candidates, r.amount + r.fee)
           tx == Payment(r, selected)
           left == selected.total - (r.amount + r.fee)
           chosen == Range(selected.selected)
<1>e. /\ CreateTransaction(r) \subseteq {tx}
      /\ tx \in CreateTransaction(r)
             <=> selected.success /\ \A c \in chosen : Signable(c.out)
  BY DEF CreateTransaction
<1>s. Spends(tx) = {c.out : c \in chosen}
  BY PaymentSpends
<1>r. ASSUME NEW t \in CreateTransaction(r), Accepts(pool, t, utxos, Height(chain))
      PROVE  \A c \in chosen : Signable(c.out) /\ c.out \notin pool.spent
  <2>1. t = tx /\ tx \in CreateTransaction(r)
    BY <1>e
  <2> HIDE DEF tx, chosen, selected
  <2>2. \A c \in chosen : Signable(c.out)
    BY <1>e, <2>1
  <2>3. Spends(tx) \cap pool.spent = {}
    BY <1>r, <2>1 DEF Accepts, Conflicts
  <2> QED
    BY <1>s, <2>2, <2>3
<1> SUFFICES ASSUME \A c \in chosen : Signable(c.out) /\ c.out \notin pool.spent
             PROVE  \E t \in CreateTransaction(r) : Accepts(pool, t, utxos, Height(chain))
  BY <1>r
<1>c. \A c \in chosen : Signable(c.out) /\ c.out \notin pool.spent
  OBVIOUS
<1>1. /\ IsSound(utxos) /\ ring \in Seq(Address) /\ StoreInv
      /\ Worth(DOMAIN utxos) <= minted /\ IsSupply(minted) /\ IsPool(pool)
  BY DEF SpendInv, RingInv, PooledInv, WorthInv, Undisturbed, StoreInv, TypeInv, TypeOK
<1>2. r.amount \in Nat \ {0} /\ r.fee \in Nat
  BY RequestAssumption
<1>3. IsPositive(utxos)
  <2>1. utxos = RebuildUTXO(chain).utxos /\ chain \in Seq(Block)
    BY <1>1, TipHeight DEF SpendInv, StateIsReplay, Undisturbed
  <2> QED
    BY <2>1, ReplayPositive
<1>4. selected.success
  BY <1>1, <1>2, <1>3, BalanceSuffices
<1>5. tx \in CreateTransaction(r) /\ tx \in Tx
  <2>1. tx \in CreateTransaction(r)
    BY <1>4, <1>c, <1>e
  <2> QED
    BY <2>1 DEF BuildsPayments
<1>6. /\ tx.ins # <<>> /\ IsInjective(tx.ins)
      /\ Spends(tx) \subseteq {c.out : c \in Range(Candidates)}
      /\ InputSum(utxos, tx) = selected.total
      /\ selected.total \in Nat /\ left \in Nat
      /\ tx.outs = IF left > 0 THEN <<r.amount, left>> ELSE <<r.amount>>
      /\ OutputSum(tx) = selected.total - r.fee
  BY <1>1, <1>4, PaymentIs
<1>7. tx.coinbase = FALSE /\ tx.sig = "utxo"
  BY DEF Payment
<1> HIDE DEF tx, chosen
<1>8. ASSUME NEW o \in Spends(tx)
      PROVE  o \in DOMAIN utxos /\ IsSpendable(utxos[o], Height(chain)) /\ o \notin pool.spent
  <2>1. PICK c \in Range(Candidates) : o = c.out
    BY <1>6
  <2>2. IsCandidate(c)
    BY <1>1, CandidatesAre
  <2>3. o \notin pool.spent
    BY <1>c, <1>s
  <2> QED
    BY <2>1, <2>2, <2>3 DEF IsCandidate
<1> HIDE DEF selected
<1>9. InputsCover(utxos, tx, Height(chain))
  <2>1. InputSum(utxos, tx) >= OutputSum(tx)
    BY <1>2, <1>6
  <2> QED
    BY <1>8, <2>1 DEF InputsCover
<1>10. selected.total <= MaxSupply
  <2>1. /\ Spends(tx) \subseteq DOMAIN utxos /\ IsFiniteSet(DOMAIN utxos)
        /\ \A o \in DOMAIN utxos : Amount[o] \in Nat
    BY <1>1, <1>8, WorthType DEF IsSound
  <2>2. /\ Worth(Spends(tx)) <= Worth(DOMAIN utxos)
        /\ Worth(DOMAIN utxos) \in Nat
    BY <2>1, SumMonotone DEF Worth
  <2>3. InputSum(utxos, tx) = Worth(Spends(tx))
    BY <1>1, <2>1, InputSumWorth
  <2>4. minted \in Nat /\ minted <= MaxSupply /\ MaxSupply \in Nat
    BY <1>1, ParamsAssumption DEF IsSupply
  <2> QED
    BY <1>1, <1>6, <2>2, <2>3, <2>4
<1>11. ASSUME NEW n \in DOMAIN tx.outs PROVE tx.outs[n] \in 1 .. MaxSupply
  <2>1. r.amount \in 1 .. MaxSupply
    BY <1>2, <1>6, <1>10, ParamsAssumption
  <2>2. left > 0 => left \in 1 .. MaxSupply
    BY <1>2, <1>6, <1>10, ParamsAssumption
  <2> HIDE DEF left
  <2>3. CASE left > 0
    <3>1. tx.outs = <<r.amount, left>>
      BY <1>6, <2>3
    <3>2. tx.outs[n] = r.amount \/ tx.outs[n] = left
      BY <3>1
    <3> QED
      BY <2>1, <2>2, <2>3, <3>2
  <2>4. CASE ~(left > 0)
    <3>1. tx.outs = <<r.amount>>
      BY <1>6, <2>4
    <3>2. tx.outs[n] = r.amount
      BY <3>1
    <3> QED
      BY <2>1, <3>2
  <2> QED
    BY <2>3, <2>4
<1>12. tx.outs # <<>>
  <2> HIDE DEF left
  <2>1. CASE left > 0
    <3>1. tx.outs = <<r.amount, left>>
      BY <1>6, <2>1
    <3> QED
      BY <3>1
  <2>2. CASE ~(left > 0)
    <3>1. tx.outs = <<r.amount>>
      BY <1>6, <2>2
    <3> QED
      BY <3>1
  <2> QED
    BY <2>1, <2>2
<1>13. ValidateBasic(tx)
  BY <1>6, <1>7, <1>11, <1>12 DEF ValidateBasic
<1>14. \E o : o \in Spends(tx)
  <2>1. tx.ins \in Seq(Range(tx.ins))
    BY <1>5, TxAssumption
  <2>2. 1 \in DOMAIN tx.ins
    BY <1>6, <2>1
  <2> QED
    BY <2>2 DEF Spends, Range
<1>15. ASSUME NEW t \in Entries(pool) PROVE t.id # tx.id
  <2> SUFFICES ASSUME t.id = tx.id PROVE FALSE
    OBVIOUS
  <2>1. t \in Tx
    BY <1>1 DEF IsPool, Entries
  <2>2. t = tx
    BY <1>5, <2>1, IdAssumption
  <2>3. Spends(tx) \subseteq pool.spent
    BY <2>2 DEF SpendInv, PoolConsistent
  <2> QED
    BY <1>8, <1>14, <2>3
<1>16. ~Conflicts(pool, tx)
  BY <1>8 DEF Conflicts
<1>17. Accepts(pool, tx, utxos, Height(chain))
  BY <1>7, <1>9, <1>13, <1>15, <1>16 DEF Accepts
<1> QED
  BY <1>5, <1>17

LEMMA SpendInvariant == SpendSpec /\ []BuildsBlocks /\ []BuildsPayments => []SpendInv
<1>1. SpendInit => MinerInit /\ RingInv
  BY DEF SpendInit, RingInv
<1>2. BuildsPayments /\ [SpendNext]_spendVars => [MinerNext]_minerVars
  BY SpendStepIsStep
<1>3. SpendSpec /\ []BuildsPayments => MinerSpec
  BY <1>1, <1>2, PTL DEF SpendSpec, MinerSpec
<1>4. SpendSpec => []RingInv
  BY <1>1, RingStep, PTL DEF SpendSpec
<1>5. Spec => []PooledInv
  BY PooledInit, PooledStep, PTL DEF Spec
<1>6. MinerSpec /\ []BuildsBlocks => []PooledInv /\ []PoolConsistent /\ []StateIsReplay
  BY <1>5, MinerKeepsTheRules, PoolIsConsistent, ViewIsReplay, PTL
<1>7. MinerInit => Undisturbed
  BY DEF MinerInit, Init, Undisturbed, Never, FaultKinds
<1>8. PooledInv /\ Undisturbed /\ BuildsBlocks /\ [MinerNext]_minerVars => Undisturbed'
  BY UndisturbedStep DEF PooledInv, WorthInv, StoreInv
<1>9. MinerSpec /\ []BuildsBlocks => []Undisturbed
  BY <1>6, <1>7, <1>8, PTL DEF MinerSpec
<1> QED
  BY <1>3, <1>4, <1>6, <1>9, PTL DEF SpendInv

-----------------------------------------------------------------------------
(* The theorems.  The blocks the miner builds and the payments the wallet  *)
(* builds are among those the chain is specified for; the keys of          *)
(* outpoints have an order; and the outputs of a payment belong to the     *)
(* addresses it was made for.                                              *)

(* A node whose wallet pays is a node that mines: what is proved of it     *)
(* holds, that the chain accepts its blocks and that its pool can be mined.*)
THEOREM WalletKeepsTheRules == SpendSpec /\ []BuildsPayments => MinerSpec
<1>1. SpendInit => MinerInit
  BY DEF SpendInit
<1>2. BuildsPayments /\ [SpendNext]_spendVars => [MinerNext]_minerVars
  BY SpendStepIsStep
<1> QED
  BY <1>1, <1>2, PTL DEF SpendSpec, MinerSpec

(* A payment costs exactly what was asked, whatever the chain holds and    *)
(* whichever coins were selected: nothing of the change is lost, and it    *)
(* comes back to a key of the ring.                                        *)
THEOREM PaymentCostsItsFee ==
    SpendSpec /\ []BuildsBlocks /\ []BuildsPayments /\ KeysAreOrdered /\ PaysAsNamed
        => []PaymentIsExact
<1>1. KeysAreOrdered /\ PaysAsNamed => [](SpendInv => PaymentIsExact)
  <2> SUFFICES ASSUME KeysAreOrdered, PaysAsNamed PROVE [](SpendInv => PaymentIsExact)
    OBVIOUS
  <2>1. SpendInv => PaymentIsExact
    BY InvIsExact
  <2> QED
    BY <2>1, PTL
<1> QED
  BY <1>1, SpendInvariant, PTL

(* What the wallet shows as available it can send, as long as a            *)
(* transaction has room for all its coins: the payment is built, and the   *)
(* mempool accepts it, if and only if no coin that the selection chose     *)
(* asks for another algorithm or waits in the mempool to be spent.  Dust   *)
(* must be no more than the least an output can be.                        *)
THEOREM BalanceCanBeSent ==
    SpendSpec /\ []BuildsBlocks /\ []BuildsPayments /\ KeysAreOrdered /\ Dust <= 1
        => []BalanceIsSendable
<1>1. KeysAreOrdered /\ Dust <= 1 => [](SpendInv /\ BuildsPayments => BalanceIsSendable)
  <2> SUFFICES ASSUME KeysAreOrdered, Dust <= 1
               PROVE  [](SpendInv /\ BuildsPayments => BalanceIsSendable)
    OBVIOUS
  <2>1. SpendInv /\ BuildsPayments => BalanceIsSendable
    BY InvIsSendable
  <2> QED
    BY <2>1, PTL
<1> QED
  BY <1>1, SpendInvariant, PTL
=============================================================================
