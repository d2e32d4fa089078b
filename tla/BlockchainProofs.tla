-------------------------- MODULE BlockchainProofs --------------------------
(***************************************************************************)
(* Theorems about Blockchain for every set of blocks and transactions,     *)
(* every value of the parameters and every failure allowed: types, supply, *)
(* mempool, what is on disk, and that Blockchain implements ChainStore and *)
(* inherits what that promises.                                            *)
(*                                                                         *)
(* First what the operators of Ledger return: the types of views and       *)
(* supplies, the bound on the supply, what a replay of a chain passes      *)
(* through, what views are worth, and what the history of a chain leaves.  *)
(***************************************************************************)
EXTENDS Blockchain, Recursion, FiniteSetTheorems, TLAPS

-----------------------------------------------------------------------------
(* Types of the ledger. *)

(* A supply that ConnectBlock may leave. *)
IsSupply(m) == m \in Nat /\ m <= MaxSupply

IsLedgerState(s) ==
    /\ s = [ok |-> s.ok, utxos |-> s.utxos, minted |-> s.minted]
    /\ s.ok \in BOOLEAN
    /\ IsView(s.utxos)
    /\ IsSupply(s.minted)

Views == UNION {[D -> UTXO] : D \in SUBSET Outpoint}

LEMMA ViewsAreViews == \A v : v \in Views <=> IsView(v)
<1>1. ASSUME NEW v, v \in Views PROVE IsView(v)
  BY <1>1 DEF Views, IsView
<1>2. ASSUME NEW v, IsView(v) PROVE v \in Views
  BY <1>2 DEF Views, IsView
<1> QED
  BY <1>1, <1>2

LEMMA NoUTXOsType == IsView(NoUTXOs)
BY DEF NoUTXOs, IsView

(* The halving table holds natural numbers. *)
LEMMA HalvedType == \A k \in 0 .. 63 : Halved[k] \in Nat
<1> DEFINE last == 63
           F == [p \in Nat \X (1 .. last) |-> p[1] \div 2]
<1>1. InitialSubsidy \in Nat /\ last \in Nat
  BY ParamsAssumption
<1>2. IsStep(F, Nat, last)
  BY DEF IsStep
<1>3. \A x \in Nat : \A i \in 1 .. last : F[<<x, i>>] = x \div 2
  OBVIOUS
<1>4. Halved = CHOOSE h : h = [i \in 0 .. last |->
                                 IF i = 0 THEN InitialSubsidy ELSE h[i - 1] \div 2]
  BY DEF Halved
<1> HIDE DEF last, F
<1>5. PICK g : Iterates(g, F, Nat, last, InitialSubsidy)
  BY <1>1, <1>2, RecursionExists
<1>6. /\ g \in [0 .. last -> Nat]
      /\ g[0] = InitialSubsidy
      /\ \A i \in 1 .. last : g[i] = F[<<g[i - 1], i>>]
  BY <1>5 DEF Iterates
<1>7. ASSUME NEW i \in 0 .. last
      PROVE  g[i] = IF i = 0 THEN InitialSubsidy ELSE g[i - 1] \div 2
  <2>1. CASE i = 0
    BY <2>1, <1>6
  <2>2. CASE i # 0
    <3>1. i \in 1 .. last /\ i - 1 \in 0 .. last
      BY <2>2, <1>1
    <3> QED
      BY <2>2, <3>1, <1>3, <1>6
  <2> QED
    BY <2>1, <2>2
<1>8. g = [i \in 0 .. last |-> IF i = 0 THEN InitialSubsidy ELSE g[i - 1] \div 2]
  BY <1>6, <1>7
<1>9. Halved = [i \in 0 .. last |-> IF i = 0 THEN InitialSubsidy ELSE Halved[i - 1] \div 2]
  BY <1>4, <1>8
<1> DEFINE Bad == {k \in 0 .. last : Halved[k] \notin Nat}
<1>10. Bad = {}
  <2> SUFFICES ASSUME Bad # {} PROVE FALSE
    OBVIOUS
  <2>1. Bad \subseteq Nat
    BY <1>1
  <2> HIDE DEF Bad
  <2>2. PICK k \in Bad : \A j \in Bad : k <= j
    BY <2>1, LeastNat
  <2> USE DEF Bad
  <2>3. k \in 0 .. last /\ k # 0
    BY <1>1, <1>9
  <2>4. k - 1 \in 0 .. last /\ ~(k <= k - 1)
    BY <1>1, <2>3
  <2>5. Halved[k - 1] \in Nat
    BY <2>2, <2>4
  <2>6. Halved[k] = Halved[k - 1] \div 2
    BY <1>9, <2>3
  <2> QED
    BY <2>5, <2>6
<1> QED
  BY <1>10 DEF last

(* The subsidy is a natural number that fits under the limit.              *)
LEMMA SubsidyBound ==
    ASSUME NEW height \in Nat, NEW m, IsSupply(m)
    PROVE  /\ Subsidy(height, m) \in Nat
           /\ Subsidy(height, m) <= MaxSupply - m
<1> DEFINE halvings == IF HalvingInterval = 0 THEN 0 ELSE height \div HalvingInterval
<1>1. MaxSupply \in Nat /\ HalvingInterval \in Nat /\ m \in Nat /\ m <= MaxSupply
  BY ParamsAssumption DEF IsSupply
<1>2. halvings \in Nat
  BY <1>1
<1>3. CASE m >= MaxSupply \/ halvings >= 64
  <2>1. Subsidy(height, m) = 0
    BY <1>3 DEF Subsidy
  <2> QED
    BY <1>1, <2>1
<1>4. CASE ~(m >= MaxSupply \/ halvings >= 64)
  <2> HIDE DEF halvings
  <2>1. Halved[halvings] \in Nat
    BY <1>2, <1>4, HalvedType
  <2>2. Subsidy(height, m) = AtMost(Halved[halvings], MaxSupply - m)
    BY <1>4 DEF Subsidy, halvings
  <2> QED
    BY <1>1, <2>1, <2>2 DEF AtMost
<1> QED
  BY <1>3, <1>4

(* What a transaction pays out, and what a coinbase does. *)
LEMMA OutputSumType ==
    /\ \A tx \in Tx : OutputSum(tx) \in Nat
    /\ \A b \in Block : CoinbaseSum(b) \in Nat
<1>1. ASSUME NEW tx \in Tx PROVE OutputSum(tx) \in Nat
  <2>1. tx.outs \in Seq(Nat)
    BY TxAssumption
  <2>2. DOMAIN tx.outs = 1 .. Len(tx.outs) /\ Len(tx.outs) \in Nat
        /\ \A n \in DOMAIN tx.outs : tx.outs[n] \in Nat
    BY <2>1
  <2>3. IsFiniteSet(DOMAIN tx.outs)
    BY <2>2, FS_Interval
  <2>4. SumFunctionOnSet(tx.outs, DOMAIN tx.outs) \in Nat
    BY <2>2, <2>3, SumNat
  <2> QED
    BY <2>4 DEF OutputSum, SumFunction
<1>2. ASSUME NEW b \in Block PROVE CoinbaseSum(b) \in Nat
  <2>1. b.txs \in Seq(Tx)
    BY BlockAssumption
  <2>2. CASE b.txs = <<>>
    BY <2>2 DEF CoinbaseSum
  <2>3. CASE b.txs # <<>>
    <3>1. b.txs[1] \in Tx
      BY <2>1, <2>3
    <3> QED
      BY <1>1, <2>3, <3>1 DEF CoinbaseSum
  <2> QED
    BY <2>2, <2>3
<1> QED
  BY <1>1, <1>2

(* Applying a transaction turns a view into a view. *)
LEMMA AppliedType ==
    ASSUME NEW view, IsView(view), NEW tx \in Tx, NEW isCoinbase \in BOOLEAN, NEW height \in Nat
    PROVE  IsView(Applied(view, tx, isCoinbase, height))
<1> DEFINE new == Applied(view, tx, isCoinbase, height)
           dom == (DOMAIN view \ Removes(tx, isCoinbase)) \cup Creates(tx)
<1>1. Creates(tx) \subseteq Outpoint
  BY DEF Creates, Outpoint, TxIds
<1>2. dom \subseteq Outpoint
  BY <1>1 DEF IsView
<1>3. ASSUME NEW o \in Creates(tx) PROVE tx.outs[o[2] + 1] \in Nat
  <2>1. PICK n \in 0 .. Len(tx.outs) - 1 : o = <<tx.id, n>>
    BY DEF Creates
  <2>2. tx.outs \in Seq(Nat)
    BY TxAssumption
  <2>3. Len(tx.outs) \in Nat /\ n + 1 \in 1 .. Len(tx.outs) /\ o[2] + 1 = n + 1
    BY <2>1, <2>2
  <2> QED
    BY <2>2, <2>3
<1>4. ASSUME NEW o \in dom PROVE new[o] \in UTXO
  <2>1. CASE o \in Creates(tx)
    BY <2>1, <1>3 DEF Applied, UTXO
  <2>2. CASE o \notin Creates(tx)
    <3>1. o \in DOMAIN view /\ new[o] = view[o]
      BY <2>2 DEF Applied
    <3> QED
      BY <3>1 DEF IsView
  <2> QED
    BY <2>1, <2>2
<1>5. DOMAIN new = dom /\ new = [o \in dom |-> new[o]]
  BY DEF Applied
<1> HIDE DEF new, dom
<1>6. new \in [dom -> UTXO]
  BY <1>4, <1>5
<1> QED
  BY <1>2, <1>5, <1>6 DEF IsView, new

-----------------------------------------------------------------------------
(* The loop of ConnectBlock keeps the view a view. *)

Progress == [ok : BOOLEAN, view : Views]

TxStep(before, b, i) ==
    IF before.ok /\ CanApply(before.view, b.txs[i], i = 1, b.height)
    THEN [ok |-> TRUE, view |-> Applied(before.view, b.txs[i], i = 1, b.height)]
    ELSE [ok |-> FALSE, view |-> before.view]

LEMMA TxStepType ==
    ASSUME NEW b \in Block, NEW i \in 1 .. Len(b.txs), NEW before \in Progress
    PROVE  TxStep(before, b, i) \in Progress
<1>1. b.txs[i] \in Tx /\ b.height \in Nat /\ (i = 1) \in BOOLEAN
  BY BlockAssumption
<1>2. IsView(before.view) /\ before.view \in Views
  BY ViewsAreViews DEF Progress
<1>3. IsView(Applied(before.view, b.txs[i], i = 1, b.height))
  BY <1>1, <1>2, AppliedType
<1>4. Applied(before.view, b.txs[i], i = 1, b.height) \in Views
  BY <1>3, ViewsAreViews
<1> QED
  BY <1>2, <1>4 DEF TxStep, Progress

(* The loop has a state after every transaction. *)
LEMMA ConnectTxsSteps ==
    ASSUME NEW b \in Block, NEW view, IsView(view)
    PROVE  \E after \in [0 .. Len(b.txs) -> Progress] :
              /\ after[0] = [ok |-> TRUE, view |-> view]
              /\ \A i \in 1 .. Len(b.txs) : after[i] = TxStep(after[i - 1], b, i)
              /\ ConnectTxs(view, b) = after[Len(b.txs)]
<1> DEFINE n == Len(b.txs)
           base == [ok |-> TRUE, view |-> view]
           F == [p \in Progress \X (1 .. n) |-> TxStep(p[1], b, p[2])]
           after == CHOOSE h : h = [i \in 0 .. n |->
                        IF i = 0 THEN base ELSE TxStep(h[i - 1], b, i)]
<1>1. n \in Nat
  BY BlockAssumption
<1>2. base \in Progress
  BY ViewsAreViews DEF Progress
<1>3. IsStep(F, Progress, n)
  BY TxStepType DEF IsStep
<1>4. \A x \in Progress : \A i \in 1 .. n : F[<<x, i>>] = TxStep(x, b, i)
  OBVIOUS
<1>5. ConnectTxs(view, b) = after[n]
  BY DEF ConnectTxs, TxStep
<1>6. \A x \in Progress : \A i \in 1 .. n : TxStep(x, b, i) \in Progress
  BY TxStepType
<1> HIDE DEF n, base, F
<1>7. PICK g : Iterates(g, F, Progress, n, base)
  BY <1>1, <1>2, <1>3, RecursionExists
<1>8. /\ g \in [0 .. n -> Progress]
      /\ g[0] = base
      /\ \A i \in 1 .. n : g[i] = F[<<g[i - 1], i>>]
  BY <1>7 DEF Iterates
<1>9. ASSUME NEW i \in 0 .. n
      PROVE  g[i] = IF i = 0 THEN base ELSE TxStep(g[i - 1], b, i)
  <2>1. CASE i = 0
    BY <2>1, <1>8
  <2>2. CASE i # 0
    <3>1. i \in 1 .. n /\ i - 1 \in 0 .. n
      BY <2>2, <1>1
    <3>2. g[i - 1] \in Progress /\ g[i] = F[<<g[i - 1], i>>]
      BY <3>1, <1>8
    <3> QED
      BY <2>2, <3>1, <3>2, <1>4
  <2> QED
    BY <2>1, <2>2
<1>10. g = [i \in 0 .. n |-> IF i = 0 THEN base ELSE TxStep(g[i - 1], b, i)]
  BY <1>8, <1>9
<1>11. after = [i \in 0 .. n |-> IF i = 0 THEN base ELSE TxStep(after[i - 1], b, i)]
  BY <1>10
<1> HIDE DEF after
<1> DEFINE Bad == {k \in 0 .. n : after[k] \notin Progress}
<1>12. Bad = {}
  <2> SUFFICES ASSUME Bad # {} PROVE FALSE
    OBVIOUS
  <2>1. Bad \subseteq Nat
    BY <1>1
  <2> HIDE DEF Bad
  <2>2. PICK k \in Bad : \A j \in Bad : k <= j
    BY <2>1, LeastNat
  <2> USE DEF Bad
  <2>3. k \in 0 .. n /\ k # 0
    BY <1>2, <1>11
  <2>4. k - 1 \in 0 .. n /\ ~(k <= k - 1) /\ k \in 1 .. n
    BY <1>1, <2>3
  <2>5. after[k - 1] \in Progress
    BY <2>2, <2>4
  <2>6. after[k] = TxStep(after[k - 1], b, k)
    BY <1>11, <2>3
  <2> QED
    BY <1>6, <2>2, <2>4, <2>5, <2>6
<1>13. after \in [0 .. n -> Progress]
  <2>1. \A i \in 0 .. n : after[i] \in Progress
    BY <1>12
  <2> HIDE DEF Bad
  <2> QED
    BY <1>11, <2>1
<1>14. \A i \in 1 .. n : after[i] = TxStep(after[i - 1], b, i)
  <2> TAKE i \in 1 .. n
  <2>1. i \in 0 .. n /\ i # 0
    BY <1>1
  <2> QED
    BY <1>11, <2>1
<1>15. after[0] = base
  <2>1. 0 \in 0 .. n
    BY <1>1
  <2> QED
    BY <1>11, <2>1
<1>16. /\ after \in [0 .. Len(b.txs) -> Progress]
       /\ after[0] = [ok |-> TRUE, view |-> view]
       /\ ConnectTxs(view, b) = after[Len(b.txs)]
  BY <1>5, <1>13, <1>15 DEF n, base
<1>17. \A i \in 1 .. Len(b.txs) : after[i] = TxStep(after[i - 1], b, i)
  BY <1>14 DEF n
<1> QED
  BY <1>16, <1>17

LEMMA ConnectTxsType ==
    ASSUME NEW b \in Block, NEW view, IsView(view)
    PROVE  ConnectTxs(view, b) \in Progress
<1>1. Len(b.txs) \in 0 .. Len(b.txs)
  BY BlockAssumption
<1>2. PICK after \in [0 .. Len(b.txs) -> Progress] :
          /\ after[0] = [ok |-> TRUE, view |-> view]
          /\ \A i \in 1 .. Len(b.txs) : after[i] = TxStep(after[i - 1], b, i)
          /\ ConnectTxs(view, b) = after[Len(b.txs)]
  BY ConnectTxsSteps
<1> QED
  BY <1>1, <1>2

(* When all transactions of a block can be applied, each was, in turn.     *)
LEMMA ConnectTxsTrace ==
    ASSUME NEW b \in Block, NEW view, IsView(view), ConnectTxs(view, b).ok
    PROVE  \E v \in [0 .. Len(b.txs) -> Views] :
              /\ v[0] = view
              /\ v[Len(b.txs)] = ConnectTxs(view, b).view
              /\ \A i \in 1 .. Len(b.txs) :
                    /\ CanApply(v[i - 1], b.txs[i], i = 1, b.height)
                    /\ v[i] = Applied(v[i - 1], b.txs[i], i = 1, b.height)
<1> DEFINE n == Len(b.txs)
<1>1. PICK after \in [0 .. n -> Progress] :
          /\ after[0] = [ok |-> TRUE, view |-> view]
          /\ \A i \in 1 .. n : after[i] = TxStep(after[i - 1], b, i)
          /\ ConnectTxs(view, b) = after[n]
  BY ConnectTxsSteps
<1>2. n \in Nat
  BY BlockAssumption
<1> HIDE DEF n
<1> DEFINE Stops == {j \in 0 .. n : after[j].ok /\ \E k \in 0 .. j : ~after[k].ok}
<1>3. ASSUME NEW j \in 1 .. n, after[j].ok
      PROVE  /\ after[j - 1].ok
             /\ CanApply(after[j - 1].view, b.txs[j], j = 1, b.height)
             /\ after[j].view = Applied(after[j - 1].view, b.txs[j], j = 1, b.height)
  <2>1. after[j] = TxStep(after[j - 1], b, j)
    BY <1>1
  <2> QED
    BY <1>3, <2>1 DEF TxStep
<1>4. Stops = {}
  <2> SUFFICES ASSUME Stops # {} PROVE FALSE
    OBVIOUS
  <2>1. Stops \subseteq Nat
    BY <1>2
  <2> HIDE DEF Stops
  <2>2. PICK j \in Stops : \A i \in Stops : j <= i
    BY <2>1, LeastNat
  <2> USE DEF Stops
  <2>3. PICK k \in 0 .. j : ~after[k].ok
    BY <2>2
  <2>4. j \in 0 .. n /\ after[j].ok /\ k # j
    BY <2>2, <2>3
  <2>5. j \in 1 .. n /\ k \in 0 .. j - 1 /\ j - 1 \in 0 .. n /\ ~(j <= j - 1)
    BY <1>2, <2>3, <2>4
  <2>6. after[j - 1].ok
    BY <1>3, <2>4, <2>5
  <2>7. j - 1 \in Stops
    BY <2>3, <2>5, <2>6
  <2> QED
    BY <2>2, <2>5, <2>7
<1>5. \A j \in 0 .. n : after[j].ok
  <2> TAKE j \in 0 .. n
  <2>1. n \in 0 .. n /\ after[n].ok
    BY <1>1, <1>2
  <2>2. j \in 0 .. n /\ n \notin Stops
    BY <1>4
  <2> QED
    BY <2>1, <2>2
<1> DEFINE v == [i \in 0 .. n |-> after[i].view]
<1>6. \A i \in 0 .. n : after[i].view \in Views
  BY <1>1 DEF Progress
<1>7. v \in [0 .. n -> Views]
  BY <1>6
<1>8. ASSUME NEW i \in 1 .. n
      PROVE  /\ CanApply(v[i - 1], b.txs[i], i = 1, b.height)
             /\ v[i] = Applied(v[i - 1], b.txs[i], i = 1, b.height)
  <2>1. i \in 0 .. n /\ i - 1 \in 0 .. n
    BY <1>2
  <2>2. v[i] = after[i].view /\ v[i - 1] = after[i - 1].view
    BY <2>1
  <2> HIDE DEF v
  <2> QED
    BY <1>3, <1>5, <2>1, <2>2
<1>9. v[0] = view /\ v[n] = ConnectTxs(view, b).view
  <2>1. 0 \in 0 .. n /\ n \in 0 .. n
    BY <1>2
  <2> QED
    BY <1>1, <2>1
<1> HIDE DEF v
<1> QED
  BY <1>7, <1>8, <1>9 DEF n

(* ConnectBlock keeps the view a view and the supply under the limit.      *)
LEMMA ConnectBlockType ==
    ASSUME NEW b \in Block, NEW u, IsView(u), NEW m, IsSupply(m),
           NEW s, s.utxos = u, s.minted = m
    PROVE  IsLedgerState(ConnectBlock(s, b))
<1> DEFINE txs  == ConnectTxs(u, b)
           mint == AtMost(CoinbaseSum(b), Subsidy(b.height, m))
<1>1. b.height \in Nat /\ b.txs \in Seq(Tx) /\ m \in Nat /\ MaxSupply \in Nat
  BY BlockAssumption, ParamsAssumption DEF IsSupply
<1>2. txs \in Progress
  BY ConnectTxsType
<1>3. IsView(txs.view)
  BY <1>2, ViewsAreViews DEF Progress
<1>4. CoinbaseSum(b) \in Nat
  BY OutputSumType
<1>5. Subsidy(b.height, m) \in Nat /\ Subsidy(b.height, m) <= MaxSupply - m
  BY <1>1, SubsidyBound
<1>6. mint \in Nat
  BY <1>4, <1>5 DEF AtMost
<1> HIDE DEF txs, mint
<1>7. ConnectBlock(s, b) =
         IF txs.ok /\ m <= MaxSupply /\ mint <= MaxSupply - m
         THEN [ok |-> TRUE, utxos |-> txs.view, minted |-> m + mint]
         ELSE [ok |-> FALSE, utxos |-> u, minted |-> m]
  BY DEF ConnectBlock, txs, mint
<1>8. CASE txs.ok /\ m <= MaxSupply /\ mint <= MaxSupply - m
  BY <1>1, <1>3, <1>6, <1>7, <1>8 DEF IsLedgerState, IsSupply
<1>9. CASE ~(txs.ok /\ m <= MaxSupply /\ mint <= MaxSupply - m)
  <2>1. ConnectBlock(s, b) = [ok |-> FALSE, utxos |-> u, minted |-> m]
    BY <1>7, <1>9
  <2> QED
    BY <2>1 DEF IsLedgerState
<1> QED
  BY <1>8, <1>9

LedgerStates == {s \in [ok : BOOLEAN, utxos : Views, minted : Nat] : s.minted <= MaxSupply}

LEMMA LedgerStatesAre == \A s : s \in LedgerStates <=> IsLedgerState(s)
<1>1. ASSUME NEW s, s \in LedgerStates PROVE IsLedgerState(s)
  BY <1>1, ViewsAreViews DEF LedgerStates, IsLedgerState, IsSupply
<1>2. ASSUME NEW s, IsLedgerState(s) PROVE s \in LedgerStates
  BY <1>2, ViewsAreViews DEF LedgerStates, IsLedgerState, IsSupply
<1> QED
  BY <1>1, <1>2

ReplayStep(before, b) == IF before.ok THEN ConnectBlock(before, b) ELSE before

LEMMA ReplayStepType ==
    ASSUME NEW b \in Block, NEW before \in LedgerStates
    PROVE  ReplayStep(before, b) \in LedgerStates
<1>1. IsView(before.utxos) /\ IsSupply(before.minted)
  BY LedgerStatesAre DEF IsLedgerState
<1>2. IsLedgerState(ConnectBlock(before, b))
  BY <1>1, ConnectBlockType
<1> QED
  BY <1>2, LedgerStatesAre DEF ReplayStep

NothingReplayed == [ok |-> TRUE, utxos |-> NoUTXOs, minted |-> 0]

(* RebuildUTXO has a state after every block. *)
LEMMA RebuildSteps ==
    ASSUME NEW chn \in Seq(Block)
    PROVE  \E after \in [0 .. Len(chn) -> LedgerStates] :
              /\ after[0] = NothingReplayed
              /\ \A i \in 1 .. Len(chn) : after[i] = ReplayStep(after[i - 1], chn[i])
              /\ RebuildUTXO(chn) = after[Len(chn)]
<1> DEFINE n == Len(chn)
           base == NothingReplayed
           F == [p \in LedgerStates \X (1 .. n) |-> ReplayStep(p[1], chn[p[2]])]
           after == CHOOSE h : h = [i \in 0 .. n |->
                        IF i = 0 THEN base ELSE ReplayStep(h[i - 1], chn[i])]
<1>1. n \in Nat
  OBVIOUS
<1>2. base \in LedgerStates
  BY NoUTXOsType, ViewsAreViews, ParamsAssumption DEF LedgerStates, NothingReplayed
<1>3. \A x \in LedgerStates : \A i \in 1 .. n : ReplayStep(x, chn[i]) \in LedgerStates
  BY ReplayStepType
<1>4. IsStep(F, LedgerStates, n)
  BY <1>3 DEF IsStep
<1>5. \A x \in LedgerStates : \A i \in 1 .. n : F[<<x, i>>] = ReplayStep(x, chn[i])
  OBVIOUS
<1>6. RebuildUTXO(chn) = after[n]
  BY DEF RebuildUTXO, ReplayStep, NothingReplayed
<1> HIDE DEF n, base, F
<1>7. PICK g : Iterates(g, F, LedgerStates, n, base)
  BY <1>1, <1>2, <1>4, RecursionExists
<1>8. /\ g \in [0 .. n -> LedgerStates]
      /\ g[0] = base
      /\ \A i \in 1 .. n : g[i] = F[<<g[i - 1], i>>]
  BY <1>7 DEF Iterates
<1>9. ASSUME NEW i \in 0 .. n
      PROVE  g[i] = IF i = 0 THEN base ELSE ReplayStep(g[i - 1], chn[i])
  <2>1. CASE i = 0
    BY <2>1, <1>8
  <2>2. CASE i # 0
    <3>1. i \in 1 .. n /\ i - 1 \in 0 .. n
      BY <2>2, <1>1
    <3>2. g[i - 1] \in LedgerStates /\ g[i] = F[<<g[i - 1], i>>]
      BY <3>1, <1>8
    <3> QED
      BY <2>2, <3>1, <3>2, <1>5
  <2> QED
    BY <2>1, <2>2
<1>10. g = [i \in 0 .. n |-> IF i = 0 THEN base ELSE ReplayStep(g[i - 1], chn[i])]
  BY <1>8, <1>9
<1>11. after = [i \in 0 .. n |-> IF i = 0 THEN base ELSE ReplayStep(after[i - 1], chn[i])]
  BY <1>10
<1> HIDE DEF after
<1> DEFINE Bad == {k \in 0 .. n : after[k] \notin LedgerStates}
<1>12. Bad = {}
  <2> SUFFICES ASSUME Bad # {} PROVE FALSE
    OBVIOUS
  <2>1. Bad \subseteq Nat
    BY <1>1
  <2> HIDE DEF Bad
  <2>2. PICK k \in Bad : \A j \in Bad : k <= j
    BY <2>1, LeastNat
  <2> USE DEF Bad
  <2>3. k \in 0 .. n /\ k # 0
    BY <1>2, <1>11
  <2>4. k - 1 \in 0 .. n /\ ~(k <= k - 1) /\ k \in 1 .. n
    BY <1>1, <2>3
  <2>5. after[k - 1] \in LedgerStates
    BY <2>2, <2>4
  <2>6. after[k] = ReplayStep(after[k - 1], chn[k])
    BY <1>11, <2>3
  <2> QED
    BY <1>3, <2>2, <2>4, <2>5, <2>6
<1>13. after \in [0 .. n -> LedgerStates]
  <2>1. \A i \in 0 .. n : after[i] \in LedgerStates
    BY <1>12
  <2> HIDE DEF Bad
  <2> QED
    BY <1>11, <2>1
<1>14. \A i \in 1 .. n : after[i] = ReplayStep(after[i - 1], chn[i])
  <2> TAKE i \in 1 .. n
  <2>1. i \in 0 .. n /\ i # 0
    BY <1>1
  <2> QED
    BY <1>11, <2>1
<1>15. after[0] = base
  <2>1. 0 \in 0 .. n
    BY <1>1
  <2> QED
    BY <1>11, <2>1
<1> QED
  BY <1>6, <1>13, <1>14, <1>15 DEF n, base

(* A replay of any chain of blocks ends in a view and a supply.            *)
LEMMA RebuildType ==
    ASSUME NEW chn \in Seq(Block)
    PROVE  IsLedgerState(RebuildUTXO(chn))
<1>1. Len(chn) \in 0 .. Len(chn)
  OBVIOUS
<1>2. RebuildUTXO(chn) \in LedgerStates
  BY <1>1, RebuildSteps
<1> QED
  BY <1>2, LedgerStatesAre

(* The state of a replay after its first n blocks. *)
Replayed(chn, n) == RebuildUTXO(SubSeq(chn, 1, n))

(* It is the state RebuildUTXO passes through on the way to the whole.     *)
LEMMA RebuildPasses ==
    ASSUME NEW chn \in Seq(Block), NEW n \in 0 .. Len(chn),
           NEW after, after[0] = NothingReplayed,
           \A i \in 1 .. Len(chn) : after[i] = ReplayStep(after[i - 1], chn[i])
    PROVE  after[n] = Replayed(chn, n)
<1> DEFINE short == SubSeq(chn, 1, n)
<1>1. Len(chn) \in Nat /\ n \in Nat /\ n <= Len(chn)
  OBVIOUS
<1>2. short \in Seq(Block) /\ Len(short) = n /\ \A i \in 1 .. n : short[i] = chn[i]
  BY <1>1
<1> HIDE DEF short
<1>3. PICK other \in [0 .. n -> LedgerStates] :
          /\ other[0] = NothingReplayed
          /\ \A i \in 1 .. n : other[i] = ReplayStep(other[i - 1], short[i])
          /\ RebuildUTXO(short) = other[n]
  BY <1>2, RebuildSteps
<1> DEFINE Bad == {i \in 0 .. n : after[i] # other[i]}
<1>4. Bad = {}
  <2> SUFFICES ASSUME Bad # {} PROVE FALSE
    OBVIOUS
  <2>1. Bad \subseteq Nat
    BY <1>1
  <2> HIDE DEF Bad
  <2>2. PICK i \in Bad : \A j \in Bad : i <= j
    BY <2>1, LeastNat
  <2> USE DEF Bad
  <2>3. i \in 0 .. n /\ i # 0
    BY <1>3, <2>2
  <2>4. i \in 1 .. n /\ i \in 1 .. Len(chn) /\ i - 1 \in 0 .. n /\ ~(i <= i - 1)
    BY <1>1, <2>3
  <2>5. after[i - 1] = other[i - 1]
    BY <2>2, <2>4
  <2>6. after[i] = ReplayStep(after[i - 1], chn[i]) /\ other[i] = ReplayStep(other[i - 1], chn[i])
    BY <1>2, <1>3, <2>4
  <2> QED
    BY <2>2, <2>5, <2>6
<1>5. n \in 0 .. n
  BY <1>1
<1>6. after[n] = other[n]
  BY <1>4, <1>5
<1> QED
  BY <1>3, <1>6 DEF Replayed, short

LEMMA ReplayedNothing ==
    ASSUME NEW chn \in Seq(Block)
    PROVE  Replayed(chn, 0) = NothingReplayed
<1>1. SubSeq(chn, 1, 0) = <<>>
  OBVIOUS
<1>2. <<>> \in Seq(Block) /\ Len(<<>>) = 0 /\ 0 \in 0 .. 0
  OBVIOUS
<1>3. RebuildUTXO(<<>>) = NothingReplayed
  BY <1>2, RebuildSteps
<1> QED
  BY <1>1, <1>3 DEF Replayed

(* A replay goes on from block to block. *)
LEMMA ReplayedNext ==
    ASSUME NEW chn \in Seq(Block), NEW n \in 1 .. Len(chn)
    PROVE  /\ Replayed(chn, n) = ReplayStep(Replayed(chn, n - 1), chn[n])
           /\ IsLedgerState(Replayed(chn, n - 1))
           /\ IsLedgerState(Replayed(chn, n))
<1>1. PICK after \in [0 .. Len(chn) -> LedgerStates] :
          /\ after[0] = NothingReplayed
          /\ \A i \in 1 .. Len(chn) : after[i] = ReplayStep(after[i - 1], chn[i])
  BY RebuildSteps
<1>2. n \in 0 .. Len(chn) /\ n - 1 \in 0 .. Len(chn)
  OBVIOUS
<1>3. after[n] = Replayed(chn, n)
  BY <1>1, <1>2, RebuildPasses
<1>4. after[n - 1] = Replayed(chn, n - 1)
  BY <1>1, <1>2, RebuildPasses
<1>5. after[n] \in LedgerStates /\ after[n - 1] \in LedgerStates
  BY <1>1, <1>2
<1> QED
  BY <1>1, <1>3, <1>4, <1>5, LedgerStatesAre

LEMMA ReplayedAll ==
    ASSUME NEW chn \in Seq(Block)
    PROVE  Replayed(chn, Len(chn)) = RebuildUTXO(chn)
<1>1. SubSeq(chn, 1, Len(chn)) = chn
  OBVIOUS
<1> QED
  BY <1>1 DEF Replayed

(* A block on top is one more step. *)
LEMMA RebuildAppend ==
    ASSUME NEW chn \in Seq(Block), NEW b \in Block
    PROVE  RebuildUTXO(Append(chn, b)) = ReplayStep(RebuildUTXO(chn), b)
<1> DEFINE new == Append(chn, b)
           n == Len(chn) + 1
<1>1. new \in Seq(Block) /\ Len(new) = n /\ n \in 1 .. Len(new) /\ new[n] = b
  OBVIOUS
<1>2. SubSeq(new, 1, n - 1) = chn
  OBVIOUS
<1> HIDE DEF new, n
<1>3. Replayed(new, n) = ReplayStep(Replayed(new, n - 1), b)
  BY <1>1, ReplayedNext
<1>4. Replayed(new, n) = RebuildUTXO(new)
  BY <1>1, ReplayedAll
<1> QED
  BY <1>2, <1>3, <1>4 DEF Replayed, new

(* What is below the top of a chain that replays, replays as well. *)
LEMMA ReplayedOk ==
    ASSUME NEW chn \in Seq(Block), RebuildUTXO(chn).ok, NEW n \in 0 .. Len(chn)
    PROVE  Replayed(chn, n).ok
<1> DEFINE Bad == {k \in Nat : k <= Len(chn) /\ ~Replayed(chn, Len(chn) - k).ok}
<1>1. Bad = {}
  <2> SUFFICES ASSUME Bad # {} PROVE FALSE
    OBVIOUS
  <2>1. Bad \subseteq Nat
    OBVIOUS
  <2> HIDE DEF Bad
  <2>2. PICK k \in Bad : \A j \in Bad : k <= j
    BY <2>1, LeastNat
  <2> USE DEF Bad
  <2>3. k # 0
    BY <2>2, ReplayedAll
  <2> DEFINE m == Len(chn) - k + 1
  <2>4. m \in 1 .. Len(chn) /\ m - 1 = Len(chn) - k /\ m = Len(chn) - (k - 1)
    BY <2>2, <2>3
  <2>5. k - 1 \in Nat /\ k - 1 <= Len(chn) /\ ~(k <= k - 1)
    BY <2>2, <2>3
  <2> HIDE DEF m
  <2>6. Replayed(chn, m).ok
    BY <2>2, <2>4, <2>5
  <2>7. Replayed(chn, m) = ReplayStep(Replayed(chn, m - 1), chn[m])
    BY <2>4, ReplayedNext
  <2>8. Replayed(chn, m - 1).ok
    BY <2>6, <2>7 DEF ReplayStep
  <2> QED
    BY <2>2, <2>4, <2>8
<1>2. Len(chn) - n \in Nat /\ Len(chn) - n <= Len(chn) /\ Len(chn) - (Len(chn) - n) = n
  OBVIOUS
<1>3. Len(chn) - n \notin Bad
  BY <1>1
<1> QED
  BY <1>2, <1>3
-----------------------------------------------------------------------------
(* The genesis block. *)

(* Its subsidy fits under the limit, and it is connected on top of nothing.*)
LEMMA GenesisConnects ==
    /\ ConnectTxs(NoUTXOs, Genesis).ok
    /\ ConnectBlock(NothingReplayed, Genesis).ok
    /\ ConsensusOK(Genesis, NoUTXOs, 0)
<1>1. PICK tx \in Tx : Genesis.txs = <<tx>> /\ tx.coinbase /\ tx.outs = <<Subsidy(0, 0)>>
  BY GenesisAssumption
<1> DEFINE s == Subsidy(0, 0)
<1>2. IsSupply(0) /\ MaxSupply \in Nat
  BY ParamsAssumption DEF IsSupply
<1>3. s \in Nat /\ s > 0 /\ s <= MaxSupply
  BY <1>2, SubsidyBound, GenesisAssumption
<1> HIDE DEF s
<1>4. /\ tx.outs = <<s>> /\ Genesis \in Block /\ Genesis.height = 0 /\ Genesis.sealed
      /\ Len(Genesis.txs) = 1 /\ Genesis.txs[1] = tx /\ Genesis.txs # <<>>
  BY <1>1, GenesisAssumption DEF s
<1>5. CanApply(NoUTXOs, tx, TRUE, 0)
  BY <1>2, <1>3, <1>4 DEF CanApply, NoUTXOs
<1>6. ConnectTxs(NoUTXOs, Genesis).ok
  <2>1. PICK after \in [0 .. Len(Genesis.txs) -> Progress] :
            /\ after[0] = [ok |-> TRUE, view |-> NoUTXOs]
            /\ \A i \in 1 .. Len(Genesis.txs) : after[i] = TxStep(after[i - 1], Genesis, i)
            /\ ConnectTxs(NoUTXOs, Genesis) = after[Len(Genesis.txs)]
    BY <1>4, NoUTXOsType, ConnectTxsSteps
  <2>2. after[1] = TxStep(after[0], Genesis, 1)
    BY <1>4, <2>1
  <2>3. CanApply(after[0].view, Genesis.txs[1], 1 = 1, Genesis.height)
    BY <1>4, <1>5, <2>1
  <2>4. after[1].ok
    BY <2>1, <2>2, <2>3 DEF TxStep
  <2> QED
    BY <1>4, <2>1, <2>4
<1>7. OutputSum(tx) = s
  <2>1. DOMAIN <<s>> = {1} /\ <<s>>[1] = s
    OBVIOUS
  <2>2. SumFunctionOnSet(<<s>>, {1}) = s
    BY <1>3, <2>1, SumOfOne
  <2> QED
    BY <1>4, <2>1, <2>2 DEF OutputSum, SumFunction
<1>8. CoinbaseSum(Genesis) = s
  BY <1>4, <1>7 DEF CoinbaseSum
<1>9. ConnectBlock(NothingReplayed, Genesis).ok
  BY <1>2, <1>3, <1>4, <1>6, <1>8 DEF ConnectBlock, NothingReplayed, AtMost, s
<1>10. Fees(Genesis, NoUTXOs) = 0
  <2> DEFINE fee == [i \in 2 .. Len(Genesis.txs) |->
                        InputSum(NoUTXOs, Genesis.txs[i]) - OutputSum(Genesis.txs[i])]
  <2>1. DOMAIN fee = {}
    BY <1>4
  <2>2. Fees(Genesis, NoUTXOs) = SumFunctionOnSet(fee, DOMAIN fee)
    BY DEF Fees, SumFunction
  <2> QED
    BY <2>1, <2>2, SumOfNothing
<1>11. BlockBasic(Genesis)
  BY <1>1, <1>4 DEF BlockBasic
<1>12. FeesOK(Genesis, NoUTXOs) /\ \A i \in 2 .. Len(Genesis.txs) : Genesis.txs[i].sig = "self"
  BY <1>4 DEF FeesOK
<1>13. SubsidyOK(Genesis, 0, Fees(Genesis, NoUTXOs))
  BY <1>2, <1>3, <1>4, <1>8, <1>10 DEF SubsidyOK, s
<1> QED
  BY <1>4, <1>6, <1>9, <1>11, <1>12, <1>13 DEF ConsensusOK

(* A chain of the genesis block alone replays and is valid. *)
LEMMA GenesisReplays ==
    /\ RebuildUTXO(<<Genesis>>).ok
    /\ ValidateChain(<<Genesis>>)
<1>1. <<Genesis>> \in Seq(Block) /\ Len(<<Genesis>>) = 1 /\ <<Genesis>>[1] = Genesis
      /\ 1 \in 1 .. Len(<<Genesis>>)
  BY GenesisAssumption
<1>2. Replayed(<<Genesis>>, 1) = ReplayStep(Replayed(<<Genesis>>, 1 - 1), Genesis)
  BY <1>1, ReplayedNext
<1>3. Replayed(<<Genesis>>, 0) = NothingReplayed
  BY <1>1, ReplayedNothing
<1>4. RebuildUTXO(<<Genesis>>) = Replayed(<<Genesis>>, 1)
  BY <1>1, ReplayedAll
<1>5. RebuildUTXO(<<Genesis>>).ok
  BY <1>2, <1>3, <1>4, GenesisConnects DEF ReplayStep, NothingReplayed
<1>6. RebuildUTXO(SubSeq(<<Genesis>>, 1, 1 - 1)) = NothingReplayed
  BY <1>3 DEF Replayed
<1>7. \A n \in 1 .. Len(<<Genesis>>) : n = 1
  BY <1>1
<1> QED
  BY <1>1, <1>5, <1>6, <1>7, GenesisConnects, GenesisAssumption DEF ValidateChain, NothingReplayed

-----------------------------------------------------------------------------
(* The amounts of a view.  The id of a transaction tells all of it, so an  *)
(* outpoint has one amount, whichever view it is looked up in.             *)

Creator(o) == CHOOSE tx \in Tx : tx.id = o[1]
Amount == [o \in Outpoint |-> Creator(o).outs[o[2] + 1]]

(* What a set of outpoints is worth. *)
Worth(A) == SumFunctionOnSet(Amount, A)

(* A view that some sequence of transactions can leave. *)
IsSound(view) ==
    /\ IsView(view)
    /\ IsFiniteSet(DOMAIN view)
    /\ \A o \in DOMAIN view : view[o].amount = Amount[o]

LEMMA NoUTXOsSound == IsSound(NoUTXOs) /\ Worth(DOMAIN NoUTXOs) = 0
<1>1. DOMAIN NoUTXOs = {}
  BY DEF NoUTXOs
<1>2. Worth({}) = 0
  BY SumOfNothing DEF Worth
<1> QED
  BY <1>1, <1>2, NoUTXOsType, FS_EmptySet DEF IsSound

(* What a set of the outpoints of a view is worth is a natural number. *)
LEMMA WorthType ==
    ASSUME NEW view, IsSound(view), NEW A \in SUBSET DOMAIN view
    PROVE  /\ IsFiniteSet(A)
           /\ \A o \in A : Amount[o] \in Nat
           /\ Worth(A) \in Nat
<1>1. IsFiniteSet(A)
  BY FS_Subset DEF IsSound
<1>2. ASSUME NEW o \in A PROVE Amount[o] \in Nat
  <2>1. view[o] \in UTXO /\ view[o].amount = Amount[o]
    BY DEF IsSound, IsView
  <2> QED
    BY <2>1 DEF UTXO
<1> QED
  BY <1>1, <1>2, SumNat DEF Worth

(* What a transaction creates is worth what it pays out. *)
LEMMA CreatesWorth ==
    ASSUME NEW tx \in Tx
    PROVE  /\ Creates(tx) \subseteq Outpoint
           /\ IsFiniteSet(Creates(tx))
           /\ \A o \in Creates(tx) : Amount[o] = tx.outs[o[2] + 1] /\ Amount[o] \in Nat
           /\ Worth(Creates(tx)) = OutputSum(tx)
<1> DEFINE len == Len(tx.outs)
           name == [n \in 1 .. len |-> <<tx.id, n - 1>>]
<1>1. tx.outs \in Seq(Nat) /\ len \in Nat /\ DOMAIN tx.outs = 1 .. len
      /\ \A n \in 1 .. len : tx.outs[n] \in Nat
  BY TxAssumption
<1> HIDE DEF len
<1>2. \A n \in 1 .. len : <<tx.id, n - 1>> \in Outpoint
  BY <1>1 DEF Outpoint, TxIds
<1>3. ASSUME NEW n \in 1 .. len PROVE Amount[<<tx.id, n - 1>>] = tx.outs[n]
  <2>1. Creator(<<tx.id, n - 1>>) = tx
    BY IdAssumption DEF Creator
  <2>2. Amount[<<tx.id, n - 1>>] = Creator(<<tx.id, n - 1>>).outs[<<tx.id, n - 1>>[2] + 1]
    BY <1>2 DEF Amount
  <2>3. <<tx.id, n - 1>>[2] + 1 = n
    BY <1>1
  <2> QED
    BY <2>1, <2>2, <2>3
<1>4. Creates(tx) = {name[n] : n \in 1 .. len}
  <2>1. ASSUME NEW o \in Creates(tx) PROVE o \in {name[n] : n \in 1 .. len}
    <3>1. PICK k \in 0 .. len - 1 : o = <<tx.id, k>>
      BY DEF Creates, len
    <3>2. k + 1 \in 1 .. len /\ (k + 1) - 1 = k
      BY <1>1
    <3>3. name[k + 1] = o
      BY <3>1, <3>2
    <3> QED
      BY <3>2, <3>3
  <2>2. ASSUME NEW n \in 1 .. len PROVE name[n] \in Creates(tx)
    <3>1. n - 1 \in 0 .. len - 1
      BY <1>1
    <3> QED
      BY <3>1 DEF Creates, len
  <2> QED
    BY <2>1, <2>2
<1>5. IsFiniteSet(1 .. len)
  BY <1>1, FS_Interval
<1>6. IsFiniteSet(Creates(tx))
  <2>1. name \in Surjection(1 .. len, Creates(tx))
    BY <1>4 DEF Surjection
  <2> QED
    BY <1>5, <2>1, FS_Surjection
<1>7. Creates(tx) \subseteq Outpoint
  BY <1>2, <1>4
<1>8. ASSUME NEW o \in Creates(tx) PROVE Amount[o] = tx.outs[o[2] + 1] /\ Amount[o] \in Nat
  <2>1. PICK n \in 1 .. len : o = <<tx.id, n - 1>>
    BY <1>4
  <2>2. o[2] + 1 = n
    BY <1>1, <2>1
  <2> QED
    BY <1>1, <1>3, <2>1, <2>2
<1>9. Worth(Creates(tx)) = OutputSum(tx)
  <2>1. \A n \in 1 .. len : tx.outs[n] \in Int
    BY <1>1
  <2>2. \A m, n \in 1 .. len : name[m] = name[n] => m = n
    BY <1>1
  <2>3. \A n \in 1 .. len : Amount[name[n]] = tx.outs[n]
    BY <1>3
  <2> DEFINE D == 1 .. len
  <2>4. SumFunctionOnSet(Amount, {name[n] : n \in D}) = SumFunctionOnSet(tx.outs, D)
    <3>1. /\ IsFiniteSet(D) /\ \A n \in D : tx.outs[n] \in Int
          /\ \A m, n \in D : name[m] = name[n] => m = n
          /\ \A n \in D : Amount[name[n]] = tx.outs[n]
      BY <1>5, <2>1, <2>2, <2>3
    <3> HIDE DEF name, D
    <3> QED
      BY <3>1, SumRenamed
  <2>5. Creates(tx) = {name[n] : n \in D} /\ DOMAIN tx.outs = D
    BY <1>1, <1>4
  <2> HIDE DEF name, D
  <2> QED
    BY <2>4, <2>5 DEF Worth, OutputSum, SumFunction
<1> QED
  BY <1>6, <1>7, <1>8, <1>9

(* What a transaction spends from a view is worth the sum of its inputs.   *)
LEMMA InputSumWorth ==
    ASSUME NEW view, IsSound(view), NEW tx, Spends(tx) \subseteq DOMAIN view
    PROVE  InputSum(view, tx) = Worth(Spends(tx)) /\ Worth(Spends(tx)) \in Nat
<1> DEFINE amounts == [o \in Spends(tx) |-> view[o].amount]
<1>1. /\ IsFiniteSet(Spends(tx))
      /\ \A o \in Spends(tx) : Amount[o] \in Nat
      /\ Worth(Spends(tx)) \in Nat
  BY WorthType
<1>2. \A o \in Spends(tx) : amounts[o] \in Int /\ amounts[o] = Amount[o]
  BY <1>1 DEF IsSound
<1>3. InputSum(view, tx) = SumFunctionOnSet(amounts, Spends(tx))
  BY DEF InputSum, SumFunction
<1> HIDE DEF amounts
<1>4. SumFunctionOnSet(amounts, Spends(tx)) = SumFunctionOnSet(Amount, Spends(tx))
  BY <1>1, <1>2, SumSame
<1>5. InputSum(view, tx) = SumFunctionOnSet(Amount, Spends(tx))
  BY <1>3, <1>4
<1>6. InputSum(view, tx) = Worth(Spends(tx))
  BY <1>5 DEF Worth
<1> QED
  BY <1>1, <1>6

(* What a transaction pays in fees, in whichever view. *)
FeeOf(tx) == Worth(Spends(tx)) - OutputSum(tx)

(* Applying a transaction keeps a view sound and loses its fee. *)
LEMMA AppliedWorth ==
    ASSUME NEW view, IsSound(view), NEW tx \in Tx, NEW isCoinbase \in BOOLEAN, NEW height \in Nat,
           CanApply(view, tx, isCoinbase, height)
    PROVE  LET new == Applied(view, tx, isCoinbase, height)
           IN  /\ IsSound(new)
               /\ isCoinbase => Worth(DOMAIN new) = Worth(DOMAIN view) + OutputSum(tx)
               /\ ~isCoinbase => /\ FeeOf(tx) \in Nat
                                 /\ Worth(DOMAIN new) = Worth(DOMAIN view) - FeeOf(tx)
<1> DEFINE new == Applied(view, tx, isCoinbase, height)
           gone == Removes(tx, isCoinbase)
           kept == DOMAIN view \ gone
<1>1. IsView(new)
  BY AppliedType DEF IsSound
<1>2. /\ DOMAIN new = kept \cup Creates(tx)
      /\ \A o \in Creates(tx) : new[o].amount = tx.outs[o[2] + 1]
      /\ \A o \in kept \ Creates(tx) : new[o] = view[o]
  BY DEF Applied
<1>3. /\ gone \subseteq DOMAIN view
      /\ kept \cap Creates(tx) = {}
      /\ ~isCoinbase => InputSum(view, tx) >= OutputSum(tx)
      /\ gone = IF isCoinbase THEN {} ELSE Spends(tx)
  BY DEF CanApply, InputsCover, Removes
<1>4. /\ Creates(tx) \subseteq Outpoint
      /\ IsFiniteSet(Creates(tx))
      /\ \A o \in Creates(tx) : Amount[o] = tx.outs[o[2] + 1] /\ Amount[o] \in Nat
      /\ Worth(Creates(tx)) = OutputSum(tx)
  BY CreatesWorth
<1>5. /\ IsFiniteSet(kept) /\ IsFiniteSet(gone)
      /\ Worth(kept) \in Nat /\ Worth(gone) \in Nat /\ Worth(DOMAIN view) \in Nat
      /\ \A o \in DOMAIN view : Amount[o] \in Nat
  <2>1. kept \in SUBSET DOMAIN view /\ gone \in SUBSET DOMAIN view /\ DOMAIN view \in SUBSET DOMAIN view
    BY <1>3
  <2> HIDE DEF kept, gone
  <2> QED
    BY <2>1, WorthType
<1>6. OutputSum(tx) \in Nat
  BY OutputSumType
<1>7. Worth(DOMAIN view) = Worth(kept) + Worth(gone)
  <2>1. DOMAIN view = kept \cup gone /\ kept \cap gone = {}
    BY <1>3
  <2>2. \A o \in kept \cup gone : Amount[o] \in Int
    BY <1>5, <2>1
  <2> HIDE DEF kept, gone
  <2>3. SumFunctionOnSet(Amount, kept \cup gone)
           = SumFunctionOnSet(Amount, kept) + SumFunctionOnSet(Amount, gone)
    BY <1>5, <2>1, <2>2, SumDisjoint
  <2> QED
    BY <2>1, <2>3 DEF Worth
<1>8. Worth(DOMAIN new) = Worth(kept) + OutputSum(tx)
  <2>1. \A o \in kept \cup Creates(tx) : Amount[o] \in Int
    BY <1>4, <1>5
  <2> HIDE DEF kept, new
  <2>2. SumFunctionOnSet(Amount, kept \cup Creates(tx))
           = SumFunctionOnSet(Amount, kept) + SumFunctionOnSet(Amount, Creates(tx))
    BY <1>3, <1>4, <1>5, <2>1, SumDisjoint
  <2> QED
    BY <1>2, <1>4, <2>2 DEF Worth
<1>9. IsSound(new)
  <2>1. IsFiniteSet(DOMAIN new)
    <3> HIDE DEF kept, new
    <3> QED
      BY <1>2, <1>4, <1>5, FS_Union
  <2>2. ASSUME NEW o \in DOMAIN new PROVE new[o].amount = Amount[o]
    <3>1. CASE o \in Creates(tx)
      BY <1>2, <1>4, <3>1
    <3>2. CASE o \notin Creates(tx)
      <4>1. o \in kept \ Creates(tx) /\ o \in DOMAIN view
        BY <1>2, <3>2
      <4>2. new[o] = view[o]
        BY <1>2, <4>1
      <4> HIDE DEF new
      <4> QED
        BY <4>1, <4>2 DEF IsSound
    <3> QED
      BY <3>1, <3>2
  <2> HIDE DEF new
  <2> QED
    BY <1>1, <2>1, <2>2 DEF IsSound
<1> HIDE DEF new, kept, gone
<1>10. CASE isCoinbase
  <2>1. Worth(gone) = 0
    BY <1>3, <1>10, SumOfNothing DEF Worth
  <2>2. Worth(DOMAIN new) = Worth(DOMAIN view) + OutputSum(tx)
    BY <1>5, <1>6, <1>7, <1>8, <2>1
  <2> QED
    BY <1>9, <1>10, <2>2 DEF new
<1>11. CASE ~isCoinbase
  <2>1. gone = Spends(tx) /\ InputSum(view, tx) >= OutputSum(tx)
    BY <1>3, <1>11
  <2>2. InputSum(view, tx) = Worth(gone)
    BY <1>3, <2>1, InputSumWorth
  <2>3. FeeOf(tx) = Worth(gone) - OutputSum(tx) /\ FeeOf(tx) \in Nat
    BY <1>5, <1>6, <2>1, <2>2 DEF FeeOf
  <2>4. Worth(DOMAIN new) = Worth(DOMAIN view) - FeeOf(tx)
    BY <1>5, <1>6, <1>7, <1>8, <2>3
  <2> QED
    BY <1>9, <1>11, <2>3, <2>4 DEF new
<1> QED
  BY <1>10, <1>11

FeeTable(b) == [i \in 2 .. Len(b.txs) |-> FeeOf(b.txs[i])]

(* What the transactions of a block pay in fees. *)
FeesOf(b) == SumFunction(FeeTable(b))

(* Connecting a block keeps a view sound, adds what its coinbase pays out  *)
(* and loses its fees.                                                     *)
LEMMA BlockWorth ==
    ASSUME NEW b \in Block, NEW view, IsSound(view), ConnectTxs(view, b).ok
    PROVE  LET new == ConnectTxs(view, b).view
           IN  /\ IsSound(new)
               /\ FeesOf(b) \in Nat
               /\ Worth(DOMAIN new) = Worth(DOMAIN view) + CoinbaseSum(b) - FeesOf(b)
<1> DEFINE len == Len(b.txs)
           Paid(i) == SumFunctionOnSet(FeeTable(b), 2 .. i)
           Made(i) == IF i = 0 THEN 0 ELSE CoinbaseSum(b)
<1>1. /\ b.txs \in Seq(Tx) /\ len \in Nat /\ b.height \in Nat
      /\ \A i \in 1 .. len : b.txs[i] \in Tx
  BY BlockAssumption
<1>2. IsView(view)
  BY DEF IsSound
<1>3. PICK v \in [0 .. len -> Views] :
          /\ v[0] = view
          /\ v[len] = ConnectTxs(view, b).view
          /\ \A i \in 1 .. len :
                /\ CanApply(v[i - 1], b.txs[i], i = 1, b.height)
                /\ v[i] = Applied(v[i - 1], b.txs[i], i = 1, b.height)
  BY <1>2, ConnectTxsTrace
<1>4. CoinbaseSum(b) \in Nat
  BY OutputSumType
<1> DEFINE Good(i) == /\ IsSound(v[i])
                      /\ \A j \in 2 .. i : FeeTable(b)[j] \in Nat
                      /\ Worth(DOMAIN v[i]) = Worth(DOMAIN view) + Made(i) - Paid(i)
           Bad == {i \in 0 .. len : ~Good(i)}
<1>5. Worth(DOMAIN view) \in Nat
  BY WorthType
<1>6. Good(0)
  <2>1. 2 .. 0 = {}
    OBVIOUS
  <2>2. Paid(0) = 0
    BY <2>1, SumOfNothing
  <2> QED
    BY <1>3, <1>5, <2>1, <2>2
<1>7. ASSUME NEW i \in 1 .. len, Good(i - 1) PROVE Good(i)
  <2>1. /\ b.txs[i] \in Tx /\ IsSound(v[i - 1]) /\ (i = 1) \in BOOLEAN
        /\ CanApply(v[i - 1], b.txs[i], i = 1, b.height)
        /\ v[i] = Applied(v[i - 1], b.txs[i], i = 1, b.height)
    BY <1>1, <1>3, <1>7
  <2>2. /\ IsSound(v[i])
        /\ i = 1 => Worth(DOMAIN v[i]) = Worth(DOMAIN v[i - 1]) + OutputSum(b.txs[i])
        /\ i # 1 => /\ FeeOf(b.txs[i]) \in Nat
                    /\ Worth(DOMAIN v[i]) = Worth(DOMAIN v[i - 1]) - FeeOf(b.txs[i])
    <3>1. PICK first \in BOOLEAN : first = (i = 1)
      OBVIOUS
    <3>2. /\ CanApply(v[i - 1], b.txs[i], first, b.height)
          /\ v[i] = Applied(v[i - 1], b.txs[i], first, b.height)
      BY <2>1, <3>1
    <3> DEFINE tx == b.txs[i]
               before == v[i - 1]
    <3>3. tx \in Tx /\ IsSound(before) /\ CanApply(before, tx, first, b.height)
      BY <2>1, <3>2
    <3> HIDE DEF tx, before
    <3>4. /\ IsSound(Applied(before, tx, first, b.height))
          /\ first => Worth(DOMAIN Applied(before, tx, first, b.height))
                          = Worth(DOMAIN before) + OutputSum(tx)
          /\ ~first => /\ FeeOf(tx) \in Nat
                       /\ Worth(DOMAIN Applied(before, tx, first, b.height))
                              = Worth(DOMAIN before) - FeeOf(tx)
      BY <1>1, <3>3, AppliedWorth
    <3> QED
      BY <3>1, <3>2, <3>4 DEF tx, before
  <2>3. CASE i = 1
    <3>1. CoinbaseSum(b) = OutputSum(b.txs[1])
      BY <1>1, <2>3 DEF CoinbaseSum
    <3>2. 2 .. i = {} /\ 2 .. i - 1 = {}
      BY <2>3
    <3>3. Paid(i) = 0 /\ Paid(i - 1) = 0
      BY <3>2, SumOfNothing
    <3>4. Made(i) = CoinbaseSum(b) /\ Made(i - 1) = 0
      BY <2>3
    <3> HIDE DEF Paid, Made
    <3>5. Worth(DOMAIN v[i]) = Worth(DOMAIN view) + Made(i) - Paid(i)
      BY <1>4, <1>5, <1>7, <2>2, <2>3, <3>1, <3>3, <3>4
    <3>6. \A j \in 2 .. i : FeeTable(b)[j] \in Nat
      BY <3>2
    <3> QED
      BY <2>2, <3>5, <3>6
  <2>4. CASE i # 1
    <3>1. /\ i \in 2 .. i /\ i \in 2 .. len
          /\ \A j \in 2 .. i : j \in 2 .. i - 1 \/ j = i
          /\ (2 .. i) \ {i} = 2 .. i - 1
      BY <1>1, <2>4
    <3>2. FeeTable(b)[i] = FeeOf(b.txs[i])
      BY <3>1 DEF FeeTable
    <3>3. \A j \in 2 .. i : FeeTable(b)[j] \in Nat
      BY <1>7, <2>2, <2>4, <3>1, <3>2
    <3>4. IsFiniteSet(2 .. i) /\ \A j \in 2 .. i : FeeTable(b)[j] \in Int
      <4>1. 2 \in Int /\ i \in Int
        OBVIOUS
      <4>2. IsFiniteSet(2 .. i)
        BY <4>1, FS_Interval
      <4> QED
        BY <3>3, <4>2
    <3>5. SumFunctionOnSet(FeeTable(b), 2 .. i)
              = FeeTable(b)[i] + SumFunctionOnSet(FeeTable(b), (2 .. i) \ {i})
      BY <3>1, <3>4, SumRemove
    <3>6. Paid(i) = FeeOf(b.txs[i]) + Paid(i - 1)
      BY <3>1, <3>2, <3>5
    <3>7. Paid(i - 1) \in Int
      <4>1. IsFiniteSet(2 .. i - 1) /\ \A j \in 2 .. i - 1 : FeeTable(b)[j] \in Int
        <5>1. 2 \in Int /\ i - 1 \in Int
          OBVIOUS
        <5>2. IsFiniteSet(2 .. i - 1)
          BY <5>1, FS_Interval
        <5> QED
          BY <1>7, <5>2
      <4> QED
        BY <4>1, SumType
    <3>8. Made(i) = CoinbaseSum(b) /\ Made(i - 1) = CoinbaseSum(b)
      BY <2>4
    <3> HIDE DEF Paid, Made
    <3>9. Worth(DOMAIN v[i]) = Worth(DOMAIN view) + Made(i) - Paid(i)
      BY <1>4, <1>5, <1>7, <2>2, <2>4, <3>6, <3>7, <3>8
    <3> QED
      BY <2>2, <3>3, <3>9
  <2> QED
    BY <2>3, <2>4
<1> HIDE DEF len, Good
<1>8. Bad = {}
  <2> SUFFICES ASSUME Bad # {} PROVE FALSE
    OBVIOUS
  <2>1. Bad \subseteq Nat
    BY <1>1
  <2> HIDE DEF Bad
  <2>2. PICK i \in Bad : \A j \in Bad : i <= j
    BY <2>1, LeastNat
  <2> USE DEF Bad
  <2>3. i \in 1 .. len /\ i - 1 \in 0 .. len /\ ~(i <= i - 1)
    BY <1>1, <1>6, <2>2
  <2>4. Good(i - 1)
    BY <2>2, <2>3
  <2> QED
    BY <1>7, <2>2, <2>3, <2>4
<1>9. Good(len)
  BY <1>1, <1>8
<1> USE DEF Good
<1>10. SumFunctionOnSet(FeeTable(b), 2 .. len) \in Nat
  <2>1. 2 \in Int /\ len \in Int
    BY <1>1
  <2> HIDE DEF Good
  <2>2. IsFiniteSet(2 .. len)
    BY <2>1, FS_Interval
  <2> USE DEF Good
  <2> QED
    BY <1>9, <2>2, SumNat
<1>11. FeesOf(b) = Paid(len)
  BY DEF FeesOf, FeeTable, SumFunction, len
<1>12. Made(len) = CoinbaseSum(b)
  BY <1>1 DEF CoinbaseSum, len
<1> QED
  BY <1>3, <1>9, <1>10, <1>11, <1>12

(* The fees that ValidateBlock counts are the same.                        *)
LEMMA FeesAreFees ==
    ASSUME NEW b \in Block, NEW view, IsSound(view), FeesOK(b, view)
    PROVE  Fees(b, view) = FeesOf(b)
<1> DEFINE table == [i \in 2 .. Len(b.txs) |-> InputSum(view, b.txs[i]) - OutputSum(b.txs[i])]
<1>1. ASSUME NEW i \in 2 .. Len(b.txs)
      PROVE  InputSum(view, b.txs[i]) - OutputSum(b.txs[i]) = FeeOf(b.txs[i])
  <2>1. Spends(b.txs[i]) \subseteq DOMAIN view
    BY DEF FeesOK, InputsCover
  <2> QED
    BY <2>1, InputSumWorth DEF FeeOf
<1>2. table = FeeTable(b)
  BY <1>1 DEF FeeTable
<1>3. Fees(b, view) = SumFunction(table)
  BY DEF Fees
<1> QED
  BY <1>2, <1>3 DEF FeesOf

(* The more has been minted, the less there is to claim, and the more has  *)
(* been minted after any claim.                                            *)
LEMMA SubsidyFalls ==
    ASSUME NEW height \in Nat, NEW claim \in Nat,
           NEW low, IsSupply(low), NEW high, IsSupply(high), low <= high
    PROVE  /\ Subsidy(height, high) <= Subsidy(height, low)
           /\ low + AtMost(claim, Subsidy(height, low)) <= high + AtMost(claim, Subsidy(height, high))
<1> DEFINE halvings == IF HalvingInterval = 0 THEN 0 ELSE height \div HalvingInterval
           full == Halved[halvings]
<1>1. MaxSupply \in Nat /\ HalvingInterval \in Nat
      /\ low \in Nat /\ low <= MaxSupply /\ high \in Nat /\ high <= MaxSupply
  BY ParamsAssumption DEF IsSupply
<1>2. halvings \in Nat
  BY <1>1
<1>3. \A m : Subsidy(height, m) = IF m >= MaxSupply \/ halvings >= 64
                                  THEN 0 ELSE AtMost(full, MaxSupply - m)
  BY DEF Subsidy
<1> HIDE DEF full, halvings
<1>4. CASE halvings >= 64
  BY <1>1, <1>3, <1>4 DEF AtMost
<1>5. CASE ~(halvings >= 64)
  <2>1. halvings \in 0 .. 63
    BY <1>2, <1>5
  <2>2. full \in Nat
    BY <2>1, HalvedType DEF full
  <2>3. Subsidy(height, low) = AtMost(full, MaxSupply - low)
    BY <1>1, <1>3, <1>5, <2>2 DEF AtMost
  <2>4. Subsidy(height, high) = AtMost(full, MaxSupply - high)
    BY <1>1, <1>3, <1>5, <2>2 DEF AtMost
  <2> QED
    BY <1>1, <2>2, <2>3, <2>4 DEF AtMost
<1> QED
  BY <1>4, <1>5

(* The coinbase of a block claims no more than the subsidy over that       *)
(* supply and its own fees.                                                *)
IsPaid(b, m) == CoinbaseSum(b) <= Subsidy(b.height, m) + FeesOf(b)

(* Connecting a block that is paid for keeps the view worth no more than   *)
(* what was minted.                                                        *)
LEMMA ConnectWorth ==
    ASSUME NEW b \in Block, NEW s, IsSound(s.utxos), IsSupply(s.minted),
           Worth(DOMAIN s.utxos) <= s.minted, ConnectBlock(s, b).ok, IsPaid(b, s.minted)
    PROVE  LET new == ConnectBlock(s, b)
           IN  /\ IsSound(new.utxos)
               /\ Worth(DOMAIN new.utxos) <= new.minted
               /\ s.minted <= new.minted
<1> DEFINE txs  == ConnectTxs(s.utxos, b)
           subsidy == Subsidy(b.height, s.minted)
           mint == AtMost(CoinbaseSum(b), subsidy)
           new == ConnectBlock(s, b)
<1>1. s.minted \in Nat /\ b.height \in Nat
  BY BlockAssumption DEF IsSupply
<1>2. txs.ok /\ new.utxos = txs.view /\ new.minted = s.minted + mint
  BY DEF ConnectBlock
<1>3. subsidy \in Nat
  BY <1>1, SubsidyBound
<1>4. CoinbaseSum(b) \in Nat
  BY OutputSumType
<1> HIDE DEF txs, new
<1>5. /\ IsSound(txs.view)
      /\ FeesOf(b) \in Nat
      /\ Worth(DOMAIN txs.view) = Worth(DOMAIN s.utxos) + CoinbaseSum(b) - FeesOf(b)
  BY <1>2, BlockWorth DEF txs
<1>6. Worth(DOMAIN s.utxos) \in Nat
  BY WorthType
<1>7. CoinbaseSum(b) <= subsidy + FeesOf(b)
  BY DEF IsPaid
<1> HIDE DEF subsidy
<1>8. Worth(DOMAIN new.utxos) <= new.minted /\ s.minted <= new.minted
  <2>1. Worth(DOMAIN new.utxos) = Worth(DOMAIN s.utxos) + CoinbaseSum(b) - FeesOf(b)
    BY <1>2, <1>5
  <2> QED
    BY <1>1, <1>2, <1>3, <1>4, <1>5, <1>6, <1>7, <2>1 DEF AtMost
<1>9. IsSound(new.utxos)
  BY <1>2, <1>5
<1> QED
  BY <1>8, <1>9 DEF new

(* Every block of the chain is paid for on top of those below it. *)
AllPaid(chn) == \A n \in 1 .. Len(chn) : IsPaid(chn[n], Replayed(chn, n - 1).minted)

(* A replay of such a chain leaves a view that is worth no more than what  *)
(* was minted.                                                             *)
LEMMA ReplayWorth ==
    ASSUME NEW chn \in Seq(Block), AllPaid(chn), RebuildUTXO(chn).ok
    PROVE  /\ IsSound(RebuildUTXO(chn).utxos)
           /\ Worth(DOMAIN RebuildUTXO(chn).utxos) <= RebuildUTXO(chn).minted
<1> DEFINE Good(n) == /\ IsSound(Replayed(chn, n).utxos)
                      /\ Worth(DOMAIN Replayed(chn, n).utxos) <= Replayed(chn, n).minted
           Bad == {n \in 0 .. Len(chn) : ~Good(n)}
<1>1. Good(0)
  BY ReplayedNothing, NoUTXOsSound DEF NothingReplayed
<1>2. ASSUME NEW n \in 1 .. Len(chn), Good(n - 1) PROVE Good(n)
  <2> DEFINE s == Replayed(chn, n - 1)
             b == chn[n]
  <2>1. b \in Block /\ n - 1 \in 0 .. Len(chn) /\ n \in 0 .. Len(chn)
    OBVIOUS
  <2>2. s.ok /\ Replayed(chn, n).ok
    BY <2>1, ReplayedOk
  <2>3. Replayed(chn, n) = ReplayStep(s, b) /\ IsLedgerState(s)
    BY ReplayedNext
  <2>4. IsPaid(b, s.minted)
    BY DEF AllPaid
  <2>5. IsSound(s.utxos) /\ Worth(DOMAIN s.utxos) <= s.minted
    BY <1>2
  <2> HIDE DEF s, b
  <2>6. Replayed(chn, n) = ConnectBlock(s, b) /\ IsSupply(s.minted)
    BY <2>2, <2>3 DEF ReplayStep, IsLedgerState
  <2>7. ConnectBlock(s, b).ok
    BY <2>2, <2>6
  <2>8. /\ IsSound(ConnectBlock(s, b).utxos)
        /\ Worth(DOMAIN ConnectBlock(s, b).utxos) <= ConnectBlock(s, b).minted
    BY <2>1, <2>4, <2>5, <2>6, <2>7, ConnectWorth
  <2> QED
    BY <2>6, <2>8
<1> HIDE DEF Good
<1>3. Bad = {}
  <2> SUFFICES ASSUME Bad # {} PROVE FALSE
    OBVIOUS
  <2>1. Bad \subseteq Nat
    OBVIOUS
  <2> HIDE DEF Bad
  <2>2. PICK n \in Bad : \A j \in Bad : n <= j
    BY <2>1, LeastNat
  <2> USE DEF Bad
  <2>3. n \in 1 .. Len(chn) /\ n - 1 \in 0 .. Len(chn) /\ ~(n <= n - 1)
    BY <1>1, <2>2
  <2>4. Good(n - 1)
    BY <2>2, <2>3
  <2> QED
    BY <1>2, <2>2, <2>3, <2>4
<1>4. Good(Len(chn))
  <2>1. Len(chn) \in 0 .. Len(chn) /\ Len(chn) \notin Bad
    BY <1>3
  <2> QED
    BY <2>1
<1> QED
  BY <1>4, ReplayedAll DEF Good

(* The genesis block is paid for. *)
LEMMA GenesisPaid == AllPaid(<<Genesis>>)
<1>1. /\ ConsensusOK(Genesis, NoUTXOs, 0)
      /\ Genesis \in Block /\ <<Genesis>> \in Seq(Block)
  BY GenesisConnects, GenesisAssumption
<1>2. Fees(Genesis, NoUTXOs) = FeesOf(Genesis)
  BY <1>1, NoUTXOsSound, FeesAreFees DEF ConsensusOK
<1>3. IsPaid(Genesis, 0)
  BY <1>1, <1>2 DEF ConsensusOK, SubsidyOK, IsPaid
<1>4. Replayed(<<Genesis>>, 0) = NothingReplayed
  BY <1>1, ReplayedNothing
<1>5. \A n \in 1 .. Len(<<Genesis>>) : n = 1
  OBVIOUS
<1>6. IsPaid(<<Genesis>>[1], Replayed(<<Genesis>>, 1 - 1).minted)
  BY <1>3, <1>4 DEF NothingReplayed
<1> QED
  BY <1>5, <1>6 DEF AllPaid

-----------------------------------------------------------------------------
(* The history of a chain: what its transactions have created and spent,   *)
(* one after the other, and what of it is left in the view.                *)

(* Every block of the chain has passed Block::ValidateBasic, at the height *)
(* of its position.                                                        *)
IsBasic(chn) == \A n \in DOMAIN chn : chn[n].height = n - 1 /\ BlockBasic(chn[n])

(* A place is the position of a block and the position in the block.       *)
Places(chn) == UNION {{n} \X (1 .. Len(chn[n].txs)) : n \in DOMAIN chn}
TxAt(chn, p) == chn[p[1]].txs[p[2]]
Until(chn, n, i) == {p \in Places(chn) : p[1] < n \/ (p[1] = n /\ p[2] <= i)}

(* An output of a coinbase that is left in the view has its mark and is no *)
(* older, and what was spent of a coinbase was mature.                     *)
Matured(chn, done, view) ==
    /\ \A p \in done : p[2] = 1 =>
          \A o \in Creates(TxAt(chn, p)) \cap DOMAIN view :
              view[o].coinbase /\ view[o].height >= p[1] - 1
    /\ \A p, q \in done :
          /\ p[2] # 1 /\ q[2] = 1 /\ q[1] <= p[1]
          /\ Spends(TxAt(chn, p)) \cap Creates(TxAt(chn, q)) # {}
          => p[1] >= q[1] + Maturity

(* What is left in the view was created and has not been spent; what was   *)
(* spent had been created, once, and was spent once.                       *)
SpentOnce(chn, done, view) ==
    /\ \A o \in DOMAIN view : \E p \in done : o \in Creates(TxAt(chn, p))
    /\ \A p \in done : p[2] # 1 =>
          /\ Spends(TxAt(chn, p)) \cap DOMAIN view = {}
          /\ \A o \in Spends(TxAt(chn, p)) : \E q \in done : o \in Creates(TxAt(chn, q))
    /\ \A p, q \in done : TxAt(chn, p).id = TxAt(chn, q).id => p = q
    /\ \A p, q \in done : p[2] # 1 /\ q[2] # 1 /\ p # q =>
          Spends(TxAt(chn, p)) \cap Spends(TxAt(chn, q)) = {}

(* An outpoint has one creator. *)
LEMMA CreatedByOne ==
    ASSUME NEW s \in Tx, NEW t \in Tx, NEW o \in Creates(s), o \in Creates(t)
    PROVE  s = t
<1>1. s.id = o[1] /\ t.id = o[1]
  BY DEF Creates
<1> QED
  BY <1>1, IdAssumption

(* The places up to a transaction, and what is at them. *)
LEMMA UntilNext ==
    ASSUME NEW chn \in Seq(Block), IsBasic(chn), NEW n \in DOMAIN chn,
           NEW i \in 1 .. Len(chn[n].txs)
    PROVE  /\ Until(chn, n, i) = Until(chn, n, i - 1) \cup {<<n, i>>}
           /\ <<n, i>> \notin Until(chn, n, i - 1)
           /\ <<n, i>> \in Places(chn)
           /\ n \in Nat /\ i \in Nat
           /\ \A p \in Until(chn, n, i - 1) : p[1] \in Nat /\ p[1] <= n /\ (i = 1 => p[1] < n)
<1>1. ASSUME NEW p \in Places(chn)
      PROVE  p[1] \in DOMAIN chn /\ p[1] \in Nat /\ p[2] \in Nat /\ p[2] >= 1 /\ p = <<p[1], p[2]>>
  <2>1. PICK m \in DOMAIN chn : p \in {m} \X (1 .. Len(chn[m].txs))
    BY DEF Places
  <2> QED
    BY <2>1
<1>2. n \in Nat /\ Len(chn[n].txs) \in Nat /\ i \in Nat /\ i >= 1
  BY BlockAssumption
<1>3. <<n, i>> \in Places(chn)
  BY DEF Places
<1>4. ASSUME NEW p \in Places(chn)
      PROVE  p \in Until(chn, n, i) <=> p \in Until(chn, n, i - 1) \/ p = <<n, i>>
  BY <1>1, <1>2, <1>4 DEF Until
<1>5. Until(chn, n, i) \subseteq Places(chn) /\ Until(chn, n, i - 1) \subseteq Places(chn)
  BY DEF Until
<1>6. Until(chn, n, i) = Until(chn, n, i - 1) \cup {<<n, i>>}
  BY <1>3, <1>4, <1>5
<1>7. <<n, i>> \notin Until(chn, n, i - 1)
  BY <1>2 DEF Until
<1>8. \A p \in Until(chn, n, i - 1) : p[1] \in Nat /\ p[1] <= n /\ (i = 1 => p[1] < n)
  BY <1>1, <1>2 DEF Until
<1> QED
  BY <1>2, <1>3, <1>6, <1>7, <1>8

LEMMA TxAtType ==
    ASSUME NEW chn \in Seq(Block), IsBasic(chn), NEW p \in Places(chn)
    PROVE  /\ TxAt(chn, p) \in Tx
           /\ TxAt(chn, p).coinbase <=> p[2] = 1
           /\ p[2] # 1 => Spends(TxAt(chn, p)) # {}
           /\ p[1] \in DOMAIN chn /\ p[2] \in DOMAIN chn[p[1]].txs /\ p = <<p[1], p[2]>>
<1>1. PICK m \in DOMAIN chn : p \in {m} \X (1 .. Len(chn[m].txs))
  BY DEF Places
<1>2. /\ p[1] = m /\ p[2] \in 1 .. Len(chn[m].txs) /\ p = <<p[1], p[2]>>
      /\ chn[m] \in Block /\ BlockBasic(chn[m])
  BY <1>1 DEF IsBasic
<1>3. chn[m].txs \in Seq(Tx)
  BY <1>2, BlockAssumption
<1>4. p[2] \in DOMAIN chn[m].txs /\ p[2] \in Nat /\ p[2] >= 1
  BY <1>2, <1>3
<1> DEFINE tx == chn[m].txs[p[2]]
<1>5. tx \in Tx /\ TxAt(chn, p) = tx
  BY <1>2, <1>3, <1>4 DEF TxAt
<1>6. (tx.coinbase <=> p[2] = 1) /\ (p[2] # 1 => ValidateBasic(tx))
  BY <1>2, <1>4 DEF BlockBasic
<1> HIDE DEF tx
<1>7. p[2] # 1 => Spends(tx) # {}
  <2> SUFFICES ASSUME ValidateBasic(tx) PROVE Spends(tx) # {}
    BY <1>6
  <2>1. tx.ins # <<>> /\ tx.ins \in Seq(Range(tx.ins))
    BY <1>5, TxAssumption DEF ValidateBasic
  <2>2. 1 \in DOMAIN tx.ins
    BY <2>1
  <2>3. tx.ins[1] \in Spends(tx)
    BY <2>2 DEF Spends, Range
  <2> QED
    BY <2>3
<1> QED
  BY <1>2, <1>4, <1>5, <1>6, <1>7

(* A transaction that is applied keeps the ages of what coinbases made. *)
LEMMA MaturedNext ==
    ASSUME NEW chn \in Seq(Block), IsBasic(chn), NEW n \in DOMAIN chn,
           NEW i \in 1 .. Len(chn[n].txs), NEW view, IsView(view),
           NEW first \in BOOLEAN, first <=> i = 1,
           CanApply(view, chn[n].txs[i], first, chn[n].height),
           Matured(chn, Until(chn, n, i - 1), view)
    PROVE  Matured(chn, Until(chn, n, i), Applied(view, chn[n].txs[i], first, chn[n].height))
<1> DEFINE old  == Until(chn, n, i - 1)
           new  == Until(chn, n, i)
           here == <<n, i>>
           tx   == chn[n].txs[i]
           next == Applied(view, tx, first, chn[n].height)
<1>1. /\ new = old \cup {here} /\ here \in Places(chn) /\ here \notin old
      /\ n \in Nat /\ i \in Nat
      /\ \A p \in old : p[1] \in Nat /\ p[1] <= n /\ (first => p[1] < n)
  BY UntilNext
<1>2. old \subseteq Places(chn) /\ new \subseteq Places(chn)
  BY DEF Until
<1>3. \A p \in Places(chn) : TxAt(chn, p) \in Tx /\ (TxAt(chn, p).coinbase <=> p[2] = 1)
  BY TxAtType
<1>4. TxAt(chn, here) = tx /\ here[1] = n /\ here[2] = i
  BY DEF TxAt
<1>5. chn[n].height = n - 1 /\ Maturity \in Nat
  BY ParamsAssumption DEF IsBasic
<1>6. /\ DOMAIN next = (DOMAIN view \ Removes(tx, first)) \cup Creates(tx)
      /\ \A o \in DOMAIN next :
            IF o \in Creates(tx)
            THEN next[o].height = n - 1 /\ next[o].coinbase = first
            ELSE o \in DOMAIN view /\ next[o] = view[o]
  BY <1>5 DEF Applied
<1>7. ~first => /\ Spends(tx) \subseteq DOMAIN view
                /\ \A o \in Spends(tx) : view[o].coinbase => n - 1 >= view[o].height + Maturity
  BY <1>5 DEF CanApply, InputsCover, IsSpendable
<1>8. \A p \in old : p[2] = 1 =>
          \A o \in Creates(TxAt(chn, p)) \cap DOMAIN view :
              view[o].coinbase /\ view[o].height >= p[1] - 1
  BY DEF Matured
<1>9. \A p, q \in old :
          /\ p[2] # 1 /\ q[2] = 1 /\ q[1] <= p[1]
          /\ Spends(TxAt(chn, p)) \cap Creates(TxAt(chn, q)) # {}
          => p[1] >= q[1] + Maturity
  BY DEF Matured
<1>10. \A o \in DOMAIN view : view[o].height \in Nat
  BY DEF IsView, UTXO
<1> HIDE DEF old, new, here, tx, next
<1>11. ASSUME NEW p \in new, p[2] = 1, NEW o \in Creates(TxAt(chn, p)) \cap DOMAIN next
       PROVE  next[o].coinbase /\ next[o].height >= p[1] - 1
  <2>1. p \in Places(chn) /\ p[1] \in Nat /\ p[1] <= n
    BY <1>1, <1>2, <1>4
  <2>2. CASE o \in Creates(tx)
    <3>1. TxAt(chn, p) = tx
      BY <1>1, <1>2, <1>3, <1>4, <1>11, <2>2, CreatedByOne
    <3>2. first
      BY <1>1, <1>3, <1>4, <1>11, <2>1, <3>1
    <3>3. next[o].height = n - 1 /\ next[o].coinbase = first
      BY <1>6, <1>11, <2>2
    <3>4. next[o].height >= p[1] - 1
      BY <1>1, <2>1, <3>3
    <3> QED
      BY <3>2, <3>3, <3>4
  <2>3. CASE o \notin Creates(tx)
    <3>1. o \in DOMAIN view /\ next[o] = view[o]
      BY <1>6, <1>11, <2>3
    <3>2. p # here
      BY <1>4, <1>11, <2>3
    <3>3. p \in old
      BY <1>1, <3>2
    <3> QED
      BY <1>8, <1>11, <3>1, <3>3
  <2> QED
    BY <2>2, <2>3
<1>12. ASSUME NEW p \in new, NEW q \in new, p[2] # 1, q[2] = 1, q[1] <= p[1],
              Spends(TxAt(chn, p)) \cap Creates(TxAt(chn, q)) # {}
       PROVE  p[1] >= q[1] + Maturity
  <2>1. CASE p \in old /\ q \in old
    BY <1>9, <1>12, <2>1
  <2>2. CASE p = here
    <3>1. ~first /\ p[1] = n
      BY <1>4, <1>12, <2>2
    <3>2. q \in old /\ q[1] \in Nat
      BY <1>1, <1>4, <1>12, <2>2
    <3>3. PICK o \in Spends(tx) : o \in Creates(TxAt(chn, q))
      BY <1>4, <1>12, <2>2
    <3>4. o \in DOMAIN view /\ (view[o].coinbase => n - 1 >= view[o].height + Maturity)
      BY <1>7, <3>1
    <3>5. view[o].coinbase /\ view[o].height >= q[1] - 1 /\ view[o].height \in Nat
      BY <1>8, <1>10, <1>12, <3>2, <3>3, <3>4
    <3>6. n - 1 >= view[o].height + Maturity
      BY <3>4, <3>5
    <3>7. PICK h \in Nat, k \in Nat : h = view[o].height /\ k = q[1]
      BY <3>2, <3>5
    <3>8. h >= k - 1 /\ n - 1 >= h + Maturity
      BY <3>5, <3>6, <3>7
    <3>9. n >= k + Maturity
      BY <1>1, <1>5, <3>8
    <3> QED
      BY <3>1, <3>7, <3>9
  <2>3. CASE p \in old /\ q = here
    <3>1. first /\ q[1] = n
      BY <1>4, <1>12, <2>3
    <3>2. p[1] < n /\ p[1] \in Nat
      BY <1>1, <2>3, <3>1
    <3> QED
      BY <1>1, <1>12, <3>1, <3>2
  <2> QED
    BY <1>1, <2>1, <2>2, <2>3
<1>13. Matured(chn, new, next)
  BY <1>11, <1>12 DEF Matured
<1> QED
  BY <1>13 DEF new, next, tx

(* It keeps what is spent apart from what is left, unless it is a coinbase *)
(* that the chain has already.                                             *)
LEMMA SpentOnceNext ==
    ASSUME NEW chn \in Seq(Block), IsBasic(chn), CoinbasesDiffer(chn), NEW n \in DOMAIN chn,
           NEW i \in 1 .. Len(chn[n].txs), NEW view,
           NEW first \in BOOLEAN, first <=> i = 1,
           CanApply(view, chn[n].txs[i], first, chn[n].height),
           SpentOnce(chn, Until(chn, n, i - 1), view)
    PROVE  SpentOnce(chn, Until(chn, n, i), Applied(view, chn[n].txs[i], first, chn[n].height))
<1> DEFINE old  == Until(chn, n, i - 1)
           new  == Until(chn, n, i)
           here == <<n, i>>
           tx   == chn[n].txs[i]
           next == Applied(view, tx, first, chn[n].height)
<1>1. new = old \cup {here} /\ here \in Places(chn) /\ here \notin old
  BY UntilNext
<1>2. old \subseteq Places(chn) /\ new \subseteq Places(chn)
  BY DEF Until
<1>3. \A p \in Places(chn) : /\ TxAt(chn, p) \in Tx
                             /\ TxAt(chn, p).coinbase <=> p[2] = 1
                             /\ p[2] # 1 => Spends(TxAt(chn, p)) # {}
                             /\ p[1] \in DOMAIN chn /\ p = <<p[1], p[2]>>
  BY TxAtType
<1>4. TxAt(chn, here) = tx /\ here[1] = n /\ here[2] = i /\ tx \in Tx
  <2>1. TxAt(chn, here) = tx /\ here[1] = n /\ here[2] = i
    BY DEF TxAt
  <2> QED
    BY <1>1, <1>3, <2>1
<1>5. DOMAIN next = (DOMAIN view \ Removes(tx, first)) \cup Creates(tx)
  BY DEF Applied
<1>6. ~first => Spends(tx) \subseteq DOMAIN view /\ Removes(tx, first) = Spends(tx)
  BY DEF CanApply, InputsCover, Removes
<1>7. \A o \in DOMAIN view : \E p \in old : o \in Creates(TxAt(chn, p))
  BY DEF SpentOnce
<1>8. \A p \in old : p[2] # 1 =>
          /\ Spends(TxAt(chn, p)) \cap DOMAIN view = {}
          /\ \A o \in Spends(TxAt(chn, p)) : \E q \in old : o \in Creates(TxAt(chn, q))
  BY DEF SpentOnce
<1>9. \A p, q \in old : TxAt(chn, p).id = TxAt(chn, q).id => p = q
  BY DEF SpentOnce
<1>10. \A p, q \in old : p[2] # 1 /\ q[2] # 1 /\ p # q =>
          Spends(TxAt(chn, p)) \cap Spends(TxAt(chn, q)) = {}
  BY DEF SpentOnce
<1>11. \A p \in Places(chn) : p[2] = 1 => TxAt(chn, p) = chn[p[1]].txs[1]
  BY DEF TxAt
<1>12. \A k, m \in DOMAIN chn : chn[k].txs[1].id = chn[m].txs[1].id => k = m
  BY DEF CoinbasesDiffer
<1> HIDE DEF old, new, here, tx, next
<1>13. ASSUME NEW q \in old, TxAt(chn, q).id = tx.id PROVE FALSE
  <2>1. q \in Places(chn) /\ TxAt(chn, q) \in Tx
    BY <1>2, <1>3
  <2>2. TxAt(chn, q) = tx
    BY <1>4, <1>13, <2>1, IdAssumption
  <2>3. q[2] = 1 <=> i = 1
    BY <1>1, <1>3, <1>4, <2>1, <2>2
  <2>4. CASE i = 1
    <3>1. q[2] = 1 /\ here[2] = 1
      BY <1>4, <2>3, <2>4
    <3>2. chn[q[1]].txs[1].id = chn[n].txs[1].id
      BY <1>1, <1>4, <1>11, <1>13, <2>1, <3>1
    <3>3. q[1] = n
      BY <1>3, <1>12, <2>1, <3>2
    <3>4. q = here
      BY <1>3, <2>1, <2>4, <3>1, <3>3 DEF here
    <3> QED
      BY <1>1, <3>4
  <2>5. CASE i # 1
    <3>1. Spends(tx) \subseteq DOMAIN view /\ Spends(tx) # {}
      BY <1>1, <1>3, <1>4, <1>6, <2>5
    <3>2. Spends(tx) \cap DOMAIN view = {}
      BY <1>8, <2>2, <2>3, <2>5
    <3> QED
      BY <3>1, <3>2
  <2> QED
    BY <2>4, <2>5
<1>14. ASSUME NEW q \in old, NEW o \in Creates(TxAt(chn, q)), o \in Creates(tx) PROVE FALSE
  <2>1. TxAt(chn, q) \in Tx
    BY <1>2, <1>3
  <2>2. TxAt(chn, q) = tx
    BY <1>4, <1>14, <2>1, CreatedByOne
  <2> QED
    BY <1>13, <2>2
<1>15. ASSUME NEW o \in DOMAIN next PROVE \E p \in new : o \in Creates(TxAt(chn, p))
  <2>1. CASE o \in Creates(tx)
    BY <1>1, <1>4, <2>1
  <2>2. CASE o \in DOMAIN view
    BY <1>1, <1>7, <2>2
  <2> QED
    BY <1>5, <1>15, <2>1, <2>2
<1>16. ASSUME NEW p \in new, p[2] # 1
       PROVE  /\ Spends(TxAt(chn, p)) \cap DOMAIN next = {}
              /\ \A o \in Spends(TxAt(chn, p)) : \E q \in old : o \in Creates(TxAt(chn, q))
  <2>1. CASE p \in old
    <3>1. /\ Spends(TxAt(chn, p)) \cap DOMAIN view = {}
          /\ \A o \in Spends(TxAt(chn, p)) : \E q \in old : o \in Creates(TxAt(chn, q))
      BY <1>8, <1>16, <2>1
    <3>2. Spends(TxAt(chn, p)) \cap Creates(tx) = {}
      BY <1>14, <3>1
    <3> QED
      BY <1>5, <3>1, <3>2
  <2>2. CASE p = here
    <3>1. TxAt(chn, p) = tx /\ ~first
      BY <1>4, <1>16, <2>2
    <3>2. Spends(tx) \subseteq DOMAIN view /\ Removes(tx, first) = Spends(tx)
      BY <1>6, <3>1
    <3>3. \A o \in Spends(tx) : \E q \in old : o \in Creates(TxAt(chn, q))
      BY <1>7, <3>2
    <3>4. Spends(tx) \cap Creates(tx) = {}
      BY <1>14, <3>3
    <3> QED
      BY <1>5, <3>1, <3>2, <3>3, <3>4
  <2> QED
    BY <1>1, <2>1, <2>2
<1>17. ASSUME NEW p \in new, NEW q \in new, TxAt(chn, p).id = TxAt(chn, q).id PROVE p = q
  BY <1>1, <1>4, <1>9, <1>13, <1>17
<1>18. ASSUME NEW p \in new, NEW q \in new, p[2] # 1, q[2] # 1, p # q
       PROVE  Spends(TxAt(chn, p)) \cap Spends(TxAt(chn, q)) = {}
  <2>1. ASSUME NEW r \in old, r[2] # 1, i # 1 PROVE Spends(TxAt(chn, r)) \cap Spends(tx) = {}
    <3>1. Spends(tx) \subseteq DOMAIN view
      BY <1>6, <2>1
    <3>2. Spends(TxAt(chn, r)) \cap DOMAIN view = {}
      BY <1>8, <2>1
    <3> QED
      BY <3>1, <3>2
  <2>2. CASE p \in old /\ q \in old
    BY <1>10, <1>18, <2>2
  <2>3. CASE p \in old /\ q = here
    BY <1>4, <1>18, <2>1, <2>3
  <2>4. CASE p = here /\ q \in old
    <3>1. Spends(TxAt(chn, q)) \cap Spends(tx) = {} /\ TxAt(chn, p) = tx
      BY <1>4, <1>18, <2>1, <2>4
    <3> QED
      BY <3>1
  <2> QED
    BY <1>1, <1>18, <2>2, <2>3, <2>4
<1>19. \A p \in new : p[2] # 1 =>
          /\ Spends(TxAt(chn, p)) \cap DOMAIN next = {}
          /\ \A o \in Spends(TxAt(chn, p)) : \E q \in new : o \in Creates(TxAt(chn, q))
  BY <1>1, <1>16
<1>20. SpentOnce(chn, new, next)
  BY <1>15, <1>17, <1>18, <1>19 DEF SpentOnce
<1> QED
  BY <1>20 DEF new, next, tx

History(chn, done, view) ==
    Matured(chn, done, view) /\ (CoinbasesDiffer(chn) => SpentOnce(chn, done, view))

(* The same for all transactions of a block. *)
LEMMA HistoryBlock ==
    ASSUME NEW chn \in Seq(Block), IsBasic(chn), NEW n \in DOMAIN chn, NEW view, IsView(view),
           ConnectTxs(view, chn[n]).ok, History(chn, Until(chn, n, 0), view)
    PROVE  History(chn, Until(chn, n, Len(chn[n].txs)), ConnectTxs(view, chn[n]).view)
<1> DEFINE b   == chn[n]
           len == Len(b.txs)
<1>1. b \in Block /\ len \in Nat /\ b = chn[n]
  BY BlockAssumption
<1>2. ConnectTxs(view, b).ok
  OBVIOUS
<1>0. len = Len(chn[n].txs) /\ History(chn, Until(chn, n, 0), view)
  OBVIOUS
<1> HIDE DEF b
<1> HIDE DEF len
<1>a. \E v \in [0 .. Len(b.txs) -> Views] :
          /\ v[0] = view
          /\ v[Len(b.txs)] = ConnectTxs(view, b).view
          /\ \A i \in 1 .. Len(b.txs) :
                /\ CanApply(v[i - 1], b.txs[i], i = 1, b.height)
                /\ v[i] = Applied(v[i - 1], b.txs[i], i = 1, b.height)
  BY <1>1, <1>2, ConnectTxsTrace
<1>3. PICK v \in [0 .. len -> Views] :
          /\ v[0] = view
          /\ v[len] = ConnectTxs(view, b).view
          /\ \A i \in 1 .. len : /\ CanApply(v[i - 1], b.txs[i], i = 1, b.height)
                                 /\ v[i] = Applied(v[i - 1], b.txs[i], i = 1, b.height)
  BY <1>a DEF len
<1>4. ASSUME NEW i \in 1 .. len, History(chn, Until(chn, n, i - 1), v[i - 1])
      PROVE  History(chn, Until(chn, n, i), v[i])
  <2>1. PICK first \in BOOLEAN : first <=> i = 1
    OBVIOUS
  <2>2. first = (i = 1)
    BY <2>1
  <2>3. /\ CanApply(v[i - 1], b.txs[i], first, b.height)
        /\ v[i] = Applied(v[i - 1], b.txs[i], first, b.height)
    BY <1>3, <2>2
  <2>4. i - 1 \in 0 .. len /\ i \in 1 .. Len(chn[n].txs)
    BY <1>0, <1>1
  <2>5. IsView(v[i - 1])
    BY <1>3, <2>4, ViewsAreViews
  <2>6. Matured(chn, Until(chn, n, i), v[i])
    <3>1. /\ CanApply(v[i - 1], chn[n].txs[i], first, chn[n].height)
          /\ v[i] = Applied(v[i - 1], chn[n].txs[i], first, chn[n].height)
          /\ Matured(chn, Until(chn, n, i - 1), v[i - 1])
      BY <1>1, <1>4, <2>3 DEF History
    <3>2. Matured(chn, Until(chn, n, i), Applied(v[i - 1], chn[n].txs[i], first, chn[n].height))
      BY <2>1, <2>4, <2>5, <3>1, MaturedNext
    <3> QED
      BY <3>1, <3>2
  <2>7. CoinbasesDiffer(chn) => SpentOnce(chn, Until(chn, n, i), v[i])
    <3> SUFFICES ASSUME CoinbasesDiffer(chn) PROVE SpentOnce(chn, Until(chn, n, i), v[i])
      OBVIOUS
    <3>1. /\ CanApply(v[i - 1], chn[n].txs[i], first, chn[n].height)
          /\ v[i] = Applied(v[i - 1], chn[n].txs[i], first, chn[n].height)
          /\ SpentOnce(chn, Until(chn, n, i - 1), v[i - 1])
      BY <1>1, <1>4, <2>3 DEF History
    <3>2. SpentOnce(chn, Until(chn, n, i), Applied(v[i - 1], chn[n].txs[i], first, chn[n].height))
      BY <2>1, <2>4, <3>1, SpentOnceNext
    <3> QED
      BY <3>1, <3>2
  <2> QED
    BY <2>6, <2>7 DEF History
<1> DEFINE Bad == {i \in 0 .. len : ~History(chn, Until(chn, n, i), v[i])}
<1>5. Bad = {}
  <2> SUFFICES ASSUME Bad # {} PROVE FALSE
    OBVIOUS
  <2>1. Bad \subseteq Nat
    BY <1>1
  <2> HIDE DEF Bad
  <2>2. PICK i \in Bad : \A j \in Bad : i <= j
    BY <2>1, LeastNat
  <2> USE DEF Bad
  <2>3. i \in 0 .. len /\ i # 0
    BY <1>0, <1>3, <2>2
  <2>4. i \in 1 .. len /\ i - 1 \in 0 .. len /\ ~(i <= i - 1)
    BY <1>1, <2>3
  <2>5. History(chn, Until(chn, n, i - 1), v[i - 1])
    BY <2>2, <2>4
  <2> QED
    BY <1>4, <2>2, <2>4, <2>5
<1>6. len \in 0 .. len
  BY <1>1
<1>7. History(chn, Until(chn, n, len), v[len])
  BY <1>5, <1>6
<1> QED
  BY <1>0, <1>1, <1>3, <1>7

(* The end of a block is the beginning of the next. *)
LEMMA UntilBlocks ==
    ASSUME NEW chn \in Seq(Block)
    PROVE  /\ Until(chn, 1, 0) = {}
           /\ Until(chn, Len(chn) + 1, 0) = Places(chn)
           /\ \A n \in DOMAIN chn : Until(chn, n + 1, 0) = Until(chn, n, Len(chn[n].txs))
<1>1. ASSUME NEW p \in Places(chn)
      PROVE  /\ p[1] \in 1 .. Len(chn) /\ p[1] \in Nat /\ p[2] \in Nat /\ p[2] >= 1
             /\ p[2] <= Len(chn[p[1]].txs)
  <2>1. PICK m \in DOMAIN chn : p \in {m} \X (1 .. Len(chn[m].txs))
    BY DEF Places
  <2>2. p[1] = m /\ p[2] \in 1 .. Len(chn[m].txs) /\ chn[m] \in Block
    BY <2>1
  <2>3. Len(chn[m].txs) \in Nat
    BY <2>2, BlockAssumption
  <2> QED
    BY <2>2, <2>3
<1>2. Until(chn, 1, 0) = {}
  <2> SUFFICES ASSUME NEW p \in Until(chn, 1, 0) PROVE FALSE
    OBVIOUS
  <2>1. p \in Places(chn) /\ (p[1] < 1 \/ (p[1] = 1 /\ p[2] <= 0))
    BY DEF Until
  <2> QED
    BY <1>1, <2>1
<1>3. Until(chn, Len(chn) + 1, 0) = Places(chn)
  <2>1. ASSUME NEW p \in Places(chn) PROVE p[1] < Len(chn) + 1
    BY <1>1
  <2> QED
    BY <2>1 DEF Until
<1>4. ASSUME NEW n \in DOMAIN chn PROVE Until(chn, n + 1, 0) = Until(chn, n, Len(chn[n].txs))
  <2>1. n \in Nat
    OBVIOUS
  <2>2. ASSUME NEW p \in Places(chn)
        PROVE  (p[1] < n + 1 \/ (p[1] = n + 1 /\ p[2] <= 0))
                   <=> (p[1] < n \/ (p[1] = n /\ p[2] <= Len(chn[n].txs)))
    BY <1>1, <2>1
  <2> QED
    BY <2>2 DEF Until
<1> QED
  BY <1>2, <1>3, <1>4

LEMMA NothingSpent ==
    ASSUME NEW chn PROVE History(chn, {}, NoUTXOs)
BY DEF History, Matured, SpentOnce, NoUTXOs

(* The history of a chain that replays. *)
LEMMA HistoryOf ==
    ASSUME NEW chn \in Seq(Block), IsBasic(chn), RebuildUTXO(chn).ok
    PROVE  History(chn, Places(chn), RebuildUTXO(chn).utxos)
<1> DEFINE len  == Len(chn)
           H(n) == History(chn, Until(chn, n + 1, 0), Replayed(chn, n).utxos)
           Bad  == {n \in 0 .. len : ~H(n)}
<1>1. len \in Nat /\ Len(chn) = len
  OBVIOUS
<1> HIDE DEF len
<1>2. H(0)
  <2>1. Replayed(chn, 0).utxos = NoUTXOs
    BY ReplayedNothing DEF NothingReplayed
  <2>2. Until(chn, 0 + 1, 0) = {}
    BY UntilBlocks
  <2> QED
    BY <2>1, <2>2, NothingSpent
<1>3. ASSUME NEW n \in 1 .. len, H(n - 1) PROVE H(n)
  <2>1. n \in 1 .. Len(chn) /\ n \in DOMAIN chn /\ n \in 0 .. Len(chn) /\ n - 1 \in 0 .. Len(chn)
        /\ (n - 1) + 1 = n
    BY <1>1
  <2>2. /\ Replayed(chn, n) = ReplayStep(Replayed(chn, n - 1), chn[n])
        /\ IsLedgerState(Replayed(chn, n - 1))
    BY <2>1, ReplayedNext
  <2>3. Replayed(chn, n).ok /\ Replayed(chn, n - 1).ok
    BY <2>1, ReplayedOk
  <2> DEFINE before == Replayed(chn, n - 1).utxos
  <2>4. /\ ConnectTxs(before, chn[n]).ok
        /\ Replayed(chn, n).utxos = ConnectTxs(before, chn[n]).view
    BY <2>2, <2>3 DEF ReplayStep, ConnectBlock
  <2>5. IsView(before)
    BY <2>2 DEF IsLedgerState
  <2>6. History(chn, Until(chn, n, 0), before)
    BY <1>3, <2>1
  <2> HIDE DEF before
  <2>7. History(chn, Until(chn, n, Len(chn[n].txs)), ConnectTxs(before, chn[n]).view)
    BY <2>1, <2>4, <2>5, <2>6, HistoryBlock
  <2>8. Until(chn, n + 1, 0) = Until(chn, n, Len(chn[n].txs))
    BY <2>1, UntilBlocks
  <2> QED
    BY <2>4, <2>7, <2>8
<1> HIDE DEF H
<1>4. Bad = {}
  <2> SUFFICES ASSUME Bad # {} PROVE FALSE
    OBVIOUS
  <2>1. Bad \subseteq Nat
    BY <1>1
  <2> HIDE DEF Bad
  <2>2. PICK n \in Bad : \A j \in Bad : n <= j
    BY <2>1, LeastNat
  <2> USE DEF Bad
  <2>3. n \in 0 .. len /\ n # 0
    BY <1>2, <2>2
  <2>4. n \in 1 .. len /\ n - 1 \in 0 .. len /\ ~(n <= n - 1)
    BY <1>1, <2>3
  <2>5. H(n - 1)
    BY <2>2, <2>4
  <2> QED
    BY <1>3, <2>2, <2>4, <2>5
<1>5. len \in 0 .. len
  BY <1>1
<1>6. H(len)
  BY <1>4, <1>5
<1>7. Until(chn, len + 1, 0) = Places(chn) /\ Replayed(chn, len) = RebuildUTXO(chn)
  BY <1>1, UntilBlocks, ReplayedAll
<1> QED
  BY <1>6, <1>7 DEF H

-----------------------------------------------------------------------------
(* What a block leaves alone, and when it connects.                        *)

(* An output that a transaction does not spend stays as it is. *)
LEMMA AppliedLeaves ==
    ASSUME NEW view, NEW tx, NEW first, NEW height, CanApply(view, tx, first, height)
    PROVE  LET new == Applied(view, tx, first, height)
           IN  /\ DOMAIN new \subseteq DOMAIN view \cup Creates(tx)
               /\ \A o \in DOMAIN view \ Removes(tx, first) :
                     o \in DOMAIN new /\ new[o] = view[o]
<1>1. Creates(tx) \cap (DOMAIN view \ Removes(tx, first)) = {}
  BY DEF CanApply
<1> QED
  BY <1>1 DEF Applied

(* Nor does one that none of a block spends. *)
LEMMA UntouchedStays ==
    ASSUME NEW b \in Block, NEW view, IsView(view), ConnectTxs(view, b).ok,
           NEW o \in DOMAIN view, \A i \in 2 .. Len(b.txs) : o \notin Spends(b.txs[i])
    PROVE  /\ o \in DOMAIN ConnectTxs(view, b).view
           /\ ConnectTxs(view, b).view[o] = view[o]
<1> DEFINE len == Len(b.txs)
<1>1. len \in Nat
  BY BlockAssumption
<1>2. PICK v \in [0 .. len -> Views] :
          /\ v[0] = view
          /\ v[len] = ConnectTxs(view, b).view
          /\ \A i \in 1 .. len :
                /\ CanApply(v[i - 1], b.txs[i], i = 1, b.height)
                /\ v[i] = Applied(v[i - 1], b.txs[i], i = 1, b.height)
  BY ConnectTxsTrace
<1>t. \A i \in 2 .. len : o \notin Spends(b.txs[i])
  OBVIOUS
<1> HIDE DEF len
<1> DEFINE Stays(i) == o \in DOMAIN v[i] /\ v[i][o] = view[o]
           Bad == {i \in 0 .. len : ~Stays(i)}
<1>3. ASSUME NEW i \in 1 .. len, Stays(i - 1) PROVE Stays(i)
  <2> DEFINE tx == b.txs[i]
             before == v[i - 1]
  <2>1. /\ CanApply(before, tx, i = 1, b.height)
        /\ v[i] = Applied(before, tx, i = 1, b.height)
    BY <1>2
  <2>2. o \notin Removes(tx, i = 1)
    BY <1>1, <1>t DEF Removes
  <2>3. o \in DOMAIN before /\ before[o] = view[o]
    BY <1>3
  <2> HIDE DEF tx, before
  <2>4. /\ o \in DOMAIN Applied(before, tx, i = 1, b.height)
        /\ Applied(before, tx, i = 1, b.height)[o] = before[o]
    BY <2>1, <2>2, <2>3, AppliedLeaves
  <2> QED
    BY <2>1, <2>3, <2>4
<1>4. Stays(0)
  BY <1>2
<1> HIDE DEF Stays
<1>5. Bad = {}
  <2> SUFFICES ASSUME Bad # {} PROVE FALSE
    OBVIOUS
  <2>1. Bad \subseteq Nat
    BY <1>1
  <2> HIDE DEF Bad
  <2>2. PICK i \in Bad : \A j \in Bad : i <= j
    BY <2>1, LeastNat
  <2> USE DEF Bad
  <2>3. i \in 1 .. len /\ i - 1 \in 0 .. len /\ ~(i <= i - 1)
    BY <1>1, <1>4, <2>2
  <2>4. Stays(i - 1)
    BY <2>2, <2>3
  <2> QED
    BY <1>3, <2>2, <2>3, <2>4
<1>6. Stays(len)
  BY <1>1, <1>5
<1> QED
  BY <1>2, <1>6 DEF Stays

(* A transaction whose inputs are as they were in a view that covers them  *)
(* can be applied.                                                         *)
LEMMA StillApplies ==
    ASSUME NEW view, NEW before, NEW tx, NEW first, NEW height,
           ~first => /\ ValidateBasic(tx) /\ InputsCover(view, tx, height)
                     /\ \A o \in Spends(tx) : o \in DOMAIN before /\ before[o] = view[o],
           \A n \in DOMAIN tx.outs : tx.outs[n] \in 1 .. MaxSupply,
           Creates(tx) \cap DOMAIN before = {}
    PROVE  CanApply(before, tx, first, height)
<1>1. ASSUME ~first PROVE InputsCover(before, tx, height)
  <2>1. [o \in Spends(tx) |-> before[o].amount] = [o \in Spends(tx) |-> view[o].amount]
    BY <1>1
  <2>2. InputSum(before, tx) = InputSum(view, tx)
    BY <2>1 DEF InputSum
  <2> QED
    BY <1>1, <2>2 DEF InputsCover
<1> QED
  BY <1>1 DEF CanApply

(* Transactions that each spend from the view what no other one spends,    *)
(* and create what is not there, can be applied one after the other.       *)
LEMMA BlockConnects ==
    ASSUME NEW b \in Block, NEW view, IsView(view),
           \A i \in 1 .. Len(b.txs) : /\ Creates(b.txs[i]) \cap DOMAIN view = {}
                                      /\ \A n \in DOMAIN b.txs[i].outs :
                                            b.txs[i].outs[n] \in 1 .. MaxSupply,
           \A i \in 2 .. Len(b.txs) : /\ ValidateBasic(b.txs[i])
                                      /\ InputsCover(view, b.txs[i], b.height),
           \A i, j \in 1 .. Len(b.txs) : b.txs[i].id = b.txs[j].id => i = j,
           \A i, j \in 2 .. Len(b.txs) :
               i # j => Spends(b.txs[i]) \cap Spends(b.txs[j]) = {}
    PROVE  ConnectTxs(view, b).ok
<1> DEFINE len == Len(b.txs)
<1>1. len \in Nat
  BY BlockAssumption
<1>2. PICK after \in [0 .. len -> Progress] :
          /\ after[0] = [ok |-> TRUE, view |-> view]
          /\ \A i \in 1 .. len : after[i] = TxStep(after[i - 1], b, i)
          /\ ConnectTxs(view, b) = after[len]
  BY ConnectTxsSteps
<1>t. /\ \A i \in 1 .. len : /\ Creates(b.txs[i]) \cap DOMAIN view = {}
                             /\ \A n \in DOMAIN b.txs[i].outs : b.txs[i].outs[n] \in 1 .. MaxSupply
      /\ \A i \in 2 .. len : ValidateBasic(b.txs[i]) /\ InputsCover(view, b.txs[i], b.height)
      /\ \A i, j \in 1 .. len : b.txs[i].id = b.txs[j].id => i = j
      /\ \A i, j \in 2 .. len : i # j => Spends(b.txs[i]) \cap Spends(b.txs[j]) = {}
  OBVIOUS
<1> HIDE DEF len
<1> DEFINE Left(i) == {o \in DOMAIN view : \A j \in 2 .. i : o \notin Spends(b.txs[j])}
           Made(i) == UNION {Creates(b.txs[j]) : j \in 1 .. i}
           Good(i) == /\ after[i].ok
                      /\ DOMAIN after[i].view \subseteq DOMAIN view \cup Made(i)
                      /\ \A o \in Left(i) : o \in DOMAIN after[i].view /\ after[i].view[o] = view[o]
           Bad == {i \in 0 .. len : ~Good(i)}
<1>3. Good(0)
  BY <1>2
<1>4. ASSUME NEW i \in 1 .. len, Good(i - 1) PROVE Good(i)
  <2> DEFINE tx == b.txs[i]
             before == after[i - 1].view
             new == Applied(before, tx, i = 1, b.height)
  <2>1. /\ after[i - 1].ok
        /\ DOMAIN before \subseteq DOMAIN view \cup Made(i - 1)
        /\ \A o \in Left(i - 1) : o \in DOMAIN before /\ before[o] = view[o]
    BY <1>4
  <2>2. Creates(tx) \cap DOMAIN before = {}
    <3>1. ASSUME NEW o \in Creates(tx), NEW j \in 1 .. i - 1 PROVE o \notin Creates(b.txs[j])
      <4>1. j \in 1 .. len /\ j # i
        BY <1>1
      <4>2. tx.id # b.txs[j].id
        BY <1>t, <4>1
      <4>3. o[1] = tx.id /\ (o \in Creates(b.txs[j]) => o[1] = b.txs[j].id)
        BY DEF Creates
      <4> QED
        BY <4>2, <4>3
    <3>2. Creates(tx) \cap DOMAIN view = {}
      BY <1>t
    <3> HIDE DEF tx, before
    <3> QED
      BY <2>1, <3>1, <3>2
  <2>3. CanApply(before, tx, i = 1, b.height)
    <3>1. ASSUME i # 1
          PROVE  /\ ValidateBasic(tx) /\ InputsCover(view, tx, b.height)
                 /\ Spends(tx) \subseteq Left(i - 1)
      <4>1. i \in 2 .. len /\ \A j \in 2 .. i - 1 : j \in 2 .. len /\ j # i
        BY <1>1, <3>1
      <4>2. ValidateBasic(tx) /\ InputsCover(view, tx, b.height)
        BY <1>t, <4>1
      <4>3. \A j \in 2 .. i - 1 : Spends(tx) \cap Spends(b.txs[j]) = {}
        BY <1>t, <4>1
      <4>4. Spends(tx) \subseteq DOMAIN view
        BY <4>2 DEF InputsCover
      <4> QED
        BY <4>2, <4>3, <4>4
    <3>2. \A n \in DOMAIN tx.outs : tx.outs[n] \in 1 .. MaxSupply
      BY <1>t
    <3>3. i # 1 => \A o \in Spends(tx) : o \in DOMAIN before /\ before[o] = view[o]
      BY <2>1, <3>1
    <3> HIDE DEF tx, before, Left
    <3> QED
      BY <2>2, <3>1, <3>2, <3>3, StillApplies
  <2>4. after[i] = [ok |-> TRUE, view |-> new]
    <3>1. after[i] = TxStep(after[i - 1], b, i)
      BY <1>2
    <3> QED
      BY <2>1, <2>3, <3>1 DEF TxStep
  <2>5. /\ DOMAIN new \subseteq DOMAIN before \cup Creates(tx)
        /\ \A o \in DOMAIN before \ Removes(tx, i = 1) : o \in DOMAIN new /\ new[o] = before[o]
    <3> HIDE DEF tx, before
    <3> QED
      BY <2>3, AppliedLeaves
  <2>6. DOMAIN new \subseteq DOMAIN view \cup Made(i)
    <3>1. Made(i - 1) \cup Creates(tx) \subseteq Made(i)
      BY <1>1
    <3> HIDE DEF Made, new, before, tx
    <3> QED
      BY <2>1, <2>5, <3>1
  <2>7. ASSUME NEW o \in Left(i) PROVE o \in DOMAIN new /\ new[o] = view[o]
    <3>1. o \in Left(i - 1)
      BY <1>1
    <3>2. o \notin Removes(tx, i = 1)
      <4>1. i = 1 \/ i \in 2 .. i
        BY <1>1
      <4> QED
        BY <4>1 DEF Removes
    <3> HIDE DEF Left, new, before, tx
    <3> QED
      BY <2>1, <2>5, <3>1, <3>2
  <2> HIDE DEF new, Made, Left
  <2> QED
    BY <2>4, <2>6, <2>7
<1> HIDE DEF Good
<1>5. Bad = {}
  <2> SUFFICES ASSUME Bad # {} PROVE FALSE
    OBVIOUS
  <2>1. Bad \subseteq Nat
    BY <1>1
  <2> HIDE DEF Bad
  <2>2. PICK i \in Bad : \A j \in Bad : i <= j
    BY <2>1, LeastNat
  <2> USE DEF Bad
  <2>3. i \in 1 .. len /\ i - 1 \in 0 .. len /\ ~(i <= i - 1)
    BY <1>1, <1>3, <2>2
  <2>4. Good(i - 1)
    BY <2>2, <2>3
  <2> QED
    BY <1>4, <2>2, <2>3, <2>4
<1>6. Good(len)
  BY <1>1, <1>5
<1> QED
  BY <1>2, <1>6 DEF Good

-----------------------------------------------------------------------------
(* What several transactions pay in fees.                                  *)

(* What is spent by transactions that spend from a view, each something    *)
(* else, is worth no more than the view, and so are their fees.            *)
LEMMA FeesWithinWorth ==
    ASSUME NEW view, IsSound(view), NEW K, IsFiniteSet(K), NEW t, \A k \in K : t[k] \in Tx,
           \A k \in K : Spends(t[k]) \subseteq DOMAIN view,
           \A k, l \in K : k # l => Spends(t[k]) \cap Spends(t[l]) = {},
           NEW fee, \A k \in K : fee[k] \in Nat /\ fee[k] = FeeOf(t[k])
    PROVE  SumFunctionOnSet(fee, K) <= Worth(DOMAIN view)
<1> DEFINE Spent(s) == UNION {Spends(t[k]) : k \in s}
           Total(s) == SumFunctionOnSet(fee, s)
           Bad == {s \in SUBSET K : ~(Total(s) <= Worth(Spent(s)))}
<1>1. \A s \in SUBSET K : Spent(s) \in SUBSET DOMAIN view
  OBVIOUS
<1>2. \A s \in SUBSET K : /\ IsFiniteSet(s) /\ Total(s) \in Nat
                          /\ IsFiniteSet(Spent(s)) /\ Worth(Spent(s)) \in Nat
  <2> TAKE s \in SUBSET K
  <2>1. IsFiniteSet(s) /\ Total(s) \in Nat
    BY FS_Subset, SumNat
  <2>2. Spent(s) \in SUBSET DOMAIN view
    BY <1>1
  <2> HIDE DEF Spent, Total
  <2> QED
    BY <2>1, <2>2, WorthType
<1>3. ASSUME NEW s \in SUBSET K, NEW k \in s, Total(s \ {k}) <= Worth(Spent(s \ {k}))
      PROVE  Total(s) <= Worth(Spent(s))
  <2> DEFINE rest == s \ {k}
  <2>1. rest \in SUBSET K /\ k \in K
    OBVIOUS
  <2>2. Total(s) = fee[k] + Total(rest)
    <3>1. \A x \in K : fee[x] \in Int
      OBVIOUS
    <3>2. IsFiniteSet(s) /\ \A x \in s : fee[x] \in Int
      BY <1>2, <3>1
    <3> QED
      BY <3>2, SumRemove
  <2>3. fee[k] = Worth(Spends(t[k])) - OutputSum(t[k])
    BY <2>1 DEF FeeOf
  <2>4. OutputSum(t[k]) \in Nat
    BY <2>1, OutputSumType
  <2>5. Spends(t[k]) \in SUBSET DOMAIN view /\ Spends(t[k]) \cap Spent(rest) = {}
    BY <2>1
  <2>6. Spent(s) = Spends(t[k]) \cup Spent(rest)
    OBVIOUS
  <2>7. IsFiniteSet(Spends(t[k])) /\ Worth(Spends(t[k])) \in Nat
    BY <2>5, WorthType
  <2>8. IsFiniteSet(Spent(rest)) /\ Worth(Spent(rest)) \in Nat /\ Total(rest) \in Nat
    BY <1>2, <2>1
  <2>9. \A o \in Spends(t[k]) \cup Spent(rest) : Amount[o] \in Int
    <3>1. Spends(t[k]) \cup Spent(rest) \in SUBSET DOMAIN view
      BY <1>1, <2>1, <2>5
    <3>2. \A o \in Spends(t[k]) \cup Spent(rest) : Amount[o] \in Nat
      BY <3>1, WorthType
    <3> QED
      BY <3>2
  <2> HIDE DEF rest, Spent, Total
  <2>10. Worth(Spends(t[k]) \cup Spent(rest)) = Worth(Spends(t[k])) + Worth(Spent(rest))
    BY <2>5, <2>7, <2>8, <2>9, SumDisjoint DEF Worth
  <2>11. fee[k] \in Nat /\ Total(rest) <= Worth(Spent(rest))
    BY <1>3, <2>1 DEF rest
  <2> DEFINE paid == Worth(Spends(t[k]))
             below == Worth(Spent(rest))
             out == OutputSum(t[k])
  <2>12. /\ Total(s) = fee[k] + Total(rest) /\ fee[k] = paid - out
         /\ Worth(Spent(s)) = paid + below /\ Total(rest) <= below
         /\ paid \in Nat /\ below \in Nat /\ out \in Nat /\ fee[k] \in Nat /\ Total(rest) \in Nat
    BY <2>2, <2>3, <2>4, <2>6, <2>7, <2>8, <2>10, <2>11
  <2> HIDE DEF paid, below, out
  <2> QED
    BY <2>12
<1>4. Total({}) <= Worth(Spent({}))
  <2>1. Spent({}) = {}
    OBVIOUS
  <2>2. Total({}) = 0 /\ Worth({}) = 0
    BY SumOfNothing DEF Worth
  <2> HIDE DEF Spent, Total
  <2> QED
    BY <2>1, <2>2
<1> HIDE DEF Spent, Total
<1>5. Bad = {}
  <2> SUFFICES ASSUME Bad # {} PROVE FALSE
    OBVIOUS
  <2>1. Bad \subseteq SUBSET K
    OBVIOUS
  <2> HIDE DEF Bad
  <2>2. PICK s \in Bad : \A u \in SUBSET s : u # s => u \notin Bad
    BY <2>1, MinimalSet
  <2> USE DEF Bad
  <2>3. s \in SUBSET K /\ ~(Total(s) <= Worth(Spent(s)))
    BY <2>2
  <2>4. PICK k \in s : TRUE
    BY <1>4, <2>3
  <2>5. s \ {k} \in SUBSET s /\ s \ {k} # s /\ s \ {k} \in SUBSET K
    BY <2>3, <2>4
  <2>6. s \ {k} \notin Bad
    BY <2>2, <2>5
  <2>7. Total(s \ {k}) <= Worth(Spent(s \ {k}))
    BY <2>5, <2>6
  <2> QED
    BY <1>3, <2>3, <2>4, <2>7
<1>6. K \in SUBSET K
  OBVIOUS
<1>7. Total(K) <= Worth(Spent(K)) /\ Total(K) \in Nat
  BY <1>2, <1>5, <1>6
<1>8. /\ Worth(Spent(K)) <= Worth(DOMAIN view)
      /\ Worth(Spent(K)) \in Nat /\ Worth(DOMAIN view) \in Nat
  <2>1. DOMAIN view \in SUBSET DOMAIN view
    OBVIOUS
  <2>2. IsFiniteSet(DOMAIN view) /\ \A o \in DOMAIN view : Amount[o] \in Nat
    BY <2>1, WorthType
  <2> QED
    BY <1>1, <1>6, <2>2, SumMonotone DEF Worth
<1> QED
  BY <1>7, <1>8 DEF Total

-----------------------------------------------------------------------------
(* What the model's operators return. *)

(* Load stops at the first height without a file. *)
LEMMA StoredBlocksShape ==
    ASSUME NEW fs
    PROVE  \E n \in 0 .. MaxHeight + 1 :
              /\ StoredBlocks(fs) = [i \in 1 .. n |-> fs[i - 1]]
              /\ \A h \in Heights : h < n => fs[h] # NoFile
              /\ n \in Heights => fs[n] = NoFile
<1> DEFINE First(n) == /\ \A h \in Heights : h < n => fs[h] # NoFile
                       /\ n \in Heights => fs[n] = NoFile
           Gaps == {h \in Heights : fs[h] = NoFile}
<1>1. MaxHeight \in Nat
  BY BoundsAssumption
<1>2. \E n \in 0 .. MaxHeight + 1 : First(n)
  <2>1. CASE Gaps = {}
    <3>1. MaxHeight + 1 \in 0 .. MaxHeight + 1 /\ MaxHeight + 1 \notin Heights
      BY <1>1 DEF Heights
    <3> QED
      BY <2>1, <3>1
  <2>2. CASE Gaps # {}
    <3>1. Gaps \subseteq Nat
      BY <1>1 DEF Heights
    <3> HIDE DEF Gaps
    <3>2. PICK n \in Gaps : \A k \in Gaps : n <= k
      BY <2>2, <3>1, LeastNat
    <3> USE DEF Gaps
    <3>3. n \in 0 .. MaxHeight + 1 /\ fs[n] = NoFile
      BY <1>1, <3>2 DEF Heights
    <3>4. ASSUME NEW h \in Heights, h < n PROVE fs[h] # NoFile
      <4>1. h \in Nat /\ n \in Nat /\ ~(n <= h)
        BY <1>1, <3>3, <3>4 DEF Heights
      <4> QED
        BY <3>2, <4>1
    <3> QED
      BY <3>3, <3>4
  <2> QED
    BY <2>1, <2>2
<1> DEFINE count == CHOOSE n \in 0 .. MaxHeight + 1 : First(n)
<1>3. count \in 0 .. MaxHeight + 1 /\ First(count)
  BY <1>2
<1>4. StoredBlocks(fs) = [i \in 1 .. count |-> fs[i - 1]]
  BY DEF StoredBlocks
<1> HIDE DEF count
<1> QED
  BY <1>3, <1>4

(* What Load returns without an error is a sequence of blocks. *)
LEMMA StoredBlocksType ==
    ASSUME NEW fs \in [Heights -> Block \cup {NoFile, Torn}], CanLoad(fs)
    PROVE  StoredBlocks(fs) \in Seq(Block)
<1>1. PICK n \in 0 .. MaxHeight + 1 :
          /\ StoredBlocks(fs) = [i \in 1 .. n |-> fs[i - 1]]
          /\ \A h \in Heights : h < n => fs[h] # NoFile
  BY StoredBlocksShape
<1>2. MaxHeight \in Nat /\ n \in Nat
  BY BoundsAssumption
<1>3. ASSUME NEW i \in 1 .. n PROVE fs[i - 1] \in Block
  <2>1. i - 1 \in Heights /\ i - 1 < n
    BY <1>2 DEF Heights
  <2>2. fs[i - 1] # NoFile
    BY <1>1, <2>1
  <2>3. StoredBlocks(fs)[i] # Torn
    BY <1>1 DEF CanLoad
  <2> QED
    BY <1>1, <2>1, <2>2, <2>3
<1>4. [i \in 1 .. n |-> fs[i - 1]] \in [1 .. n -> Block]
  BY <1>3
<1> QED
  BY <1>1, <1>2, <1>4

LEMMA WithBlockType ==
    ASSUME NEW i, IsIndex(i), NEW b \in Block
    PROVE  IsIndex(WithBlock(i, b))
BY DEF IsIndex, WithBlock

LEMMA LoadedIndexType ==
    ASSUME NEW R \in SUBSET Block, NEW i \in LoadedIndexes(R)
    PROVE  IsIndex(i)
BY NoBlockAssumption DEF LoadedIndexes, IsIndex

LEMMA PoolTypes ==
    ASSUME NEW p, IsPool(p)
    PROVE  /\ \A tx \in Tx : \A view : IsPool(WithTransaction(p, tx, view))
           /\ \A b : IsPool(WithoutConfirmed(p, b))
BY DEF IsPool, WithTransaction, WithoutConfirmed, Entries, Restrict

(* A block that ConnectBlock accepts leaves the view and the supply typed. *)
LEMMA ConnectedType ==
    ASSUME IsView(utxos), IsSupply(minted), NEW b \in Block
    PROVE  IsView(Connected(b).utxos) /\ IsSupply(Connected(b).minted)
<1>1. IsLedgerState(Connected(b))
  BY ConnectBlockType DEF Connected
<1> QED
  BY <1>1 DEF IsLedgerState

-----------------------------------------------------------------------------
(* Type correctness, and the limit of the supply that the types of the     *)
(* view and of the supply rest on: IsSupply is what makes the subtraction  *)
(* in Subsidy a natural number.                                            *)

TypeInv == TypeOK /\ IsSupply(minted)

LEMMA TypeInit == Init => TypeInv
<1>1. ASSUME Init PROVE TypeInv
  <2>1. IsView(utxos)
    BY <1>1, NoUTXOsType DEF Init
  <2>2. IsPool(pool) /\ IsIndex(index)
    BY <1>1 DEF Init, IsPool, EmptyPool, IsIndex, EmptyIndex
  <2>3. chain \in Seq(Block) /\ files \in [Heights -> Block \cup {NoFile, Torn}]
    BY <1>1 DEF Init
  <2>4. minted \in Nat /\ IsSupply(minted)
    BY <1>1, ParamsAssumption DEF Init, IsSupply
  <2>5. /\ faults \in [FaultKinds -> Nat]
        /\ disconnects \in 0 .. MaxDisconnects
        /\ rows \subseteq Block
    BY <1>1, BoundsAssumption DEF Init
  <2>6. up \in BOOLEAN
    BY <1>1, Zenon DEF Init
  <2> QED
    BY <2>1, <2>2, <2>3, <2>4, <2>5, <2>6 DEF TypeInv, TypeOK
<1> QED
  BY <1>1

(* Every way of adding a block, or of failing to, keeps the types. *)
LEMMA ExtendType ==
    ASSUME TypeInv, NEW b \in Block, Extend(b)
    PROVE  /\ chain' \in Seq(Block)
           /\ IsView(utxos') /\ IsSupply(minted') /\ minted' \in Nat
           /\ IsPool(pool')
           /\ IsIndex(index')
           /\ index'.known \subseteq Block
<1>1. IsView(utxos) /\ IsSupply(minted) /\ IsPool(pool) /\ IsIndex(index) /\ chain \in Seq(Block)
  BY DEF TypeInv, TypeOK
<1>2. IsView(Connected(b).utxos) /\ IsSupply(Connected(b).minted)
  BY <1>1, ConnectedType
<1>3. IsPool(pool')
  BY <1>1, PoolTypes DEF Extend
<1>4. IsIndex(index')
  BY <1>1, WithBlockType DEF Extend
<1>5. chain' \in Seq(Block)
  BY <1>1 DEF Extend
<1>6. utxos' = Connected(b).utxos /\ minted' = Connected(b).minted
  BY DEF Extend
<1>7. minted' \in Nat /\ index'.known \subseteq Block
  BY <1>2, <1>4, <1>6 DEF IsSupply, IsIndex
<1> QED
  BY <1>2, <1>3, <1>4, <1>5, <1>6, <1>7

LEMMA FaultType ==
    ASSUME faults \in [FaultKinds -> Nat], NEW kind \in FaultKinds, Fault(kind)
    PROVE  /\ faults' \in [FaultKinds -> Nat]
           /\ faults'[kind] # 0
           /\ \A k \in FaultKinds : faults'[k] = 0 => faults[k] = 0
BY DEF Fault

LEMMA TypeStep == TypeInv /\ [Next]_vars => TypeInv'
<1> SUFFICES ASSUME TypeInv, [Next]_vars PROVE TypeInv'
  OBVIOUS
<1> USE DEF TypeInv
<1>0. /\ IsView(utxos) /\ IsSupply(minted)
      /\ Genesis \in Block /\ <<Genesis>> \in Seq(Block)
      /\ 0 \in Heights /\ MaxHeight \in Nat
  BY GenesisAssumption, BoundsAssumption DEF TypeOK, Heights
<1>1. CASE OpenExisting
  <2>1. StoredBlocks(files) \in Seq(Block)
    BY <1>1, StoredBlocksType DEF OpenExisting, TypeOK
  <2>2. IsLedgerState(RebuildUTXO(StoredBlocks(files)))
    BY <2>1, RebuildType
  <2>3. IsView(utxos') /\ IsSupply(minted')
    BY <1>1, <2>2 DEF OpenExisting, IsLedgerState
  <2>4. IsPool(pool')
    BY <1>1 DEF OpenExisting, EmptyPool, IsPool
  <2>5. IsIndex(index')
    BY <1>1, LoadedIndexType DEF OpenExisting, TypeOK
  <2>6. minted' \in Nat
    BY <2>3 DEF IsSupply
  <2>7. up' = TRUE /\ chain' \in Seq(Block) /\ UNCHANGED <<files, rows, faults, disconnects>>
    BY <1>1, <2>1 DEF OpenExisting, disk
  <2> QED
    BY <2>3, <2>4, <2>5, <2>6, <2>7 DEF TypeOK
<1>2. CASE OpenFresh
  <2>1. IsLedgerState(RebuildUTXO(<<Genesis>>))
    BY <1>0, RebuildType
  <2>2. IsView(utxos') /\ IsSupply(minted')
    BY <1>2, <2>1 DEF OpenFresh, IsLedgerState
  <2>3. IsPool(pool')
    BY <1>2 DEF OpenFresh, EmptyPool, IsPool
  <2>4. IsIndex(index')
    BY <1>0, <1>2, LoadedIndexType, WithBlockType DEF OpenFresh, TypeOK
  <2>5. minted' \in Nat
    BY <2>2 DEF IsSupply
  <2>6. rows' \subseteq Block
    BY <1>2, <2>4 DEF OpenFresh, IsIndex
  <2>7. faults' \in [FaultKinds -> Nat] /\ files' \in [Heights -> Block \cup {NoFile, Torn}]
    BY <1>0, <1>2, FaultType DEF OpenFresh, TypeOK, FaultKinds
  <2>8. up' = TRUE /\ chain' \in Seq(Block) /\ UNCHANGED disconnects
    BY <1>0, <1>2 DEF OpenFresh
  <2> QED
    BY <2>2, <2>3, <2>4, <2>5, <2>6, <2>7, <2>8 DEF TypeOK
<1>3. CASE OpenFreshFails
  <2>1. faults' \in [FaultKinds -> Nat]
    BY <1>3, FaultType DEF OpenFreshFails, TypeOK, FaultKinds
  <2>2. files' \in [Heights -> Block \cup {NoFile, Torn}] /\ rows' \subseteq Block
    BY <1>0, <1>3 DEF OpenFreshFails, TypeOK
  <2> QED
    BY <1>3, <2>1, <2>2 DEF OpenFreshFails, TypeOK, memory
<1>4. CASE Exit
  BY <1>4 DEF Exit, TypeOK, memory, disk
<1>5. CASE AddAnyBlock
  <2> PICK b \in Block : \/ AddBlock(b)
                         \/ AddBlockStoreFails(b)
                         \/ AddBlockSaveFails(b)
                         \/ AddBlockCrashes(b)
                         \/ AddBlockTears(b)
    BY <1>5 DEF AddAnyBlock
  <2>1. CASE AddBlock(b)
    <3>1. Extend(b)
      BY <2>1 DEF AddBlock
    <3>2. files' \in [Heights -> Block \cup {NoFile, Torn}]
      BY <2>1 DEF AddBlock, TypeOK
    <3> QED
      BY <2>1, <3>1, <3>2, ExtendType DEF AddBlock, TypeOK
  <2>2. CASE AddBlockStoreFails(b)
    <3>1. IsView(utxos') /\ IsSupply(minted')
      BY <1>0, <2>2, ConnectedType DEF AddBlockStoreFails
    <3>2. minted' \in Nat
      BY <3>1 DEF IsSupply
    <3>3. b.height \in Heights
      BY <1>0, <2>2, BlockAssumption DEF AddBlockStoreFails, CanAdd, Heights
    <3>4. files' \in [Heights -> Block \cup {NoFile, Torn}]
      BY <2>2, <3>3 DEF AddBlockStoreFails, TypeOK
    <3>5. faults' \in [FaultKinds -> Nat]
      BY <2>2, FaultType DEF AddBlockStoreFails, TypeOK, FaultKinds
    <3> QED
      BY <2>2, <3>1, <3>2, <3>4, <3>5 DEF AddBlockStoreFails, TypeOK
  <2>3. CASE AddBlockSaveFails(b)
    <3>1. Extend(b)
      BY <2>3 DEF AddBlockSaveFails
    <3>2. files' \in [Heights -> Block \cup {NoFile, Torn}]
      BY <2>3 DEF AddBlockSaveFails, TypeOK
    <3>3. faults' \in [FaultKinds -> Nat]
      BY <2>3, FaultType DEF AddBlockSaveFails, TypeOK, FaultKinds
    <3>4. rows' \subseteq Block
      BY <2>3, <3>1, ExtendType DEF AddBlockSaveFails, TypeOK
    <3> QED
      BY <2>3, <3>1, <3>2, <3>3, <3>4, ExtendType DEF AddBlockSaveFails, TypeOK
  <2>4. CASE AddBlockCrashes(b)
    <3>1. b.height \in Heights
      BY <1>0, <2>4, BlockAssumption DEF AddBlockCrashes, CanAdd, Heights
    <3>2. files' \in [Heights -> Block \cup {NoFile, Torn}]
      BY <2>4, <3>1 DEF AddBlockCrashes, TypeOK
    <3>3. IsIndex(WithBlock(index, b))
      BY WithBlockType DEF TypeOK
    <3>4. rows' \subseteq Block
      BY <2>4, <3>3 DEF AddBlockCrashes, TypeOK, IsIndex
    <3>5. faults' \in [FaultKinds -> Nat]
      BY <2>4, FaultType DEF AddBlockCrashes, TypeOK, FaultKinds
    <3> QED
      BY <2>4, <3>2, <3>4, <3>5 DEF AddBlockCrashes, TypeOK, memory
  <2>5. CASE AddBlockTears(b)
    <3>1. Extend(b)
      BY <2>5 DEF AddBlockTears
    <3>2. files' \in [Heights -> Block \cup {NoFile, Torn}]
      BY <2>5 DEF AddBlockTears, TypeOK
    <3>3. faults' \in [FaultKinds -> Nat]
      BY <2>5, FaultType DEF AddBlockTears, TypeOK, FaultKinds
    <3> QED
      BY <2>5, <3>1, <3>2, <3>3, ExtendType DEF AddBlockTears, TypeOK
  <2> QED
    BY <2>1, <2>2, <2>3, <2>4, <2>5
<1>6. CASE DisconnectTip
  <2>1. chain' \in Seq(Block)
    BY <1>6 DEF DisconnectTip, TypeOK
  <2>2. IsLedgerState(RebuildUTXO(chain'))
    BY <2>1, RebuildType
  <2>3. IsView(utxos') /\ IsSupply(minted')
    BY <1>6, <2>2 DEF DisconnectTip, IsLedgerState
  <2>4. minted' \in Nat
    BY <2>3 DEF IsSupply
  <2>5. disconnects' \in 0 .. MaxDisconnects
    BY <1>6, BoundsAssumption DEF DisconnectTip, TypeOK
  <2> QED
    BY <1>6, <2>1, <2>3, <2>4, <2>5 DEF DisconnectTip, TypeOK, disk
<1>7. CASE \E tx \in Tx : AddTransactionToMempool(tx)
  <2>1. IsPool(pool')
    BY <1>7, PoolTypes DEF AddTransactionToMempool, TypeOK
  <2> QED
    BY <1>7, <2>1 DEF AddTransactionToMempool, TypeOK, disk
<1>8. CASE UNCHANGED vars
  BY <1>8 DEF vars, memory, disk, TypeOK
<1> QED
  BY <1>1, <1>2, <1>3, <1>4, <1>5, <1>6, <1>7, <1>8 DEF Next

(* Every variable keeps the type of the member or file it stands for.      *)
THEOREM TypeCorrect == Spec => []TypeOK
<1>1. TypeInv => TypeOK
  BY DEF TypeInv
<1> QED
  BY <1>1, TypeInit, TypeStep, PTL DEF Spec

(* The supply never exceeds its limit, whatever blocks are offered, and    *)
(* whichever calls fail.                                                   *)
THEOREM SupplyWithinLimit == Spec => []MintedWithinLimit
<1>1. TypeInv => MintedWithinLimit
  BY DEF TypeInv, IsSupply, MintedWithinLimit
<1> QED
  BY <1>1, TypeInit, TypeStep, PTL DEF Spec


-----------------------------------------------------------------------------
(* The mempool: PoolConsistent is inductive as it stands. *)

IsConsistentPool(p) ==
    /\ p.spent = UNION {Spends(tx) : tx \in Entries(p)}
    /\ \A s, t \in Entries(p) : s # t => Spends(s) \cap Spends(t) = {}

(* Accepting a transaction: DetectConflicts keeps the new one apart from   *)
(* the union of what the entries spend, hence from each of them.           *)
LEMMA AcceptConsistent ==
    ASSUME NEW p, IsConsistentPool(p), NEW tx, NEW view, ~Conflicts(p, tx)
    PROVE  IsConsistentPool(WithTransaction(p, tx, view))
<1> DEFINE q == WithTransaction(p, tx, view)
<1>1. Entries(q) = Entries(p) \cup {tx} /\ q.spent = p.spent \cup Spends(tx)
  BY DEF WithTransaction, Entries
<1>2. \A t \in Entries(p) : Spends(t) \subseteq p.spent /\ Spends(t) \cap Spends(tx) = {}
  BY DEF IsConsistentPool, Conflicts
<1>3. \A s, t \in Entries(q) : s # t => Spends(s) \cap Spends(t) = {}
  BY <1>1, <1>2 DEF IsConsistentPool
<1>4. UNION {Spends(t) : t \in Entries(q)} = p.spent \cup Spends(tx)
  BY <1>1 DEF IsConsistentPool
<1> QED
  BY <1>1, <1>3, <1>4 DEF IsConsistentPool

(* Removing what a block confirmed: what the removed entries spend is      *)
(* spent by no entry that stays.                                           *)
LEMMA RemoveConsistent ==
    ASSUME NEW p, IsConsistentPool(p), NEW b
    PROVE  IsConsistentPool(WithoutConfirmed(p, b))
<1> DEFINE q == WithoutConfirmed(p, b)
           confirmed == {t \in Entries(p) : \E i \in DOMAIN b.txs : b.txs[i].id = t.id}
           gone == UNION {Spends(tx) : tx \in confirmed}
<1>1. Entries(q) = Entries(p) \ confirmed /\ q.spent = p.spent \ gone
  BY DEF WithoutConfirmed, Entries, Restrict
<1>2. confirmed \subseteq Entries(p)
  OBVIOUS
<1> HIDE DEF q, confirmed
<1>3. ASSUME NEW o, o \in p.spent \ gone PROVE o \in UNION {Spends(t) : t \in Entries(q)}
  <2>1. PICK t \in Entries(p) : o \in Spends(t)
    BY <1>3 DEF IsConsistentPool
  <2>2. t \notin confirmed
    BY <1>3, <2>1
  <2> QED
    BY <1>1, <2>1, <2>2
<1>4. ASSUME NEW o, o \in UNION {Spends(t) : t \in Entries(q)} PROVE o \in p.spent \ gone
  <2>1. PICK t \in Entries(p) \ confirmed : o \in Spends(t)
    BY <1>1, <1>4
  <2>2. \A c \in confirmed : o \notin Spends(c)
    BY <1>2, <2>1 DEF IsConsistentPool
  <2> QED
    BY <2>1, <2>2 DEF IsConsistentPool
<1>5. q.spent = UNION {Spends(t) : t \in Entries(q)}
  BY <1>1, <1>3, <1>4
<1>6. \A s, t \in Entries(q) : s # t => Spends(s) \cap Spends(t) = {}
  BY <1>1 DEF IsConsistentPool
<1> QED
  BY <1>5, <1>6 DEF IsConsistentPool, q

LEMMA PoolStep == PoolConsistent /\ [Next]_vars => PoolConsistent'
<1> SUFFICES ASSUME PoolConsistent, [Next]_vars PROVE PoolConsistent'
  OBVIOUS
<1>1. IsConsistentPool(pool)
  BY DEF PoolConsistent, IsConsistentPool
<1>2. IsConsistentPool(EmptyPool)
  BY DEF IsConsistentPool, EmptyPool, Entries
<1>3. CASE UNCHANGED pool
  BY <1>3 DEF PoolConsistent
<1>4. CASE pool' = EmptyPool
  BY <1>2, <1>4 DEF PoolConsistent, IsConsistentPool
<1>5. CASE \E b \in Block : Extend(b)
  <2>1. IsConsistentPool(pool')
    BY <1>1, <1>5, RemoveConsistent DEF Extend
  <2> QED
    BY <2>1 DEF PoolConsistent, IsConsistentPool
<1>6. CASE \E tx \in Tx : AddTransactionToMempool(tx)
  <2>1. IsConsistentPool(pool')
    BY <1>1, <1>6, AcceptConsistent DEF AddTransactionToMempool, Accepts
  <2> QED
    BY <2>1 DEF PoolConsistent, IsConsistentPool
<1>7. CASE AddAnyBlock
  <2>1. UNCHANGED pool \/ \E b \in Block : Extend(b)
    BY <1>7 DEF AddAnyBlock, AddBlock, AddBlockStoreFails, AddBlockSaveFails,
                AddBlockCrashes, AddBlockTears, memory
  <2> QED
    BY <1>3, <1>5, <2>1
<1>8. CASE OpenExisting \/ OpenFresh
  BY <1>4, <1>8 DEF OpenExisting, OpenFresh
<1>9. CASE OpenFreshFails \/ Exit \/ DisconnectTip \/ UNCHANGED vars
  BY <1>3, <1>9 DEF OpenFreshFails, Exit, DisconnectTip, vars, memory
<1> QED
  BY <1>6, <1>7, <1>8, <1>9 DEF Next

(* The outpoints the mempool takes for spent are those its entries spend,  *)
(* each by one entry only.                                                 *)
THEOREM PoolIsConsistent == Spec => []PoolConsistent
<1>1. Init => PoolConsistent
  BY DEF Init, PoolConsistent, EmptyPool, Entries
<1> QED
  BY <1>1, PoolStep, PTL DEF Spec

-----------------------------------------------------------------------------
(* The chain and its files. *)

(* ChainOnDisk holds while no process runs, too, of the chain the last one *)
(* had; that takes files filed under their own height, none of them torn,  *)
(* and a genesis block in every chain that is open.                        *)
DiskInv ==
    /\ TypeInv
    /\ \A n \in DOMAIN chain : n - 1 \in Heights /\ files[n - 1] = chain[n]
    /\ \A h \in Heights : files[h] # Torn /\ (files[h] # NoFile => files[h].height = h)
    /\ up => chain # <<>>

(* The block AddBlock stores goes above every block of the chain. *)
LEMMA AddsAbove ==
    ASSUME DiskInv, NEW b \in Block, CanAdd(b)
    PROVE  b.height = Len(chain) /\ b.height \in Heights
<1>1. chain \in Seq(Block) /\ chain # <<>> /\ MaxHeight \in Nat
  BY BoundsAssumption DEF DiskInv, TypeInv, TypeOK, CanAdd
<1>2. Len(chain) \in DOMAIN chain /\ Len(chain) \in Nat /\ chain[Len(chain)] \in Block
  BY <1>1
<1>3. Len(chain) - 1 \in Heights /\ files[Len(chain) - 1] = chain[Len(chain)]
  BY <1>2 DEF DiskInv
<1>4. chain[Len(chain)].height = Len(chain) - 1
  BY <1>2, <1>3, FileAssumption DEF DiskInv
<1>5. b.height = chain[Len(chain)].height + 1 /\ b.height <= MaxHeight
  BY <1>1 DEF CanAdd, ValidateBlock, Height, Tip
<1> QED
  BY <1>1, <1>2, <1>4, <1>5 DEF Heights

(* Whatever happens to the file above the chain, the chain stays on disk.  *)
LEMMA FileAbove ==
    ASSUME DiskInv, NEW b \in Block, CanAdd(b), NEW left \in {files[b.height], NoFile, b},
           files' = [files EXCEPT ![b.height] = left]
    PROVE  /\ \A n \in DOMAIN chain : n - 1 \in Heights /\ files'[n - 1] = chain[n]
           /\ \A h \in Heights : files'[h] # Torn /\ (files'[h] # NoFile => files'[h].height = h)
<1>1. b.height = Len(chain) /\ b.height \in Heights /\ chain \in Seq(Block)
  BY AddsAbove DEF DiskInv, TypeInv, TypeOK
<1>2. DOMAIN files = Heights
  BY DEF DiskInv, TypeInv, TypeOK
<1>3. files'[b.height] = left /\ \A h \in Heights \ {b.height} : files'[h] = files[h]
  BY <1>1, <1>2
<1>4. ASSUME NEW n \in DOMAIN chain PROVE n - 1 \in Heights /\ files'[n - 1] = chain[n]
  <2>1. n - 1 \in Heights \ {b.height} /\ files[n - 1] = chain[n]
    BY <1>1 DEF DiskInv
  <2> QED
    BY <1>3, <2>1
<1>5. ASSUME NEW h \in Heights
      PROVE  files'[h] # Torn /\ (files'[h] # NoFile => files'[h].height = h)
  <2>1. files[h] # Torn /\ (files[h] # NoFile => files[h].height = h)
    BY DEF DiskInv
  <2>2. CASE h = b.height
    BY <1>3, <2>1, <2>2, FileAssumption
  <2>3. CASE h # b.height
    BY <1>3, <2>1, <2>3
  <2> QED
    BY <2>2, <2>3
<1> QED
  BY <1>4, <1>5

(* Once that file is the block, the longer chain is on disk as well. *)
LEMMA FileOfNewTip ==
    ASSUME DiskInv, NEW b \in Block, CanAdd(b), Extend(b),
           files' = [files EXCEPT ![b.height] = b]
    PROVE  /\ \A n \in DOMAIN chain' : n - 1 \in Heights /\ files'[n - 1] = chain'[n]
           /\ chain' # <<>>
<1>1. b.height = Len(chain) /\ b.height \in Heights /\ chain \in Seq(Block) /\ DOMAIN files = Heights
  BY AddsAbove DEF DiskInv, TypeInv, TypeOK
<1>2. \A n \in DOMAIN chain : n - 1 \in Heights /\ files'[n - 1] = chain[n]
  BY FileAbove
<1>3. chain' = Append(chain, b)
  BY DEF Extend
<1>4. files'[Len(chain)] = b
  BY <1>1
<1>5. ASSUME NEW n \in DOMAIN chain' PROVE n - 1 \in Heights /\ files'[n - 1] = chain'[n]
  <2>1. CASE n \in DOMAIN chain
    BY <1>1, <1>2, <1>3, <2>1
  <2>2. CASE n = Len(chain) + 1
    BY <1>1, <1>3, <1>4, <2>2
  <2> QED
    BY <1>1, <1>3, <2>1, <2>2
<1> QED
  BY <1>1, <1>3, <1>5

(* Opening a directory brings the chain back, with whatever lies above it. *)
LEMMA OpenedChain ==
    ASSUME DiskInv, CanLoad(files), files[0] # NoFile
    PROVE  LET new == StoredBlocks(files)
           IN  /\ new # <<>>
               /\ \A n \in DOMAIN new : n - 1 \in Heights /\ files[n - 1] = new[n]
               /\ Len(chain) <= Len(new)
               /\ chain = SubSeq(new, 1, Len(chain))
<1>1. PICK n \in 0 .. MaxHeight + 1 :
          /\ StoredBlocks(files) = [i \in 1 .. n |-> files[i - 1]]
          /\ n \in Heights => files[n] = NoFile
  BY StoredBlocksShape
<1> DEFINE new == StoredBlocks(files)
<1>2. MaxHeight \in Nat /\ n \in Nat /\ n <= MaxHeight + 1 /\ chain \in Seq(Block) /\ 0 \in Heights
  BY BoundsAssumption DEF DiskInv, TypeInv, TypeOK, Heights
<1>3. new \in Seq(Block) /\ Len(new) = n /\ \A i \in 1 .. n : new[i] = files[i - 1]
  <2>1. new \in Seq(Block)
    BY StoredBlocksType DEF DiskInv, TypeInv, TypeOK
  <2>2. DOMAIN new = 1 .. n /\ \A i \in 1 .. n : new[i] = files[i - 1]
    BY <1>1
  <2> HIDE DEF new
  <2>3. Len(new) \in Nat /\ DOMAIN new = 1 .. Len(new)
    BY <2>1
  <2>4. Len(new) = n
    BY <1>2, <2>2, <2>3
  <2> QED
    BY <2>1, <2>2, <2>4
<1>4. n # 0
  BY <1>1, <1>2
<1>5. ASSUME NEW k \in DOMAIN new PROVE k - 1 \in Heights /\ files[k - 1] = new[k]
  BY <1>2, <1>3 DEF Heights
<1>6. Len(chain) <= n
  <2> SUFFICES ASSUME ~(Len(chain) <= n) PROVE FALSE
    OBVIOUS
  <2>1. n + 1 \in DOMAIN chain
    BY <1>2
  <2>2. n \in Heights /\ files[n] = chain[n + 1]
    BY <1>2, <2>1 DEF DiskInv
  <2>3. chain[n + 1] \in Block
    BY <1>2, <2>1
  <2> QED
    BY <1>1, <2>2, <2>3, FileAssumption
<1>7. ASSUME NEW k \in 1 .. Len(chain) PROVE chain[k] = new[k]
  BY <1>2, <1>3, <1>6 DEF DiskInv
<1>8. chain = SubSeq(new, 1, Len(chain))
  BY <1>2, <1>3, <1>6, <1>7
<1> HIDE DEF new
<1>9. new # <<>>
  BY <1>3, <1>4
<1> QED
  BY <1>3, <1>5, <1>6, <1>8, <1>9 DEF new

LEMMA DiskInit == Init => DiskInv
<1>1. ASSUME Init PROVE DiskInv
  <2>1. chain = <<>> /\ ~up /\ files = [h \in Heights |-> NoFile] /\ TypeInv
    BY <1>1, TypeInit DEF Init
  <2> QED
    BY <2>1, FileAssumption DEF DiskInv
<1> QED
  BY <1>1

(* No chain has been open while there is no genesis file. *)
LEMMA NothingYet ==
    ASSUME DiskInv, files[0] = NoFile
    PROVE  chain = <<>>
<1>1. chain \in Seq(Block)
  BY DEF DiskInv, TypeInv, TypeOK
<1>2. ASSUME chain # <<>> PROVE FALSE
  <2>1. 1 \in DOMAIN chain /\ chain[1] \in Block
    BY <1>1, <1>2
  <2>2. files[0] = chain[1]
    BY <2>1 DEF DiskInv
  <2> QED
    BY <2>1, <2>2, FileAssumption
<1> QED
  BY <1>2

(* Failures are never forgotten. *)
LEMMA NeverBefore ==
    ASSUME TypeInv, [Next]_vars, Never("flush")'
    PROVE  Never("flush")
<1>1. faults \in [FaultKinds -> Nat] /\ "flush" \in FaultKinds
  BY DEF TypeInv, TypeOK, FaultKinds
<1>2. \/ UNCHANGED faults
      \/ \E kind \in FaultKinds : Fault(kind)
  <2>1. {"store", "save", "crash", "flush"} \subseteq FaultKinds
    BY DEF FaultKinds
  <2> QED
    BY <2>1 DEF Next, vars, OpenExisting, OpenFresh, OpenFreshFails, Exit, AddAnyBlock, AddBlock,
                AddBlockStoreFails, AddBlockSaveFails, AddBlockCrashes, AddBlockTears,
                DisconnectTip, AddTransactionToMempool
<1> QED
  BY <1>1, <1>2, FaultType DEF Never

LEMMA DiskStep ==
    ASSUME DiskInv, [Next]_vars, Never("flush"), Never("flush")'
    PROVE  DiskInv'
<1> USE DEF Never
<1>f. ~Fault("flush")
  <2>1. faults \in [FaultKinds -> Nat] /\ "flush" \in FaultKinds
    BY DEF DiskInv, TypeInv, TypeOK, FaultKinds
  <2> QED
    BY <2>1, FaultType
<1>0. /\ TypeInv'
      /\ chain \in Seq(Block) /\ files \in [Heights -> Block \cup {NoFile, Torn}]
      /\ 0 \in Heights /\ Genesis.height = 0 /\ Genesis # Torn /\ Genesis # NoFile
  BY TypeStep, BoundsAssumption, GenesisAssumption, FileAssumption
  DEF DiskInv, TypeInv, TypeOK, Heights
<1>1. CASE OpenExisting
  <2>1. files' = files /\ chain' = StoredBlocks(files) /\ CanLoad(files) /\ files[0] # NoFile
    BY <1>1 DEF OpenExisting, disk
  <2>2. /\ chain' # <<>>
        /\ \A n \in DOMAIN chain' : n - 1 \in Heights /\ files'[n - 1] = chain'[n]
    BY <2>1, OpenedChain
  <2>3. \A h \in Heights : files'[h] # Torn /\ (files'[h] # NoFile => files'[h].height = h)
    BY <2>1 DEF DiskInv
  <2> QED
    BY <1>0, <2>2, <2>3 DEF DiskInv
<1>2. CASE OpenFresh
  <2>1. chain' = <<Genesis>> /\ files' = [files EXCEPT ![0] = Genesis]
    BY <1>2, <1>f DEF OpenFresh
  <2>2. files'[0] = Genesis /\ \A h \in Heights \ {0} : files'[h] = files[h]
    BY <1>0, <2>1
  <2>3. \A h \in Heights : files'[h] # Torn /\ (files'[h] # NoFile => files'[h].height = h)
    BY <1>0, <2>2 DEF DiskInv
  <2>4. \A n \in DOMAIN chain' : n - 1 \in Heights /\ files'[n - 1] = chain'[n]
    BY <1>0, <2>1, <2>2
  <2>5. chain' # <<>>
    BY <2>1
  <2> QED
    BY <1>0, <2>3, <2>4, <2>5 DEF DiskInv
<1>3. CASE OpenFreshFails
  <2>1. chain = <<>> /\ chain' = chain /\ up' = up /\ ~up /\ files' = [files EXCEPT ![0] = Genesis]
    BY <1>3, NothingYet DEF OpenFreshFails, memory
  <2>2. files'[0] = Genesis /\ \A h \in Heights \ {0} : files'[h] = files[h]
    BY <1>0, <2>1
  <2>3. \A h \in Heights : files'[h] # Torn /\ (files'[h] # NoFile => files'[h].height = h)
    BY <1>0, <2>2 DEF DiskInv
  <2> QED
    BY <1>0, <2>1, <2>3 DEF DiskInv
<1>4. CASE AddAnyBlock
  <2> PICK b \in Block : \/ AddBlock(b)
                         \/ AddBlockStoreFails(b)
                         \/ AddBlockSaveFails(b)
                         \/ AddBlockCrashes(b)
                         \/ AddBlockTears(b)
    BY <1>4 DEF AddAnyBlock
  <2>1. CASE AddBlock(b) \/ AddBlockSaveFails(b)
    <3>1. CanAdd(b) /\ Extend(b) /\ files' = [files EXCEPT ![b.height] = b]
      BY <2>1 DEF AddBlock, AddBlockSaveFails
    <3>2. \A h \in Heights : files'[h] # Torn /\ (files'[h] # NoFile => files'[h].height = h)
      BY <3>1, FileAbove
    <3> QED
      BY <1>0, <3>1, <3>2, FileOfNewTip DEF DiskInv
  <2>2. CASE AddBlockStoreFails(b)
    <3>1. CanAdd(b) /\ chain' = chain /\ up' = up
      BY <2>2 DEF AddBlockStoreFails
    <3>2. PICK left \in {files[b.height], NoFile, b} : files' = [files EXCEPT ![b.height] = left]
      BY <2>2 DEF AddBlockStoreFails
    <3>3. /\ \A n \in DOMAIN chain : n - 1 \in Heights /\ files'[n - 1] = chain[n]
          /\ \A h \in Heights : files'[h] # Torn /\ (files'[h] # NoFile => files'[h].height = h)
      BY <3>1, <3>2, FileAbove
    <3> QED
      BY <1>0, <3>1, <3>3 DEF DiskInv
  <2>3. CASE AddBlockCrashes(b)
    <3>1. CanAdd(b) /\ chain' = chain /\ up' = FALSE
      BY <2>3 DEF AddBlockCrashes, memory
    <3>2. PICK left \in {files[b.height], NoFile, b} : files' = [files EXCEPT ![b.height] = left]
      BY <2>3 DEF AddBlockCrashes
    <3>3. /\ \A n \in DOMAIN chain : n - 1 \in Heights /\ files'[n - 1] = chain[n]
          /\ \A h \in Heights : files'[h] # Torn /\ (files'[h] # NoFile => files'[h].height = h)
      BY <3>1, <3>2, FileAbove
    <3> QED
      BY <1>0, <3>1, <3>3 DEF DiskInv
  <2>4. CASE AddBlockTears(b)
    BY <2>4, <1>f DEF AddBlockTears
  <2> QED
    BY <2>1, <2>2, <2>3, <2>4
<1>5. CASE DisconnectTip
  <2>1. chain' = SubSeq(chain, 1, Len(chain) - 1) /\ Len(chain) > 1 /\ files' = files
    BY <1>5 DEF DisconnectTip, disk
  <2>2. Len(chain') = Len(chain) - 1 /\ \A n \in 1 .. Len(chain) - 1 : chain'[n] = chain[n]
    BY <1>0, <2>1
  <2>3. chain' \in Seq(Block) /\ Len(chain') > 0
    BY <1>0, <2>1, <2>2 DEF TypeInv, TypeOK
  <2>4. DOMAIN chain' = 1 .. Len(chain) - 1 /\ chain' # <<>>
    BY <2>2, <2>3
  <2>5. \A n \in DOMAIN chain' : n - 1 \in Heights /\ files'[n - 1] = chain'[n]
    BY <1>0, <2>1, <2>2, <2>4 DEF DiskInv
  <2> QED
    BY <1>0, <2>1, <2>4, <2>5 DEF DiskInv
<1>6. CASE Exit \/ UNCHANGED vars \/ \E tx \in Tx : AddTransactionToMempool(tx)
  <2>1. chain' = chain /\ files' = files /\ (up' => up)
    BY <1>6 DEF Exit, vars, memory, disk, AddTransactionToMempool
  <2> QED
    BY <1>0, <2>1 DEF DiskInv
<1> QED
  BY <1>1, <1>2, <1>3, <1>4, <1>5, <1>6 DEF Next

(* What survives without a failed flush, and what survives anyhow. *)
FlushInv == TypeInv /\ (Never("flush") => DiskInv)

LEMMA FlushInit == Init => FlushInv
BY DiskInit DEF FlushInv, DiskInv

LEMMA FlushStep == FlushInv /\ [Next]_vars => FlushInv'
<1> SUFFICES ASSUME FlushInv, [Next]_vars PROVE FlushInv'
  OBVIOUS
<1>1. TypeInv /\ TypeInv'
  BY TypeStep DEF FlushInv
<1>2. ASSUME Never("flush")' PROVE DiskInv'
  <2>1. Never("flush")
    BY <1>1, <1>2, NeverBefore
  <2> QED
    BY <1>2, <2>1, DiskStep DEF FlushInv
<1> QED
  BY <1>1, <1>2 DEF FlushInv

(* As long as no write has returned Ok over a truncated file, every block  *)
(* of the open chain is in its file, whatever else failed or was cut off.  *)
THEOREM ChainStaysOnDisk == Spec => []ChainOnDisk
<1>1. FlushInv => ChainOnDisk
  BY DEF FlushInv, DiskInv, ChainOnDisk
<1> QED
  BY <1>1, FlushInit, FlushStep, PTL DEF Spec

(* As long as no write has returned Ok over a truncated file, a restart    *)
(* loses no block of the chain the process before it had.                  *)
THEOREM RestartLosesNothing == Spec => ReopenExtends
<1> DEFINE Extends == ~up /\ up' /\ Never("flush") /\ Never("flush")' =>
                          /\ Len(chain) <= Len(chain')
                          /\ chain = SubSeq(chain', 1, Len(chain))
<1>1. ASSUME FlushInv, Next PROVE Extends
  <2> SUFFICES ASSUME ~up, up', Never("flush")
               PROVE  /\ Len(chain) <= Len(chain')
                      /\ chain = SubSeq(chain', 1, Len(chain))
    OBVIOUS
  <2>0. DiskInv
    BY <1>1 DEF FlushInv
  <2>1. OpenExisting \/ OpenFresh
    BY <1>1 DEF Next, OpenFreshFails, Exit, AddAnyBlock, AddBlock, AddBlockStoreFails,
                AddBlockSaveFails, AddBlockCrashes, AddBlockTears, CanAdd, DisconnectTip,
                AddTransactionToMempool
  <2>2. CASE OpenExisting
    BY <2>0, <2>2, OpenedChain DEF OpenExisting
  <2>3. CASE OpenFresh
    <3>1. chain = <<>> /\ chain' = <<Genesis>>
      BY <2>0, <2>3, NothingYet DEF OpenFresh
    <3> QED
      BY <3>1
  <2> QED
    BY <2>1, <2>2, <2>3
<1>2. FlushInv /\ [Next]_vars => [Extends]_vars
  BY <1>1
<1> QED
  BY <1>2, FlushInit, FlushStep, PTL DEF Spec, ReopenExtends

Entry == Block \cup {Torn}
Files == [Heights -> Entry \cup {NoFile}]

-----------------------------------------------------------------------------
(* What Load reads, as a function of the files. *)

(* Load reads as many blocks as there are files without a gap. *)
LEMMA StoredShape ==
    ASSUME NEW fs \in Files, NEW n \in Nat, n <= MaxHeight + 1,
           \A h \in Heights : h < n => fs[h] # NoFile,
           n \in Heights => fs[n] = NoFile
    PROVE  /\ StoredBlocks(fs) = [i \in 1 .. n |-> fs[i - 1]]
           /\ StoredBlocks(fs) \in Seq(Entry)
           /\ Len(StoredBlocks(fs)) = n
<1>1. PICK m \in 0 .. MaxHeight + 1 :
          /\ StoredBlocks(fs) = [i \in 1 .. m |-> fs[i - 1]]
          /\ \A h \in Heights : h < m => fs[h] # NoFile
          /\ m \in Heights => fs[m] = NoFile
  BY StoredBlocksShape
<1>2. MaxHeight \in Nat /\ Heights = 0 .. MaxHeight
  BY BoundsAssumption DEF Heights
<1>3. m = n
  <2>1. ~(m < n)
    <3>1. ASSUME m < n PROVE m \in Heights
      BY <1>2, <3>1
    <3> QED
      BY <1>1, <3>1
  <2>2. ~(n < m)
    <3>1. ASSUME n < m PROVE n \in Heights
      BY <1>2, <3>1
    <3> QED
      BY <1>1, <3>1
  <2> QED
    BY <1>2, <2>1, <2>2
<1>4. ASSUME NEW i \in 1 .. n PROVE fs[i - 1] \in Entry
  <2>1. i - 1 \in Heights /\ i - 1 < n
    BY <1>2
  <2> QED
    BY <2>1 DEF Files
<1>5. [i \in 1 .. n |-> fs[i - 1]] \in Seq(Entry)
  BY <1>4
<1> QED
  BY <1>1, <1>3, <1>5

(* The same, with the number named by the length of what is read. *)
LEMMA StoredLength ==
    ASSUME NEW fs \in Files
    PROVE  LET n == Len(StoredBlocks(fs))
           IN  /\ n \in Nat /\ n <= MaxHeight + 1
               /\ StoredBlocks(fs) = [i \in 1 .. n |-> fs[i - 1]]
               /\ StoredBlocks(fs) \in Seq(Entry)
               /\ \A h \in Heights : h < n => fs[h] # NoFile
               /\ n \in Heights => fs[n] = NoFile
<1>1. PICK n \in 0 .. MaxHeight + 1 :
          /\ \A h \in Heights : h < n => fs[h] # NoFile
          /\ n \in Heights => fs[n] = NoFile
  BY StoredBlocksShape
<1>2. n \in Nat /\ n <= MaxHeight + 1
  BY BoundsAssumption
<1> QED
  BY <1>1, <1>2, StoredShape

(* Where the files reach, what is read reaches. *)
LEMMA StoredReaches ==
    ASSUME NEW fs \in Files, NEW c \in Nat, c <= MaxHeight + 1,
           \A h \in Heights : h < c => fs[h] # NoFile
    PROVE  c <= Len(StoredBlocks(fs))
<1> DEFINE n == Len(StoredBlocks(fs))
<1>1. n \in Nat /\ (n \in Heights => fs[n] = NoFile)
  BY StoredLength
<1> HIDE DEF n
<1>2. MaxHeight \in Nat /\ Heights = 0 .. MaxHeight
  BY BoundsAssumption DEF Heights
<1>3. ASSUME n < c PROVE FALSE
  BY <1>1, <1>2, <1>3
<1> QED
  BY <1>1, <1>3 DEF n

(* A file that is written at the end of the first c files follows them in  *)
(* what is read, and ends it when there is no file above.                  *)
LEMMA WrittenAt ==
    ASSUME NEW fs \in Files, NEW c \in Heights, NEW x \in Entry,
           \A h \in Heights : h < c => fs[h] # NoFile
    PROVE  LET new == StoredBlocks([fs EXCEPT ![c] = x])
               kept == Append(SubSeq(StoredBlocks(fs), 1, c), x)
           IN  /\ new \in Seq(Entry)
               /\ Store!IsPrefixOf(kept, new)
               /\ (\A h \in Heights : h > c => fs[h] = NoFile) => new = kept
<1> DEFINE gs == [fs EXCEPT ![c] = x]
           new == StoredBlocks(gs)
           old == StoredBlocks(fs)
           kept == Append(SubSeq(old, 1, c), x)
<1>1. MaxHeight \in Nat /\ Heights = 0 .. MaxHeight /\ c \in Nat /\ c <= MaxHeight
  BY BoundsAssumption DEF Heights
<1>2. x # NoFile
  BY FileAssumption DEF Entry
<1>3. gs \in Files /\ gs[c] = x /\ \A h \in Heights : h # c => gs[h] = fs[h]
  BY DEF Files
<1>4. \A h \in Heights : h < c + 1 => gs[h] # NoFile
  <2>1. ASSUME NEW h \in Heights, h < c + 1 PROVE gs[h] # NoFile
    <3>1. h = c \/ h < c
      BY <1>1, <2>1
    <3> QED
      BY <1>1, <1>2, <1>3, <3>1
  <2> QED
    BY <2>1
<1> HIDE DEF gs
<1>5. c <= Len(old) /\ c + 1 <= Len(new)
  <2>1. c <= MaxHeight + 1 /\ c + 1 \in Nat /\ c + 1 <= MaxHeight + 1
    BY <1>1
  <2>2. c <= Len(old)
    BY <1>1, <2>1, StoredReaches
  <2>3. c + 1 <= Len(new)
    BY <1>3, <1>4, <2>1, StoredReaches
  <2> QED
    BY <2>2, <2>3
<1>6. /\ old \in Seq(Entry) /\ Len(old) \in Nat
      /\ old = [i \in 1 .. Len(old) |-> fs[i - 1]]
  BY StoredLength
<1>7. /\ new \in Seq(Entry) /\ Len(new) \in Nat
      /\ new = [i \in 1 .. Len(new) |-> gs[i - 1]]
  BY <1>3, StoredLength
<1>8. \A i \in 1 .. c : old[i] = fs[i - 1] /\ new[i] = fs[i - 1]
  <2>1. ASSUME NEW i \in 1 .. c PROVE old[i] = fs[i - 1] /\ new[i] = fs[i - 1]
    <3>1. i \in 1 .. Len(old) /\ i \in 1 .. Len(new) /\ i - 1 \in Heights /\ i - 1 # c
      BY <1>1, <1>5, <1>6, <1>7
    <3>2. old[i] = fs[i - 1]
      BY <1>6, <3>1
    <3>3. new[i] = gs[i - 1]
      BY <1>7, <3>1
    <3> QED
      BY <1>3, <3>1, <3>2, <3>3
  <2> QED
    BY <2>1
<1>9. new[c + 1] = x
  <2>1. c + 1 \in 1 .. Len(new) /\ (c + 1) - 1 = c
    BY <1>1, <1>5, <1>7
  <2>2. new[c + 1] = gs[(c + 1) - 1]
    BY <1>7, <2>1
  <2> QED
    BY <1>3, <2>1, <2>2
<1>10. \A top \in Nat : top <= MaxHeight + 1 /\ (\A h \in Heights : h > c => fs[h] = NoFile)
                            /\ top = c + 1 => Len(new) = top
  <2> SUFFICES ASSUME \A h \in Heights : h > c => fs[h] = NoFile PROVE Len(new) = c + 1
    OBVIOUS
  <2>1. c + 1 \in Nat /\ c + 1 <= MaxHeight + 1 /\ (c + 1 \in Heights => gs[c + 1] = NoFile)
    BY <1>1, <1>3
  <2> QED
    BY <1>3, <1>4, <2>1, StoredShape
<1> HIDE DEF new, old
<1>11. /\ kept \in Seq(Entry) /\ Len(kept) = c + 1
       /\ \A i \in 1 .. c : kept[i] = old[i]
       /\ kept[c + 1] = x
  BY <1>1, <1>5, <1>6
<1>12. \A i \in 1 .. c + 1 : kept[i] = new[i]
  <2>1. ASSUME NEW i \in 1 .. c + 1 PROVE kept[i] = new[i]
    <3>1. i \in 1 .. c \/ i = c + 1
      BY <1>1
    <3> QED
      BY <1>8, <1>9, <1>11, <3>1
  <2> QED
    BY <2>1
<1> HIDE DEF kept
<1>13. kept = SubSeq(new, 1, c + 1)
  BY <1>1, <1>5, <1>7, <1>11, <1>12
<1>14. Store!IsPrefixOf(kept, new)
  BY <1>5, <1>11, <1>13 DEF Store!IsPrefixOf
<1>15. ASSUME \A h \in Heights : h > c => fs[h] = NoFile PROVE new = kept
  <2>1. Len(new) = c + 1
    BY <1>1, <1>10, <1>15
  <2> QED
    BY <1>1, <1>7, <1>11, <1>12, <2>1
<1> QED
  BY <1>7, <1>14, <1>15 DEF new, kept, old, gs

(* When the file after the first c files is gone, they are what is read.   *)
LEMMA ErasedAt ==
    ASSUME NEW fs \in Files, NEW c \in Heights,
           \A h \in Heights : h < c => fs[h] # NoFile
    PROVE  StoredBlocks([fs EXCEPT ![c] = NoFile]) = SubSeq(StoredBlocks(fs), 1, c)
<1> DEFINE gs == [fs EXCEPT ![c] = NoFile]
           old == StoredBlocks(fs)
<1>1. MaxHeight \in Nat /\ Heights = 0 .. MaxHeight /\ c \in Nat /\ c <= MaxHeight + 1
  BY BoundsAssumption DEF Heights
<1>2. gs \in Files /\ gs[c] = NoFile /\ \A h \in Heights : h # c => gs[h] = fs[h]
  BY DEF Files
<1>3. \A h \in Heights : h < c => gs[h] # NoFile
  BY <1>1, <1>2
<1> HIDE DEF gs
<1>4. StoredBlocks(gs) = [i \in 1 .. c |-> gs[i - 1]]
  BY <1>1, <1>2, <1>3, StoredShape
<1>5. c <= Len(old)
  BY <1>1, StoredReaches
<1>6. old \in Seq(Entry) /\ Len(old) \in Nat /\ old = [i \in 1 .. Len(old) |-> fs[i - 1]]
  BY StoredLength
<1>7. \A i \in 1 .. c : old[i] = gs[i - 1]
  <2>1. ASSUME NEW i \in 1 .. c PROVE old[i] = gs[i - 1]
    <3>1. i \in 1 .. Len(old) /\ i - 1 \in Heights /\ i - 1 # c
      BY <1>1, <1>5, <1>6
    <3>2. old[i] = fs[i - 1]
      BY <1>6, <3>1
    <3> QED
      BY <1>2, <3>1, <3>2
  <2> QED
    BY <2>1
<1> HIDE DEF old
<1>8. SubSeq(old, 1, c) = [i \in 1 .. c |-> old[i]]
  BY <1>1, <1>5, <1>6
<1> QED
  BY <1>4, <1>7, <1>8 DEF gs, old

-----------------------------------------------------------------------------
(* The inductive invariant of the refinement: every block of the chain has *)
(* its file, torn or not, at the height of its position; and before the    *)
(* first DisconnectTip the files have no gap and an open chain has none    *)
(* above it.                                                               *)
StoreInv ==
    /\ TypeInv
    /\ \A n \in DOMAIN chain :
          /\ n - 1 \in Heights
          /\ files[n - 1] \in {chain[n], Torn}
          /\ chain[n].height = n - 1
    /\ \A h \in Heights : files[h] \in Block => files[h].height = h
    /\ up => chain # <<>>
    /\ files[0] = NoFile => \A h \in Heights : files[h] = NoFile
    /\ disconnects = 0 =>
          /\ \A h, k \in Heights : h < k /\ files[h] = NoFile => files[k] = NoFile
          /\ up => \A h \in Heights : h >= Len(chain) => files[h] = NoFile

LEMMA StoreInit == Init => StoreInv
<1>1. ASSUME Init PROVE StoreInv
  <2>1. chain = <<>> /\ ~up /\ files = [h \in Heights |-> NoFile] /\ TypeInv
    BY <1>1, TypeInit DEF Init
  <2> QED
    BY <2>1, FileAssumption DEF StoreInv
<1> QED
  BY <1>1

(* What the invariant says of a block that AddBlock takes. *)
LEMMA AddsNext ==
    ASSUME StoreInv, NEW b \in Block, CanAdd(b)
    PROVE  /\ files \in Files /\ b \in Entry /\ chain \in Seq(Block)
           /\ up /\ Len(chain) \in Nat /\ Len(chain) # 0
           /\ b.height = Len(chain) /\ b.height \in Heights
           /\ \A h \in Heights : h < Len(chain) => files[h] # NoFile
           /\ disconnects = 0 => \A h \in Heights : h > Len(chain) => files[h] = NoFile
<1>1. files \in Files /\ b \in Entry
  BY DEF StoreInv, TypeInv, TypeOK, Files, Entry
<1>2. chain \in Seq(Block) /\ chain # <<>> /\ MaxHeight \in Nat /\ up
  BY BoundsAssumption DEF StoreInv, TypeInv, TypeOK, CanAdd
<1>3. Len(chain) \in DOMAIN chain /\ Len(chain) \in Nat /\ Len(chain) # 0
  BY <1>2
<1>4. chain[Len(chain)].height = Len(chain) - 1
  BY <1>3 DEF StoreInv
<1>5. b.height = chain[Len(chain)].height + 1 /\ b.height <= MaxHeight
  BY <1>2 DEF CanAdd, ValidateBlock, Height, Tip
<1>6. b.height = Len(chain) /\ b.height \in Heights
  BY <1>2, <1>3, <1>4, <1>5 DEF Heights
<1>7. ASSUME NEW h \in Heights, h < Len(chain) PROVE files[h] # NoFile
  <2>1. h + 1 \in DOMAIN chain /\ (h + 1) - 1 = h
    BY <1>2, <1>3, <1>7 DEF Heights
  <2>2. files[(h + 1) - 1] \in {chain[h + 1], Torn} /\ chain[h + 1] \in Block
    BY <1>2, <2>1 DEF StoreInv
  <2> QED
    BY <2>1, <2>2, FileAssumption
<1>8. disconnects = 0 => \A h \in Heights : h > Len(chain) => files[h] = NoFile
  BY <1>2, <1>3 DEF StoreInv, Heights
<1> QED
  BY <1>1, <1>2, <1>3, <1>6, <1>7, <1>8

(* What the invariant needs of the files after a step that leaves the      *)
(* chain alone and may have put x into the file above it.                  *)
LEMMA FileAboveInv ==
    ASSUME StoreInv, NEW b \in Block, CanAdd(b), NEW x \in {files[b.height], NoFile, b, Torn},
           files' = [files EXCEPT ![b.height] = x]
    PROVE  /\ \A n \in DOMAIN chain :
                 /\ n - 1 \in Heights
                 /\ files'[n - 1] \in {chain[n], Torn}
                 /\ chain[n].height = n - 1
           /\ \A h \in Heights : files'[h] \in Block => files'[h].height = h
           /\ files'[0] # NoFile
           /\ files'[b.height] = x
           /\ disconnects = 0 =>
                 \A h, k \in Heights : h < k /\ files'[h] = NoFile => files'[k] = NoFile
<1>1. /\ files \in Files /\ chain \in Seq(Block)
      /\ Len(chain) \in Nat /\ Len(chain) # 0
      /\ b.height = Len(chain) /\ b.height \in Heights
      /\ \A h \in Heights : h < Len(chain) => files[h] # NoFile
      /\ disconnects = 0 => \A h \in Heights : h > Len(chain) => files[h] = NoFile
  BY AddsNext
<1>2. files'[b.height] = x /\ \A h \in Heights \ {b.height} : files'[h] = files[h]
  BY <1>1 DEF Files
<1>3. ASSUME NEW n \in DOMAIN chain
      PROVE  /\ n - 1 \in Heights
             /\ files'[n - 1] \in {chain[n], Torn}
             /\ chain[n].height = n - 1
  <2>1. n - 1 \in Heights \ {b.height} /\ files[n - 1] \in {chain[n], Torn} /\ chain[n].height = n - 1
    BY <1>1 DEF StoreInv
  <2> QED
    BY <1>2, <2>1
<1>4. ASSUME NEW h \in Heights, files'[h] \in Block PROVE files'[h].height = h
  <2>1. CASE h = b.height
    <3>1. x \in Block
      BY <1>2, <1>4, <2>1
    <3>2. x = b \/ x = files[b.height]
      BY <3>1, FileAssumption
    <3> QED
      BY <1>2, <2>1, <3>1, <3>2 DEF StoreInv
  <2>2. CASE h # b.height
    BY <1>2, <1>4, <2>2 DEF StoreInv
  <2> QED
    BY <2>1, <2>2
<1>5. files'[0] # NoFile
  <2>1. 0 \in Heights /\ 0 < Len(chain) /\ 0 # b.height
    BY <1>1, BoundsAssumption DEF Heights
  <2> QED
    BY <1>1, <1>2, <2>1
<1>6. ASSUME disconnects = 0, NEW h \in Heights, NEW k \in Heights, h < k, files'[h] = NoFile
      PROVE  files'[k] = NoFile
  <2>1. h \in Nat /\ k \in Nat
    BY BoundsAssumption DEF Heights
  <2>2. ~(h < Len(chain))
    BY <1>1, <1>2, <1>6, <2>1
  <2>3. k > Len(chain) /\ k # b.height
    BY <1>1, <1>6, <2>1, <2>2
  <2> QED
    BY <1>1, <1>2, <1>6, <2>3
<1> QED
  BY <1>2, <1>3, <1>4, <1>5, <1>6

(* Adding the block to memory as well, over a file that holds it or is     *)
(* torn.                                                                   *)
LEMMA ExtendInv ==
    ASSUME StoreInv, TypeInv', NEW b \in Block, CanAdd(b), Extend(b), up' = up,
           disconnects' = disconnects,
           NEW x \in {b, Torn}, files' = [files EXCEPT ![b.height] = x]
    PROVE  StoreInv'
<1>1. /\ files \in Files /\ chain \in Seq(Block)
      /\ Len(chain) \in Nat /\ b.height = Len(chain) /\ b.height \in Heights
      /\ disconnects = 0 => \A h \in Heights : h > Len(chain) => files[h] = NoFile
  BY AddsNext
<1>2. /\ \A n \in DOMAIN chain :
             /\ n - 1 \in Heights
             /\ files'[n - 1] \in {chain[n], Torn}
             /\ chain[n].height = n - 1
      /\ \A h \in Heights : files'[h] \in Block => files'[h].height = h
      /\ files'[0] # NoFile
      /\ files'[b.height] = x
      /\ disconnects = 0 =>
             \A h, k \in Heights : h < k /\ files'[h] = NoFile => files'[k] = NoFile
  BY FileAboveInv
<1>3. chain' = Append(chain, b) /\ Len(chain') = Len(chain) + 1
  BY <1>1 DEF Extend
<1>4. ASSUME NEW n \in DOMAIN chain'
      PROVE  /\ n - 1 \in Heights
             /\ files'[n - 1] \in {chain'[n], Torn}
             /\ chain'[n].height = n - 1
  <2>1. CASE n \in DOMAIN chain
    BY <1>1, <1>2, <1>3, <2>1
  <2>2. CASE n = Len(chain) + 1
    <3>1. n - 1 = b.height /\ chain'[n] = b
      BY <1>1, <1>3, <2>2
    <3> QED
      BY <1>1, <1>2, <3>1
  <2> QED
    BY <1>1, <1>3, <2>1, <2>2
<1>5. ASSUME disconnects = 0, NEW h \in Heights, h >= Len(chain') PROVE files'[h] = NoFile
  <2>1. h > Len(chain) /\ h # b.height
    BY <1>1, <1>3, <1>5 DEF Heights
  <2> QED
    BY <1>1, <1>5, <2>1 DEF Files
<1>6. chain' # <<>>
  BY <1>1, <1>3
<1> QED
  BY <1>2, <1>4, <1>5, <1>6 DEF StoreInv

LEMMA StoreStep == StoreInv /\ [Next]_vars => StoreInv'
<1> SUFFICES ASSUME StoreInv, [Next]_vars PROVE StoreInv'
  OBVIOUS
<1>0. /\ TypeInv' /\ files \in Files /\ chain \in Seq(Block)
      /\ 0 \in Heights /\ MaxHeight \in Nat /\ Heights = 0 .. MaxHeight
      /\ Genesis \in Block /\ Genesis.height = 0 /\ Genesis # NoFile /\ Genesis # Torn
  BY TypeStep, BoundsAssumption, GenesisAssumption, FileAssumption
  DEF StoreInv, TypeInv, TypeOK, Heights, Files, Entry
<1>1. CASE OpenExisting
  <2> DEFINE new == StoredBlocks(files)
  <2>1. /\ files' = files /\ chain' = new /\ disconnects' = disconnects
        /\ \A i \in DOMAIN new : new[i] # Torn
        /\ files[0] # NoFile
    BY <1>1 DEF OpenExisting, disk, CanLoad
  <2>2. /\ Len(new) \in Nat /\ Len(new) <= MaxHeight + 1
        /\ new = [i \in 1 .. Len(new) |-> files[i - 1]]
        /\ new \in Seq(Entry)
        /\ \A h \in Heights : h < Len(new) => files[h] # NoFile
        /\ Len(new) \in Heights => files[Len(new)] = NoFile
    BY <1>0, StoredLength
  <2> HIDE DEF new
  <2>3. ASSUME NEW n \in DOMAIN new
        PROVE  /\ n - 1 \in Heights
               /\ files[n - 1] \in {new[n], Torn}
               /\ new[n].height = n - 1
    <3>1. n \in 1 .. Len(new) /\ n - 1 \in Heights /\ new[n] = files[n - 1]
      BY <1>0, <2>2, <2>3
    <3>2. new[n] \in Entry /\ new[n] # Torn
      BY <2>1, <2>2, <3>1
    <3> QED
      BY <3>1, <3>2 DEF StoreInv, Entry
  <2>4. new # <<>>
    <3>1. Len(new) # 0
      BY <1>0, <2>1, <2>2
    <3> QED
      BY <3>1
  <2>5. ASSUME disconnects = 0, NEW h \in Heights, h >= Len(new) PROVE files[h] = NoFile
    <3>1. Len(new) \in Heights
      BY <1>0, <2>2, <2>5
    <3>2. files[Len(new)] = NoFile
      BY <2>2, <3>1
    <3>n. h \in Nat /\ Len(new) \in Nat /\ h >= Len(new)
      BY <1>0, <2>2, <2>5
    <3>3. \A k, l \in Heights : k < l /\ files[k] = NoFile => files[l] = NoFile
      BY <2>5 DEF StoreInv
    <3>4. CASE h = Len(new)
      BY <3>2, <3>4
    <3>5. CASE Len(new) < h
      BY <3>1, <3>2, <3>3, <3>5
    <3> QED
      BY <3>n, <3>4, <3>5
  <2>6. /\ \A h \in Heights : files'[h] \in Block => files'[h].height = h
        /\ files'[0] = NoFile => \A h \in Heights : files'[h] = NoFile
        /\ disconnects' = 0 =>
              \A h, k \in Heights : h < k /\ files'[h] = NoFile => files'[k] = NoFile
    BY <2>1 DEF StoreInv
  <2> QED
    BY <1>0, <2>1, <2>3, <2>4, <2>5, <2>6 DEF StoreInv
<1>2. CASE OpenFresh
  <2>1. PICK x \in {Genesis, Torn} : files' = [files EXCEPT ![0] = x]
    BY <1>2 DEF OpenFresh
  <2>2. chain' = <<Genesis>> /\ files[0] = NoFile /\ disconnects' = disconnects
    BY <1>2 DEF OpenFresh
  <2>3. files'[0] = x /\ x # NoFile /\ \A h \in Heights \ {0} : files'[h] = NoFile
    BY <1>0, <2>1, <2>2, FileAssumption DEF StoreInv, Files
  <2>4. \A n \in DOMAIN chain' : n = 1 /\ chain'[n] = Genesis
    BY <2>2
  <2>5. \A n \in DOMAIN chain' :
            /\ n - 1 \in Heights
            /\ files'[n - 1] \in {chain'[n], Torn}
            /\ chain'[n].height = n - 1
    BY <1>0, <2>3, <2>4
  <2>6. \A h \in Heights : files'[h] \in Block => files'[h].height = h
    BY <1>0, <2>3, FileAssumption
  <2>7. chain' # <<>> /\ Len(chain') = 1
    BY <2>2
  <2>8. \A h, k \in Heights : h < k /\ files'[h] = NoFile => files'[k] = NoFile
    BY <1>0, <2>3
  <2>9. \A h \in Heights : h >= Len(chain') => files'[h] = NoFile
    BY <1>0, <2>3, <2>7
  <2> QED
    BY <1>0, <2>3, <2>5, <2>6, <2>7, <2>8, <2>9 DEF StoreInv
<1>3. CASE OpenFreshFails
  <2>1. chain' = chain /\ up' = up /\ ~up /\ files' = [files EXCEPT ![0] = Genesis] /\ files[0] = NoFile
    BY <1>3 DEF OpenFreshFails, memory
  <2>2. files'[0] = Genesis /\ \A h \in Heights \ {0} : files'[h] = NoFile
    BY <1>0, <2>1 DEF StoreInv, Files
  <2>3. chain = <<>>
    <3> SUFFICES ASSUME chain # <<>> PROVE FALSE
      OBVIOUS
    <3>1. 1 \in DOMAIN chain /\ chain[1] \in Block
      BY <1>0
    <3>2. files[1 - 1] \in {chain[1], Torn}
      BY <3>1 DEF StoreInv
    <3> QED
      BY <2>1, <3>1, <3>2, FileAssumption
  <2>4. \A h \in Heights : files'[h] \in Block => files'[h].height = h
    BY <1>0, <2>2, FileAssumption
  <2>5. \A h, k \in Heights : h < k /\ files'[h] = NoFile => files'[k] = NoFile
    BY <1>0, <2>2
  <2> QED
    BY <1>0, <2>1, <2>2, <2>3, <2>4, <2>5 DEF StoreInv
<1>4. CASE AddAnyBlock
  <2> PICK b \in Block : \/ AddBlock(b)
                         \/ AddBlockStoreFails(b)
                         \/ AddBlockSaveFails(b)
                         \/ AddBlockCrashes(b)
                         \/ AddBlockTears(b)
    BY <1>4 DEF AddAnyBlock
  <2>1. CASE AddBlock(b) \/ AddBlockSaveFails(b)
    <3>1. CanAdd(b) /\ Extend(b) /\ files' = [files EXCEPT ![b.height] = b] /\ up' = up
          /\ disconnects' = disconnects
      BY <2>1 DEF AddBlock, AddBlockSaveFails
    <3> QED
      BY <1>0, <3>1, ExtendInv
  <2>2. CASE AddBlockTears(b)
    <3>1. CanAdd(b) /\ Extend(b) /\ files' = [files EXCEPT ![b.height] = Torn] /\ up' = up
          /\ disconnects' = disconnects
      BY <2>2 DEF AddBlockTears
    <3> QED
      BY <1>0, <3>1, ExtendInv
  <2>3. CASE AddBlockStoreFails(b)
    <3>1. CanAdd(b) /\ chain' = chain /\ up' = up /\ disconnects' = disconnects
      BY <2>3 DEF AddBlockStoreFails
    <3>2. PICK left \in {files[b.height], NoFile} : files' = [files EXCEPT ![b.height] = left]
      BY <2>3 DEF AddBlockStoreFails
    <3>3. /\ \A n \in DOMAIN chain :
                 /\ n - 1 \in Heights
                 /\ files'[n - 1] \in {chain[n], Torn}
                 /\ chain[n].height = n - 1
          /\ \A h \in Heights : files'[h] \in Block => files'[h].height = h
          /\ files'[0] # NoFile
          /\ disconnects = 0 =>
                 \A h, k \in Heights : h < k /\ files'[h] = NoFile => files'[k] = NoFile
      BY <3>1, <3>2, FileAboveInv
    <3>4. ASSUME disconnects = 0, NEW h \in Heights, h >= Len(chain) PROVE files'[h] = NoFile
      <4>1. up /\ b.height = Len(chain) /\ b.height \in Heights
        BY <3>1, AddsNext
      <4>2. files[h] = NoFile /\ files[b.height] = NoFile
        BY <1>0, <3>4, <4>1 DEF StoreInv
      <4> QED
        BY <1>0, <3>2, <4>1, <4>2 DEF Files
    <3> QED
      BY <1>0, <3>1, <3>3, <3>4 DEF StoreInv
  <2>4. CASE AddBlockCrashes(b)
    <3>1. CanAdd(b) /\ chain' = chain /\ up' = FALSE /\ disconnects' = disconnects
      BY <2>4 DEF AddBlockCrashes, memory
    <3>2. PICK left \in {files[b.height], NoFile, b} : files' = [files EXCEPT ![b.height] = left]
      BY <2>4 DEF AddBlockCrashes
    <3>3. /\ \A n \in DOMAIN chain :
                 /\ n - 1 \in Heights
                 /\ files'[n - 1] \in {chain[n], Torn}
                 /\ chain[n].height = n - 1
          /\ \A h \in Heights : files'[h] \in Block => files'[h].height = h
          /\ files'[0] # NoFile
          /\ disconnects = 0 =>
                 \A h, k \in Heights : h < k /\ files'[h] = NoFile => files'[k] = NoFile
      BY <3>1, <3>2, FileAboveInv
    <3> QED
      BY <1>0, <3>1, <3>3 DEF StoreInv
  <2> QED
    BY <2>1, <2>2, <2>3, <2>4
<1>5. CASE DisconnectTip
  <2>1. /\ chain' = SubSeq(chain, 1, Len(chain) - 1) /\ Len(chain) > 1 /\ files' = files
        /\ disconnects' = disconnects + 1 /\ disconnects \in Nat /\ up' = up
    BY <1>5, BoundsAssumption DEF DisconnectTip, disk, StoreInv, TypeInv, TypeOK
  <2>2. Len(chain') = Len(chain) - 1 /\ \A n \in 1 .. Len(chain) - 1 : chain'[n] = chain[n]
    BY <1>0, <2>1
  <2>3. DOMAIN chain' = 1 .. Len(chain) - 1 /\ chain' # <<>>
    <3>1. chain' \in Seq(Block) /\ Len(chain') > 0
      BY <1>0, <2>1, <2>2 DEF TypeInv, TypeOK
    <3> QED
      BY <2>2, <3>1
  <2>4. \A n \in DOMAIN chain' :
            /\ n - 1 \in Heights
            /\ files'[n - 1] \in {chain'[n], Torn}
            /\ chain'[n].height = n - 1
    BY <1>0, <2>1, <2>2, <2>3 DEF StoreInv
  <2> QED
    BY <1>0, <2>1, <2>3, <2>4 DEF StoreInv
<1>6. CASE Exit \/ UNCHANGED vars \/ \E tx \in Tx : AddTransactionToMempool(tx)
  <2>1. chain' = chain /\ files' = files /\ (up' => up) /\ disconnects' = disconnects
    BY <1>6 DEF Exit, vars, memory, disk, AddTransactionToMempool
  <2> QED
    BY <1>0, <2>1 DEF StoreInv
<1> QED
  BY <1>1, <1>2, <1>3, <1>4, <1>5, <1>6 DEF Next

-----------------------------------------------------------------------------
(* Every step of Blockchain is a step of the store or leaves it alone.     *)

(* A block, or a torn one, written above an open chain is an entry of the  *)
(* log; a file that is gone from there takes with it what was above.       *)
LEMMA WritesAbove ==
    ASSUME StoreInv, NEW b \in Block, CanAdd(b), NEW x \in {b, Torn},
           files' = [files EXCEPT ![b.height] = x]
    PROVE  Store!Writes(x)
<1>1. /\ files \in Files /\ b \in Entry /\ b.height = Len(chain) /\ b.height \in Heights
      /\ \A h \in Heights : h < Len(chain) => files[h] # NoFile
      /\ disconnects = 0 => \A h \in Heights : h > Len(chain) => files[h] = NoFile
  BY AddsNext
<1>2. x \in Entry
  BY <1>1 DEF Entry
<1> DEFINE new == StoredBlocks([files EXCEPT ![b.height] = x])
           kept == Append(SubSeq(StoredBlocks(files), 1, b.height), x)
<1>3. /\ new \in Seq(Entry)
      /\ Store!IsPrefixOf(kept, new)
      /\ (\A h \in Heights : h > b.height => files[h] = NoFile) => new = kept
  BY <1>1, <1>2, WrittenAt
<1>4. disconnects > 0 \/ disconnects = 0
  BY DEF StoreInv, TypeInv, TypeOK
<1>5. StoredBlocks(files)' = new /\ kept = Append(Store!Kept, x)
  BY <1>1 DEF Store!Kept
<1> HIDE DEF new, kept
<1> QED
  BY <1>1, <1>3, <1>4, <1>5 DEF Store!Writes, Entry

LEMMA LeftAbove ==
    ASSUME StoreInv, NEW b \in Block, CanAdd(b), NEW left \in {files[b.height], NoFile},
           files' = [files EXCEPT ![b.height] = left]
    PROVE  StoredBlocks(files)' \in {StoredBlocks(files), Store!Kept}
<1>1. /\ files \in Files /\ b.height = Len(chain) /\ b.height \in Heights
      /\ \A h \in Heights : h < Len(chain) => files[h] # NoFile
  BY AddsNext
<1>2. CASE left = files[b.height]
  <2>1. files' = files
    BY <1>1, <1>2 DEF Files
  <2> QED
    BY <2>1
<1>3. CASE left = NoFile
  <2>1. StoredBlocks([files EXCEPT ![b.height] = NoFile]) = SubSeq(StoredBlocks(files), 1, b.height)
    BY <1>1, ErasedAt
  <2>2. StoredBlocks(files)' = StoredBlocks([files EXCEPT ![b.height] = NoFile])
    BY <1>3
  <2> QED
    BY <1>1, <2>1, <2>2 DEF Store!Kept
<1> QED
  BY <1>2, <1>3

LEMMA StoreRefinement == StoreInv /\ [Next]_vars => [Store!Next]_(Store!vars)
<1> SUFFICES ASSUME StoreInv, [Next]_vars PROVE [Store!Next]_(Store!vars)
  OBVIOUS
<1> DEFINE log == StoredBlocks(files)
<1>0. /\ files \in Files /\ MaxHeight \in Nat /\ Heights = 0 .. MaxHeight
      /\ disconnects \in Nat /\ Genesis # NoFile
      /\ NoFile \notin Entry /\ Genesis \in Entry /\ Torn \in Entry
  BY BoundsAssumption, GenesisAssumption, FileAssumption
  DEF StoreInv, TypeInv, TypeOK, Heights, Files, Entry
<1>e. files[0] = NoFile <=> log = <<>>
  <2>1. /\ Len(log) \in Nat
        /\ log \in Seq(Entry)
        /\ \A h \in Heights : h < Len(log) => files[h] # NoFile
        /\ Len(log) \in Heights => files[Len(log)] = NoFile
    BY <1>0, StoredLength
  <2> HIDE DEF log
  <2>2. log = <<>> <=> Len(log) = 0
    BY <2>1
  <2> QED
    BY <1>0, <2>1, <2>2
<1>f. ASSUME NEW x \in Entry, files[0] = NoFile, files' = [files EXCEPT ![0] = x]
      PROVE  log' = <<x>>
  <2>1. \A h \in Heights : files[h] = NoFile
    BY <1>f DEF StoreInv
  <2>2. files' \in Files /\ files'[0] = x /\ \A h \in Heights \ {0} : files'[h] = NoFile
    BY <1>0, <1>f, <2>1 DEF Files
  <2>3. /\ 1 \in Nat /\ 1 <= MaxHeight + 1
        /\ \A h \in Heights : h < 1 => files'[h] # NoFile
        /\ 1 \in Heights => files'[1] = NoFile
    BY <1>0, <2>2
  <2>4. StoredBlocks(files') = [i \in 1 .. 1 |-> files'[i - 1]]
    BY <2>2, <2>3, StoredShape
  <2> QED
    BY <2>2, <2>4
<1>1. CASE OpenExisting
  <2>1. Store!Open
    BY <1>1, <1>e DEF OpenExisting, disk, CanLoad, Store!Open
  <2> QED
    BY <2>1 DEF Store!Next
<1>2. CASE OpenFresh
  <2>1. PICK x \in {Genesis, Torn} : files' = [files EXCEPT ![0] = x]
    BY <1>2 DEF OpenFresh
  <2>2. log' = <<x>> /\ log = <<>>
    BY <1>0, <1>2, <1>e, <1>f, <2>1 DEF OpenFresh
  <2>3. Store!Create
    BY <1>2, <2>2 DEF OpenFresh, Store!Create
  <2> QED
    BY <2>3 DEF Store!Next
<1>3. CASE OpenFreshFails
  <2>1. log' = <<Genesis>> /\ log = <<>>
    BY <1>0, <1>3, <1>e, <1>f DEF OpenFreshFails
  <2>2. Store!CreateFails
    BY <1>3, <2>1 DEF OpenFreshFails, memory, Store!CreateFails
  <2> QED
    BY <2>2 DEF Store!Next
<1>4. CASE Exit
  <2>1. Store!Close
    BY <1>4 DEF Exit, memory, disk, Store!Close
  <2> QED
    BY <2>1 DEF Store!Next
<1>5. CASE AddAnyBlock
  <2> PICK b \in Block : \/ AddBlock(b)
                         \/ AddBlockStoreFails(b)
                         \/ AddBlockSaveFails(b)
                         \/ AddBlockCrashes(b)
                         \/ AddBlockTears(b)
    BY <1>5 DEF AddAnyBlock
  <2>1. CASE AddBlock(b) \/ AddBlockSaveFails(b)
    <3>1. /\ CanAdd(b) /\ Extend(b) /\ files' = [files EXCEPT ![b.height] = b]
          /\ UNCHANGED <<up, disconnects>>
      BY <2>1 DEF AddBlock, AddBlockSaveFails
    <3>2. Store!Writes(b)
      BY <3>1, WritesAbove
    <3>3. Store!Add(b)
      BY <3>1, <3>2 DEF Extend, CanAdd, Store!Add
    <3> QED
      BY <3>3 DEF Store!Next
  <2>2. CASE AddBlockTears(b)
    <3>1. /\ CanAdd(b) /\ Extend(b) /\ files' = [files EXCEPT ![b.height] = Torn]
          /\ UNCHANGED <<up, disconnects>>
      BY <2>2 DEF AddBlockTears
    <3>2. Store!Writes(Torn)
      BY <3>1, WritesAbove
    <3>3. Store!Add(b)
      BY <3>1, <3>2 DEF Extend, CanAdd, Store!Add
    <3> QED
      BY <3>3 DEF Store!Next
  <2>3. CASE AddBlockStoreFails(b)
    <3>1. CanAdd(b) /\ UNCHANGED <<chain, up, disconnects>>
      BY <2>3 DEF AddBlockStoreFails
    <3>2. PICK left \in {files[b.height], NoFile} : files' = [files EXCEPT ![b.height] = left]
      BY <2>3 DEF AddBlockStoreFails
    <3>3. log' \in {log, Store!Kept}
      BY <3>1, <3>2, LeftAbove
    <3>4. Store!AddFails
      BY <3>1, <3>3 DEF CanAdd, Store!AddFails
    <3> QED
      BY <3>4 DEF Store!Next
  <2>4. CASE AddBlockCrashes(b)
    <3>1. CanAdd(b) /\ up' = FALSE /\ UNCHANGED <<chain, disconnects>>
      BY <2>4 DEF AddBlockCrashes, memory
    <3>2. log' \in {log, Store!Kept} \/ Store!Writes(b)
      <4>1. CASE files' = [files EXCEPT ![b.height] = b]
        BY <3>1, <4>1, WritesAbove
      <4>2. CASE \E left \in {files[b.height], NoFile} : files' = [files EXCEPT ![b.height] = left]
        BY <3>1, <4>2, LeftAbove
      <4> QED
        BY <2>4, <4>1, <4>2 DEF AddBlockCrashes
    <3>3. Store!Crash(b)
      BY <3>1, <3>2 DEF CanAdd, Store!Crash
    <3> QED
      BY <3>3 DEF Store!Next
  <2> QED
    BY <2>1, <2>2, <2>3, <2>4
<1>6. CASE DisconnectTip
  <2>1. (disconnects > 0)' = TRUE
    BY <1>0, <1>6 DEF DisconnectTip
  <2>2. Store!Revert
    BY <1>6, <2>1 DEF DisconnectTip, disk, Store!Revert
  <2> QED
    BY <2>2 DEF Store!Next
<1>7. CASE UNCHANGED vars \/ \E tx \in Tx : AddTransactionToMempool(tx)
  BY <1>7 DEF vars, memory, disk, AddTransactionToMempool, Store!vars
<1> QED
  BY <1>1, <1>2, <1>3, <1>4, <1>5, <1>6, <1>7 DEF Next

(* The chain and its files implement the abstract store: whatever block is *)
(* offered and whichever call fails, no step does to the chain and to what *)
(* a later process would load what ChainStore does not allow.              *)
THEOREM ImplementsStore == Spec => RefinesStore
<1>1. Init => Store!Init
  <2>1. ASSUME Init PROVE Store!Init
    <3>1. files = [h \in Heights |-> NoFile] /\ chain = <<>> /\ up = FALSE /\ ~(disconnects > 0)
      BY <2>1 DEF Init
    <3>2. files \in Files /\ 0 \in Nat /\ 0 <= MaxHeight + 1 /\ files[0] = NoFile
      BY <3>1, BoundsAssumption DEF Files, Heights
    <3>3. \A h \in Heights : h < 0 => files[h] # NoFile
      BY BoundsAssumption DEF Heights
    <3>4. StoredBlocks(files) = [i \in 1 .. 0 |-> files[i - 1]]
      BY <3>2, <3>3, StoredShape
    <3> QED
      BY <3>1, <3>4 DEF Store!Init
  <2> QED
    BY <2>1
<1> QED
  BY <1>1, StoreInit, StoreStep, StoreRefinement, PTL DEF Spec, RefinesStore, Store!Spec

-----------------------------------------------------------------------------
(* What the abstract store promises, and Blockchain with it.               *)

StoredLog == StoredBlocks(files)

(* The view is as long as the log allows, and differs from it only where   *)
(* an entry is torn.                                                       *)
ViewInv ==
    /\ StoredLog \in Seq(Entry)
    /\ chain \in Seq(Block)
    /\ Len(chain) <= Len(StoredLog)
    /\ \A i \in 1 .. Len(chain) : StoredLog[i] \in {chain[i], Torn}

(* A log that begins with what is kept of the old one keeps the view.      *)
LEMMA KeptView ==
    ASSUME ViewInv, NEW new \in Seq(Entry), Store!IsPrefixOf(Store!Kept, new)
    PROVE  /\ Len(chain) <= Len(new)
           /\ \A i \in 1 .. Len(chain) : new[i] \in {chain[i], Torn}
<1>1. /\ Len(Store!Kept) = Len(chain) /\ Store!Kept \in Seq(Entry)
      /\ \A i \in 1 .. Len(chain) : Store!Kept[i] = StoredLog[i]
  BY DEF ViewInv, Store!Kept, StoredLog
<1>2. Len(chain) <= Len(new) /\ Store!Kept = SubSeq(new, 1, Len(chain))
  BY <1>1 DEF Store!IsPrefixOf
<1>3. \A i \in 1 .. Len(chain) : new[i] = StoredLog[i]
  BY <1>1, <1>2 DEF ViewInv
<1> QED
  BY <1>2, <1>3 DEF ViewInv

(* So does a log that ends where the view does, or goes on with an entry.  *)
LEMMA AppendedView ==
    ASSUME ViewInv, NEW entry \in Entry, Store!Writes(entry)
    PROVE  /\ StoredLog' \in Seq(Entry)
           /\ Len(chain) + 1 <= Len(StoredLog')
           /\ \A i \in 1 .. Len(chain) : StoredLog'[i] \in {chain[i], Torn}
           /\ StoredLog'[Len(chain) + 1] = entry
<1> DEFINE new == StoredLog'
           kept == Append(Store!Kept, entry)
<1>1. /\ Store!Kept \in Seq(Entry) /\ Len(Store!Kept) = Len(chain) /\ Len(chain) \in Nat
      /\ \A i \in 1 .. Len(chain) : Store!Kept[i] = StoredLog[i]
  BY DEF ViewInv, Store!Kept, StoredLog
<1>2. /\ kept \in Seq(Entry) /\ Len(kept) = Len(chain) + 1
      /\ \A i \in 1 .. Len(chain) : kept[i] = StoredLog[i]
      /\ kept[Len(chain) + 1] = entry
  BY <1>1
<1>3. new \in Seq(Entry) /\ Len(kept) <= Len(new) /\ kept = SubSeq(new, 1, Len(kept))
  BY DEF Store!Writes, Store!IsPrefixOf, Entry, StoredLog
<1> HIDE DEF new, kept
<1>4. \A i \in 1 .. Len(chain) + 1 : new[i] = kept[i]
  BY <1>1, <1>2, <1>3
<1>5. \A i \in 1 .. Len(chain) : new[i] \in {chain[i], Torn}
  <2>1. \A i \in 1 .. Len(chain) : new[i] = StoredLog[i]
    BY <1>1, <1>2, <1>4
  <2> QED
    BY <2>1 DEF ViewInv
<1>6. Len(chain) + 1 <= Len(new) /\ new[Len(chain) + 1] = entry
  BY <1>1, <1>2, <1>3, <1>4
<1> QED
  BY <1>3, <1>5, <1>6 DEF new

LEMMA ViewStep == ViewInv /\ [Store!Next]_(Store!vars) => ViewInv'
<1> SUFFICES ASSUME ViewInv, [Store!Next]_(Store!vars) PROVE ViewInv'
  OBVIOUS
<1>0. /\ StoredLog \in Seq(Entry) /\ chain \in Seq(Block) /\ Len(chain) <= Len(StoredLog)
      /\ Len(chain) \in Nat /\ Genesis \in Block
  BY GenesisAssumption DEF ViewInv
<1>k. Store!Kept \in Seq(Entry) /\ Store!IsPrefixOf(Store!Kept, Store!Kept)
      /\ Store!IsPrefixOf(Store!Kept, StoredLog)
  BY <1>0 DEF Store!Kept, Store!IsPrefixOf, StoredLog
<1>1. CASE Store!Open
  <2>1. chain' = StoredLog /\ StoredLog' = StoredLog /\ \A i \in DOMAIN StoredLog : StoredLog[i] # Torn
    BY <1>1 DEF Store!Open, StoredLog
  <2>2. StoredLog \in Seq(Block)
    <3>1. \A i \in 1 .. Len(StoredLog) : StoredLog[i] \in Block
      BY <1>0, <2>1 DEF Entry
    <3> QED
      BY <1>0, <3>1
  <2> QED
    BY <1>0, <2>1, <2>2 DEF ViewInv
<1>2. CASE Store!Create
  <2>1. PICK x \in {Genesis, Torn} : chain' = <<Genesis>> /\ StoredLog' = <<x>>
    BY <1>2 DEF Store!Create, StoredLog
  <2>2. x \in Entry
    BY <1>0 DEF Entry
  <2>3. /\ StoredLog' \in Seq(Entry) /\ Len(StoredLog') = 1 /\ StoredLog'[1] = x
        /\ chain' \in Seq(Block) /\ Len(chain') = 1 /\ chain'[1] = Genesis
    BY <1>0, <2>1, <2>2
  <2> QED
    BY <2>3 DEF ViewInv
<1>3. CASE Store!CreateFails
  <2>1. chain' = chain /\ StoredLog' = <<Genesis>> /\ StoredLog = <<>>
    BY <1>3 DEF Store!CreateFails, StoredLog
  <2>2. Len(chain) = 0
    BY <1>0, <2>1
  <2> QED
    BY <1>0, <2>1, <2>2 DEF ViewInv, Entry
<1>4. CASE Store!Close
  BY <1>4 DEF Store!Close, ViewInv, StoredLog
<1>5. ASSUME NEW b \in Block, Store!Add(b) PROVE ViewInv'
  <2>1. chain' = Append(chain, b) /\ \E entry \in {b, Torn} : Store!Writes(entry)
    BY <1>5 DEF Store!Add
  <2>2. PICK entry \in {b, Torn} : Store!Writes(entry)
    BY <2>1
  <2>3. entry \in Entry
    BY DEF Entry
  <2>4. /\ StoredLog' \in Seq(Entry)
        /\ Len(chain) + 1 <= Len(StoredLog')
        /\ \A i \in 1 .. Len(chain) : StoredLog'[i] \in {chain[i], Torn}
        /\ StoredLog'[Len(chain) + 1] = entry
    BY <2>2, <2>3, AppendedView
  <2>5. /\ chain' \in Seq(Block) /\ Len(chain') = Len(chain) + 1
        /\ chain'[Len(chain) + 1] = b
        /\ \A i \in 1 .. Len(chain) : chain'[i] = chain[i]
    BY <1>0, <2>1
  <2>6. \A i \in 1 .. Len(chain') : StoredLog'[i] \in {chain'[i], Torn}
    <3>1. ASSUME NEW i \in 1 .. Len(chain') PROVE StoredLog'[i] \in {chain'[i], Torn}
      <4>1. i \in 1 .. Len(chain) \/ i = Len(chain) + 1
        BY <1>0, <2>5
      <4> QED
        BY <2>4, <2>5, <4>1
    <3> QED
      BY <3>1
  <2> QED
    BY <2>4, <2>5, <2>6 DEF ViewInv
<1>6. CASE Store!AddFails
  <2>1. chain' = chain /\ StoredLog' \in {StoredLog, Store!Kept}
    BY <1>6 DEF Store!AddFails, StoredLog
  <2>2. CASE StoredLog' = StoredLog
    BY <2>1, <2>2 DEF ViewInv
  <2>3. CASE StoredLog' = Store!Kept
    <3>1. /\ Len(chain) <= Len(Store!Kept)
          /\ \A i \in 1 .. Len(chain) : Store!Kept[i] \in {chain[i], Torn}
      BY <1>k, KeptView
    <3> QED
      BY <1>0, <1>k, <2>1, <2>3, <3>1 DEF ViewInv
  <2> QED
    BY <2>1, <2>2, <2>3
<1>7. ASSUME NEW b \in Block, Store!Crash(b) PROVE ViewInv'
  <2>1. chain' = chain /\ (StoredLog' \in {StoredLog, Store!Kept} \/ Store!Writes(b))
    BY <1>7 DEF Store!Crash, StoredLog
  <2>2. CASE StoredLog' = StoredLog
    BY <2>1, <2>2 DEF ViewInv
  <2>3. CASE StoredLog' = Store!Kept
    <3>1. /\ Len(chain) <= Len(Store!Kept)
          /\ \A i \in 1 .. Len(chain) : Store!Kept[i] \in {chain[i], Torn}
      BY <1>k, KeptView
    <3> QED
      BY <1>0, <1>k, <2>1, <2>3, <3>1 DEF ViewInv
  <2>4. CASE Store!Writes(b)
    <3>1. /\ StoredLog' \in Seq(Entry)
          /\ Len(chain) + 1 <= Len(StoredLog')
          /\ \A i \in 1 .. Len(chain) : StoredLog'[i] \in {chain[i], Torn}
      BY <2>4, AppendedView DEF Entry
    <3>2. Len(chain) <= Len(StoredLog')
      BY <1>0, <3>1
    <3> QED
      BY <1>0, <2>1, <3>1, <3>2 DEF ViewInv
  <2> QED
    BY <2>1, <2>2, <2>3, <2>4
<1>8. CASE Store!Revert
  <2>1. chain' = SubSeq(chain, 1, Len(chain) - 1) /\ StoredLog' = StoredLog /\ Len(chain) > 1
    BY <1>8 DEF Store!Revert, StoredLog
  <2>2. /\ chain' \in Seq(Block) /\ Len(chain') = Len(chain) - 1
        /\ \A i \in 1 .. Len(chain) - 1 : chain'[i] = chain[i]
    BY <1>0, <2>1
  <2> QED
    BY <1>0, <2>1, <2>2 DEF ViewInv
<1>9. CASE UNCHANGED Store!vars
  BY <1>9 DEF Store!vars, ViewInv, StoredLog
<1> QED
  BY <1>1, <1>2, <1>3, <1>4, <1>5, <1>6, <1>7, <1>8, <1>9 DEF Store!Next

(* The view of an abstract store is the beginning of its log as long as no *)
(* entry is torn, so that a restart brings all of it back.                 *)
THEOREM StoreIsDurable == Store!Spec => []Store!Durable
<1>1. Store!Init => ViewInv
  BY DEF Store!Init, ViewInv, StoredLog
<1>2. ViewInv => Store!Durable
  <2> SUFFICES ASSUME ViewInv, \A i \in DOMAIN StoredLog : StoredLog[i] # Torn
               PROVE  Store!IsPrefixOf(chain, StoredLog)
    BY DEF Store!Durable, StoredLog
  <2>1. StoredLog \in Seq(Entry) /\ chain \in Seq(Block) /\ Len(chain) <= Len(StoredLog)
    BY DEF ViewInv
  <2>2. \A i \in 1 .. Len(chain) : StoredLog[i] = chain[i]
    <3>1. ASSUME NEW i \in 1 .. Len(chain) PROVE StoredLog[i] = chain[i]
      <4>1. i \in DOMAIN StoredLog
        BY <2>1
      <4> QED
        BY <4>1 DEF ViewInv
    <3> QED
      BY <3>1
  <2> QED
    BY <2>1, <2>2 DEF Store!IsPrefixOf
<1> QED
  BY <1>1, <1>2, ViewStep, PTL DEF Store!Spec

(* The chain of a process, open or gone, is the beginning of what the next *)
(* one loads, as long as no file of those is torn: this holds of the       *)
(* abstract store, and Blockchain implements it.                           *)
THEOREM ChainIsDurable == Spec => []Store!Durable
BY ImplementsStore, StoreIsDurable DEF RefinesStore
=============================================================================
