------------------------------- MODULE Ledger -------------------------------
(***************************************************************************)
(* The ledger rules of PostQuantiqueCoin as operators without state: what  *)
(* a transaction does to a view of the unspent outputs, which fees and     *)
(* which subsidy a block may claim, and what makes a block acceptable on   *)
(* top of a chain (src/blockchain/UTXOSet.cpp, ChainValidation.cpp,        *)
(* Consensus.cpp, ChainParams.cpp and the const part of Blockchain.cpp).   *)
(*                                                                         *)
(* A transaction keeps its id, whether it is a coinbase, the outpoints it  *)
(* spends, the amounts it creates and what its input signatures commit to. *)
(* A block keeps the hash of its parent, its height and timestamp, one     *)
(* Boolean for the header checks the model does not tell apart (merkle     *)
(* root, difficulty bits, algorithm id, proof of work, clock) and its      *)
(* transactions.  Addresses and scripts are left out: every output is well *)
(* formed.  The 64-bit overflow branches are left out as well: a block of  *)
(* at most 4 MB cannot carry enough outputs of at most MaxSupply atoms.    *)
(***************************************************************************)
EXTENDS Integers, Sequences, FiniteSets, Functions

CONSTANTS
    Tx,              \* the transactions that may appear in pool or block
    Block,           \* the blocks that may be offered to the node
    Genesis,         \* BuildGenesisBlock(params)
    NoHash,          \* the all-zero hash
    MaxSupply,       \* params.maxSupplyAtoms
    InitialSubsidy,  \* params.initialSubsidyAtoms
    HalvingInterval, \* params.halvingInterval
    Maturity,        \* params.coinbaseMaturity
    MedianSpan,      \* how many headers the median time past looks at
    CryptoProvider   \* whether the chain was opened with a provider

TxIds == {tx.id : tx \in Tx}
Outpoint == TxIds \X Nat
UTXO == [amount : Nat, height : Nat, coinbase : BOOLEAN]

IsView(view) ==
    /\ view \in [DOMAIN view -> UTXO]
    /\ DOMAIN view \subseteq Outpoint

OutputSum(tx) == SumFunction(tx.outs)

ASSUME TxAssumption ==
    \A tx \in Tx :
        /\ tx.coinbase \in BOOLEAN
        /\ tx.sig \in {"utxo", "self", "none"}
        /\ tx.ins \in Seq(Range(tx.ins))
        /\ tx.outs \in Seq(Nat)
        /\ tx.size \in Nat

(* ComputeTxId hashes all of a transaction, the signatures included.       *)
ASSUME IdAssumption == \A s, t \in Tx : s.id = t.id => s = t

ASSUME BlockAssumption ==
    \A b \in Block :
        /\ b.id # NoHash
        /\ b.height \in Nat
        /\ b.time \in Nat
        /\ b.sealed \in BOOLEAN
        /\ b.txs \in Seq(Tx)

ASSUME ParamsAssumption ==
    /\ MaxSupply \in Nat
    /\ InitialSubsidy \in Nat
    /\ HalvingInterval \in Nat
    /\ Maturity \in Nat
    /\ MedianSpan \in Nat \ {0}
    /\ CryptoProvider \in BOOLEAN

-----------------------------------------------------------------------------
(* Unspent outputs. *)

AtMost(x, limit) == IF x > limit THEN limit ELSE x

Spends(tx) == Range(tx.ins)
Creates(tx) == {<<tx.id, n>> : n \in 0 .. Len(tx.outs) - 1}

NoUTXOs == [o \in {} |-> [amount |-> 0, height |-> 0, coinbase |-> FALSE]]

(* Mutant: maturity counted from the block after the coinbase's. *)
IsSpendableEarly(u, height) == u.coinbase => height + 1 >= u.height + Maturity
IsSpendable(u, height) == u.coinbase => height >= u.height + Maturity

InputSum(view, tx) == SumFunction([o \in Spends(tx) |-> view[o].amount])

(* Transaction::ValidateBasic: some inputs, some outputs, no outpoint      *)
(* twice, no zero or oversized output, a signature on every input.         *)
ValidateBasic(tx) ==
    /\ tx.ins # <<>>
    /\ tx.outs # <<>>
    /\ IsInjective(tx.ins)
    /\ \A n \in DOMAIN tx.outs : tx.outs[n] \in 1 .. MaxSupply
    /\ ~tx.coinbase => tx.sig # "none"

(* What the mempool and the fee calculation ask of a transaction's inputs. *)
InputsCover(view, tx, height) ==
    /\ Spends(tx) \subseteq DOMAIN view
    /\ \A o \in Spends(tx) : IsSpendable(view[o], height)
    /\ InputSum(view, tx) >= OutputSum(tx)

(* Mutant: what a block spends stays in the view. *)
RemovesNothing(tx, isCoinbase) == {}

(* The inputs of a block's first transaction are never looked at.          *)
Removes(tx, isCoinbase) == IF isCoinbase THEN {} ELSE Spends(tx)

(* UTXOSet::ApplyTransaction returns Ok; an output may not exist already.  *)
CanApply(view, tx, isCoinbase, height) ==
    /\ ~isCoinbase => ValidateBasic(tx) /\ InputsCover(view, tx, height)
    /\ \A n \in DOMAIN tx.outs : tx.outs[n] \in 1 .. MaxSupply
    /\ Creates(tx) \cap (DOMAIN view \ Removes(tx, isCoinbase)) = {}

Applied(view, tx, isCoinbase, height) ==
    [o \in (DOMAIN view \ Removes(tx, isCoinbase)) \cup Creates(tx) |->
        IF o \in Creates(tx)
        THEN [amount |-> tx.outs[o[2] + 1], height |-> height, coinbase |-> isCoinbase]
        ELSE view[o]]

-----------------------------------------------------------------------------
(* Subsidy, fees and supply. *)

(* initialSubsidyAtoms >> k for k below 64 *)
Halved[k \in 0 .. 63] == IF k = 0 THEN InitialSubsidy ELSE Halved[k - 1] \div 2

Subsidy(height, minted) ==
    LET halvings == IF HalvingInterval = 0 THEN 0 ELSE height \div HalvingInterval
    IN  IF minted >= MaxSupply \/ halvings >= 64
        THEN 0
        ELSE AtMost(Halved[halvings], MaxSupply - minted)

(* BuildGenesisBlock: a coinbase that claims the first subsidy, under a    *)
(* header that is searched for until its proof of work is valid.           *)
ASSUME GenesisAssumption ==
    /\ Genesis \in Block
    /\ Genesis.height = 0
    /\ Genesis.sealed
    /\ \E tx \in Tx :
          /\ Genesis.txs = <<tx>>
          /\ tx.coinbase
          /\ tx.outs = <<Subsidy(0, 0)>>
    /\ Subsidy(0, 0) > 0

CoinbaseSum(b) == IF b.txs = <<>> THEN 0 ELSE OutputSum(b.txs[1])

FeesOK(b, view) == \A i \in 2 .. Len(b.txs) : InputsCover(view, b.txs[i], b.height)

Fees(b, view) ==
    SumFunction([i \in 2 .. Len(b.txs) |-> InputSum(view, b.txs[i]) - OutputSum(b.txs[i])])

-----------------------------------------------------------------------------
(* Connecting blocks. *)

(* The loop of ConnectBlock over the transactions of a block: the view     *)
(* after the first i of them, for as long as all could be applied.         *)
ConnectTxs(view, b) ==
    LET after[i \in 0 .. Len(b.txs)] ==
            IF i = 0
            THEN [ok |-> TRUE, view |-> view]
            ELSE LET before == after[i - 1]
                 IN  IF before.ok /\ CanApply(before.view, b.txs[i], i = 1, b.height)
                     THEN [ok |-> TRUE,
                           view |-> Applied(before.view, b.txs[i], i = 1, b.height)]
                     ELSE [ok |-> FALSE, view |-> before.view]
    IN  after[Len(b.txs)]

(* Mutant: the supply is counted up by all a coinbase pays out, fees        *)
(* included, without the limit.                                            *)
ConnectBlockAll(state, b) ==
    LET txs == ConnectTxs(state.utxos, b)
    IN  [ok |-> txs.ok, utxos |-> txs.view, minted |-> state.minted + CoinbaseSum(b)]

(* Blockchain::ConnectBlock: all or nothing on the view and the supply.    *)
ConnectBlock(state, b) ==
    LET txs  == ConnectTxs(state.utxos, b)
        mint == AtMost(CoinbaseSum(b), Subsidy(b.height, state.minted))
    IN  IF txs.ok /\ state.minted <= MaxSupply /\ mint <= MaxSupply - state.minted
        THEN [ok |-> TRUE, utxos |-> txs.view, minted |-> state.minted + mint]
        ELSE [ok |-> FALSE, utxos |-> state.utxos, minted |-> state.minted]

(* Blockchain::RebuildUTXO over the blocks of a chain; it stops, with what *)
(* it has built so far, at the first block that does not connect.          *)
RebuildUTXO(chain) ==
    LET after[n \in 0 .. Len(chain)] ==
            IF n = 0
            THEN [ok |-> TRUE, utxos |-> NoUTXOs, minted |-> 0]
            ELSE IF after[n - 1].ok THEN ConnectBlock(after[n - 1], chain[n])
                                    ELSE after[n - 1]
    IN  after[Len(chain)]

-----------------------------------------------------------------------------
(* Validating a block on top of a chain. *)

Tip(chain) == chain[Len(chain)]
TipHash(chain) == IF chain = <<>> THEN NoHash ELSE Tip(chain).id
Height(chain) == IF chain = <<>> THEN 0 ELSE Tip(chain).height

(* The element at position size/2 of the last MedianSpan timestamps in     *)
(* ascending order: the upper of the two middle ones when there are two.   *)
MedianTimePast(chain) ==
    LET size  == AtMost(Len(chain), MedianSpan)
        last  == Len(chain) - size + 1 .. Len(chain)
        middle == size \div 2
    IN  CHOOSE t \in {chain[i].time : i \in last} :
            /\ Cardinality({i \in last : chain[i].time < t}) <= middle
            /\ Cardinality({i \in last : chain[i].time <= t}) > middle

(* Block::ValidateBasic *)
BlockBasic(b) ==
    /\ b.txs # <<>>
    /\ \A i \in DOMAIN b.txs :
        /\ b.txs[i].coinbase <=> i = 1
        /\ i > 1 => ValidateBasic(b.txs[i])

(* Mutant: a coinbase may claim the fees a second time. *)
SubsidyWithFeesTwice(b, minted, fees) ==
    CoinbaseSum(b) <= Subsidy(b.height, minted) + 2 * fees
(* Consensus::ValidateSubsidy *)
SubsidyOK(b, minted, fees) ==
    /\ CoinbaseSum(b) <= Subsidy(b.height, minted) + fees
    /\ minted <= MaxSupply
    /\ Subsidy(b.height, minted) <= MaxSupply - minted

(* Consensus::ValidateBlock.  Its signature check rebuilds the referenced  *)
(* output from the key in the input, so it only accepts a signature made   *)
(* over such an output ("self"), never one over the real output ("utxo").  *)
ConsensusOK(b, view, minted) ==
    /\ BlockBasic(b)
    /\ b.sealed
    /\ FeesOK(b, view)
    /\ SubsidyOK(b, minted, Fees(b, view))
    /\ CryptoProvider => \A i \in 2 .. Len(b.txs) : b.txs[i].sig = "self"

(* Blockchain::ValidateBlock *)
ValidateBlock(chain, view, minted, b) ==
    /\ b.prev = TipHash(chain)
    /\ b.height = (IF chain = <<>> THEN 0 ELSE Height(chain) + 1)
    /\ b.height > 0 => b.time > MedianTimePast(chain)
    /\ ConsensusOK(b, view, minted)

(* Blockchain::ValidateChain: link by link, and every block against the    *)
(* view of the blocks below it.                                            *)
ValidateChain(chain) ==
    \A n \in 1 .. Len(chain) :
        LET below == RebuildUTXO(SubSeq(chain, 1, n - 1))
        IN  /\ chain[n].height = n - 1
            /\ n > 1 => chain[n].prev = chain[n - 1].id
            /\ ConsensusOK(chain[n], below.utxos, below.minted)
            /\ ConnectTxs(below.utxos, chain[n]).ok

(* No two coinbases of a chain have the same id.  No rule of the code says *)
(* so.                                                                     *)
CoinbasesDiffer(chain) ==
    \A m, n \in DOMAIN chain : chain[m].txs[1].id = chain[n].txs[1].id => m = n
=============================================================================
