------------------------------ MODULE Mempool -------------------------------
(***************************************************************************)
(* The mempool (src/blockchain/Mempool.cpp) as operators on a pool record: *)
(* fee maps the transactions it holds to the fee computed when they were   *)
(* accepted, and spent is the set of outpoints they spend.  The pool is    *)
(* not bounded and not persisted.  Transactions over the size limit of     *)
(* AddTransaction are not in Tx.                                           *)
(***************************************************************************)
EXTENDS Ledger

EmptyPool == [fee |-> [tx \in {} |-> 0], spent |-> {}]

Entries(pool) == DOMAIN pool.fee

(* Mempool::DetectConflicts *)
Conflicts(pool, tx) == Spends(tx) \cap pool.spent # {}

(* Mutant: a rival of an entry is not refused. *)
AcceptsRivals(pool, tx, view, height) ==
    /\ ~tx.coinbase
    /\ ValidateBasic(tx)
    /\ \A t \in Entries(pool) : t.id # tx.id
    /\ InputsCover(view, tx, height)
    /\ CryptoProvider => tx.sig = "utxo"

(* Mempool::AddTransaction returns Ok.  Unlike a block, the pool verifies  *)
(* a signature over the output that is really spent.  The other branch, a  *)
(* signature over "self" where the output has no public key hash, is never *)
(* taken: ApplyTransaction fills in the hash of the address, so that no    *)
(* view of the chain holds such an output.                                 *)
Accepts(pool, tx, view, height) ==
    /\ ~tx.coinbase
    /\ ValidateBasic(tx)
    /\ \A t \in Entries(pool) : t.id # tx.id
    /\ ~Conflicts(pool, tx)
    /\ InputsCover(view, tx, height)
    /\ CryptoProvider => tx.sig = "utxo"

WithTransaction(pool, tx, view) ==
    [fee   |-> [t \in Entries(pool) \cup {tx} |->
                   IF t = tx THEN InputSum(view, tx) - OutputSum(tx) ELSE pool.fee[t]],
     spent |-> pool.spent \cup Spends(tx)]

(* Mutant: the outpoints of removed entries stay in spent_. *)
WithoutConfirmedEntries(pool, b) ==
    [fee   |-> Restrict(pool.fee,
                   {t \in Entries(pool) : \A i \in DOMAIN b.txs : b.txs[i].id # t.id}),
     spent |-> pool.spent]

(* Mempool::RemoveConfirmedTransactions: the entries with the id of a      *)
(* transaction of the block go, and the outpoints they spend with them;    *)
(* an entry that spends one of those outpoints in another way stays.       *)
WithoutConfirmed(pool, b) ==
    LET confirmed == {t \in Entries(pool) : \E i \in DOMAIN b.txs : b.txs[i].id = t.id}
    IN  [fee   |-> Restrict(pool.fee, Entries(pool) \ confirmed),
         spent |-> pool.spent \ UNION {Spends(tx) : tx \in confirmed}]

(* Mempool::GetTotalFeesEstimate: over every entry, selected or not.       *)
TotalFees(pool) == SumFunction(pool.fee)

-----------------------------------------------------------------------------
(* Mempool::GetTransactionsForBlock. *)

(* The orders a sort by falling fee rate may leave the entries in.  Equal  *)
(* rates are ordered by a timestamp in seconds, and by nothing after it.   *)
SortedEntries(pool) ==
    {q \in [1 .. Cardinality(Entries(pool)) -> Entries(pool)] :
        /\ IsInjective(q)
        /\ \A i, j \in DOMAIN q :
            i < j => pool.fee[q[i]] * q[j].size >= pool.fee[q[j]] * q[i].size}

(* Taken in that order: an entry too large for the bytes left is passed    *)
(* over, and the loop ends once maxCount transactions are in.              *)
TakenFrom(q, maxCount, maxBytes) ==
    LET taken[n \in 0 .. Len(q)] ==
            IF n = 0
            THEN [txs |-> <<>>, bytes |-> 0]
            ELSE LET before == taken[n - 1]
                 IN  IF Len(before.txs) < maxCount /\ before.bytes + q[n].size <= maxBytes
                     THEN [txs |-> Append(before.txs, q[n]),
                           bytes |-> before.bytes + q[n].size]
                     ELSE before
    IN  taken[Len(q)].txs

GetTransactionsForBlock(pool, maxCount, maxBytes) ==
    {TakenFrom(q, maxCount, maxBytes) : q \in SortedEntries(pool)}
=============================================================================
