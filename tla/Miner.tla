-------------------------------- MODULE Miner --------------------------------
(***************************************************************************)
(* The miner (src/mining/Miner.cpp) on top of the chain: StartLoop builds  *)
(* a candidate block from the tip and the mempool, has the engine find a   *)
(* nonce for it, and submits it with AddBlock, again and again.  What the  *)
(* engine does meanwhile is in PowEngine; here it finds a nonce or stops.  *)
(*                                                                         *)
(* The chain can move between the building and the submission: blocks and  *)
(* transactions come in through the same Blockchain object.  A candidate   *)
(* is made by the node and need not be one of the blocks others offer.     *)
(***************************************************************************)
EXTENDS Blockchain

CONSTANTS
    Offered,            \* the blocks that others offer to the chain
    BlockId(_, _, _),   \* hash of a block by parent, timestamp, transactions
    CoinbaseId(_, _),   \* id of the coinbase that is mined on a parent, by its amount
    MaxCount,           \* 1000, the transactions a candidate takes
    MaxBytes            \* 3000000, their bytes

ASSUME LimitsAssumption ==
    /\ Offered \subseteq Block
    /\ MaxCount \in Nat
    /\ MaxBytes \in Nat

VARIABLES
    candidate,  \* the block being mined, NoBlock if there is none
    now         \* the clock, in seconds

minerVars == <<vars, candidate, now>>

MinerInit ==
    /\ Init
    /\ candidate = NoBlock
    /\ now = 1

(* AddCoinbaseTransaction: one output with the whole reward.  Timestamp    *)
(* and extra nonce make its id one that no other block has.                *)
MinerCoinbase(reward) ==
    [id |-> CoinbaseId(TipHash(chain), reward), coinbase |-> TRUE, ins |-> <<>>,
     outs |-> <<reward>>, sig |-> "none", size |-> 1]

(* BuildCandidateBlock over a selection of the mempool.  The fees it       *)
(* claims are those of every entry, as SelectMempoolTransactions returns   *)
(* them, whether it selected the entry or not.                             *)
CandidateOf(selected) ==
    LET height == Height(chain) + 1
        fees == TotalFees(pool)
        txs == <<MinerCoinbase(Subsidy(height, minted) + fees)>> \o selected
    IN  [id |-> BlockId(TipHash(chain), now, txs), prev |-> TipHash(chain),
         height |-> height, time |-> now, sealed |-> TRUE, txs |-> txs]

BuildCandidateBlock ==
    /\ up
    /\ candidate = NoBlock
    /\ Height(chain) < MaxHeight
    /\ \E selected \in GetTransactionsForBlock(pool, MaxCount, MaxBytes) :
            candidate' = CandidateOf(selected)
    /\ UNCHANGED <<vars, now>>

(* Mutant: a block that was rejected is submitted again. *)
SubmitUntilAccepted ==
    /\ up
    /\ candidate # NoBlock
    /\ \/ AddBlock(candidate) /\ candidate' = NoBlock
       \/ ~CanAdd(candidate) /\ UNCHANGED <<vars, candidate>>
    /\ UNCHANGED now

(* MineNextBlock after the engine has found a nonce. *)
SubmitBlock ==
    /\ up
    /\ candidate # NoBlock
    /\ candidate' = NoBlock
    /\ \/ AddBlock(candidate)
       \/ ~CanAdd(candidate) /\ UNCHANGED vars
    /\ UNCHANGED now

(* The engine was stopped: the candidate is dropped. *)
MiningStopped ==
    /\ up
    /\ candidate # NoBlock
    /\ candidate' = NoBlock
    /\ UNCHANGED <<vars, now>>

(* The clock is let run one second ahead of the tip; more makes no         *)
(* difference to what is compared with it.                                 *)
Tick ==
    /\ up
    /\ now <= Tip(chain).time
    /\ now' = now + 1
    /\ UNCHANGED <<vars, candidate>>

(* What the rest of the program does to the chain.  Nothing in it calls    *)
(* DisconnectTip.                                                          *)
ChainStep ==
    /\ \/ OpenExisting
       \/ OpenFresh
       \/ \E b \in Offered : AddBlock(b)
       \/ \E tx \in Tx : AddTransactionToMempool(tx)
    /\ UNCHANGED <<candidate, now>>

ExitMiner ==
    /\ Exit
    /\ candidate' = NoBlock
    /\ UNCHANGED now

MinerNext ==
    \/ BuildCandidateBlock
    \/ SubmitBlock
    \/ MiningStopped
    \/ Tick
    \/ ChainStep
    \/ ExitMiner

MinerSpec == MinerInit /\ [][MinerNext]_minerVars

-----------------------------------------------------------------------------
(* Properties. *)

(* The pool fits into one block. *)
PoolFits ==
    /\ Cardinality(Entries(pool)) <= MaxCount
    /\ SumFunction([tx \in Entries(pool) |-> tx.size]) <= MaxBytes

(* What becomes of a candidate: the chain accepts it if and only if nobody *)
(* else's block has come in before, the clock has passed the median, there *)
(* is something left to claim, no block has overtaken a transaction that   *)
(* was taken from the pool, the fees it claims are those of what it took,  *)
(* and, where there is a crypto provider, it took nothing.  And while the  *)
(* pool fits into a block it claims what it may, no more and no less.  The *)
(* miner makes up coinbase and fees on its own, over all of the pool, and  *)
(* selects from entries that were checked against earlier views and with   *)
(* another signature check; there is no other way to fail, and none of     *)
(* these is noticed before the search for a nonce.  A coinbase with the id *)
(* of an earlier one is left out.                                          *)
CandidateFate ==
    /\ up
    /\ candidate # NoBlock
    /\ CoinbasesDiffer(Append(chain, candidate))
    => LET taken == 2 .. Len(candidate.txs)
           fees == SumFunction([i \in taken |-> pool.fee[candidate.txs[i]]])
           reward == Subsidy(candidate.height, minted) + fees
           current == candidate.height = Height(chain) + 1
       IN  /\ CanAdd(candidate) <=>
                 /\ current
                 /\ candidate.time > MedianTimePast(chain)
                 /\ CoinbaseSum(candidate) > 0
                 /\ \A i \in taken : ~Overtaken(candidate.txs[i])
                 /\ CoinbaseSum(candidate) <= reward
                 /\ CryptoProvider => taken = {}
           /\ current /\ PoolFits => CoinbaseSum(candidate) = reward

(* The chain accepts what the miner built for it, as its own program and   *)
(* the tests expect: a candidate for the next height, with a timestamp     *)
(* above the median and something in its coinbase, passes ValidateBlock    *)
(* and connects, unless it has taken an entry that a block has overtaken   *)
(* or claims the fees of entries it had no room for.                       *)
CandidateIsAccepted ==
    /\ up
    /\ candidate # NoBlock
    /\ candidate.height = Height(chain) + 1
    /\ candidate.time > MedianTimePast(chain)
    /\ CoinbaseSum(candidate) > 0
    /\ PoolFits
    /\ \A i \in 2 .. Len(candidate.txs) : ~Overtaken(candidate.txs[i])
    /\ CoinbasesDiffer(Append(chain, candidate))
    => CanAdd(candidate)

(* Every accepted transaction is confirmed, or the process ends, or the    *)
(* bound on the height is reached.  Not so from when the pool holds an     *)
(* entry that a block has overtaken, which the miner takes into every      *)
(* candidate, or more than fits into a block, since it claims the fees of  *)
(* all of it; and never where there is a crypto provider.                  *)
PooledIsMined ==
    \A tx \in Tx : up /\ tx \in Entries(pool)
        ~> \/ tx \notin Entries(pool)
           \/ ~up
           \/ \E t \in Entries(pool) : Overtaken(t)
           \/ ~PoolFits
           \/ CryptoProvider
           \/ Height(chain) = MaxHeight
=============================================================================
