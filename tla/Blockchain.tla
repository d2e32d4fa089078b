----------------------------- MODULE Blockchain -----------------------------
(***************************************************************************)
(* A node's chain (src/blockchain/Blockchain.cpp): the blocks, the view of *)
(* unspent outputs and the supply in memory, the mempool and the block     *)
(* index, and the files blocks/<height>.blk and chainstate/block_index.dat *)
(* that a later process starts from.                                       *)
(*                                                                         *)
(* One process at a time works on the data directory.  While none runs     *)
(* (~up) the variables that stand for memory keep the values the last      *)
(* process left, so that a step can be compared with the one before the    *)
(* restart; no action reads them until Open has replaced them.             *)
(*                                                                         *)
(* MaxFaults says how often each kind of failure may happen: "store" (the  *)
(* block file is not written), "save" (writing the index or the utxo       *)
(* snapshot fails), "crash" (the process ends inside AddBlock or the first *)
(* Initialize) and "flush" (AtomicWrite returns Ok over a truncated file,  *)
(* because errors of the implicit close are not looked at).  What a failed *)
(* or interrupted AtomicWrite leaves behind -- the old file, no file, or   *)
(* the new one -- is derived in AtomicFile.                                *)
(***************************************************************************)
EXTENDS Mempool, BlockIndex

CONSTANTS
    NoFile,         \* there is no file for this height
    Torn,           \* there is one, and Block::Deserialize rejects it
    MaxHeight,      \* bound: the highest block offered
    MaxFaults,      \* bound: how many failures of each kind
    MaxDisconnects  \* bound: how many calls of DisconnectTip

FaultKinds == {"store", "save", "crash", "flush"}

ASSUME BoundsAssumption ==
    /\ MaxHeight \in Nat
    /\ MaxFaults \in [FaultKinds -> Nat]
    /\ MaxDisconnects \in Nat

ASSUME FileAssumption ==
    /\ NoFile \notin Block
    /\ Torn \notin Block
    /\ NoFile # Torn

VARIABLES
    up,          \* a process has the chain open
    chain,       \* chain_, the genesis block at position 1
    utxos,       \* utxos_
    minted,      \* mintedSupply_
    pool,        \* mempool_
    index,       \* index_
    files,       \* blocks/<height>.blk
    rows,        \* the rows of chainstate/block_index.dat
    faults,      \* failures so far, by kind
    disconnects  \* calls of DisconnectTip so far

memory == <<chain, utxos, minted, pool, index>>
disk == <<files, rows>>
vars == <<up, memory, disk, faults, disconnects>>

Heights == 0 .. MaxHeight

Init ==
    /\ up = FALSE
    /\ chain = <<>>
    /\ utxos = NoUTXOs
    /\ minted = 0
    /\ pool = EmptyPool
    /\ index = EmptyIndex
    /\ files = [h \in Heights |-> NoFile]
    /\ rows = {}
    /\ faults = [kind \in FaultKinds |-> 0]
    /\ disconnects = 0

Fault(kind) ==
    /\ faults[kind] < MaxFaults[kind]
    /\ faults' = [faults EXCEPT ![kind] = @ + 1]

Never(kind) == faults[kind] = 0

-----------------------------------------------------------------------------
(* Opening and leaving the data directory. *)

(* Load reads 0.blk, 1.blk, ... up to the first height without a file, and *)
(* looks neither at the links nor at the rules.                            *)
StoredBlocks(fs) ==
    LET count == CHOOSE n \in 0 .. MaxHeight + 1 :
                    /\ \A h \in Heights : h < n => fs[h] # NoFile
                    /\ n \in Heights => fs[n] = NoFile
    IN  [i \in 1 .. count |-> fs[i - 1]]

CanLoad(fs) ==
    /\ \A i \in DOMAIN StoredBlocks(fs) : StoredBlocks(fs)[i] # Torn
    /\ RebuildUTXO(StoredBlocks(fs)).ok

(* Initialize on a directory that has blocks. *)
OpenExisting ==
    /\ ~up
    /\ files[0] # NoFile
    /\ CanLoad(files)
    /\ up' = TRUE
    /\ chain' = StoredBlocks(files)
    /\ utxos' = RebuildUTXO(StoredBlocks(files)).utxos
    /\ minted' = RebuildUTXO(StoredBlocks(files)).minted
    /\ pool' = EmptyPool
    /\ index' \in LoadedIndexes(rows)
    /\ UNCHANGED <<disk, faults, disconnects>>

(* Initialize on one that has none: the genesis block is stored before the *)
(* chain holds it, and connected without being validated.                  *)
OpenFresh ==
    /\ ~up
    /\ files[0] = NoFile
    /\ up' = TRUE
    /\ chain' = <<Genesis>>
    /\ utxos' = RebuildUTXO(<<Genesis>>).utxos
    /\ minted' = RebuildUTXO(<<Genesis>>).minted
    /\ pool' = EmptyPool
    /\ \E loaded \in LoadedIndexes(rows) : index' = WithBlock(loaded, Genesis)
    /\ rows' = index'.known
    /\ \/ /\ files' = [files EXCEPT ![0] = Genesis]
          /\ UNCHANGED faults
       \/ /\ Fault("flush")
          /\ files' = [files EXCEPT ![0] = Torn]
    /\ UNCHANGED disconnects

(* The first Initialize fails or is interrupted once the genesis block is  *)
(* stored: no chain is handed out, and the index file is there or not.     *)
OpenFreshFails ==
    /\ ~up
    /\ files[0] = NoFile
    /\ Fault("save") \/ Fault("crash")
    /\ files' = [files EXCEPT ![0] = Genesis]
    /\ rows' \in {rows, {}, rows \cup {Genesis}}
    /\ UNCHANGED <<up, memory, disconnects>>

(* The process ends between two calls; nothing is written on the way out.  *)
Exit ==
    /\ up
    /\ up' = FALSE
    /\ UNCHANGED <<memory, disk, faults, disconnects>>

-----------------------------------------------------------------------------
(* AddBlock. *)

Connected(b) == ConnectBlock([utxos |-> utxos, minted |-> minted], b)

(* Mutant: what ConnectBlock returns is not looked at. *)
CanAddUnconnected(b) ==
    /\ up
    /\ b.height <= MaxHeight
    /\ ValidateBlock(chain, utxos, minted, b)

(* ValidateBlock and then ConnectBlock return Ok. *)
CanAdd(b) ==
    /\ up
    /\ b.height <= MaxHeight
    /\ ValidateBlock(chain, utxos, minted, b)
    /\ Connected(b).ok

(* What AddBlock does to memory once the block file is written. *)
Extend(b) ==
    /\ chain' = Append(chain, b)
    /\ utxos' = Connected(b).utxos
    /\ minted' = Connected(b).minted
    /\ index' = WithBlock(index, b)
    /\ pool' = WithoutConfirmed(pool, b)

(* Mutants: the block is not stored; or not over a file that is there; or  *)
(* the mempool keeps what the block confirms.                              *)
AddBlockUnstored(b) ==
    /\ CanAdd(b)
    /\ Extend(b)
    /\ rows' = index'.known
    /\ UNCHANGED <<up, files, faults, disconnects>>
AddBlockOnce(b) ==
    /\ CanAdd(b)
    /\ Extend(b)
    /\ files' = [files EXCEPT ![b.height] = IF @ = NoFile THEN b ELSE @]
    /\ rows' = index'.known
    /\ UNCHANGED <<up, faults, disconnects>>
AddBlockPooled(b) ==
    /\ CanAdd(b)
    /\ chain' = Append(chain, b)
    /\ utxos' = Connected(b).utxos
    /\ minted' = Connected(b).minted
    /\ index' = WithBlock(index, b)
    /\ files' = [files EXCEPT ![b.height] = b]
    /\ rows' = index'.known
    /\ UNCHANGED <<up, pool, faults, disconnects>>

AddBlock(b) ==
    /\ CanAdd(b)
    /\ Extend(b)
    /\ files' = [files EXCEPT ![b.height] = b]
    /\ rows' = index'.known
    /\ UNCHANGED <<up, faults, disconnects>>

(* StoreBlock fails after ConnectBlock has already moved the view and the  *)
(* supply; AddBlock returns the error with both as they are.               *)
AddBlockStoreFails(b) ==
    /\ Fault("store")
    /\ CanAdd(b)
    /\ utxos' = Connected(b).utxos
    /\ minted' = Connected(b).minted
    /\ \E left \in {files[b.height], NoFile} : files' = [files EXCEPT ![b.height] = left]
    /\ UNCHANGED <<up, chain, pool, index, rows, disconnects>>

(* Save fails: AddBlock returns an error, and the block has been added.    *)
AddBlockSaveFails(b) ==
    /\ Fault("save")
    /\ CanAdd(b)
    /\ Extend(b)
    /\ files' = [files EXCEPT ![b.height] = b]
    /\ rows' \in {rows, {}, index'.known}
    /\ UNCHANGED <<up, disconnects>>

(* Mutants: the index file is replaced before the block file; or the block *)
(* file is written in place.                                               *)
AddBlockCrashesIndexFirst(b) ==
    /\ Fault("crash")
    /\ CanAdd(b)
    /\ up' = FALSE
    /\ rows' = WithBlock(index, b).known
    /\ UNCHANGED <<memory, files, disconnects>>
AddBlockCrashesInPlace(b) ==
    /\ Fault("crash")
    /\ CanAdd(b)
    /\ up' = FALSE
    /\ files' = [files EXCEPT ![b.height] = Torn]
    /\ UNCHANGED <<memory, rows, disconnects>>

(* The process ends inside AddBlock: before, while or after the block file *)
(* is replaced, and after that before, while or after the index file is.   *)
AddBlockCrashes(b) ==
    /\ Fault("crash")
    /\ CanAdd(b)
    /\ up' = FALSE
    /\ \/ /\ \E left \in {files[b.height], NoFile} :
                files' = [files EXCEPT ![b.height] = left]
          /\ UNCHANGED rows
       \/ /\ files' = [files EXCEPT ![b.height] = b]
          /\ rows' \in {rows, {}, WithBlock(index, b).known}
    /\ UNCHANGED <<memory, disconnects>>

(* The block file is truncated, and nobody notices. *)
AddBlockTears(b) ==
    /\ Fault("flush")
    /\ CanAdd(b)
    /\ Extend(b)
    /\ files' = [files EXCEPT ![b.height] = Torn]
    /\ rows' = index'.known
    /\ UNCHANGED <<up, disconnects>>

-----------------------------------------------------------------------------
(* The tip and the mempool. *)

(* Mutant: the view and the supply are left as they are. *)
DisconnectTipOnly ==
    /\ up
    /\ Len(chain) > 1
    /\ disconnects < MaxDisconnects
    /\ disconnects' = disconnects + 1
    /\ chain' = SubSeq(chain, 1, Len(chain) - 1)
    /\ UNCHANGED <<up, utxos, minted, pool, index, disk, faults>>

(* DisconnectTip takes the last block off the chain and replays the rest;  *)
(* the block's file, its index entry and the mempool are left alone.       *)
DisconnectTip ==
    /\ up
    /\ Len(chain) > 1
    /\ disconnects < MaxDisconnects
    /\ disconnects' = disconnects + 1
    /\ chain' = SubSeq(chain, 1, Len(chain) - 1)
    /\ utxos' = RebuildUTXO(chain').utxos
    /\ minted' = RebuildUTXO(chain').minted
    /\ UNCHANGED <<up, pool, index, disk, faults>>

AddTransactionToMempool(tx) ==
    /\ up
    /\ Accepts(pool, tx, utxos, Height(chain))
    /\ pool' = WithTransaction(pool, tx, utxos)
    /\ UNCHANGED <<up, chain, utxos, minted, index, disk, faults, disconnects>>

AddAnyBlock ==
    \E b \in Block :
        \/ AddBlock(b)
        \/ AddBlockStoreFails(b)
        \/ AddBlockSaveFails(b)
        \/ AddBlockCrashes(b)
        \/ AddBlockTears(b)

Next ==
    \/ OpenExisting
    \/ OpenFresh
    \/ OpenFreshFails
    \/ Exit
    \/ AddAnyBlock
    \/ DisconnectTip
    \/ \E tx \in Tx : AddTransactionToMempool(tx)

Spec == Init /\ [][Next]_vars

-----------------------------------------------------------------------------
(* Properties. *)

IsPool(p) ==
    /\ p = [fee |-> p.fee, spent |-> p.spent]
    /\ p.fee = [tx \in DOMAIN p.fee |-> p.fee[tx]]
    /\ DOMAIN p.fee \subseteq Tx

IsIndex(i) ==
    /\ i = [known |-> i.known, at |-> i.at, tip |-> i.tip]
    /\ i.known \subseteq Block
    /\ i.at \in [DOMAIN i.at -> Block]
    /\ i.tip \in Block \cup {NoBlock}

(* The state variables keep the types of the members of Blockchain and of  *)
(* the files it writes.                                                    *)
TypeOK ==
    /\ up \in BOOLEAN
    /\ chain \in Seq(Block)
    /\ IsView(utxos)
    /\ minted \in Nat
    /\ IsPool(pool)
    /\ IsIndex(index)
    /\ files \in [Heights -> Block \cup {NoFile, Torn}]
    /\ rows \subseteq Block
    /\ faults \in [FaultKinds -> Nat]
    /\ disconnects \in 0 .. MaxDisconnects

(* The mempool's set of spent outpoints is exactly what its entries spend, *)
(* and no two entries spend the same one, through every acceptance and     *)
(* every removal of confirmed transactions: if an outpoint stayed behind,  *)
(* its owner could not spend it until the restart, and if one were missing *)
(* the pool would hold two rivals (DetectConflicts trusts spent_ alone).   *)
PoolConsistent ==
    /\ pool.spent = UNION {Spends(tx) : tx \in Entries(pool)}
    /\ \A s, t \in Entries(pool) : s # t => Spends(s) \cap Spends(t) = {}

(* A block has spent an input of the transaction in another one. *)
Overtaken(tx) ==
    \E n \in DOMAIN chain : \E i \in 2 .. Len(chain[n].txs) :
        chain[n].txs[i] # tx /\ Spends(chain[n].txs[i]) \cap Spends(tx) # {}

(* What the mempool holds could be mined now: inputs unspent, mature and   *)
(* sufficient, and the fee what was computed, though all this was only     *)
(* looked at when the entry came in; unless a block has taken an input of  *)
(* the entry, which nobody tells the pool, or the view went on without the *)
(* chain, or the chain back.                                               *)
PoolIsMinable ==
    up /\ Never("store") /\ disconnects = 0 =>
        \A tx \in Entries(pool) : ~Overtaken(tx) =>
            /\ InputsCover(utxos, tx, Height(chain) + 1)
            /\ pool.fee[tx] = InputSum(utxos, tx) - OutputSum(tx)

UnspentSum == SumFunction([o \in DOMAIN utxos |-> utxos[o].amount])

(* What is spendable never exceeds what was minted, whatever mixture of    *)
(* fees and partly claimed subsidies the blocks contain and whichever call *)
(* fails: a fee is paid out of what was minted before (ValidateSubsidy),   *)
(* and a subsidy that is not claimed is not counted (the min() in          *)
(* ConnectBlock).  Only a stale file under a disconnected tip breaks it.   *)
UnspentWithinMinted == disconnects = 0 => UnspentSum <= minted

(* What was minted never exceeds the limit of the supply, also when calls  *)
(* fail half-way: after StoreBlock failed the supply counts a block that   *)
(* the chain does not hold.                                                *)
MintedWithinLimit == minted <= MaxSupply

(* The chain in memory passes ValidateChain, whatever crashes or fails     *)
(* but StoreBlock: the checks made block by block against the running view *)
(* agree with the ones made from the genesis block up, and Load, which     *)
(* checks nothing, brings back only chains that were checked when they     *)
(* were stored.  Only a stale file under a disconnected tip breaks it.     *)
ChainIsValid == up /\ Never("store") /\ disconnects = 0 => ValidateChain(chain)

(* Double-spend prevention over the whole history: no two transactions of  *)
(* the chain, in one block or in two, spend the same outpoint.  A failing  *)
(* StoreBlock is left out, as in StateIsReplay.                            *)
OutpointSpentOnce == Never("store") =>
    \A p, q \in UNION {{n} \X (2 .. Len(chain[n].txs)) : n \in DOMAIN chain} :
        p # q => Spends(chain[p[1]].txs[p[2]]) \cap Spends(chain[q[1]].txs[q[2]]) = {}

(* Coinbase maturity over the whole history: whatever a block spends of an *)
(* earlier coinbase was created at least Maturity blocks below it, unless  *)
(* StoreBlock failed.                                                      *)
CoinbasesMature == Never("store") =>
    \A n \in DOMAIN chain : \A i \in 2 .. Len(chain[n].txs) :
        \A m \in 1 .. n :
            Spends(chain[n].txs[i]) \cap Creates(chain[m].txs[1]) # {}
                => chain[n].height >= chain[m].height + Maturity

(* The view and the supply in memory are what a replay of the chain from   *)
(* the genesis block gives, as RebuildUTXO would compute them: when the    *)
(* tip is disconnected, when Save fails, and after every restart.  Only a  *)
(* failing StoreBlock leaves them ahead of the chain.                      *)
StateIsReplay ==
    up /\ Never("store") =>
        LET replay == RebuildUTXO(chain)
        IN  replay.ok /\ utxos = replay.utxos /\ minted = replay.minted

(* Every block of the open chain is on disk, under its own height, unless  *)
(* a flush failed unnoticed.                                               *)
ChainOnDisk ==
    up /\ Never("flush") =>
        \A n \in DOMAIN chain : n - 1 \in Heights /\ files[n - 1] = chain[n]

Store == INSTANCE ChainStore WITH
    log <- StoredBlocks(files), view <- chain, open <- up, reverted <- disconnects > 0

(* The chain and its files are a ChainStore: no step takes a block of the  *)
(* chain off the disk, adds one to memory alone, or leaves more behind     *)
(* than the block it was adding, and a restart brings back the chain the   *)
(* process before it had, wherever that one was stopped.                   *)
RefinesStore == Store!Spec

(* A restart loses nothing: the chain a process opens extends the chain    *)
(* the process before it had, wherever that one was stopped and whatever   *)
(* failed in it but a flush.                                               *)
ReopenExtends ==
    [][~up /\ up' /\ Never("flush") /\ Never("flush")' =>
            /\ Len(chain) <= Len(chain')
            /\ chain = SubSeq(chain', 1, Len(chain))]_vars

Reopens == files[0] = NoFile \/ CanLoad(files)

(* Whatever a process leaves on disk when it is stopped or when Save fails *)
(* in it, the next one can open.                                           *)
CanReopen ==
    ~up /\ Never("store") /\ Never("flush") /\ disconnects = 0 => Reopens

(* Blocks persist on disk: what a process leaves there can be opened,      *)
(* whatever happened before.                                               *)
AlwaysReopens == ~up => Reopens

(* The index never knows a block whose file was not written: StoreBlock    *)
(* comes before Save in AddBlock and in Initialize.                        *)
IndexBehindFiles ==
    Never("flush") /\ disconnects = 0 =>
        /\ rows \subseteq Range(files)
        /\ up => index.known \subseteq Range(files)

(* As long as nothing fails while the index is written, it is the chain:   *)
(* the same blocks, each at its height, and the same tip, also after it    *)
(* was read back from its file.                                            *)
IndexMatchesChain ==
    up /\ Never("save") /\ Never("crash") /\ disconnects = 0 =>
          /\ index.known = Range(chain)
          /\ index.at = [h \in 0 .. Len(chain) - 1 |-> chain[h + 1]]
          /\ index.tip = Tip(chain)
=============================================================================
