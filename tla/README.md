# PostQuantiqueCoin in TLA+

A verification project for PostQuantiqueCoin (`src/PostQuantiqueCoinCore`), a C++17
coin with post-quantum signatures: a node that keeps a chain on disk, a miner, a
wallet and a small P2P layer. The specifications below are written from the
source. TLC checks them on small instances; TLAPS proves the most important
properties for every value of the constants.

Paths in this file are relative to `src/PostQuantiqueCoinCore/`.

## 1. The system

| Part | Source | State it keeps | Operations | What makes it correct |
|---|---|---|---|---|
| Ledger rules | `src/blockchain/{Consensus,ChainValidation,ChainParams,UTXO,UTXOSet,Transaction,Block}.cpp` | none (functions of a view of unspent outputs) | validate, apply, connect, subsidy, fees, median time | no outpoint spent twice, maturity, fixed supply, fees paid from minted coins |
| Chain | `src/blockchain/Blockchain.cpp` | `chain_`, `utxos_`, `mintedSupply_`, `mempool_`, `index_`; `blocks/<h>.blk` | `Initialize`, `AddBlock`, `DisconnectTip`, `AddTransactionToMempool`, `ValidateChain` | memory is the replay of the chain, the chain is on disk, a restart opens it and loses nothing |
| Mempool | `src/blockchain/Mempool.cpp` | `entries_`, `spent_` | add, remove confirmed, select for a block | `spent_` is what the entries spend; entries stay minable |
| Block index | `src/storage/BlockIndex.cpp` | rows by hash and height, tip; `chainstate/block_index.dat` | add, save, load | never ahead of the block files; survives its own file format |
| File storage | `src/storage/FileStorage.cpp` | files | `AtomicWrite` and plain I/O | no half file; what a return means |
| Miner | `src/mining/Miner.cpp` | `stop_`, the candidate | build a candidate, mine, submit, loop, stop | the chain accepts what the miner built; what is in the mempool gets mined |
| PoW engine | `src/mining/CpuPowEngine.cpp` | `stopped_`, counters, worker threads | `Mine`, `Stop`, worker loop | one worker writes the result, a result solves the block asked for, found and stopped end the search |
| Difficulty | `src/blockchain/Difficulty.cpp` | none | compact targets, retarget | the work follows the time a period took |
| Wallet | `src/wallet/Wallet*.cpp`, `src/cli/WalletCLI.cpp` | keys, lock state, unlock deadline, wallet file | create, open, unlock, lock, new address, import, send, backup, recover | no key is lost, nothing sensitive while locked, transactions the chain accepts |
| Coin selection | `src/wallet/CoinSelection.cpp` | none | branch and bound, privacy aware, consolidation | covers the target, from the candidates, bounded inputs |
| Peer manager | `src/p2p/{PeerManager,Peer}.cpp` | peers, reputation, bans; `peers.dat` | add, report good or invalid, ban, unban, load, save | a ban lasts as long as it says, while the process runs |
| P2P server | `src/p2p/P2PServer.cpp` | listening socket, threads, metrics | start, stop, accept, handle | stop ends what start began |
| P2P client and messages | `src/p2p/P2P{Client,Message}.cpp`, `Protocol.cpp` | one socket | connect, send, receive, handshake | both sides agree that a handshake succeeded; nobody waits for ever or is blamed for delays |
| Configuration | `src/core/Config.cpp`, `src/main_*.cpp` | none | load, environment, arguments, validate | what is checked is what is opened; a safe start is one unless it was refused by name |
| Amounts | `src/core/Amount.cpp` | none | parse, format, add | what is read is exact |
| Crypto, hashing, encodings | `src/crypto/*`, `src/core/{Hash,Hex,Serialization}.cpp`, `src/mining/PQ*.cpp` | none | primitives | |
| Programs | `src/main_{node,miner,wallet}.cpp`, `src/cli/*` | none | one command per process | |

How they interact. Everything meets in one `Blockchain` object: the miner, the
command line and (in principle) the network call its methods, on one thread. A
method reads the view in memory, changes it, and writes files through
`FileStorage::AtomicWrite`. The only threads are the workers of the engine, the
thread that runs `Miner::StartLoop`, whoever calls `Miner::Stop`, and those of
the P2P server. Two things outlive a process: the block files with the index, and
the wallet file.

What is hard about it, and what the properties are therefore about:

- AddBlock changes memory before it writes, and writes two files one after the
  other; any of that can fail, and the process can end between any two steps;
- what is on disk is read back without being validated;
- DisconnectTip changes memory and leaves files, index and mempool alone;
- the mempool and the miner look at views of different age, and compute heights,
  fees and signatures differently from the block check;
- two workers find a nonce at the same moment, a stop races with the start of the
  next search;
- the wallet keeps keys in memory that are not yet on disk;
- a server thread and a client read each other's messages in pieces, without timeouts,
  and the server closes behind its last answer;
- settings come from four places, one after the other, and are checked at the end.

The full list, line by line, is under `hazards` in `PROJECT.json`.

## 2. The modules

`Ledger` <- `BlockIndex`, `Mempool` <- `Blockchain` <- `Miner` <- `WalletSpend`: the
core, one module on top of the other; `WalletSpend` takes `CoinSelection` in as
well. `ChainStore` is the abstract specification that `Blockchain` implements, `KeyStore` the one
that `Wallet` implements.
`PeerManager` <- `P2PServer`, `Handshake` and `Wallet` stand beside it, as the network
and the key store do in the code. `AtomicFile` and `PowEngine` stand alone: each
justifies an abstraction that `Blockchain`, `Wallet` or `Miner` makes. `CoinSelection`,
`Difficulty`, `Amounts` and `Startup` are functions without state. `MC*` modules give
the constants their values for TLC; `*Proofs` modules hold the theorems: `BlockchainProofs`
and `ChainRulesProofs` those of the chain and the miner, `WalletProofs` those of the wallet
and of its file, `SelectionProofs` what coin selection returns, `AlgorithmProofs` the
theorems about functions and about the engine, `SpendProofs` those about payments,
`NetworkProofs` those of the P2P part. `Recursion` holds the facts about recursive
functions, sums and powers that they need.

### Ledger

Operators without state. A transaction is a record of its id, whether it is a coinbase,
the outpoints it spends, the amounts it creates, and what its signatures commit to; a
block a record of id, parent, height, time, transactions and one Boolean (`sealed`) for
the header checks that no property tells apart (merkle root, bits, algorithm, proof of
work, clock). A view of the unspent outputs is a function from outpoints. An output that
leaves its key hash out is one with the hash of its address: `UTXOSet::ApplyTransaction`
fills it in. `ConnectBlock`, `ValidateBlock`, `RebuildUTXO` and `ValidateChain` are the
functions of the same names; failure is a field `ok`. Loops over the transactions of a
block and the blocks of a chain are recursive functions, so that they can be proved about.

The signature is three-valued. The mempool checks it over the output that is
spent ("utxo"), `Consensus::ValidateTransactions` over an output rebuilt from the
key in the input ("self"); without a crypto provider neither is checked.

### Mempool, BlockIndex

Operators on a pool record (`fee`, `spent`) and an index record (`known`, `at`,
`tip`). Where the code's result depends on a hash order (rows of the index file,
entries of equal fee rate) the operator is the set of possible results. `AddTransaction`
has a branch for outputs without a key hash, which no view of the chain can hold
(a test puts one into a view by hand); `Accepts` leaves it out.

### Blockchain

The state machine of a node. `up` says that a process has the directory open;
`chain`, `utxos`, `minted`, `pool`, `index` are its members; `files` and `rows`
are the disk. One action per call: `OpenExisting` and `OpenFresh` (Initialize),
`AddBlock`, `DisconnectTip`, `AddTransactionToMempool`, `Exit`. A call that fails
half-way is an action of its own with exactly what the code has done by then:
`AddBlockStoreFails` (the view has moved, the chain has not), `AddBlockSaveFails`
(the block is in, the caller gets an error), `AddBlockCrashes` (any prefix of the
writes), `AddBlockTears` (a write that reports success over a cut file). Failing
calls that change nothing are stutters and left out. `MaxFaults` bounds the number
of failures of each kind, `MaxDisconnects` the calls of DisconnectTip, `MaxHeight`
the height.

### ChainStore

What the files of a node promise, without saying how: a log of blocks, the view of it
that the open process has, and whether the view was ever shortened. A block enters the
view together with the log; a failed or interrupted call leaves the log longer by the
block it was adding, or without what was above the view; opening takes the whole log.
`Blockchain!RefinesStore` is `ChainStore!Spec` with the log read from the block files
(`StoredBlocks`), the view `chain`, and `up` for `open`. StoreBlock and Save are two
writes there and one step here: that is the point of it.

### AtomicFile

`FileStorage::AtomicWrite` step by step: open, write, implicit close, remove,
rename, with a failure at each step, an unnoticed failure of the close, and a
crash between any two. It is where Blockchain's "the old file, none, or the new
one" comes from: `ReturnMeans` is that statement.

### Miner

Miner.cpp on top of Blockchain: `BuildCandidateBlock`, `SubmitBlock`,
`MiningStopped`, a clock. The candidate keeps the tip, time and fees it was built
with while blocks and transactions come in from elsewhere. The hash of a block
and of a coinbase are the operators `BlockId` and `CoinbaseId`. `CandidateFate` says when
exactly the chain accepts a candidate, with a crypto provider or without;
`CandidateIsAccepted` is what one would expect, and `miner_signed` shows where it fails.

### PowEngine

`CpuPowEngine::Mine` with its worker threads and `Miner::StartLoop`/`Stop` around
it, one action per access to shared state: the two atomics of a worker's check,
the counter and the store of its copy, the exchange on `found`, the write of the
result, the reset of `stopped_`. `Hash` is any function of candidate, worker and
nonce.

### Wallet

The keys of one wallet in three places: the file, the `Wallet` object of the process
that has it open, and a backup. A key record is a key and the master key its private
part is sealed with; a master key is a password and a salt. `CreateWallet`, `Unlock`,
`OpenOnly`, `LockWallet`, `SetAutoLockTimeout`, `SendOrSign` (as far as it can lock
the wallet), `NewAddress`, `ImportPrivateKey`, `Save`, `Backup`, `CloseWallet`,
`DeleteWallet`, `Exit` and a clock. A write succeeds, fails, or is where the process
ends (`NewAddressCrashes`); what is then on disk is what `AtomicFile` shows. Deadlines
are computed modulo `TimeSpace`, as in the code. `shown` and `wanted` are history: the
addresses the user was given and the unlock last asked for.

### KeyStore

What a wallet promises about its keys, without passwords, salts, locks and clocks: the
keys that the password of the file opens (`saved`), those an unlocked wallet can sign
with (`held`), those of the backup, and the ones whose address the user has. Unlocking brings
back all that was saved, keys are only added, and what is written is what is held.
`Wallet!RefinesKeyStore` is `KeyStore!Spec` with, in each place, the keys whose record the
master key of that place opens (`Usable`): a key that is there and cannot be opened is
not a key of the store.

### CoinSelection, Difficulty, Amounts, Startup

Operators without state.

- `CoinSelection`: the selection methods over a bag of coins. The branch and bound of the
  code is a loop over all subsets by bit mask, with a fallback when there are too many
  coins (20 in the code, `SearchLimit`) or none fits; here it is a recursive function
  over the masks that keeps the same incumbent. Sorting and filtering are stated by what
  they do (`InOrder`: the coins at some indices, each in the place that the number of those
  before it gives), so that a proof can use it.
- `Difficulty`: compact targets (an exponent and three bytes of mantissa, in base `Base`
  with `Digits` digits instead of 256 and 32), the clamp, the multiplication that drops
  what leaves 256 bits, the limit, and `CalculateNextWorkRequired` over the last blocks.
- `Amounts`: FromCoinsString and ToCoinsString over sequences of digits, points and other
  characters, with the widths as constants.
- `Startup`: `Config::Load`, `ApplyArgs`, `Validate` and the `main` functions, up to the
  call that opens the chain. A configuration file is a sequence of lines of tokens, a
  command line a sequence of words; an exception or an error is the empty set. The name
  of a crypto provider is the set of the searched words that it contains.

### WalletSpend

`CreateTransaction`, the balances and `commandSend` on top of Miner: candidates are
the spendable outputs of the ring's addresses at the tip, payments are built from
what CoinSelection gives, change below the limit becomes an output or not as in the
code, and `Send` hands the transaction to the mempool. The wallet does not know what
it has sent. An output may ask for a signature algorithm that the key of its address
does not have (`Signable`): it counts in the balance and is chosen like any other, and a
payment that rests on it is not made. The other refusal at that place, for a coin whose
key hash is not its key's, has no case: a coin is found by its address, and the view
holds none whose hash is another.

### PeerManager, P2PServer, Handshake

The manager's list of peers with reputation, strikes and bans, its file, and the
operations, each one step because it holds the mutex from beginning to end. The server
adds the threads: the owner (`Start`; `Stop` in three steps: flag, close, join), the
accept thread (check, accept or wait), and one `HandleClient` per connection. What
comes in over a connection is free. Whether closing a socket wakes an `accept` differs
between systems: the variable `wakes` is either.

`Handshake` looks into one connection: `P2PClient` on one side, `HandleClient` on the
other, and between them two streams of message headers and pieces of payload. `Recv`
takes one piece; `Finished` and `Deserialize` are the checks a message meets (network,
command, size). Either side may end at any time, and a socket that is closed with
something unread may destroy what the other has not read (`Reset`). A client may send
another message before its handshake, with a payload that is too large or a command that
is too long to be sent.

## 3. What TLC checks

Twelve runs, in `PROJECT.json` with their properties. All bounds are constants of the
configurations.

| Run | Question | Instance |
|---|---|---|
| `chain_plain` | is no outpoint spent twice and no coinbase early over the whole history, and does the pool know what it spends? | 18 kinds of good and bad blocks at heights 1 to 4 (an overpaid coinbase, a double spend in one block and over two, an immature spend, a spend of an output of the same block, a stale time, unclaimed subsidy, every fee), all orders, restarts, mempool; a halving every two blocks and a supply that runs out |
| `chain_faults` | what survives failures: is it a ChainStore, a valid chain, the replay of it, and can it be opened? | blocks with a fee, with a spend of a spend of an earlier block or of their own, with two spends of one output, and with a coinbase that claims too much or too little; one failure each of StoreBlock, Save and the unnoticed flush, one process end inside a call, a disconnect, restarts; heights to 3, where the supply ends |
| `engine_and_file` | what does a return of AtomicWrite mean? do the threads of the engine agree? | one of the two in each behaviour: four calls with three contents, every failure and interruption, one unnoticed failure of a close; or two workers that can both find a nonce, counters that wrap around, two starts and two stops of the loop |
| `wallet_keys` | is a key ever lost or sealed wrongly, and is the wallet a KeyStore? | three keys, two passwords, two wallets, a failing write, a clock of five ticks with timeouts of which one wraps around |
| `wallet_send` | can the wallet spend what it shows, and is what it sends mined? | a mining wallet with two addresses that pays itself and a stranger, a copy of it that sends rivals and other spends, two of which are too large for one block; a foreign third block that overtakes the miner and the pool, empty or with a rival that pays the wallet a coin it cannot sign for; height 4 |
| `p2p_server` | do bans hold, and does stop end the server? do the two sides of a handshake agree and end? | two connections at a time, three in all, a ban time of one tick and bans of two on demand, limits reached after two or three invalid messages, a file with a double and a malformed line; and, in behaviours of its own, a handshake on the networks 0, 1 and 2 with payloads of up to two pieces and one beyond |
| `algorithms` | do the pure functions compute what they should? | every bag of up to five coins of 1, 2, 3 and 5 from two owners, every target to 9; every target of one block to the limit, periods of 0 to 40 seconds against an expected 8, chains of 0 to 4 blocks; every text of up to six characters; every command line of up to four of eight words, with no file, one line of seven, or two lines, three environments and both providers |
| `store_reopen` | violation: `AlwaysReopens` | one failing StoreBlock |
| `coinbase_again` | violation: `OutpointSpentOnce` | a block that repeats an earlier coinbase |
| `miner_signed` | violation: `CandidateIsAccepted` | `wallet_send` with a crypto provider |
| `start_production` | violation: `ProductionStarts` | a build with liboqs and nothing configured |
| `environment_overrides` | violation: `EnvironmentOverridesFile` | no command line, every file and environment of `algorithms` |

Why the bounds are enough. Heights of 3 and 4 hold a change of the subsidy (a halving, the
end of the supply) and a median window that has filled. In `chain_faults`, where three
blocks after the first one mint all there is, the second of them may spend the coinbase of
the first for a fee, the third may spend that spend and is also offered with both spends
of a chain in it, with two rivals, and with a coinbase of one atom too many, so that the
replay, the rebuild and ValidateChain meet accepted and refused spends between the
failures; more kinds of bad blocks are in `chain_plain`. Each kind of failure happens at
most once per behaviour, and one disconnect, because a second one of the same kind meets
only states the first has already produced: an old, a new or no file. Two workers are all
that `found.exchange` can tell apart; OneWriter is proved for any number. In `wallet_send`
a block has room for two transactions of four bytes together: with two payments waiting, a
candidate takes all, or claims the fees of what it has no room for. The ring may hold the
miner's address, the one with the coin it cannot sign for, both, or one of them twice.
`SearchLimit` 4 with bags of five coins puts both sides of the limit into the run, as 20
does with more coins. Three keys are one in the backup, one in the file and one in memory
only. Base 4 with four digits keeps what base 256 with 32 has: a mantissa that loses its
sign bit, exponents on both sides of 3, and a product that leaves the digits. Three
networks are the wildcard 0 and two that differ; payloads of two pieces arrive in part.

What the violations show.

- `store_reopen`. AddBlock connects the block to the view before it stores it, and
  does not take that back when StoreBlock fails. The next block is checked against a
  view of a block that is not in the chain; it may spend from it, is accepted and
  stored, and the next start cannot replay what is on disk.
- `coinbase_again`. A coinbase need not contain its height. ApplyTransaction refuses an
  output only while it exists, so the coinbase of an earlier height may be repeated
  after it was spent, and its outpoint is spent twice in one chain. `chain_plain`
  therefore has no such block: without it, OutpointSpentOnce holds.
- `miner_signed`. The mempool verifies a signature over the output that is spent,
  Consensus::ValidateTransactions over one rebuilt from the key in the input, with
  amount zero. What passes the first fails the second, and a candidate with any spend
  is rejected. `wallet_send` runs without a provider, where neither check is made and
  something happens to the payments; that CandidateFate holds with one as well is proved.
- `start_production`. Validate wants "liboqs" or "OQS" in the provider's name. The one
  built with liboqs is called "OqsPqCryptoProvider ML-DSA-65 ML-KEM-768", so that the
  production build refuses mainnet and testnet until the user turns `safe_start` off,
  which turns the other checks off as well.
- `environment_overrides`. Config::Load reads PQC_NETWORK and PQC_DATADIR before the file,
  whose lines then override them. docs/CONFIG_REFERENCE.md:3 of the code says that they
  override the file, as the command line does. OpensAsTold leaves open which of the two
  decides.

Further differences between the code and what one may expect of it, met while
modelling and not run on their own:

- after DisconnectTip the file of the block stays: a restart brings it back, or puts
  it on top of another branch when that one is shorter, with broken links and a supply
  that does not match (CanReopen, ChainIsValid, UnspentWithinMinted, PoolIsMinable and the
  two properties of the index are stated for behaviours without a disconnect);
- after a failed StoreBlock, ValidateChain and the replay disagree with memory
  (StateIsReplay, ChainIsValid, CanReopen, PoolIsMinable, OutpointSpentOnce and
  CoinbasesMature are stated without it);
- AtomicWrite removes the target before it renames, so an interrupted call can leave
  no file at all, and a close that fails unnoticed leaves a cut one;
- an entry whose rival a block confirmed stays in the pool, and every later candidate
  contains it and is rejected (`wallet_send` has such a rival, and from then on nothing is
  mined); a candidate claims the fees of entries it had no room for, so that nothing is
  mined either while the pool holds more than a block; with the subsidy exhausted and no
  fees its coinbase has a zero output, which the checks refuse. CandidateFate states each
  of these refusals; PoolIsMinable and PooledIsMined name the cases they are about as
  their exceptions (`Overtaken`, `PoolFits`, `CryptoProvider`);
- a coin that waits in the mempool to be spent, or that asks for an algorithm its key does
  not have (Wallet.cpp:328), counts in the balance, is chosen for a payment and makes it
  fail, also where other coins would do: BalanceIsSendable says that nothing else does;
- a stop that comes before Mine has reset `stopped_`, or before the loop has reset `stop_`,
  is lost; `commandNewAddress` shows an address whose key it failed to save;
- `pqc_wallet unlock` (README.md:58 of the code) unlocks a wallet that ends with the
  process; a payment that `send` queues waits in a mempool that ends with it, too;
- addresses of a wallet always carry the mainnet id, so CreateTransaction on another
  network refuses the wallet's own; a key imported twice counts twice;
- with more than 20 coins no subset is searched; SelectPrivacyAware falls back to a
  vector it has moved from; RotatePassword leaves the key records under the old
  master key (none of the last two is called);
- an inbound peer is known by its address and port of the moment and sends one message
  per connection, so that its strikes do not add up and a ban does not meet it again;
  the accept thread does not look at bans; a saved IPv6 peer is read back as another
  one; an endpoint that the peers file names twice has a second entry that no ban
  reaches; Unban keeps the strikes, a ban ends with the process; an invalid message of a peer
  that is banned for longer than 24 hours shortens the ban to 24 hours;
- where close does not wake a thread in accept, Stop waits until somebody connects;
- the counters of `P2PServer::metrics_` are plain integers that several threads write
  and `Metrics` copies without a lock; `P2PServerOptions::handshakeTimeout` and the
  timeouts of the client's Connect and Receive are never read, so that nothing ends a
  connection that stays silent;
- the server closes the connection behind its answers, so that the connection of a
  handshake that succeeded can carry nothing more, and the verack it never reads may
  make the system destroy answers that are still on their way; three of the known
  commands (pq_client_hello, pq_server_hello, pq_session_confirm) are longer than the
  12 characters a message has for them and cannot be sent; a client on network 0 reads
  everything and is refused by every server but one on network 0;
- PeerManager::Save writes in place, so an interrupted one leaves a cut list, and a
  malformed line is reported by an exception out of a call that returns a Status;
- nothing locks a data directory or a wallet file: of two programs on one file the one
  that saves last wins;
- the retarget compares the time of interval - 1 blocks with what interval blocks should
  take. A target of a quarter of the 256-bit range and above, like the limit every network
  starts with, overflows when it is multiplied: a slow period then makes blocks harder.
  RetargetFollowsTime is stated below that range;
- the wallet program reads the default configuration whatever `--conf` says;
  FindConfigPath takes a `--conf` that is the value of another option; the miner reads no
  configuration at all and opens `data` itself on devnet, where node and wallet have
  `data/<network>`;
- of the settings, only `network` and `datadir` reach anything but Validate:
  `require_liboqs`, `allow_legacy_pow`, the ports and peers of the file are read by nobody.

## 4. Fairness

Only where the code schedules: a thread that can take a step takes it eventually.

- `MCEngineFile!MCSpec`: weak fairness of the loop's own steps, of the second half of
  Stop and of each worker. Nobody has to start or stop anything, and a search need not
  find a nonce. FoundEndsSearch and StopEndsLoop are stated from the moment the flag is
  set.
- `WalletSpend!LiveSpendSpec`: weak fairness of building a candidate and of the clock,
  strong fairness of submitting it: StartLoop goes round for as long as it is not stopped,
  and the engine finds a nonce unless it is stopped; it may be stopped, or overtaken by a
  foreign block, but not each time. Nobody has to send a payment.
- `MCP2PServer!MCSpec`: weak fairness of the accept thread, of the rest of Stop, of the
  connection thread and the client of the handshake, and of the arrival of what was sent.
  The other side of a connection owes nothing, nobody has to begin a handshake, and none
  of them has to stay alive.

## 5. What is proved

TLAPS checks these theorems for every value of the constants that the named
assumptions allow: any sets of blocks, transactions, keys and passwords, any number of
workers, peers, failures and restarts.

| Theorem | Module | States |
|---|---|---|
| TypeCorrect | BlockchainProofs | TypeOK of Blockchain |
| SupplyWithinLimit | BlockchainProofs | what was minted never exceeds the limit, failures and disconnects included |
| PoolIsConsistent | BlockchainProofs | the outpoints marked as spent are those of the entries, each of one entry |
| ChainStaysOnDisk | BlockchainProofs | every block of the open chain is in its file, unless a flush failed unnoticed |
| RestartLosesNothing | BlockchainProofs | the chain a process opens extends the one before |
| ImplementsStore | BlockchainProofs | Blockchain implements ChainStore, with every failure, interruption and disconnect |
| StoreIsDurable, ChainIsDurable | BlockchainProofs | the view of a ChainStore is the beginning of its log as long as no entry is torn, and therefore a node's chain is the beginning of what the next process reads |
| ViewIsReplay | ChainRulesProofs | StateIsReplay: the view and the supply in memory are a replay of the chain |
| ReopensAfterCrash | ChainRulesProofs | CanReopen: what any interrupted call leaves can be opened |
| ChainAlwaysValid | ChainRulesProofs | ChainIsValid: the blocks checked one by one, or read back unchecked, pass ValidateChain |
| IndexStaysBehind, IndexIsChain | ChainRulesProofs | IndexBehindFiles and IndexMatchesChain, through the unordered rows of the index file |
| UnspentWasMinted | ChainRulesProofs | UnspentWithinMinted, for any mixture of fees and partly claimed subsidies |
| CoinbasesWereMature | ChainRulesProofs | CoinbasesMature over the whole history |
| SpentOnlyOnce | ChainRulesProofs | OutpointSpentOnce over the whole history of a chain whose coinbases differ |
| PooledCanBeMined | ChainRulesProofs | PoolIsMinable: an entry that no block has overtaken stays minable at the fee that was computed |
| MinerKeepsTheRules | ChainRulesProofs | the miner's steps are steps of Blockchain, so that all the above holds of a node that mines |
| MinedIsAccepted | ChainRulesProofs | CandidateFate, with a crypto provider or without: exactly which candidates are accepted, whatever came in since they were built |
| FileNeverTorn, ReturnsAreMeant | WalletProofs | no half file; what a return says |
| OneWriter, MinedSolves | AlgorithmProofs | one worker writes the result; it solves the candidate |
| WalletTypeCorrect | WalletProofs | TypeOK of Wallet |
| EveryKeyOpens | WalletProofs | each record is sealed with the master key that goes with it |
| ShownStaysSaved | WalletProofs | an address the user has is in the file, unless a write failed |
| NoKeyIsDropped | WalletProofs | no write of the file drops a key |
| ImplementsKeyStore | WalletProofs | Wallet implements KeyStore, with every failure and restart, wrong password and lock |
| KeyStoreKeeps, WalletKeeps | WalletProofs | in a KeyStore what was given out is saved unless a write failed, and no write drops a key; therefore also in a wallet |
| UnlockIsHeld, NoLateKey | WalletProofs | UnlockHolds and NoKeyAfterDeadline, for every clock, timeout and `TimeSpace` |
| SelectionIsSound | AlgorithmProofs | SelectionSound: what any method selects is a payment, and whoever has the money can pay |
| SearchFindsTheBest | AlgorithmProofs | SearchIsBest: the loop over bit masks leaves the least change of all sets of coins |
| WorkFollowsTime | AlgorithmProofs | RetargetFollowsTime: the target follows the time a period took, for any even base, number of digits, period, spacing and limit |
| ReadsExactly | AlgorithmProofs | AmountIsExact: a text is read as what its digits are worth, and an amount is written so that it is read again |
| OpensWhatWasTold | AlgorithmProofs | OpensAsTold: node and wallet open what the last option says, without one the last line or the variable, else the default, for any words on the command line and any number of them |
| WalletKeepsTheRules | SpendProofs | a node whose wallet pays is a node that mines, so that all that is proved of chain, pool and miner holds of it |
| PaymentCostsItsFee | SpendProofs | PaymentIsExact: inputs of the wallet, the fee that was asked, change to a key of the ring |
| BalanceCanBeSent | SpendProofs | BalanceIsSendable: what the wallet shows it can send, and the mempool accepts it, unless a chosen coin asks for another algorithm or waits to be spent |
| ThreadEnds, NobodyAfterStop | NetworkProofs | the accept thread is gone when the owner is idle with a stopped server, and nobody is accepted between a Stop and the next Start |
| ServerTypeCorrect | NetworkProofs | TypeOK of the server and its peer manager |
| BansHold, BansAreEarned | NetworkProofs | BanHolds and BanIsEarned, for every list of peers, its doubles included, and every limit |
| ReportsAreDeserved | NetworkProofs | the server reports a client only if it is on another network or went away |
| HandshakesAgree | NetworkProofs | a handshake that succeeds is one the server has answered in full on the same network, with nothing left unread |

The invariants that carry them:

- `TypeInv` adds to TypeOK that `minted` is a supply, a number up to MaxSupply: what
  ConnectBlock and RebuildUTXO return depends on it. The types of the recursive
  functions in Ledger come from `Recursion`: `LeastNat` (a set of naturals has a least
  element) and `RecursionExists` (a function defined by recursion on the naturals
  exists and obeys its equation), both proved from the axioms of arithmetic and of
  sets. BlockchainProofs derives from them what ConnectBlock and RebuildUTXO compute. Where
  others would use induction, these proofs take the least member of the set of
  counterexamples.
- `DiskInv` states ChainOnDisk of a node that is not running as well, for the chain the
  last process had. It adds that every file is filed under its own height, that none is
  torn and that an open chain is not empty; that is what makes the replay of a start
  read the whole chain back. ChainOnDisk alone is not inductive: nothing in it says
  what a closed node will read. `FlushInv` makes it conditional on no unnoticed flush.
  `StoreInv` is the part of it that failures and disconnects leave.
- `DiskInv` and a description of what each action does to the log carry ImplementsStore:
  one lemma per kind of write says what StoredBlocks is after it, and one step per action
  maps it to a step of ChainStore or to a stutter.
- `ReplayInv` says that `utxos` and `minted` are RebuildUTXO of the chain for a closed
  node, too. A block that is connected is one more step of the replay (`RebuildAppend`),
  and the replay of a chain begins with the replay of a shorter one, which is what
  DisconnectTip relies on.
- `ReopenInv` and `ValidInv` state of the log that the next Load would read what CanReopen
  and ChainIsValid state of the chain: an interrupted AddBlock has put the block into
  the log only, and opening checks nothing.
- `IndexInv` says that rows, index and log are the chain. `LoadedIsChain` shows that rows
  which are added in any order then give the same index back.
- `WorthInv` says that the unspent amounts add up to no more than was minted, that the
  view is sound (finite, each output with the amount its transaction gave it), and that
  each block of the log is paid for (`IsPaid`: its coinbase claims no more than fees and
  subsidy), for the blocks that the next start reads. The sum is one over a set, whose
  order means nothing: `SumRemove`, `SumDisjoint`, `SumRenamed` and `SumMonotone` in
  Recursion are the lemmas about such sums, and `BlockWorth` the account of one block.
- `BasicInv` says that only blocks Block::ValidateBasic accepts are in the chain or in
  files; `HistoryInv` joins it to the replay. From both follows `History`, transaction by
  transaction: what is left of a coinbase is marked as one and no older than it is
  (`Matured`); what is left was created and not spent, and what was spent was created
  once and spent once (`SpentOnce`). The latter needs that no two coinbases of the chain
  are the same, as SpentOnlyOnce says: `coinbase_again` shows why.
- `PooledInv` is PoolIsMinable with WorthInv and with the fee that was computed for each
  entry (`FeeOf`). The view changes by a block at a time, and what a block leaves alone of
  an entry's inputs stays as it was. PoolIsMinable alone is not inductive: a sum over
  outputs that are gone says nothing.
- `CandidateInv` of the miner: a candidate is never above the next height; one for the
  next height was built on this very tip, since the chain only grows while a process runs;
  its transactions are a coinbase and distinct entries, which are still in the pool
  because only a block takes them out (`OfPool`); and as long as the pool fits, it claims
  subsidy and fees (`ClaimsItsFees`). `PoolSigned` says that what a pool holds is signed
  over the output that is spent, where there is a provider. `MinerInv` joins them to the
  invariants of the chain. `FateOfCandidate` then takes the reasons for a refusal one by
  one, in both directions: the inputs of an overtaken entry are gone and its
  fee cannot be computed (`FeesNeedInputs`), a coinbase of nothing cannot be added to a view
  (`PaysSomething`), and what claims more than it may is refused
  (`ClaimsNoMore`). The chain part of the steps is MinerKeepsTheRules, so that no
  invariant of the chain is proved again.
- `IsComputed` says of the machine of MCAlgorithms that its answer is what the operator of
  its task gives for its input; what is proved then is a fact about operators, for any
  amounts, owners and limits. A selection `Picks` from an offer if it lists some of its
  indices in some order; sorting, filtering and taking a prefix of a sorted offer all do
  (`InOrderPicks`, `PrefixPicks`), and what picks is worth the sum over its indices
  (`PickedWorth`), whatever the order. `BestMaskIsBest` takes the least mask after which
  the incumbent is wrong; `MaskExists` says that each set of indices has a mask, bit by
  bit, so that no set is left out.
- WorkFollowsTime goes through the steps of the retarget one by one. The compact form
  forgets the low bytes of a target and keeps two or three: `RoundIs` says that encoding
  and decoding is the floor to a multiple of the weight of `Level` bytes, `RoundRises` that
  this keeps order and `RoundAgain` that a target that came out of a compact form is not
  rounded any more, which is why a fast period never makes blocks easier. `HalfIs` needs
  an even base, since the bit that the mantissa gives up is half of its range. Clamping
  (`ClampRises`), the quotient of the product (`QuotientRises`) and the limit keep order,
  too; `NextIs` puts them together. That the product of target and time stays below the
  range is the hypothesis that the invariant states.
- ReadsExactly compares a loop with a sum. `ValueIsSum` gives what the loop has computed
  after some digits as a sum over the places of the text, `ValueOfPadded` what the zeros
  do that pad a fraction; `PlacesAre` counts the places to the right of a digit, and
  `AmountsAre` says which texts pass the checks. `NumeralIs` is the other direction: the
  digits of a number are worth it, and `PlaceExceeds` that there are enough of them.
- OpensWhatWasTold compares two loops with a rule. `IsGiven` says of the configuration after
  k lines that the last of them that sets a field decides it (`GivenStep`, on `LineFollows`,
  which says what one line does), `IsTaken` the same of the words: an option decides once
  its value has come (`TakenStep`), and which word is a value of the one before is a
  recursion of its own (`ValuesExist`). At the end nothing is pending, so that every option
  has its value. The facts about lines hold for every file of lines that set a field, say
  nothing or stop the program (`IsLine`); the theorem is about the files and environments of
  MCAlgorithms, and about any command line.
- `SpendInv` joins to the invariants of pool and view that the ring holds addresses.
  PaymentIsExact follows from what a selection of the candidates is. BalanceIsSendable
  needs more: that a payment spends what was selected (`PaymentSpends`), which shows that
  a coin that cannot be signed for or that waits makes it fail; that a sum over keys and
  coins is the worth of the list of candidates (`BalanceSuffices`), and that no output of
  the view is worth nothing (`ReplayPositive`, from what Block::ValidateBasic accepts),
  since selection leaves out dust and the balance does not.
- `StepInv` of AtomicFile says at each step of the call what the path and the temporary
  file hold, and what has been promised.
- `SearchInv` of PowEngine adds to ResultHasOneWriter that a worker which has recorded
  its hash knows a best hash no worse than its own, that the worker which publishes has
  a nonce that solves the job, that once `found` is set somebody is publishing or the
  result is there and solves it, and that there is no result before.
- `WalletInv` adds to KeysOpenable that an unlocked wallet has every key of the file
  under the file's master key (`Ahead`). Without it Save could drop keys. `HoldInv` adds
  that the deadline in the wallet is the one last asked for, modulo `TimeSpace`; a clock
  below `TimeSpace` can then be compared with either. `WalletInv` carries ImplementsKeyStore
  too: with it all keys of a file or an unlocked wallet are usable, and one lemma per call
  maps it to an action of KeyStore; locking, whoever does it, is `Lock`.
- `ThreadBounded` says that an accept thread needs a running server or an owner inside
  Stop. NoAcceptAfterStop says nothing of a thread that has not accepted yet, so it is no
  invariant to induct on.
- `ManagerInv` describes the standing of every endpoint's first entry by its history
  (`Settled`): its strikes are the reports, a reputation is no lower than they account
  for, a ban that runs was promised and is not shorter. BanIsEarned follows because
  `FewestReports` reports are needed to fall below the limit. A second entry of an
  endpoint is only ever as it was loaded.
- `ServerInv` of the handshake says that the server's stream begins with a header as the
  client's code sends it, whatever was read of it and whatever was sent before: a message
  that is refused is then refused for its network. `ClientInv` lists what the client's
  stream and its half-read message can be: version and verack, each once and in this
  order. A verack is only there when the server has answered all it will; so is, then,
  a client that has read one.

From which assumptions. The ASSUMEs of the modules, which TLC evaluates on the instances,
and nothing about sizes. The ones that say something about the world: the id of a
transaction is a hash of all it contains, so that equal ids mean equal content
(`IdAssumption`); the genesis block is the one BuildGenesisBlock makes, with a coinbase of
the first subsidy (`GenesisAssumption`). Everything else gives constants their types and
order, such as a positive penalty and a ban below reputation zero (`PeerAssumption`). Some
theorems have hypotheses of their own. MinerKeepsTheRules and MinedIsAccepted assume
`BuildsBlocks`: that the set `Block`, for which the chain is specified, contains what the
miner builds. `Tx` and `Block` are parameters and may be the sets of all transactions and
blocks, so this asks nothing of the code; it is stated since `wallet_send` keeps `Block`
to the blocks of others. MinedIsAccepted covers chains with a crypto provider and without.
The theorems about payments assume `BuildsPayments`, which is to `Tx` what `BuildsBlocks` is to
`Block`, and two of them what an id and a key are: the keys of outpoints are strings,
which have an order (`KeysAreOrdered`), and the owner of an output is the address it was
made for (`PaysAsNamed`; the model reads from the id what the code stores in the output).
BalanceCanBeSent assumes that dust is no more than one atom: the code's `dustThreshold` is
1, with a larger one a balance of dust could not be sent. SelectionIsSound and
SearchFindsTheBest rest on `InputAssumption`: amounts are natural numbers and the search
looks at no more coins than a transaction may have (20 of 128). WorkFollowsTime rests on
`PeriodAssumption`: a period is not of zero blocks, for which the code has an exit of its
own, and one of a single block, as on regtest, asks for one second. The last clause of the
invariant is for targets of at least 7: on devnet a quarter of a period of 150 seconds is
no whole number, and a smaller target may become zero.

ChainStaysOnDisk, RestartLosesNothing, ThreadEnds, NoKeyIsDropped and the types of Blockchain
and Wallet are proved and not checked by a run any more; RefinesStore and RefinesKeyStore,
which are, contain most of it.

Only model-checked: liveness (FoundEndsSearch, StopEndsLoop, StopReturns, HandshakeReturns,
PooledIsMined), which is out of the prover's reach, as are ENABLED and induction over data
beyond `RecursionExists`. Every invariant and action property that a passing run checks is
a theorem, too.

## 6. What is not modelled

Cryptography, hashing, encodings and the byte formats of files and messages: they are
arbitrary operators or model values. The merkle root, bits, algorithm, proof of work and
the clock check of a block are one Boolean; the retarget is a function of its own and the
chain model does not compute targets. The PoW functions themselves. Chain work, which is
recorded and compared by nobody. UtxoStorage, BlockStorage, UndoStorage, WalletHistory,
WalletTransactionBuilder, Policy, Inventory, PQHandshake and Config::Save have no caller
in the programs. WalletRecovery reads a field that no code writes. The statistics of
engine and server. Printing. Two processes in one data directory: nothing in the code
coordinates them, so that a model would only show that there is no lock.

## 7. How it grew, and what is left

First the chain with its failures and restarts, because everything else relies on it; then
the two things under it (AtomicFile, PowEngine), the miner, the wallet, the network; then
the abstract store of the chain with its refinement, the pure functions (Difficulty, Amounts, Startup),
the handshake, and the proofs about store and network. Then the rules of the chain as
theorems: the replay, the index, the supply, the history of each outpoint, and with them
the mempool, the miner, the wallet's deadlines and the bans; and the abstract store of keys.
Then what coin selection returns, and with it the payments of the wallet, that the
retarget follows time, that amounts are read exactly, and that programs open what they were
told to.

Left: PQHandshake, once a program calls it.
