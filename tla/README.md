# A verification project for ticoin

TLA+ models of the ticoin node (a Bitcoin Core 0.9 derivative, `src/src/`), TLC runs on
small instances and TLAPS proofs for all instances. The comments of the source have
been rewritten mechanically (`//ticoin ...`, and in files from `rpc*` to `wallet*` and in
`checkpoints.cpp` unterminated `/**-5-10...` and `/**-11-10...`); the models follow the code with such a comment read as the one-line comment it was.

## 1. The system

| part | state | operations | talks to |
|---|---|---|---|
| block index and chain selection (`main.cpp`) | `mapBlockIndex`, `nStatus`, `nSequenceId`, `setBlockIndexValid`, `pindexBestInvalid`, `chainActive`, `chainMostWork` | `AcceptBlock`, `AddToBlockIndex`, `FindMostWorkChain`, `ActivateBestChain`, `ConnectTip`, `DisconnectTip`, `InvalidBlockFound` | coins, mempool, wallet callbacks, block tree database |
| orphan blocks (`main.cpp`) | `mapOrphanBlocks`, `mapOrphanBlocksByPrev` | `ProcessBlock`, `PruneOrphanBlocks` | chain selection, peers (`PushGetBlocks`) |
| chain state persistence (`txdb.cpp`, `leveldbwrapper.*`, `init.cpp`) | block tree database, chainstate database, block and undo files | `WriteChainState`, `Sync`, `FlushBlockFile`, `LoadBlockIndexDB`, `InitBlockIndex`, `VerifyDB`, `Shutdown` | LevelDB, file system |
| script check queue (`checkqueue.h`) | `queue`, `nIdle`, `nTotal`, `nTodo`, `fAllOk`, a mutex and two condition variables | `Add`, `Wait`, `Loop` | `ConnectBlock`, `ThreadScriptCheck` |
| coins and undo (`coins.*`, `core.*`, `main.cpp`) | cached coins per transaction, best block | `UpdateCoins`, `ConnectBlock`, `DisconnectBlock`, `Flush` | chain selection, mempool |
| memory pool (`txmempool.*`, `main.cpp`) | `mapTx`, `mapNextTx` | `AcceptToMemoryPool`, `remove`, `removeConflicts` | coins, wallet, miner |
| orphan transactions (`main.cpp`) | `mapOrphanTransactions(ByPrev)` | `AddOrphanTx`, `EraseOrphanTx`, `LimitOrphanTxSize` | mempool, peers |
| block download (`main.cpp`) | `mapBlocksToDownload`, `mapBlocksInFlight`, the lists in `CNodeState` | `AddBlockToQueue`, `MarkBlockAsInFlight`, `MarkBlockAsReceived`, `FinalizeNode`, time-outs in `SendMessages` | peers |
| connections (`net.*`) | `vNodes`, buffers, reference counts, `mapAskFor` | `ThreadSocketHandler`, `ThreadMessageHandler`, `CNode` | all protocol handlers |
| address manager (`addrman.*`) | `mapInfo`, `mapAddr`, tried and new buckets | `Add`, `Good`, `Attempt`, `Select`, `Shrink` | connections |
| wallet, keys, encryption, wallet database (`wallet.*`, `keystore.*`, `crypter.*`, `db.*`, `walletdb.*`) | `mapWallet`, key pool, key maps, `mapFileUseCount` | `CommitTransaction`, `ReserveKeyFromKeyPool`, `EncryptWallet`, `Flush` | chain callbacks, RPC |
| miner (`miner.cpp`) | the block template, reserved key | `CreateNewBlock`, `CheckWork` | mempool, chain |
| consensus algorithms (`main.cpp`, `checkpoints.cpp`, `bloom.cpp`) | none | `GetBlockValue`, `GetNextWorkRequired`, `ComputeMinWork`, `CPartialMerkleTree` | block acceptance |
| RPC, alerts, script interpreter, GUI, utilities, LevelDB, json | | | |

`cs_main` serialises everything in `main.cpp`, so chain selection does not suffer from
interleaving; what is hard there is the order in which blocks arrive, forks that turn out
to be invalid half-way, failures in the middle of a step, and a crash between two writes
to two databases. Threads really interleave in the check queue, around the life of a
`CNode`, in the buffers between two nodes, around the shared handle of the wallet
database, and between a wallet command, the unlock timer and the user interface.
`PROJECT.json` lists the hazards at their lines.

What makes each part correct, in short: chain selection always reaches the best valid
chain and never keeps an invalid block; orphans are neither lost nor kept without bound;
after any crash the coins name a chain the index can read and undo; the check queue
returns the conjunction of its checks, and returns; coins after connecting and
disconnecting a block are the coins before; the pool never holds two spends of one
output; every block in flight is owned by exactly one peer, and none waits for ever for a
peer that does not answer; an address has as many references as bucket entries; a wallet key is never both
in the pool and handed out.

## 2. Modules

| module | models |
|---|---|
| `BlockTree` | chain selection, orphan blocks, the two databases, start, stop and crash |
| `BlockTreeProofs` | the inductive invariants of `BlockTree` and ten theorems, four of them about which chain becomes active and what happens to orphans |
| `BatchVerification`, `CheckQueue` | what a `CCheckQueueControl` promises; the check queue's threads, shown to implement it |
| `CheckQueueProofs` | the inductive invariant of `CheckQueue` and two theorems, one of them the refinement |
| `Ledger` | coins, undo data, connecting and disconnecting blocks, the memory pool |
| `LedgerInvariants` | the inductive invariants of `Ledger`, `Miner` and `Wallet`: coins, pool, template, what the wallet is told and what it has cached |
| `LedgerProofs` | that they are invariants, and ten theorems |
| `Miner` | extends `Ledger` by the miner thread |
| `Wallet` | extends `Ledger` by the wallet's transactions, its file and restarts |
| `BlockFiles` | block and undo files, power losses, `-reindex` |
| `BlockFilesProofs` | the inductive invariant of `BlockFiles` and a theorem |
| `BlockDownload` | which peer is asked for which block, and when a peer is given up |
| `BlockDownloadProofs` | two inductive invariants of `BlockDownload` and two theorems |
| `OrphanTx` | orphan transactions and the handler of the tx message |
| `OrphanTxProofs` | its inductive invariant and a theorem |
| `AddrMan` | the address manager's tables and indexes |
| `Connections` | the life of a `CNode` among the network threads |
| `ConnectionsProofs` | its inductive invariants and three theorems |
| `Fifo`, `Transport` | what a connection promises; send and receive buffers, shown to implement it |
| `KeyPool` | keys, the key pool, encryption, kills |
| `WalletDB` | the shared database handle, its flushing, rewriting and backup |
| `WalletUnlock` | how long an encrypted wallet stays unlocked |
| `KeysProofs` | the inductive invariants of `KeyPool`, `WalletDB` and `WalletUnlock` and four theorems |
| `Difficulty` | retargeting, the median of times, `ComputeMinWork` |
| `Merkle` | merkle trees, branches and partial trees |
| `MCBlockTree`, `MCCheckQueue`, `MCLedger`, `MCMiner`, `MCWallet`, `MCBlockFiles`, `MCBlockDownload` | small instances for TLC |
| `MCNetwork` | extends `Connections`, with instances of `Transport` |
| `MCKeys` | extends `KeyPool`, `WalletDB` and `WalletUnlock`, with a second instance of `WalletDB` |
| `MCStructures` | extends `OrphanTx`, with instances of `AddrMan`, `Difficulty` and `Merkle` |

`Miner` and `Wallet` are compositions: a step of the ledger leaves the other part alone or
hands over at the point where the code calls it. `MCNetwork`, `MCKeys` and `MCStructures` put models
side by side that share no state: `part`, chosen at the start, says which of them takes
steps, and the others stay where they began. One model may be two parts, with different
constants. `BlockTree` decides which chain is best;
`Ledger` takes the longest chain without a block known to fail and looks inside blocks.

### BlockTree

A block is a model value; `Prev`, `Work`, whether `AcceptBlock` refuses it in context
(`BadContext`) and whether `ConnectBlock` refuses it (`BadConnect`) are constants. A
`CChain` is its tip, because `SetTip` fills it from `pprev`. `nStatus` is a set of
flags. `addr` orders the heap addresses, the last tie-breaker of
`CBlockIndexWorkComparator`; it is chosen anew at every start.

`pc` says where the thread holding `cs_main` is: `idle` between calls, `start`,
`popInvalid`, `candidate`, `reorg` inside `ActivateBestChain` (the two loops of
`FindMostWorkChain`, then the disconnecting and connecting loops), `orphans` in
`ProcessBlock`'s work queue, `exiting` after a failed start-up, `down`, `noGenesis` and
`corrupted` when no process runs. `ConnectTip` and `DisconnectTip` are single actions
up to `WriteChainState`, whose failure is their second disjunct: nothing inside them is
visible on disk except the index entry, which `WriteBlockIndex` adds to the versions a
power loss may bring back.

Each database holds what the process wrote (`blockTree`, `coinsDB`) and the set of values
it may have after a power loss (`blockTreeDisk`, `coinsDisk`): every version since the
last `Sync()`. `Kill` loses memory only, `PowerLoss` picks one version of each database
independently. A write of the coins is never synced; a write of the index is synced only
by `WriteChainState`.

Left out: `CheckBlock` and checkpoint failures (the block changes nothing), orphans
without a peer, wallet callbacks and mempool (`Ledger`, `Wallet`), the fork warning, failures of
`ReadBlockFromDisk` (`BlockFiles`), and the in-process reload after a failed load. `nStatus` has no
validity level below `BLOCK_VALID_TRANSACTIONS`, since every entry has it.

### CheckQueue

One action per piece of `Loop` between two points where another thread can see the state.
`Enter` takes the mutex and does the clean-up, `Finish`, `Sleep` or `Take` release it,
`WakeUp` returns from `cond.wait`, `Execute` evaluates the batch without the mutex. `Add`
is one critical section. The constructor reads the counters without the mutex, so it can
run between `WakeUp` and `Sleep` of another thread. A worker can be interrupted in its
wait (`boost::thread_group::interrupt_all` at shutdown), which leaves the counters.

### Ledger, Miner

Transactions have inputs, outputs with amounts, and verdicts (`BadScript`,
`NonStandard`); a block is a sequence of them. `ConnectTx` and `DisconnectTx` handle one
transaction of a block on the temporary view, `EndConnectBlock` is the end of `ConnectBlock`
(undo data, the calls to the wallet), `FinishConnect` and `FinishDisconnect` are
the flush into `pcoinsTip` and the optional write (`FlushChoices`: whether
`WriteChainState` decides to write; its failures are modelled in `BlockTree` only), `RemoveConflicts` and `Resurrect` the loops over the
pool. `cs_main` is held meanwhile, so blocks and transactions arrive only when `pc` is
idle. `CoinsAreReplay` compares the coins with a replay of the active chain from nothing.
`COINBASE_MATURITY` is 1 instead of 100. Fees only matter for what a coinbase may pay.

The miner reads the tip without `cs_main` (`ReadTip`), builds the template under it, and
writes the height of the block it read first into the coinbase (`EndTemplate`). The
priority queue is a set from which any member may be taken. A transaction with a missing input
is left out and its `COrphan` popped, which frees it, while `mapDependers` goes on pointing to it from the
parents met before (`popped`); when such a parent is taken, what is read there is undefined: the process
may die (`DiesInQueue`), nothing may happen, or the transaction may come into the queue, where its
inputs are looked at once more. Memory that has meanwhile become the `COrphan` of another transaction
does no harm: only what that one waits for is erased from it, once. The first loop may die as well (`DiesReading`):
it reads `coins.vout[n]` of any entry of the cache, a pruned one too, and with `-debug` a missing
input is an assertion.

### Wallet

`SyncTransaction` is called where the code calls it: inside `AcceptToMemoryPool`; for every transaction
of a block at the end of `ConnectBlock` (`Watched`), before the coins and the locator are written and the
tip changes; and again at the end of `ConnectTip`, and in `DisconnectTip`, when the locator was written. `mapWallet`
maps a transaction to the block it is recorded in and is in the file at once; `credit` is
the cached credit, present while valid. `mapTxSpends` is derived from `mapWallet`. A kill
loses memory and keeps file and databases; `Restart` chooses among tips of equal work and
finds the fork of the locator, `ScanBlock` rescans from there block by block, and a kill may come
in between; after `ScanDone` the unconfirmed transactions are offered to the pool
in the order of their hashes. A transaction made here is unknown to others before
`CommitTransaction`. Left out: coin selection (the transactions that can be made are
given), what the coinbase of the genesis block pays (`WalletAssumption`), wallets copied from elsewhere
(with the wallet's own file, which heard of each block before its coins were written, a rescan finds nothing
new; it matters for a restored copy), blocks whose coins or locator cannot be written, times and order positions, debit and change caches, `-zapwallettxes`, the wallet
birthday, accounts.

### BlockFiles

A record takes one unit of a file. A file is what reading it gives now, its durable part
what a power loss leaves for certain; a torn block has its header and damaged
transactions.
The steps follow the writes: `FindBlockPos`, the block, `WriteLastBlockFile` and the file
info, the index entry; then `Activate` reads blocks back, writes undo data and flushes.
A full disk between two of these leaves what was already written. During
`-reindex` blocks come from the files in order; a block without its parent is dropped,
because orphans are only kept for a peer. A `-reindex` that was interrupted goes on at the
next start: of each file it opens it skips what lies below the `nSize` that the database has
(`Skipped`). `missed` remembers that a block in there was not in the index, because the process had
ended between `WriteBlockFileInfo` and `WriteBlockIndex`; `back` remembers a start whose last file
comes before one with records, after a full disk or a power loss.

### BlockDownload, OrphanTx

Lists are sets (their order is not used), and the iterators kept in the maps are the peer
that owns the list. Times are ages in units of `BLOCK_DOWNLOAD_TIMEOUT`, capped where no
comparison can tell them apart. `Punctual` lets the clock advance only when the socket
handler has seen to silent peers and honest peers have answered what was asked a unit ago.
A request is forgotten when a message with the block arrives, from anybody, and whether
`ProcessBlock` keeps the block is a choice, since the code does not look at its answer: after a
copy that is refused the block is wanted by nobody until it is announced again. For that reason
`DownloadGoesOn` does not say that a block arrives. It says that no block is held for ever by one
peer, unless that peer goes on delivering others for ever, as it may (with copies that are
refused, say), since the time-out looks at the last block of any kind.
In `OrphanTx`, `AcceptToMemoryPool` is its outcome: accepted, inputs missing or refused;
the loop over orphans is a step per orphan.

### AddrMan

Every public operation holds `cs` and is one step on a record of all tables. The keyed
hashes that choose buckets are constants, random draws are choices, as are the outcomes of
comparisons of `nTime`, `nLastTry` and `nAttempts`, except in `SelectTried`, whose order
is a property. `Restart` is saving followed by loading, with the renumbering and the
losses of the format.

### Connections, Transport

A `CNode` is its place on the heap, which is reused; `nRefCount` is incremented by
unlocked read and write where the code does so. Whatever makes a node fail is a choice. A
step that would use a deleted node leads to a final state (`Dangling`), so that its
absence can be stated and everything else is checked without it. The locks that deletion
tries are never held for a node without references, so it succeeds. `CSemaphoreGrant` has no
lock, and `OpenNetworkConnection` holds none: `MoveTo` looks at the grant of the node, posts the
semaphore, clears the grant and sets it in four steps (`MoveLooks` to `MoveSets`), while the socket
thread does the first three for the nodes it removes, under `cs_vNodes`, which it holds over these
steps (`FindUnused`, `PostSlots`, `DisconnectNodes`). Two histories say where the code's races come
in: `unlocked`, the places where `AddRef` was called without the lock, and `raced`, that two
threads were at the grant of one node at once.

`Transport` gives both ends of a connection the same code: `vSendMsg` with partial sends,
a byte stream of bounded capacity, reassembly, the receive flood limit, the choice between
reading and writing in `Select`, and `ProcessGetData`, which stops when the send buffer is
full. `channel` of `Fifo` is mapped to what is in all the buffers on the way.

### KeyPool, WalletDB, WalletUnlock

In `KeyPool` a key is its number; `op` is the operation that holds `cs_wallet`, step by
step between writes to the file, so that `Restart` can hit every point. Writes in the
encryption transaction become visible at its commit. `KeepKey` erases the record and hands
out the key in one step. Not modelled: failures of `TxnBegin` and of the disk;
`AddReserveKey`, never called; the branch of `GetKeyFromPool` that generates a key, never
reached.

`WalletDB` tells what `wallet.dat` holds by itself (`dat`) from what is only in the
log. A CDB opens, writes and closes in steps, and the counter `nWalletDBUpdated` is
written in a step of its own. `Rewrite` copies record by record, removes and renames.

`WalletUnlock` has a clock, the deadline timer, handlers that are due, RPC commands that
hold `cs_wallet` step by step, and the unlock context of the user interface. Its operators
are called `LockInit`, `LockNext`, `LockSpec` where `KeyPool` has the shorter names, and those of
`WalletDB` `DbInit`, `DbNext`, `DbSpec`. `missed`
remembers what makes section 4 necessary: what would have locked the wallet ran in the middle
of a change of the passphrase, or `walletpassphrase` threw with the wallet unlocked. `requestUnlock`
looks whether the wallet is locked, shows its dialog, which unlocks it under `cs_wallet`, and looks
again without that lock; `ReadValid` in the middle of a change finds the wallet locked and makes
a context that will do nothing, which `missed` remembers as well. The error
returns of `ChangeWalletPassphrase` after its unlock need a failing cipher and are left out.

### Difficulty, Merkle

A chain of blocks with times and targets: every block may have any time of `Gaps`
after the one before it that the median rule accepts. `nBits` keeps `Digits` digits of
`Base`, like the three bytes of the code. Any block may be the last checkpoint. Merkle
hashes are pairs, so no two are equal; the partial tree is built, filled up to bytes on
the way, and extracted, for every set of matches. `Merkle` uses recursive operators and
is for TLC only.

## 3. Runs

| run | instance | shows |
|---|---|---|
| `reorg` | 8 blocks in 3 branches, `b2` fails to connect, `a3` refused in context, `b3` has the work of two, 2 orphan slots, no faults | the safety properties and termination of `ProcessBlock` in every arrival order |
| `crash` | 4 blocks, `b2` fails to connect, all faults, 2 crashes | the databases, the index and the coins stay consistent across any two crashes and any number of shutdowns, full disks and restarts |
| `checkqueue` | 2 workers, 4 checks, one bad, 1 spurious wake-up | counters, verdict and termination; refinement of `BatchVerification` |
| `ledger` | 8 blocks in 2 branches, 12 transactions in chains and conflicts, one that is not standard and one that may not fit a block, blocks that fail after their branch was connected, with the miner | coins equal a replay of the chain, undo is clean, no money from nothing, the pool has no double spend and follows the chain; every template connects and is complete, whatever the order of priorities and whatever is read in a popped `COrphan`, unless the process dies |
| `wallet` | 8 blocks in 2 branches, 5 transactions of the wallet and a coinbase of both branches, a locator written at the fork, kills at any step | the wallet knows every transaction of the chain that concerns it, its credit is current and it offers exactly the unspent coins |
| `blockfiles` | 3 blocks in 2 branches, 2 files, 2 faults of 5 kinds | whatever the index names can be read, and a written chain survives a power loss |
| `download` | 2 peers, one honest, 2 blocks | maps, lists and counters agree; a prompt peer is not disconnected; no block waits for ever for a peer that does not answer |
| `network` | connections: 1 place, 2 opening threads, or one and an RPC thread; buffers: 2 nodes of which both or one asks for blocks larger than the wire | reference counts are exact, and outbound slots until two threads were at one grant; a disconnected node is freed; buffers are bounded and implement `Fifo`; every request is answered when one end asks |
| `keys` | key pool: 3 holders, or 2 with encryption and kills; database: 2 threads, 2 records, 3 opens, with a kill or with `Rewrite`; lock: time-outs 0, 1 and 3, a clock to 7 | no key is given out twice; the file always loads and holds every key given out; no handle is closed under a user, nothing written is lost, updates are flushed; an announced lock time has a timer; an unlocked wallet is locked in the end |
| `structures` | orphans: 2 peers, 6 transactions with a diamond, limit 3; addresses: 4 services on 3 hosts, 3 sources, buckets of 1; periods of 3 blocks on both networks; blocks of 1 to 9 transactions | the orphan maps agree, a resolvable orphan is not left behind, only the sender of an invalid transaction is punished; address tables and indexes agree, `Select` ends, a restart preserves what it should; targets stay in range, min-difficulty blocks do not leak; branches and partial trees lead to the root and give the matches back |
| `datadir` | 4 blocks, one kill | a violation: a node killed in its first start takes its own data directory for a wrong one |
| `unused` | 2 workers | a violation: the assertion that a passed queue is unused fails although it is empty, while a worker just started is on its way to its first wait |

Invariants of one concern are conjoined into one property of the run, which names its parts:
`AccountsExact`, `CoinsExact`, `PoolExact`, `TemplateExact`, `BalanceExact`, `FilesReadable`,
`Bookkeeping`, `ConnectionsExact`, `KeysKept`, `LockArmed`, `DatabaseSafe`, `OrphanTxExact`, and those
of `MCNetwork`, `MCKeys` and `MCStructures`.

Where a passing run excludes what section 4 describes, a constant or the premise of a
property says so: `wallet` always
writes the coins (`FlushChoices`) and has no transaction the pool refuses as non-standard (`NonStandard`);
`TemplateExact` speaks of a node that lives; `UnlockedGuarded` (in `LockArmed`) and `AlwaysRelocked` except the states where
`missed` holds; `NeverReissued` and `PoolReadable` (in `KeysKept`) are stated for a wallet
that is not encrypted, and `KeyPoolSize` is 1, so that at least one key is in the pool; the
properties of `MCKeys` and `MCNetwork` name the part they are about: `EveryAskAnswered` the
part with one asking end, `RewrittenFlushed` the part in which one thread opens the database
before the flushing thread starts; a database that may be killed is not rewritten. In
`ConnectionsExact` the references leave out a node nobody owns (`odd`), the copies of `vNodes` a place
in `unlocked`, and the slots all that comes after `raced`; both of the latter are reached in the run,
which goes on after a race until a slot was lost or posted twice (`Racing`).

Bounds. Eight blocks give every shape chain selection distinguishes: extension, a fork
of equal work, a longer fork with an invalid block in the middle and a descendant, work
that disagrees with height, orphans of orphans, and more orphans than slots. For crashes
four blocks suffice, because the databases see single entries: a reorganisation of one
block against two, of which the second is invalid, contains a disconnect, a connect, a failure
and the way back. Two crashes let the second hit the recovery from the first. Two heap
layouts, one the reverse of the other, order every pair of blocks both ways. Four
checks and two workers give batches of one and two, a thread with nothing to do, and a
last batch finished by the master or by a worker. The ledger's transactions contain a
chain of three, a conflict with its head and one with its tail, spends of a coinbase of
either branch and the same coinbase in both. Two peers, two threads or two places
on the heap are what the races of those modules are between; limits (buckets, buffers,
orphans, requests in flight) are one to three so that they are reached. Keys, opens and
the clock are bounded by the counts that let every operation happen twice. Nine
transactions give trees of height 0 to 4 with an only child at every level and flag bits
across two byte boundaries.

Deadlock is checked where the system can go on for ever. `CHECK_DEADLOCK FALSE` is for
models that end at a bound: keys, opens of the database, faults in `BlockFiles`, requests
in `Transport`, the height in `Difficulty`, for `Connections`, which stops at a use of a
deleted node, and for `Miner`, which may die in `CreateNewBlock`.

Fairness. `BlockTree` assumes weak fairness of the node's own steps only (the thread in
`ProcessBlock` holds `cs_main` and runs on); blocks need not arrive. `CheckQueue` assumes
weak fairness of each thread's steps: the operating system schedules every runnable
thread, and a free mutex is eventually given to each of the few threads that want it; no
fairness is assumed of the owner's calls, of spurious wake-ups or of interrupts.
`BlockDownload`: the node's threads and the clock go on, and an honest peer goes on talking and
answers what it is asked; nothing is assumed of others, and nobody has to announce anything.
The fairness of the other models is stated in `MCNetwork` and `MCKeys`, each conjunct for
the part whose liveness is checked. Connections: each thread, so that a reference taken for
a loop is released; strong fairness of the message thread, which gets `cs_vNodes` when the socket
thread leaves it free again and again. Buffers: both threads of both ends, and strong fairness of `Select`,
which is passed over when it fails to get `cs_vSend` but does not fail for ever. Wallet
database: the flushing thread, `Rewrite`, and every CDB is closed at the end of its scope;
with the bound on opens this is a wallet that comes to rest. Lock: clock, timer, commands
that return and unlock contexts that end; no fairness of new commands.

## 4. Deviations

Where the code does not do what a comment, an assertion, the help or the README says of
it. The first two are the runs `datadir` and `unused`, described under `findings` in
`PROJECT.json`. Each of the others is a behaviour of the models too; the property in the
second column is defined in the module, beside those that hold, and fails on the instance
of the run above unless the third column gives other constants.

| what is said, and where | property | what the code does |
|---|---|---|
| "Keep at most <n> unconnectable blocks in memory" (`init.cpp:209`) | `BlockTree!KeepAtMostMaxOrphans` | `PruneOrphanBlocks` runs before the insertion: n+1 are kept (`main.cpp:1190`) |
| `chainMostWork` has the most work "that isn't known to be invalid" (`main.cpp:2061`) | `BlockTree!MostWorkNotKnownInvalid` | a failure below its tip leaves the tip unflagged, and the loop that follows keeps it (`main.cpp:2067`) |
| "verify that the view's current state corresponds to the previous block" (`main.cpp:1754`) | `BlockTree!ViewMatchesTip`, with "diskfull" | `ConnectTip` flushes the view and returns without `UpdateTip` when the disk is full; the next block fails the assertion (`main.cpp:2037`) |
| of two blocks found at once the first received is worked on (`README.md:123`) | `BlockTree!StaysOnFirstReceived`, with a kill | blocks from disk have sequence id 0, and heap addresses decide (`main.cpp:93`) |
| "Check that every mempool transaction's inputs" are available (`txmempool.cpp:151`) | `Ledger!PoolInputsAvailable` | spenders of the coinbase of a disconnected block stay in the pool (`main.cpp:1998`); with a maturity of 100 the reorganisation has to be that deep |
| "Resurrect mempool transactions from the disconnected block" (`main.cpp:1993`) | `Ledger!Resurrected` | while the coins are unflushed, the pruned entry makes the transaction look confirmed, and it is removed (`main.cpp:897`) |
| "Height first in coinbase required" (`miner.cpp:357`) | `Miner!SubmittedHeight` | the tip is read before `cs_main` is taken and read again under it; the height may be that of the earlier tip (`miner.cpp:523`) |
| "This should never happen" (`miner.cpp:170`) | `Miner!Survives` | it happens to a spender of the coinbase of a disconnected block; its `COrphan` is freed while its other parents in the pool lead to it (`miner.cpp:180`), or the pruned entry of the coinbase, still in the cache, is read beyond its end (`miner.cpp:200`) |
| a change of the "conflicted" state forces recomputation (`wallet.cpp:630`) | `Wallet!CreditCurrent`, `NonStandard = {t3}` | `DisconnectTip` drops the list of transactions it removed from the pool (`main.cpp:2000`) |
| "This must not fail" (`wallet.cpp:1442`) | `Wallet!CommitAccepted` | the interface creates and commits under two holds of the locks, and the coins may be spent in between (`wallet.cpp:1440`) |
| wallet transactions are added to the pool again (`init.cpp:1133`) | `Wallet!AllReaccepted` | they are tried in the order of their hashes, a child before its parent is left out (`wallet.cpp:890`) |
| "commit to disk before returning" (`main.h:360`) | `BlockFiles!UndoDurable` | not in the initial download; `FlushBlockFile` opens only the last file (`main.cpp:1926`) |
| "Open history file to append" (`main.cpp:1115`) | `BlockFiles!WritesAppend`, 4 blocks, 3 faults | with `fKnown`, `nSize` may fall short of the position, and a block of the index is overwritten (`main.cpp:2247`) |
| "(try to) skip already indexed part" (`main.cpp:3114`) | `BlockFiles!SkipsIndexed` | the file info is written before the index entry (`main.cpp:2267`): after a kill in between, the next start skips a block that is not in the index, for ever |
| "A system error occurred" returns (`main.cpp:2144`) | `BlockFiles!ActivateEnds` under its `FairSpec` | a block read back damaged is tried again without end (`main.cpp:2138`) |
| "find the least recently tried among them" (`addrman.cpp:133`) | `AddrMan!EvictsLeastRecentlyTried` | the position remembered is that of the entry swapped away (`addrman.cpp:145`) |
| nodes wait "until all refs are released" (`net.cpp:765`) | `Connections!PoolHasHolders` | `fNetworkNode` is set after the node is in use; a node that fails before is never deleted and keeps its slot (`net.cpp:766`) |
| "release outbound grant (if any)" (`net.cpp:758`) | `Connections!EverySlotOnce` | `MoveTo` runs without a lock, and `Release` posts before it clears: two threads at the grant of one node post its slot twice, or one writes over the grant of the other and a slot is lost (`net.cpp:1441`, `sync.h:225`) |
| "threads are done using it" (`net.cpp:777`) | `Connections!NoUseAfterDelete`, 2 places | `FindNode` gives up `cs_vNodes` before `AddRef` (`net.cpp:447`) |
| "if this was the sync node, we'll need a new one" (`net.cpp:512`) | `Connections!SyncNodeAsked`, 2 places | `StartSync` assigns `pnodeSync` without a lock, after the node may have gone (`net.cpp:1481`) |
| "so we don't deadlock" (`net.cpp:850`) | `Transport!NoDeadlock` | a node that has data to send does not receive; two that send much to each other wait for the time-out (`net.cpp:857`) |
| "so it won't be used again" (`wallet.cpp:1416`) | `KeyPool!NeverReissued`, `KeyPoolSize = 0` | an empty `setKeyPool` is numbered from 1, although that index may be reserved (`wallet.cpp:1655`) |
| "Mark old keypool keys as used" (`wallet.cpp:1609`) | `KeyPool!OldKeysRetired` | the entry of a reserved key stays and is offered again (`wallet.cpp:1617`) |
| "losing keys is considered a catastrophic error" (`walletdb.cpp:625`) | `WalletDB!NothingLost`, `CanRewrite` and a kill | between the removal and the renaming in `Rewrite` there is no `wallet.dat` (`db.cpp:418`) |
| "flush wallet periodically" (`init.cpp:1136`) | `WalletDB!WrittenFlushed` | what is written before the thread starts counts as flushed (`walletdb.cpp:776`) |
| "in memory for 'timeout' seconds" (`rpcwallet.cpp:1566`) | `WalletUnlock!AlwaysRelocked` without `~missed` | a change of the passphrase may unlock after the timer has locked (`wallet.cpp:169`); a time-out of a wrong type is found after the unlock (`rpcwallet.cpp:1607`) |
| "If wallet is still locked, unlock was failed or cancelled" (`walletmodel.cpp:500`) | `WalletUnlock!AlwaysRelocked` without `~missed`, no time-outs | the dialog has unlocked it, a change of the passphrase has locked it for a moment and unlocks it for good, and the context does not lock it (`walletmodel.cpp:501`) |
| the new time "overrides the old one" (`rpcwallet.cpp:1573`) | `WalletUnlock!OldTimeOverridden` | a handler that is due cannot be cancelled (`rpcserver.cpp:682`) |
| "0 if the wallet is locked" (`rpcmisc.cpp:49`) | `WalletUnlock!UnlockedUntilTrue` | a wrong old passphrase locks and leaves the time (`wallet.cpp:173`) |
| "minimum amount of work that could possibly be required" (`main.cpp:1232`) | `Difficulty!MinWorkPossible`, 12 blocks, slow gaps | a factor of four per four timespans is less than several retargets in them may reach (`main.cpp:1245`) |
| "<= 2*N-1 bits" for N hashes (`main.h:516`) | `Merkle!FlagBitsBounded` | an only child costs a bit and no hash (`main.cpp:2694`) |

One more needs a history no module keeps: `MarkBlockAsReceived` counts a block only while
it is in flight at its sender, so that a peer that sends what it was asked for, after another
peer did, may be disconnected as one from which no "(requested) block" came (`main.cpp:279`,
`main.cpp:4391`).

## 5. Proofs

`BlockTreeProofs` proves, for every finite or infinite block tree, every set of faults,
every number of crashes and orphans:

* `TypeCorrect`, `CandidatesCorrect`, `ActiveChainCorrect`, `PowerLossCorrect`,
  `IndexCorrect`, `CoinsCorrect`: `Spec => []P` for `TypeOK`, `CandidatesExact`,
  `ActiveChainValid`, `PowerLossSafe`, `IndexParentClosed` and `CoinsFollowTip`.

None of these is inductive. `IInv` adds that every version of the index is well formed
(closed under ancestors; a failure flag only on blocks with an invalid ancestor; undo data
only with checked scripts), that memory and database differ in `FAILED_CHILD` at most
(`FindMostWorkChain` does not write that flag), that no coins, in memory or on disk, ever
belong to a chain with an invalid block, that the active chain can be undone from memory,
and that the blocks `ProcessBlock` still works on are indexed. The argument for
`PowerLossSafe`: flags are only added, so a later version of the index recovers what an
earlier one did; coins are written only after `Sync()` has made the current version the
only one; `Shutdown` is the exception, recorded in `unsyncedFlush`.

For the same trees, faults, crashes and orphans, and on top of `IInv`, it proves:

* `BestChainCorrect` and `ReorgCorrect`: `Spec => []BestChainActive`, `Spec =>
  ReorgOnlyToBetter`. `Chosen` says that `chainMostWork` has at least the work of every indexed
  chain that would connect while blocks are disconnected and connected. It holds because
  `FindMostWorkChain` compares all candidates and these are all blocks not known to be
  invalid; a chain found invalid on the way sends the loop back to the comparison.
* `OrphansCorrect`: `Spec => []OrphansWait`. `Waiting` says that the parent of an orphan is not
  indexed, or the parent is being accepted or in the work queue, or the orphan itself is
  being accepted; `MapsInv` that an orphan is missing from one of the two maps only while
  the group of its parent is worked on.
* `FirstSeenCorrect`: `Spec => FirstSeenWins`. Between calls the tip is preferred to every
  candidate of the same work (`Settled`), because sequence ids grow. The invariant has to
  except a node whose disk is full: then `pcoinsTip` may differ from `chainActive`, but from there
  the tip does not move again.

`CheckQueueProofs` proves, for every finite set of workers and checks and every batch size:

* `AccountsCorrect`: `Spec => []AccountsExact`.
* `RefinementCorrect`: `Spec => ImplementsAbstract`, that is, `CheckQueue` implements
  `BatchVerification`: `Wait` returns whether all checks added for the block succeed.

The counters follow from where each thread is (`Placed`) and from the fact that a check is
either in the queue or in one batch (`Accounted`). The refinement needs `Judged` as well:
`fAllOk` speaks for the checks accounted for, and a thread's local `fOk`, read long
before its results are added, for its batch. A batch may be skipped, and then its checks say
nothing, only when a bad check is already known. `nTodo = 0` at the return of the
master then says that nothing is outstanding, so that `fAllOk` is the verdict.

`BlockDownloadProofs` proves, for every set of peers, every finite set of blocks and every
limit:

* `BookkeepingCorrect`: `Spec => []Bookkeeping`. The property is inductive as it stands,
  because its parts support each other: a counter is the length of a list only because no
  block leaves a list it is not in, which the maps guarantee by naming the owner, and
  an owner is connected because `FinalizeNode` gives up all that the peer had.
* `PromptPeersCorrect`: `Spec => []PromptPeersStay`. `PromptInv` bounds by one unit how long an
  honest peer has left a request unanswered and says that the socket handler hears of it in
  time, so that neither the time-out of a block nor the one for silence is reached. It holds
  under `Punctual` only, which keeps the clock from passing an honest peer that has an answer due.

`LedgerProofs` proves, for every block tree, every set of transactions in blocks and out of
them, every maturity and every choice of when to flush:

* `CoinsAlwaysExact`: `Spec => []CoinsExact`; `CoinsExactWithMiner` and `CoinsExactWithKills`: the
  same of `MinerSpec` and `WalletSpec`.
* `PoolAlwaysExact`, `PoolExactWithMiner`, `PoolExactWithKills`: the three for `PoolExact`, and
  `ResurrectedWhenFlushed`: `Spec => []ResurrectedIfFlushed`, where no block makes the coinbase
  of one of its ancestors again (`NoCoinBaseAgain`).
* `TemplateAlwaysExact`: `MinerSpec => []TemplateExact`, with `NoCoinBaseAgain` and
  `CoinBaseHeights`.
* `WalletAlwaysComplete`: `WalletSpec => []WalletComplete`, with `NoCoinBaseAgain`, for all heights at
  which the locator is written.
* `BalanceAlwaysExact`: `WalletSpec => []BalanceExact`, with it and `NoneRefused`: every
  transaction is standard, the coins are written by each step, and a coinbase has to mature. Without it
  the credit of a coin may stay stale (section 4, `main.cpp:2000`). TLC evaluates the hypotheses of these
  theorems on the instance of `wallet` (`MCHypotheses`).

The argument for the coins: `Utxo` and `Part`, recursive functions on blocks, say which
outputs are unspent after a block and after its first transactions; `Rep` says that a view shows
exactly a set of outputs. `SpendingIsExact` and the lemmas of undoing carry `Rep` over `UpdateCoins`
and `DisconnectBlock`, input by input, so that `CoinsInv`
has a place in the tree for each of `pcoinsTip`, the database and the view in
progress, and `undo` holds for every block it knows what connecting it removed (`Applied`),
whichever branch is active when it is read. An undo record has a height only
when it emptied its entry; that the remaining ones still have theirs is `RepUniform`. A kill
goes back to the database, and `undo` may know more than the database then needs.

The argument for the pool (`PoolInv`): no pool transaction is in the chain, the chain
spends nothing the pool spends, and what the pool spends is in the chain, made by the pool or an
output of a coinbase; each of these up to the transactions that `RemoveConflicts` and `Resurrect`
have not come to yet (`ToConnect`, `ToReturn`), and those that come back conflict with nothing. A
transaction that comes back passed its checks when the block was connected
(`Passed`), so that `AcceptToMemoryPool` takes it unless an input is missing (`GivenBack`), provided that the
pruned entries are flushed: the database has none (`DBUnpruned`). The hypothesis
`NoCoinBaseAgain` (hashes of coinbases differ, BIP 34; BIP 30 alone allows one again once it is
spent) is needed because such a coinbase would bring spent outputs back; TLC checks that the
instances of the runs satisfy it. `DataAssumption` says of blocks and transactions what `CheckBlock` and
`CheckTransaction` refuse otherwise, and `WalletAssumption` of the wallet's what makes them its own;
TLC evaluates both.

The argument for the template: `Lined` says that each transaction of `vtx` passes after those
before it, as sets of outputs, and `Shows` that the miner's view has exactly what they leave; both
are kept by `TakeFromQueue`, and `CheckedOk` replays `Lined` through the loop of `ConnectBlock` on a
view of its own. That the BIP30 check of `ConnectBlock` passes too needs that `pcoinsTip` has not
even a pruned entry of a pool transaction (`NotInTip`), for which the temporary views are followed
(`ViewsTouch`). That nothing is forgotten is `Queued`: `setDependsOn` holds exactly the parents
not yet taken, and a transaction that comes into the queue by a popped `COrphan` lacks a parent, so that it
is not taken (`FitsPresent`). A transaction whose inputs all exist is then skipped for a limit only, because it passed
its checks when it entered the pool (`PoolChecked`). That was on another chain, perhaps, where a
coinbase it spends was old enough (`WasMature`); the chain now is no lower than any that was
ever connected, as a block that connected once never fails later (`NeverFails`, which needs the
sum of its fees to be the same again, `Fees`) and the target is the best of the others. What
remains is that the coinbase is no deeper on the chain now: `CoinBaseHeights` says of the blocks that a
coinbase comes at another height only where BIP30 refuses it, which BIP34 sees to by putting the height
into it. Without it a coinbase can be moved up by a reorganisation, `CreateNewBlock` leaves its spender
out although every input exists, and `TemplateComplete` fails; with `COINBASE_MATURITY = 1`, as in
the run, that cannot be seen. TLC checks that the instance satisfies the hypothesis.

The argument for the wallet (`WalletInv`): every transaction of the active chain that concerns
the wallet is recorded with its block, or a call of `SyncWithWallets` that will do so is pending
(`Heard`); the same holds of the pool and of the list `ConnectTip` hands over (`PoolHeard`). A
transaction that spends a coin of the wallet is only recognised when the one that made the coin is
known already, so the calls must come in an order in which that is so (`InOrder`): a block has no
transaction before the one it spends, and what a block's transaction spends is in the chain below,
which was heard. `Recorded` keeps a later call from giving a transaction the block of a
branch that was left. `Heard` speaks of the chain of the coins, not of the tip: `ConnectBlock` has
told the wallet of a block before the coins of it are written (`ToldAll`: at "connected", with no call left,
the wallet has the block too), so that a kill never leaves coins the wallet has not heard of, wherever the
locator is, and a rescan from there only confirms what is recorded (`ScanStep`). Nor does a block it heard
of, and that was not connected after all, take a transaction from its place: two blocks of one chain do not
share a transaction (`OnceInChain`), and what another branch has is told again when it is connected.

The argument for the balance (`CreditInv`): a cached credit is current, or the wallet will be told of a
transaction that marks it dirty (`CreditKept`). Such a call is in `pending`, or `ConnectTip` has yet to make
it, for what conflicted with the block and then for the block (`Telling`). A credit changes only when a
transaction of the wallet, or one that spends its coins, enters or leaves the chain or the pool, and
each of these is followed by a call but one: what leaves the pool in `DisconnectTip`, of which the wallet
hears nothing. `ReturnInv` shows that with `NoneRefused` nothing leaves it there. When `Resurrect` comes to a
transaction, its inputs are in the coins of the previous block or were made by a transaction of the
block that is back already (`Returned`, `BlockSupplied`), and the pool takes it (`ResurrectTakes`).
`OwnInv` keeps a transaction made here from being seen elsewhere before it is committed, so that its commit
marks dirty what it spends. For the offers, between two calls a coin of the wallet is spent in its eyes
exactly if the chain or the pool spends it (`FreeFacts`, from `WalletInv`), and what a block of the chain made
is unspent or spent by a block of the chain (`UnspentOrSpent`); the rest is the count of confirmations.

`BlockFilesProofs` proves, for every tree of blocks, any number and size of files and any number
of faults:

* `FilesAlwaysReadable`: `Spec => []FilesReadable`.

`FilesInv` says of every value a power loss may bring back, not only of the last one, that its
entries lead to their records, below the sizes it has itself (`AllLead`); that the sizes grow from
one value to the next (`SizesGrow`) and on to those in memory (`MemoryAhead`), although memory
counts a record the database may never hear of; and follows the record in hand from the
place it is given to its entry (`HandRecords`). A new record then takes a place no value of the
database leads to, and `FlushBlockFile(true)` cuts off nothing that any of them needs. During
`-reindex` the size counts the blocks that were accepted, so that it covers the next one only if
all before it in its file are (`Scanned`, `AllBeforeFound`): if one were not, then also one whose
parent is, and the scan would have taken it. That needs files in which each block comes once
and after its parent (`FilesClean`); `gap` remembers that it was otherwise. Of what a `-reindex`
skips when it goes on after a restart, `Scanned` says the same, unless `missed`; that the sizes of files not yet opened
do not grow meanwhile needs that memory and database agree on the last file (`LastScanned`). A proof
attempt showed that a block without its parent belongs there as much as a gap: after a power loss brings back
an earlier database, a new block may be written over the parent of one further on. `Blocks` need not be finite: what is used of
`Parent` is that it has no cycle.

`ConnectionsProofs` proves, for any number of places for a `CNode`, of threads that open
connections and of slots, where TLC checks one place:

* `RefsCorrect` and `CopiesCorrect`: `Spec => []RefsExact` and `Spec => []CopiesAlive`. The invariant
  adds where a node can be (`Typed`: never in both lists; `InHand`: what each thread uses;
  `Pushing`: a new node is in no list before its own thread puts it into `vNodes`; `Removing`: what
  the socket thread removes stays in `vNodes` while it has the lock) and that the count is never
  less than the number of holders, also for a node whose own reference is never given
  back, unless a reference was added without the lock (`unlocked`, the hazard at `net.cpp:450`). It holds because a node is moved to `vNodesDisconnected` once and loses its own
  reference there, and because a thread takes and releases the references of its whole
  copy of `vNodes` at once.
* `ConnectionsCorrect`: `Spec => []ConnectionsExact`, the invariant of the run. `SlotsInv` says that,
  as long as no two threads were at the grant of one node (`raced`), the nodes whose grant a thread
  has looked at have it and are different ones (`Apart`), so that a slot posted is that of exactly one
  node that is then no longer among those that have not posted theirs (`Unposted`): the slots that are
  free, those of threads and those of such nodes add up to what the semaphore was made with, through
  moves, failed connections, disconnections and deletions.

`KeysProofs` proves, for any number of reservations, keys, refills and kills, with or without
encryption, and for every set of time-outs and every bound of the clock:

* `FileCorrect`: `Spec => [](FileLoads /\ SecretsRecorded)`. `Ciphered` says that
  file and memory have keys of one kind, and that while `EncryptWallet` runs the file has them all
  plain and the transaction each of them once, plain or encrypted: whether its commit or a kill
  comes first, no key is lost and none is there in both kinds.
* `KeysCorrect`: `Spec => []KeysKept` for `KeyPoolSize > 0`, which adds `NeverReissued` and
  `PoolReadable` of a wallet that is not encrypted. `TopUpKeyPool` gives a new entry the index
  after the largest of `setKeyPool`, and that no reservation holds it is not obvious. `Covered` says
  that every entry of the file, also one that is reserved, has an index no larger than one of the
  set; it is preserved because the pool holds two indices or more when one is taken (`Filled`),
  which is where `KeyPoolSize > 0` comes in: with `-keypool=0` the property fails
  (section 4), and `FileCorrect` does not need it.
* `LockCorrect`: `LockSpec => []LockArmed`. `GuardedInv` follows a change of the passphrase: while
  it has the wallet unlocked, a wallet that was unlocked before still has what will lock it (also a
  `requestUnlock` that is yet to look again), or `missed` holds, and one that was locked will be locked again by the command itself.
* `DatabaseCorrect`: `DbSpec => DatabaseSafe`, for any threads, records, opens and writes, with kills
  or with `Rewrite`: `CanRewrite => MaxKills = 0` excludes what section 4 describes and
  nothing else. `CountRight` says that the use count is that of the CDBs and of `Rewrite`; `RewriteAlone`
  that no CDB is open while `Rewrite` holds `cs_db`; `Files` what the copy has at each point,
  which is the wallet when nothing is left to do; `Detached` that a file without an entry in the
  use counts needs no log, which is what allows a shutdown to remove the log of a file that
  it does not detach itself. `BackupComplete` is a property of steps: only `BackupWallet` changes the
  backup, when `db` is what was written.

`OrphanTxProofs` proves, for any transactions, peers and limit:

* `OrphanTxCorrect`: `Spec => []OrphanTxExact`. `Resolved`, stated between two messages, is what
  the loop over `vWorkQueue` establishes. `Pending` says of its middle that an orphan is
  still to be looked at or is on the erase queue, or waits for a transaction that is missing,
  came without the loop or stands further down in `vWorkQueue`. Only guilty peers are punished
  because an invalid orphan belongs to one (`Owed`).

The assumptions about `BlockTree` are those on its constants: the parent relation is a tree
rooted at the genesis block (a property of hashes, not of the code; `TreeAssumption`
states the consequences of the recursion that the prover cannot derive by induction, and
TLC evaluates it in every run) and more blocks have more work.

`ChainDurable` of `BlockFiles` is model-checked only, for two faults; a run with three kills, power losses
and restarts with `-reindex` in any order, too long to be kept with the others, passes on the same blocks.
It needs `back`: when a start comes back to an earlier file than one that has a block already, a
`-reindex` in the initial download may connect a side branch of the first file only when it comes to the block
in the second, `FlushBlockFile` commits the second file, and the coins of a block are written that is in
caches only.

Only model-checked as well: everything temporal beyond `[]` of a state predicate or of a step
(`ProcessBlockReturns`, `WaitReturns`, `DownloadGoesOn` and the like; the prover has no fairness), and
these safety properties: `BuffersBounded` and
`ImplementsFifo` of `Transport`, whose sums and streams are recursive functions over sequences, of
which nothing can be shown for every length without induction; `AddressesExact` and
`AddressesSurvive` of `AddrMan`, for the same reason (a restart numbers all entries anew by a fold); and
`TargetsRight` and `TreesRight`, about what algorithms compute. Recursive operators (`Merkle`) are
beyond the prover in any case.

## 6. Not modelled

* The script interpreter: a sequential stack machine over byte strings, of which a model
  would be a transliteration. A script is its verdict.
* Coin selection, fees and priorities, accounts, the address book: sequential arithmetic
  and strings.
* Alerts: one map changed by one handler. Bloom filters: arithmetic on hash values.
* The ban list, `mapAskFor`, UPnP, name resolution, DNS seeds.
* `GetBlockValue` (a shift) and the checkpoint tables.
* Salvage of a damaged wallet, `-upgradewallet`, import and export of keys.
* RPC commands other than those of the unlock timer, the graphical interface, utilities,
  serialisation formats, the vendored LevelDB and json_spirit.
* A clock that goes back: the verdict on a block in `BlockTree` does not depend on time.

## 7. Plan

1. Proofs: `ChainDurable` of `BlockFiles` for any number of faults;
   the refinement of `Fifo`; the address tables.
2. Models: a wallet restored from a copy, for which the locator and the rescan are there; `mapAskFor` with its retries and `mapAlreadyAskedFor`; a clock in `BlockTree`.
