# Verification of rust-bitcoin-node

TLA+ models of the node's core, the TLC configurations that check them on small
instances and TLAPS proofs of what holds for all of them.  Paths are those of
the repository; `chain.rs` is `src/blockchain/chain.rs` and so on.

## The system

| Component | State | Operations | Used by |
|---|---|---|---|
| `Chain`, `ChainDB` (`blockchain/`) | header entries, tips, most-work header, height and successor indexes, coins, tip, invalid set, deployment state; one RocksDB batch per change | `add_header`, `add`, `attach`, `connect_best`, `connect`, `disconnect`, `open` | peer managers, behind a `RwLock`; notifies listeners |
| Version bits (`chain.rs`, `chain_db.rs`, `version_bits.rs`) | `VersionBitsCache`, in memory | `get_deployment_status`, `compute_block_version` | `verify_context`, miner |
| `PeerManager` (`net/new_peer_manager.rs`, `new_peer.rs`, `connection.rs`) | peers, header sync peer, requested and verifying hashes; per peer: its requests, best and common block, stall time | one tokio task per peer, `resolve_headers`, `maintain_peers`, a stall timer, the blocking add thread | the binary |
| `MemPool` (`mempool/mod.rs`) | transactions, `spents` | `add_tx`, `add_block`, `remove_block` | peer manager; listens to the chain |
| `BlockStore` (`blockstore/`) | flat files for blocks and undo records, an index | `open`, `index`, `write`, `read`, `allocate`, `check`, `prune` | `ChainDB` |
| Headers (`chain.rs`, `chain_db.rs`) | the tree of entries with times, targets and skip pointers | `get_ancestor`, `get_locator`, `find_locator`, `get_median_time`, `verify_locks`, `get_target`, `retarget` | chain, peer managers, miner, pool |
| Coins (`coins/`) | `CoinView`, `UndoCoins` | spend, undo, encode | `Chain`, `MemPool` |
| Indexers (`indexers/`) | a database each: transactions, addresses, filters | index and unindex a block | listen to the chain, in `full_node.rs` |
| Miner (`mining/`) | a block template | assemble, refresh | its user |
| Threaded `PeerManager` (`net/peer_manager.rs`, `peer.rs`, `compact_block.rs`, `bloom_filter.rs`) | as the newer one, and transactions and compact blocks | a reader and a writer thread per peer, `maintain_peers`, one handler per message | `full_node.rs` |
| Primitives, protocol, errors, database wrapper | constants and pure functions, RocksDB | encode, check, hash, batches | all |

`net/old/` and `mempool/mempool.rs` are not compiled.

How they interact: the task of a peer takes messages off its connection and
calls the manager; a block it was asked for goes through a channel to the add
thread, which calls `Chain::add`; the task waits for the answer on a oneshot
channel.  The resolver chooses blocks to request under the locks of the manager,
the peer and the chain, releases them, sends blocks that are on disk already to
the add thread as well (`attach_block`), and requests the others.  While it
holds the write lock, the chain notifies its listeners of each block that it
connects or disconnects.

The threaded manager keeps the same books without channels: the reader thread of a
peer handles its messages itself, and the chain, the manager's state and the state
of each peer are behind one lock each, which a handler takes one after another.

What is hard here: a reorganisation is many durable writes with panics, errors
and crashes between any two; the books on block requests are kept twice and
changed by the resolver, the peer's task and its cleanup between awaits; the
download must go on through hangups, stalls and misbehaving peers; the pool and
the indexes see blocks come and go in the middle of all this, and the process may
stop between the database of the chain and theirs; records are written to files
before the index knows of them; threads take several locks in orders that differ;
a cache in memory is trusted after a restart that has emptied it; and times, which
miners choose, decide on targets and locks.

What makes each part correct:

- chain: the indexes, the coins and the tip agree at every durable moment, only
  verified blocks are connected, the tip has the most work, calls end;
- download: no block is requested twice or lost, the node arrives at the
  network's tip as long as one peer is reliable, peers that must go do;
- pool: `transactions` and `spents` agree, nothing in it is orphaned, conflicting
  or confirmed, nothing is lost without cause, blocks give back what they took;
- version bits: a state is a function of the chain, the same in a whole period;
- block store: what is listed can be read, after a crash too, pruning costs no other
  block, and an index that is lost can be built again from the files;
- headers: shortcuts through the tree lead where the parents lead, a locator finds the
  fork, targets change once in an interval, and what is unlocked stays unlocked;
- indexers: the index is that of the main chain;
- threaded manager: no block is added twice, the books agree, threads do not wait
  for each other in a circle.

## Modules

| Module | Models |
|---|---|
| `BlockTree` | blocks as data: parents, heights, work, what they do to the coins; the checks of `verify_context` on coins; assumptions |
| `Ledger` | what the chain promises: a verified chain that grows and shrinks by one block, with the coins of its replay |
| `Chain` | `Chain` with `ChainDB`, one step for each durable write |
| `MCChain` | a tree of nine blocks, three branches |
| `ChainProofs` | theorems about `Chain` and its refinement of `Ledger` |
| `PeerManager` | header sync, block download, stalls, disconnects, the add thread |
| `MCPeerManager` | two peers |
| `PeerManagerProofs` | theorems about `PeerManager` |
| `MemPool` | the pool, on a chain as `Ledger` promises it |
| `MCMemPool` | six transactions: a chain of three, a rival with a child, a spender of a coinbase |
| `MemPoolProofs` | theorems about `MemPool` |
| `VersionBits` | one deployment and its cache |
| `VersionBitsProofs` | theorems about `VersionBits` |
| `BlockStore` | the files and the index of one type of record |
| `MCBlockStore` | three blocks of three sizes |
| `BlockStoreProofs` | theorems about `BlockStore` |
| `Indexers` | the three indexers as listeners of `Chain`, with the steps of `Chain` |
| `MCIndexers` | the tree of `MCChain` with transactions and addresses |
| `IndexersProofs` | theorems about the chain with its listeners and about the three indexes |
| `Headers` | ancestors, locators, median time, locks and targets on a tree of two branches |
| `HeadersProofs` | theorems about `Headers` |
| `Threaded` | the threads of the threaded manager, their locks and their books |
| `MCThreaded` | two connections and two blocks |
| `ThreadedProofs` | theorems about `Threaded` |

An operator that a comment calls a *broken variant* (or that precedes the
definition it mistakes) is a plausible bug: with it in place of the definition, the
property that `PROJECT.json` names fails.

### Chain

A block is a model value.  `headers`, `tips`, `hash`, `nextHash`, `dbTip`,
`coins`, `undoRecord` and `undo` are on disk; `tip`, `mostWork`, `invalid` and
`deployed` are in memory; `pc`, `entry` and `queue` are where the call in
progress is; `pending` is `ChainDB.pending`.  A batch is one step.  `connect` is
two, because `connect_block` flushes the undo record to the block store before
the batch (`WriteUndo`, `Connect`).  `Restart` may come between any two and keeps
what is on disk.  `connect_best` takes a branch of best work through the block,
verifies that it has more work than the tip, and then disconnects and connects
step by step; `get_next_best` may choose between equal branches (the order of a
`HashMap`), so the model chooses.  A header that fails the contextual checks
never becomes an entry, so such blocks are not in `Block`.  Heights are u32 in the
code; `MaxHeight` is the largest an instance has.

### PeerManager

Blocks are the heights of one branch: `Chain` covers the others.  A step is
what a task does under the locks it holds together, or up to its next await.
`requested` and `asks` are the two books; `task` is where a peer's task is, from
"new" through the handshake and `run_peer` to its cleanup ("closing", "cleanup",
"resync", "gone"), or "dead" after a panic; `resolver` holds the locals of
`resolve_headers` between its locks; `addQueue` and `reply` are the channels of
the add thread.  A flaky peer may refuse, hang up, misbehave or never answer, and send
any headers at any time after the handshake (`Unasked`, `HeadersPanic`): known ones, those
of a block it does not have, or before the node asked it for any.  A block may be
malformed, have bad inputs or make `Chain` panic (as `DisconnectPanics` does).  The remote
peers and the miner are external, modelled from what the code sends and expects.

### MemPool

`chain` is the part of the main chain above a base that is never undone, with the
coins after each block.  `AddTx` is `add_tx`, which may come between any two
notifications of blocks; `Connect` and `Disconnect` start a notification, and
`AddBlockTx` and `RemoveBlockTx` are the turns of its loop.  `Accepts` is all that
`add_tx` checks: presence, double spends, the coins and the pool's own outputs,
maturity, lock time.  Scripts, amounts and relative locks are `Bad`.

### VersionBits

A chain is the sequence of its blocks, each with its signal and its median time;
the hash of a block is the chain that ends in it.  `Collected` is the walk back,
`Computed` the loop over what it has collected, in the code's order, `Remember`
what is added to the cache.  A block that is refused leaves the same cache as
`AddBlock`: the cache is rolled back by `ChainDB::drop` only, which `verify_context`'s
errors do not reach.  `AddBlock` also asks on `Branches`, off the chain and ahead of it by
`Ahead` blocks: less than a period, as the download window (1024) is shorter than the
period (2016).  The deployment `dummy`, which only `compute_block_version` asks for, is
left out.  `Reference` states the rules of `version_bits.rs` over a whole chain at once.

### BlockStore

A file is a row of cells: the magic and length of a record, what identifies it, then
its bytes by fours, so that a write can be cut short at each of the places the scan of
`index` tells apart.  `files`, `records` and `lastFile` are the three kinds of keys.
`Write` is `write` with `allocate` and `check`; `WriteCut` is the same when the process
stops after some cells, before the batch.  `Prune` and `PruneCut` are `prune` and
its crash between the file and the batch.  `Rebuild` is `open` when a file has no
record: `Found` is the scan as the code does it, which goes on behind what identifies
a record rather than behind the record; `RebuildCut` stops between two files.
`read_dir` lists files in any order.

### Indexers

The steps are those of `Chain`; `Connect` and `Disconnect` leave a notice for each
listener in `due`, in the order of `full_node.rs`, and `Handle` is one handler with its
batch.  The chain goes on when all are handled.  A restart loses the notices that are
left, and `lost` remembers which; `HandlePanics` is the unwrap of the filter header.
`addrMap` and `txidAt` are the two kinds of keys of the address index, joined by
place as `txids_for_address` does.

### Headers

Every operator takes the header in which the main chain ends as a parameter, since the
code takes another path through the height index for headers on it.  `entries` are
filled by `AddHeader`, the contextual checks of `add_header`, with times that miners
choose as early, as late or as truthful as they may.  `SkipHeight`, `Follows` and
`Down` are the pointers and the step of `get_ancestor`; `Located` the loop of
`get_locator`; `Retarget` and `LastRegular` the two parts of `get_target`, with targets that change
(`NoRetargeting` is false in the run, open in the proofs).  Numbers
wrap at `Modulus`, or panic (`OverflowChecks`); `Compact` rounds a target as its
compact form does.  Of `validate_pow` there is only that no hash meets a target of zero
(`CanBeMet`).

### Threaded

A step runs from one lock that may have to be waited for to the next.  `at` is where a
thread is, `Held` the locks it has there; a thread waits where the guard of its step
needs a lock to be free.  Besides the locks of the chain, the manager's state and the
peers there is that of the filter index, which `connect` takes behind the chain's
(`IndexBlock`).  `arg` is the block a handler is about, `todo` the peers a
loop has still to visit.  The books are `blockMap`, `txMap`, `verifying`,
`compactBlocks` of the state and `peerBlocks`, `peerTxs`, `peerCompact` of each peer.
`Reader` has the handlers of a peer's reader and the end of its writer; those that serve
data (`GetData`, `GetFilters`, `Serve`) change no book and are there for the locks they
take, twice or in their own order.  `GetNextBlocks`
is `get_next_blocks`, called by readers and by `maintain_peers`, `MaintainPeers` the rest
of that thread.  A panic releases the locks of its thread; "asserted" is the panic of
the assertion in `handle_compact_block`, which leaves the peer's book written.

## Runs

Deadlock checking is off in all of them: a node with nothing to do waits, and
bounded inputs run out.

| Run | Result | Shows |
|---|---|---|
| `chain_reorg` | pass | three branches in every order of arrival, a malformed block, one that spends an immature coinbase, one crash: `TypeOK`, `MainChainIndexed`, `CoinsAreReplay`, `MainChainVerified`, `HeaderTipsAreLeaves`, `DisconnectOnlyForMoreWork`, `ImplementsLedger`, `CallsEnd` |
| `chain_best` | pass | every block connectable, the indexers listening, one crash: `TipHasMostWork`, `DeploymentsOfTip`, `IndexesOfMain`, `FiltersOfMain` |
| `chain_missing_undo` | violation | `ReorganisationSurvives`: the undo record of a block without spends |
| `download_safe` | pass | one flaky peer with headers nobody asked for, one of three blocks bad, after a restart with a block on disk: `TypeOK`, `RequestsMatch`, `FetchedOnce`, `VerifyingIsHarmless` |
| `download_live` | pass | one flaky peer, a block mined and announced on the way, header sync handed over: `BlocksArrive`, `DisconnectsHappen` |
| `download_window` | violation | `BlocksArrive` with a chain longer than the window |
| `mempool` | pass | `TypeOK`, `InputsInSpents`, `SpentsMatch`, `NoOrphans`, `TakesBack`, `LeavesForCause` |
| `version_bits` | pass | states asked for on the tip, ahead and on branches: `TypeOK`, `CacheCorrect`, `PeriodsAgree` while the process runs |
| `version_bits_restart` | violation | `PeriodsAgree` after a restart |
| `block_store` | pass | writes, prunes, crashes, a lost index: `TypeOK`, `ListedCanBeRead`, `PruningCostsOne`, `RebuildFindsAll` |
| `headers` | pass | two branches with odd times: `TypeOK`, `AncestorsRight`, `LocatorFindsFork`, `LocksStay`, `TargetsOfInterval` |
| `threaded` | pass | every message in every order, a connection that fails: `TypeOK`, `AddedOnce`, `BooksAgree`, `DeadlocksByInversion` |

Some properties hold under a condition, which is part of their statement:
`AddedOnce` and `BooksAgree` until the assertion of `handle_compact_block` has failed,
`ListedCanBeRead` and `PruningCostsOne` until the index has been built from the files,
`BlocksArrive` if the headers become recent again and again, no task panics and no blocks
stay with a peer that nobody watches (each of the three can stop the download),
`IndexesOfMain` and `FiltersOfMain` but for notices that a crash has lost.  What
happens beyond is described under "Findings".

### Bounds

- Chain: three branches of two, three and two blocks above a common parent, so
  that the chain is reorganised twice, once across blocks that contain the same
  transaction at different heights, and fails at the top, the bottom or not at
  all.  One crash suffices for every pair of writes; the proofs cover any number.
- Indexers: the same tree without bad blocks; one transaction is in two branches at
  different heights and places, one address is paid in all of them, one block has a
  transaction without an address in front of another.
- PeerManager: two peers, so that each can take over from the other; one block
  per peer (`PerPeer`) and a window of two, so that both limits bind.
  `download_safe` starts with all three blocks in the network and the first on disk; a
  flaky peer sends any of them unasked, and headers messages hold two, so that header sync takes several.
  `download_live` starts with one block and has a second one mined, which the reliable peer
  announces; only with it are the headers recent (`RecentFrom`), so that header sync is
  needed, may fail and is handed over; the window holds the whole chain, as one more block
  runs into `download_window`, and so does a headers message.
  Addresses are used once: a new connection is a new peer.  The proofs cover any
  number of each.
- MemPool: four blocks of at most three transactions; a conflict with two levels
  of descendants, one with two parents, a coinbase that matures, a lock height.  What
  conflicts with the chain first spends a single output (see `SpentsMatch` below).
- VersionBits: periods of two blocks, eight blocks: a deployment can go through all
  states to active; two detours (`MaxDetours`), each a disconnect, which the following
  blocks can replace by others, also across the end of a period, or a block off the chain,
  one ahead of any block of it.  `version_bits_restart` has nine blocks and one detour.
- BlockStore: records of three, four and five cells, files of seven, three files: two
  records fill a file exactly, nearly or not at all.  Two crashes, so that a write that
  was cut short can be followed by another and by the loss of the index.
- Headers: height 8, where `get_skip_height` and the boundaries of intervals of four have
  all their cases, forks at 2 and 5; the median of three times; the clock advances by one
  spacing of two a header.  `MaxOdd` limits how often miners change sides or lie about the
  time to three.  Locators double their step after two hashes instead of ten.
- Threaded: two peers and two blocks, windows of one, full headers messages of two, one
  incomplete compact block per peer, one transaction, one connection that fails by itself,
  peers symmetric (3.4 million states).  The proofs cover any number.

### Fairness

`Chain`: weak fairness of the steps of a call, run by a thread that holds the
write lock and waits for nobody.  `PeerManager`: weak fairness of each task, of the
resolver, of the add thread and of the stall timer of each peer (tokio schedules
what is ready; `parking_lot` locks are held for bounded sections), and of the
answers of peers that are not flaky, which is what a reliable peer is.  What a
peer's task does without waiting for the peer has one condition together, and so have the
messages of a reliable peer: which of several comes first is open.  Nothing
is assumed about flaky peers, the miner or new connections beyond
`maintain_peers` trying them.

Nothing is assumed of the other modules, which have safety properties only.

## Findings

1. *A block without spends cannot be disconnected* (`chain_missing_undo`).  Its undo
   record is never written, and `get_undo_coins` unwraps it.
2. *The download stops at the end of the window* (`download_window`).  The window is
   measured from the common block before the walk moves it, so after the last
   block of a window nothing starts the next.
3. *Deployment states are computed newest first* (`version_bits_restart`).  As long as
   at most one period is missing in the cache this is right; after a restart it is not.

Seen on the way, with no run of their own:

- Chain: `connect_best` disconnects first and verifies afterwards; when a block of the
  new branch fails, the tip stays at the fork (`chain.rs:395`).  On regtest
  `compute_block_version` can count signals beyond genesis for the deployment `dummy`
  and panic.
- Newer manager: a block that was on disk before a restart and fails when it is attached
  ends the add thread and the resolver (`new_peer_manager.rs:874`, conceded by the TODO
  at 382; `download_safe` goes through these states); a header whose parent is unknown
  panics in the task of its peer, which stays in the map; the task that looks for
  stalling peers then unwraps a failed send.  Header sync stops if its peer never answers,
  which nothing watches, or if it is handed to a peer that has not finished its handshake
  and is then never asked (142-146).  Blocks are requested from a peer as soon as it has sent
  any header (206), but only peers that were asked for headers are watched for stalling (830):
  what another was asked for is not released while it stays.  `BlocksArrive` excepts these
  cases and that of a task that panics; without any one of the exceptions it is violated.
- Pool: a removed double spend leaves the entries of those of its inputs in `spents` that
  did not conflict (`mempool/mod.rs:318`), so that later transactions are refused;
  `remove_block` returns at once if the pool is empty (252), so what the block held is
  lost; a transaction that spends a coinbase stays when the coinbase becomes immature
  again (26).
- Block store: after a rebuild a file counts as four bytes shorter than it is, and the
  next record overwrites the end of the last (`ScanEnds`); the last file's number is
  not restored, so that the next write may create, and empty, a file with listed
  blocks; a record that was cut short is listed although it cannot be read; a file of
  less than four bytes makes `open` panic at every start if the index is lost, and so does
  one that ends within the length of a record; a prune that stops before its
  batch in the last file makes every later write fail; the count of blocks can
  underflow.
- Indexers: after one lost filter notice `unwrap` panics whenever a block is
  connected from then on, as it does when the filter index is enabled on a chain that
  exists; `txids_for_address` misreads P2PKH and P2SH keys; a filter looked up by the
  hash of a stale block is that of the main chain.
- Headers: the time an interval took is an unsigned difference, which wraps, or panics
  with overflow checks, if the last block is earlier than the first; so does a relative
  lock of zero; `get_ancestor` compares with the skip height of the next block instead of
  the one before, which costs steps only; `height_to_hash_range` panics for a start of
  zero or beyond the end.
- Threaded manager: threads deadlock, in six ways that `DeadlocksByInversion` names, all of
  them reached in the instance.  `handle_inv` (`peer_manager.rs:248`) and
  `handle_compact_block` (660) take the lock of their peer before the state;
  `handle_compact_block` and `handle_verack` (775) the state before the chain;
  `handle_get_data` its peer's before the chain (371, 379), and the chain a second time
  while it reads it (343, 348, 356), so that a writer that comes between stops both;
  `handle_get_cfheaders` and the like the filter index before the chain (855, 858); and
  `handle_headers` (646) waits for the writer with its peer's lock.  A second connection to
  an address replaces the first in the map, whose blocks are never handed back (156).  A
  compact block that another peer was asked for
  fails the assertion at 681 after the peer's book was written; with three peers a block
  can then be added twice.  Every compact block with a known header panics its reader
  (`chain.rs:241`), and the peer stays in the map; the error of an invalid block is
  unwrapped, and its hash stays in `verifying`.  What removed peers had in `tx_map` and
  `compact_blocks` stays; `header_sync_peer` is never released (128); an error of
  `get_next_blocks` ends an innocent reader or, unwrapped (144), `maintain_peers`.

## Proofs

`ChainProofs`, from the assumptions of `BlockTree` (heights go up by one and work
grows from parent to child; no block spends what it leaves unspent; `Utxo` is the
replay of `ConnectCoins`), for all blocks, coins and crashes:

- `Invariance`: `IInv` is inductive.  The checked properties are not by themselves:
  that the coins are the replay survives a disconnect only if the undo record
  fits the parent's coins (`UndoFits`, also for records that a crash left behind),
  a reorganisation only goes on if the queue is a branch of blocks that are on
  disk (`CallInv`), and the tree of entries must be closed under parents
  (`HeadersClosed`).  `UndoInverts` is the lemma about coins, `BranchStep` the one
  about the queue.
- `TypeCorrect`, `MainChainCorrect`, `CoinsCorrect`, `MainChainIsVerified`,
  `HeaderTipsCorrect` (with `TipsInv`), `ReorganisesForWork` follow.
- `Refinement`: `Chain` implements `Ledger`; `Connect` is `Extend`, `Disconnect` is
  `Retract`, everything else stutters.
- `TipIsBest` and `DeploymentsFollowTip`, under the hypothesis `NoBlockFails`: every block
  that passes the checks of its body passes those of its parent's coins.  Without it they
  are false, as `connect_best` disconnects first and stays at the fork when a block fails
  (see "Findings"); the instance of `chain_best` satisfies it, which TLC evaluates as an
  assumption of `MCIndexers`.  `BestInv` says what is known in the middle of a call: no
  complete branch outweighs the main chain but through the block that the call is about,
  and a reorganisation leads to a branch as heavy as any; `From` names the blocks that a
  set leads to from the main chain.  A block that completes a branch is the only one that
  can top a heavier one, so it is enough to look there.

`MemPoolProofs`, from `MemPoolAssumption`: `PoolInvariance`, with `InputsInSpents`
inductive together with `TypeOK`, because what is removed with a double spend is
closed under spending; so the pool never conflicts with itself
(`PoolWithoutConflicts`).  `LeavesOnlyForCause` adds that an entry of `spents`, stale or
not, names a transaction that spends the outpoint, and that what the handler has left
to go through is in the main chain: then what `remove_double_spends` takes depends on a
transaction that conflicts with the chain (`DoubleSpendsDepend`), for chains of
dependents of any length.

The other properties of the pool need the chain: in a chain of valid blocks (`Sound`) every
level has coins that agree with the transactions below it (`LevelsCoherent`: what is
confirmed has spent its inputs, and its outputs are there or spent by another that is
confirmed), and no block has a transaction that was there before (`BlockFresh`).  `IInv`
says of a pool at rest that nothing in it is confirmed and all it spends exists (`Quiet`);
while a block is handled, what is wrong is wrong for a transaction the handler has not come
to (`Connecting`), and what is left of a disconnected block fits the chain with what came
before it (`Disconnecting`).  Only an entry of `spents` that is stale can break this: a
transaction of a disconnected block is refused for it, and those in the pool that spend its
outputs are orphans.  That entries go stale is a defect (see "Findings"), so the theorems
`OrphansNeedStaleEntries` and `LossesNeedStaleEntries` have `[]SpentsMatch` as hypothesis:
that defect is the only way to orphans and, but for an empty pool, to losses in a reorganisation.
`EntriesGoStale` says exactly when it occurs, without a hypothesis: a step ends `SpentsMatch`
if and only if it removes a double spend of which an input is left in `spents`
(`InputsLeft`).  The instance of the run `mempool` has no such step.

`PeerManagerProofs`, from `PeerManagerAssumption`, for any peers, blocks, flaws and
windows: `DownloadInvariance`.  `RequestsMatch` is not inductive: that no peer is asked for
too much also needs that what the resolver has in hand fits (`Books`), as it has let go of
the locks under which it counted.  `FetchedOnce` needs to know where a block is
between the books: nothing requested is verified or on disk (`NotRequested`), what the
resolver has found on disk stays there (`OnDiskFound`), everything in the queue is
either on disk or being verified for a task that waits for it and for nothing else
(`Sent`), an answer is there only for a task that waits (`Answered`), and the chain up to
the tip is on disk (`Typed`).  The choice of the lowest blocks of a window needs that a
set of numbers has a least one, which is `WFMin` of the library on the natural numbers.
`DownloadTyped`, `RequestsAlwaysMatch`, `BlocksFetchedOnce`, `LeftoversAreHarmless` follow.

`ThreadedProofs`, from `ThreadedAssumption`, for any number of threads:
`WaysThreadsDeadlock`.  That one thread at a time has the state (`StateLockedOnce`) is
inductive, and with it whoever waits in a circle waits, by going down the order chain, state,
peer, in one of the six ways.  `IInv` says that
blocks are known to the chain before they are booked, but for a compact block whose
handler is on its way to the chain (`KnownBlocks`), and, until the assertion fails, that
the books agree (`BlockBooks`, `OtherBooks`) and that what is being added is
marked as verifying and not saved (`Adding`).  `TypeCorrect`, `BooksAlwaysAgree` and
`BlocksAddedOnce` follow.

`BlockStoreProofs`, from `StoreAssumption`, for any sizes and number of crashes: while the
index has not been rebuilt, records lie within what their file counts as used and are
whole if it is there (`RecordsFit`), the file after the last is new (`FilesBelow`), the
counts are right (`Counted`), and a file that is gone had one record left (`Gone`).  A
write that was cut short lies behind what is used, so the next one may overwrite it.
`ListedIsReadable` and `PruneCostsOne` follow.  `TypeCorrect` holds after a rebuild too: the
scan goes up in the file (`Found` names the places it stops at), so what it lists lies in
the file whatever the file holds (`ScanTyped`), and the files are gone through in any order.
`RebuildListsAll` needs to know what files hold (`FilesLaid`): whole records up to the place
that is used, although the index may be lost, and behind it what is left of writes that were
cut short.  A record is at least three cells long, so what a shorter one leaves of a longer
one does not look like a beginning.  So a magic in front of a whole record is never its
neighbour, and the scan comes by the record (`WholeFound`), which is what fails in general for
magics in a row.

`IndexersProofs`, from `IndexAssumption` (no chain has a transaction
twice) and those of the chain, for any tree, transactions, addresses and crashes.  `IInv`
of the chain survives its listeners.  What is due is about the tip or the block that was
above it, the same block for every listener (`DueInv`); the filter header of a main-chain
block is the path to it unless a notice on that path was lost or it is the tip and its
notice is next (`FilterInv`).  `FilterIndexCorrect` follows, and `PanicNeedsLoss`: while no
notice was lost, the `unwrap` of the listener finds its header.  For the other two indexes
the invariant speaks of the blocks a listener has seen (`Seen`): the main chain, without
the tip or with the block that was taken off if it is still to be told.  They lie on one
chain (`AroundApart`), so no two of them share a height or a transaction, and entries of
one are never taken for those of another (`TxInv`, `AddrInv`).  `IndexesFollowMain` follows.
`BestUnderListeners` is `TipIsBest` and `DeploymentsFollowTip` with the listeners, whose panic
is one more way for a call to end.

`VersionBitsProofs`, from the assumptions on the constants of the module, for any window,
threshold, times and activation height: what is cached is right (`CacheCorrect`), and every
period of the chain that is over has its state in the cache (`Recent`), because `connect` asks
for it.  A block that is only stored is less than a period beyond a block of the chain
(`KnowsBranch`).  So the walk back collects at most one period, and the order of the loop over
what it collects, which is wrong, does not matter.  Median times never fall (`Ordered`), as the start
and the timeout are compared with that of one block.  `CacheIsRight`, `OneStatePerPeriod` (by
`StatesRight`) and `TypeCorrect` follow.  A restart, after which this is false, is a step of
`RestartSpec` only, which `version_bits_restart` checks.

`HeadersProofs`, from `HeadersAssumption` (a digit is no larger than the mantissa, and an
interval takes at least four seconds), for chains of any length that part anywhere, any
parameters of a network and any times:

- `Recursion`: a function that is defined from its value at a next argument exists if a
  bounded measure goes down on the way.  The loops of the code are such functions: the
  walks of `get_ancestor` and `get_target`, the turns of `get_locator`, the flipped bits of
  a height, the digits of a compact target.  What each computes follows by taking a least
  argument at which it would be wrong.
- `IInv` is inductive: entries are closed under ancestors and a skip is the ancestor at its
  skip height (`Tree`), every header is later than the median before it (`TimesRise`), and
  targets are those of their intervals.  `AncestorsRight` and `LocatorFindsFork` follow from
  `Tree` in any state (`TreeAgrees`, `TreeLocates`), without the restriction `OneByOne` that
  keeps the run small.
- `LocksStay` needs that medians do not fall (`MedianRises`): of the times a header's median
  is taken of, all but the last are those of its parent's, and the one that is new is later
  than the parent's median, so no more of them lie below it than half.
- A target is that of the first header of the interval, since the walk over blocks of
  minimum difficulty ends in it (`LastRegularIs`).
- `TypeCorrect`, `SkipsLeadToAncestors`, `LocatorsFindForks`, `LocksHold` and
  `TargetsChangeAtBoundaries` are the theorems.

Only model-checked: liveness (`CallsEnd`, `BlocksArrive`, `DisconnectsHappen`), which is
beyond the prover.  What the runs `mempool` and `chain_best` check without a hypothesis is
proved under `[]SpentsMatch` and `NoBlockFails`, for the reasons given above.

## Not modelled

`PROJECT.json` lists every part with its reason.  In short: scripts, encodings,
signatures and hashes (pure functions of bytes), bloom filters, RocksDB (its promise of
atomic batches is assumed), sockets and codecs, logging, the code that is not compiled.
Of parts that are modelled: relay of transactions and addresses by the newer manager,
the choice of addresses, what is served to peers (but for the locks of the threaded
manager), the assembly of a coinbase and the search for a nonce.  Of the header checks, the
one on obsolete versions is not there: it bars headers by a version miners set at will, and
no property tells such a header from one that was never sent.  The two blocks that BIP30
exempts are left out, and so are the heights at which duplicates are not looked for because
coinbases contain their height (`chain.rs:620`).

## Plan

What is left, in this order:

1. Transaction relay of the newer manager: `requested_transactions`, `verifying` and the
   pool's answer through the add thread, composed with `MemPool`.
2. Proofs: which transactions never make `InputsLeft` true, as those of the instance.
3. `height_to_hash_range`, `get_block_subsidy`, bloom filters and the selection of pool
   transactions by short id, as operators with reference definitions.
