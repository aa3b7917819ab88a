-------------------------------- MODULE Chain --------------------------------
(***************************************************************************)
(* Chain and ChainDB (src/src/blockchain/chain.rs, chain_db.rs): the header *)
(* index, the blocks on disk, the main chain and its coins, and the code   *)
(* that moves the tip to the branch with the most work.                    *)
(*                                                                         *)
(* Every call runs under the write lock of the chain, so calls do not      *)
(* interleave.  A call is nevertheless several steps here, one for each    *)
(* durable write it makes, because the process may stop between two of     *)
(* them: pc says which write comes next.                                   *)
(***************************************************************************)
EXTENDS BlockTree

CONSTANT MaxCrashes   \* bound: how often the process may stop in a behaviour

VARIABLES
    \* on disk
    headers,      \* blocks with an entry (COL_ENTRY; ChainEntryCache.hash)
    tips,         \* headers no other header builds on (COL_CHAIN_WORK)
    hash,         \* main chain, height -> block (COL_HASH; ChainEntryCache.height)
    nextHash,     \* main chain, block -> its successor (Key::NextHash)
    dbTip,        \* ChainState.tip
    coins,        \* COL_COIN
    downloaded,   \* blocks in the block store (ChainDB.downloaded)
    undoRecord,   \* blocks with an undo record in the block store
    undo,         \* the coins in that record
    \* in memory
    tip,          \* Chain.tip
    mostWork,     \* ChainDB.most_work
    invalid,      \* ChainDB.invalid
    deployed,     \* block whose verification set Chain.state, the deployments
    pending,      \* ChainDB.pending is Some outside of a call
    \* the call in progress
    pc,           \* which durable write comes next; "down": its thread panicked
    entry,        \* the entry the call is about
    queue,        \* the entries connect_best still has to connect
    crashes       \* how often the process has stopped

headerVars == <<headers, tips, mostWork>>
mainVars   == <<hash, nextHash, dbTip, coins, tip, deployed>>
storeVars  == <<downloaded, undoRecord, undo>>
callVars   == <<pc, entry, queue>>

vars == <<headerVars, mainVars, storeVars, invalid, pending, callVars, crashes>>

PCs == {"idle", "add_block", "connect_best", "reorg", "down"}

TypeOK ==
    /\ headers \subseteq Block
    /\ tips \subseteq Block
    /\ hash \in [Heights -> Block \cup {NoBlock}]
    /\ nextHash \in [Block -> Block \cup {NoBlock}]
    /\ dbTip \in Block
    /\ coins \in CoinMaps
    /\ downloaded \subseteq Block
    /\ undoRecord \subseteq Block
    /\ undo \in [Block -> CoinMaps]
    /\ tip \in Block
    /\ mostWork \in Block
    /\ invalid \subseteq Block
    /\ deployed \in Block
    /\ pending \in BOOLEAN
    /\ pc \in PCs
    /\ entry \in Block \cup {NoBlock}
    /\ queue \subseteq Block
    /\ crashes \in 0 .. MaxCrashes

ASSUME CrashAssumption == MaxCrashes \in Nat

------------------------------------------------------------------------------
(* Queries.                                                                *)

\* ChainDB::is_main_chain.
IsMain(b) == hash[Height[b]] = b

Main == {b \in headers : IsMain(b)}

\* Chain::is_block_ready.
Ready == downloaded \ invalid

\* The entries with the greatest chainwork of a set.  The code breaks a tie by
\* the hash (update_most_work) or by the order of the index (most_work at start,
\* get_next_best); here any of them may win.
MaxWork(S) == {b \in S : \A c \in S : ChainWork[c] <= ChainWork[b]}

\* A run of entries that hangs off the main chain: its root's parent is on the
\* main chain, every other entry's parent is in the run, and there is one entry
\* for each height from the root up.
IsBranch(Q) ==
    \E root \in Q :
        /\ Prev[root] \in Main
        /\ Q \cap Main = {}
        /\ \A b \in Q \ {root} : Prev[b] \in Q
        /\ \A b, c \in Q : Height[b] = Height[c] => b = c
        /\ \E top \in Heights : {Height[b] : b \in Q} = Height[root] .. top

\* A queue that ends in b: nothing waiting above it is connected.
BranchesUpTo(b) ==
    {Q \in SUBSET (Ready \ Main) : IsBranch(Q) /\ b \in MaxWork(Q)}

\* The queues connect_best may build for b: b, the ancestors it needs down to
\* the main chain, and ready descendants.
BranchesThrough(b) ==
    {Q \in SUBSET (Ready \ Main) : b \in Q /\ IsBranch(Q)}

\* ... of which get_next_best picks one that leads to the most work.
BestBranches(b) ==
    LET through == BranchesThrough(b) IN
    {Q \in through : \A R \in through : \A x \in R : \E y \in Q : ChainWork[x] <= ChainWork[y]}

MoreOrEqualWork(Q) == \E b \in Q : ChainWork[b] >= ChainWork[tip]

\* connect_best reorganises only to a branch that ends with more work than the tip.
MoreWork(Q) == \E b \in Q : ChainWork[b] > ChainWork[tip]

\* A block passes whatever has become of its inputs.
VerifyContextBodyOnly(b) == VerifyBody(b) /\ b \notin BadInputs

\* A block passes although a coinbase it spends is not mature.
VerifyContextNoMaturity(b) ==
    VerifyContextBodyOnly(b) /\ NoDuplicates(b, coins) /\ InputsUnspent(b, coins)

\* Chain::verify_context, against the coins of the tip.
VerifyContext(b) == Acceptable(b, coins)

\* Undo coins are written only when there are some.
NeedsUndo(b) == Spends[b] # {}

------------------------------------------------------------------------------
(* The writes of each call.                                                *)

TipsKeepParent(b) == tips \cup {b}

\* save_entry: the parent stops being a header tip.
TipsWith(b) == (tips \ {Prev[b]}) \cup {b}

\* ChainDB::save_entry, one batch, and update_most_work after it.
SaveEntry(b) ==
    /\ headers' = headers \cup {b}
    /\ tips' = TipsWith(b)
    /\ mostWork' \in MaxWork({mostWork, b})

\* Chain::has_invalid is false.
NotOnInvalid(b) == b \notin invalid /\ Prev[b] \notin invalid

\* add_header succeeds: the header is new, its parent is known.
NewHeader(b) ==
    /\ b \notin headers
    /\ Prev[b] \in headers
    /\ NotOnInvalid(b)

\* disconnect removes Key::Hash(height) and the height from the cache.
HashWithout(b) == [hash EXCEPT ![Height[b]] = NoBlock]

NextKept(b) == nextHash

\* disconnect removes Key::NextHash of the parent.
NextWithout(b) == [nextHash EXCEPT ![Prev[b]] = NoBlock]

QueueKept(b) == queue

\* connect_best is done with b.
QueueWithout(b) == queue \ {b}

DeployedKept(b) == deployed

\* set_deployment_state with the state b was verified under.
DeployedBy(b) == b

Idle == pc = "idle"

\* A handler of a headers message, between two calls.  It takes the write lock
\* too, and save_entry's start() asserts that no batch is pending.
AddHeader(b) ==
    /\ pc \in {"idle", "down"}
    /\ ~pending
    /\ NewHeader(b)
    /\ SaveEntry(b)
    /\ UNCHANGED <<mainVars, storeVars, invalid, pending, callVars, crashes>>

\* add_header's assert(!has_invalid) fails, which ends the calling task; by then
\* has_invalid has added the header to the invalid set.
AddHeaderOnInvalid(b) ==
    /\ pc \in {"idle", "down"}
    /\ b \notin headers
    /\ b \notin invalid
    /\ Prev[b] \in invalid
    /\ invalid' = invalid \cup {b}
    /\ UNCHANGED <<headerVars, mainVars, storeVars, pending, callVars, crashes>>

\* Chain::add of a block that is not downloaded, up to its first durable write:
\* the entry is looked up, or add_header saves it.
Add(b) ==
    /\ Idle
    /\ b \notin downloaded
    /\ \/ /\ b \in headers
          /\ UNCHANGED headerVars
       \/ /\ NewHeader(b)
          /\ SaveEntry(b)
    /\ pc' = "add_block"
    /\ entry' = b
    /\ UNCHANGED <<mainVars, storeVars, invalid, pending, queue, crashes>>

EndCall ==
    /\ pc' = "idle"
    /\ entry' = NoBlock
    /\ queue' = {}

\* Chain::add_block: verify, then write the block or mark it invalid.
AddBlock ==
    /\ pc = "add_block"
    /\ \/ /\ ~VerifyBody(entry)
          /\ invalid' = invalid \cup {entry}
          /\ EndCall
          /\ UNCHANGED storeVars
       \/ /\ VerifyBody(entry)
          /\ downloaded' = downloaded \cup {entry}
          /\ pc' = "connect_best"
          /\ UNCHANGED <<undoRecord, undo, invalid, entry, queue>>
    /\ UNCHANGED <<headerVars, mainVars, pending, crashes>>

\* Chain::attach: nothing to do for a main-chain block, connect_best otherwise.
Attach(b) ==
    /\ Idle
    /\ b \in headers
    /\ ~IsMain(b)
    /\ pc' = "connect_best"
    /\ entry' = b
    /\ UNCHANGED <<headerVars, mainVars, storeVars, invalid, pending, queue, crashes>>

\* Chain::connect_best up to its first write: the queue is the best branch that
\* goes through the entry, if it has more work than the current chain.
ConnectBest ==
    /\ pc = "connect_best"
    /\ \/ /\ \A Q \in BestBranches(entry) : ~MoreWork(Q)
          /\ EndCall
       \/ \E Q \in BestBranches(entry) :
             /\ MoreWork(Q)
             /\ queue' = Q
             /\ pc' = "reorg"
             /\ UNCHANGED entry
    /\ UNCHANGED <<headerVars, mainVars, storeVars, invalid, pending, crashes>>

\* Chain::disconnect of the tip: one batch removes it from the main chain and
\* brings its coins back from the undo record.  Chain.state is left as it was.
Disconnect ==
    /\ pc = "reorg"
    /\ \A b \in queue : Prev[b] # tip
    /\ tip \in undoRecord
    /\ hash' = HashWithout(tip)
    /\ nextHash' = NextWithout(tip)
    /\ coins' = DisconnectCoins(tip, coins, undo[tip])
    /\ dbTip' = Prev[tip]
    /\ tip' = Prev[tip]
    /\ UNCHANGED <<headerVars, storeVars, deployed, invalid, pending, callVars, crashes>>

\* get_undo_coins unwraps a record that was never written: the thread panics
\* with the batch started, so no later batch can start.
DisconnectPanics ==
    /\ pc = "reorg"
    /\ \A b \in queue : Prev[b] # tip
    /\ tip \notin undoRecord
    /\ pc' = "down"
    /\ pending' = TRUE
    /\ queue' = {}
    /\ entry' = NoBlock
    /\ UNCHANGED <<headerVars, mainVars, storeVars, invalid, crashes>>

\* Chain::connect fails: the block is marked invalid and connect_best returns,
\* with the blocks it had disconnected left disconnected.
ConnectFails(b) ==
    /\ pc = "reorg"
    /\ b \in queue
    /\ Prev[b] = tip
    /\ ~VerifyContext(b)
    /\ invalid' = invalid \cup {b}
    /\ EndCall
    /\ UNCHANGED <<headerVars, mainVars, storeVars, pending, crashes>>

\* ChainDB::connect_block writes the undo coins, before the batch is committed
\* and only if the store has no record for the block yet.
WriteUndo(b) ==
    /\ pc = "reorg"
    /\ b \in queue
    /\ Prev[b] = tip
    /\ VerifyContext(b)
    /\ NeedsUndo(b)
    /\ b \notin undoRecord
    /\ undoRecord' = undoRecord \cup {b}
    /\ undo' = [undo EXCEPT ![b] = UndoOf(b, coins)]
    /\ UNCHANGED <<headerVars, mainVars, downloaded, invalid, pending, callVars, crashes>>

\* ChainDB::connect commits its batch and Chain::connect moves the tip.
Connect(b) ==
    /\ pc = "reorg"
    /\ b \in queue
    /\ Prev[b] = tip
    /\ VerifyContext(b)
    /\ NeedsUndo(b) => b \in undoRecord
    /\ hash' = [hash EXCEPT ![Height[b]] = b]
    /\ nextHash' = [nextHash EXCEPT ![Prev[b]] = b]
    /\ coins' = ConnectCoins(b, coins)
    /\ dbTip' = b
    /\ tip' = b
    /\ deployed' = DeployedBy(b)
    /\ IF QueueWithout(b) = {} THEN EndCall
       ELSE queue' = QueueWithout(b) /\ UNCHANGED <<pc, entry>>
    /\ UNCHANGED <<headerVars, storeVars, invalid, pending, crashes>>

TipOnRestart == dbTip

\* The process stops, wherever it is, and Chain::new opens what is on disk.
Restart ==
    /\ crashes < MaxCrashes
    /\ crashes' = crashes + 1
    /\ tip' = TipOnRestart
    /\ deployed' = TipOnRestart
    /\ mostWork' \in MaxWork(tips)
    /\ invalid' = {}
    /\ pending' = FALSE
    /\ EndCall
    /\ UNCHANGED <<headers, tips, hash, nextHash, dbTip, coins, storeVars>>

------------------------------------------------------------------------------
(* The specification.                                                      *)

\* ChainDB::open of an empty directory: save_genesis has run.
Init ==
    /\ headers = {Genesis}
    /\ tips = {Genesis}
    /\ hash = [h \in Heights |-> IF h = 0 THEN Genesis ELSE NoBlock]
    /\ nextHash = [b \in Block |-> NoBlock]
    /\ dbTip = Genesis
    /\ coins = NoCoins
    /\ downloaded = {Genesis}
    /\ undoRecord = {}
    /\ undo = [b \in Block |-> NoCoins]
    /\ tip = Genesis
    /\ mostWork = Genesis
    /\ invalid = {}
    /\ deployed = Genesis
    /\ pending = FALSE
    /\ pc = "idle"
    /\ entry = NoBlock
    /\ queue = {}
    /\ crashes = 0

\* What the peers and the miner make the node do between two calls.
Calls ==
    \E b \in Block : AddHeader(b) \/ AddHeaderOnInvalid(b) \/ Add(b) \/ Attach(b)

\* The steps of the call in progress.
Steps ==
    \/ AddBlock
    \/ ConnectBest
    \/ Disconnect
    \/ DisconnectPanics
    \/ \E b \in Block : ConnectFails(b) \/ WriteUndo(b) \/ Connect(b)

Next == Calls \/ Steps \/ Restart

\* A call that has started is executed by a thread that holds the write lock;
\* nothing it waits for can be taken from it.
Fairness == WF_vars(Steps)

Spec == Init /\ [][Next]_vars /\ Fairness

------------------------------------------------------------------------------
(* Properties.                                                             *)

\* The height index is one unbroken chain of entries from genesis to the tip,
\* with nothing above the tip, at every moment of a reorganisation and after a
\* crash in the middle of one.
MainChainLinked ==
    /\ tip = dbTip
    /\ hash[0] = Genesis
    /\ hash[Height[tip]] = tip
    /\ \A h \in Heights : h > Height[tip] => hash[h] = NoBlock
    /\ \A h \in 1 .. Height[tip] :
          /\ hash[h] \in headers \ {Genesis}
          /\ Height[hash[h]] = h
          /\ Prev[hash[h]] = hash[h - 1]

\* Key::NextHash leads from each main-chain block to its main-chain successor
\* and from no other block anywhere: no stale link survives a reorganisation.
NextFollowsMain ==
    \A b \in Block :
        nextHash[b] = IF b \in Main /\ b # tip THEN hash[Height[b] + 1] ELSE NoBlock

\* Both indexes of the main chain, by height and by predecessor, are right after every
\* step of a reorganisation and every crash.
MainChainIndexed == MainChainLinked /\ NextFollowsMain

\* Whatever blocks were connected and disconnected, in whatever order and with
\* whatever crashes, the coin database holds the coins, with their creation
\* heights, that replaying the chain up to the tip produces.
CoinsAreReplay == coins = Utxo[tip]

\* Only blocks that are on disk, not known to be invalid and acceptable on top
\* of the coins of their own parent get into the main chain.
MainChainVerified ==
    \A b \in Main \ {Genesis} :
        /\ b \in downloaded
        /\ b \notin invalid
        /\ Acceptable(b, Utxo[Prev[b]])

\* The index of header tips is exactly the leaves of the header tree and the
\* header the node syncs towards is one of the heaviest it knows.
HeaderTipsAreLeaves ==
    /\ tips = {b \in headers : \A c \in headers \ {Genesis} : Prev[c] # b}
    /\ mostWork \in MaxWork(headers)

\* A block is only ever disconnected in favour of a branch with more work than
\* the chain that is being left.
DisconnectOnlyForMoreWork ==
    [][dbTip' # dbTip /\ dbTip' = Prev[dbTip] =>
          \E b \in queue : ChainWork[b] > ChainWork[dbTip]]_vars

\* Chain implements Ledger: seen from its durable state the node makes only the
\* steps of the ledger, one verified block forwards or backwards at a time.
L == INSTANCE Ledger WITH active <- dbTip, ledger <- coins
ImplementsLedger == L!LedgerSpec

\* A call ends, however much it has to disconnect and connect.
CallsEnd == pc \notin {"idle", "down"} ~> pc \in {"idle", "down"}

\* The blocks the node could connect: those with all ancestors ready.
Connectable ==
    {b \in Ready : \E S \in SUBSET Ready :
        b \in S /\ \A c \in S : Prev[c] \in S \cup Main}

\* No block that passes the checks of its body fails on top of its parent.  Where one
\* does, connect_best ends with blocks disconnected, and neither of the next two holds.
NoBlockFails ==
    \A b \in Block \ {Genesis} : VerifyBody(b) => Acceptable(b, Utxo[Prev[b]])

\* Between two calls no branch that is completely on disk has more work than
\* the active chain, in whatever order its blocks arrived ("Verify that this new
\* set of entries has greater work than the current chain", chain.rs:366), as long as
\* the process has not stopped between the block store and the reorganisation.
TipHasMostWork ==
    crashes = 0 /\ Idle => \A b \in Connectable : ChainWork[b] <= ChainWork[tip]

\* Between two calls the deployment state the mempool verifies with is the one
\* the tip was verified under, not that of a block that was disconnected.
DeploymentsOfTip == Idle => deployed = tip

\* Giving up the active chain for a branch with more work succeeds: blocks are
\* disconnected and connected, and the thread survives (tests/chain.rs:277,
\* "disconnect block 1, connect block 2 and 3").
ReorganisationSurvives == pc # "down"
==============================================================================
