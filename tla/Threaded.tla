------------------------------ MODULE Threaded ------------------------------
(***************************************************************************)
(* The threaded peer manager (src/net/peer_manager.rs, peer.rs), which     *)
(* full_node.rs starts: a reader and a writer thread for each peer and one *)
(* thread of maintain_peers.  They share the chain, the manager's State    *)
(* and the State of each peer, every one behind a reader-writer lock.      *)
(*                                                                         *)
(* A step runs from one lock that may have to be waited for to the next:   *)
(* Held gives the locks a thread has at each point and Wants the one it    *)
(* waits for.  A lock that is taken and released with none waited for in   *)
(* between needs no point of its own; nor does the lock of the reader's    *)
(* own peer behind that of the state or of the chain, as nobody else holds *)
(* it for longer than a step.  The lock of the mempool is the last one its *)
(* holders take.  get_next_blocks takes the lock of a peer twice in a row, *)
(* in one step here.  A thread that panics releases its locks and is gone. *)
(*                                                                         *)
(* Blocks are the heights of one branch.  What a peer sends, whether a     *)
(* block is valid and how much of a compact block the pool fills is open.  *)
(* The node has the filter index.                                          *)
(***************************************************************************)
EXTENDS Naturals, FiniteSets, FiniteSetsExt

CONSTANTS
    Peer,           \* connections, each used once
    Maintainer,     \* the thread of maintain_peers
    Tx,             \* transactions
    Height,         \* the last block there is
    Window,         \* blocks looked at in one go (16 in the code)
    HeadersFull,    \* headers in a full message (2000 in the code)
    CompactLimit,   \* compact blocks a peer may leave incomplete (15 in the code)
    PeerLimit,      \* peers wanted (8 in the code)
    RecentFrom,     \* the first block that is younger than max_tip_age
    MaxFailures     \* bound on the connections that fail

ASSUME ThreadedAssumption ==
    /\ Maintainer \notin Peer
    /\ Height \in Nat /\ Window \in Nat \ {0} /\ HeadersFull \in Nat \ {0}
    /\ CompactLimit \in Nat /\ PeerLimit \in Nat
    /\ RecentFrom \in Nat /\ MaxFailures \in Nat

VARIABLES
    at,             \* where each thread is
    arg,            \* the block its handler is about
    todo,           \* the peers its loop has still to visit
    removed,        \* maintain_peers has removed a peer in this round
    writer,         \* the writer thread of each peer
    peers, headerSync, txMap, blockMap, verifying, compactBlocks,   \* State
    ack, disconnect, peerTxs, peerBlocks, peerCompact,              \* State of a peer
    headers, disk, invalid                                          \* the chain

threads == <<at, arg, todo, removed>>
books == <<peers, headerSync, txMap, blockMap, verifying, compactBlocks>>
peerBooks == <<ack, disconnect, peerTxs, peerBlocks, peerCompact>>
chain == <<headers, disk, invalid>>
vars == <<threads, writer, books, peerBooks, chain>>

Thread == Peer \cup {Maintainer}
Block == 1 .. Height

Labels == {"none", "idle", "inv", "block", "add", "index", "unverify", "next", "nextState",
           "nextPeers", "headers", "headersWait", "compact", "compactChain", "verack",
           "verackChain", "verackWait", "compactData", "filteredData", "filterData",
           "retain", "connect", "end", "ended", "panicked", "asserted"}

TypeOK ==
    /\ at \in [Thread -> Labels]
    /\ arg \in [Thread -> 0 .. Height]
    /\ todo \in [Thread -> SUBSET Peer]
    /\ removed \in BOOLEAN
    /\ writer \in [Peer -> {"runs", "failed", "ended"}]
    /\ peers \subseteq Peer
    /\ headerSync \in BOOLEAN
    /\ txMap \subseteq Tx
    /\ blockMap \subseteq Block /\ verifying \subseteq Block /\ compactBlocks \subseteq Block
    /\ ack \subseteq Peer /\ disconnect \subseteq Peer
    /\ peerTxs \in [Peer -> SUBSET Tx]
    /\ peerBlocks \in [Peer -> SUBSET Block]
    /\ peerCompact \in [Peer -> SUBSET Block]
    /\ headers \in 0 .. Height
    /\ disk \subseteq 1 .. headers
    /\ invalid \subseteq 1 .. headers

------------------------------------------------------------------------------
(* The locks.                                                              *)

\* Broken variant: the state stays locked while the chain adds the block.
StateHeld == {"state"}

\* handle_block lets go of both books before the chain adds the block.
HeldByAdd == {}

\* "own" is the lock of the reader's peer and "filters" that of the filter index.
Held(t) ==
    CASE at[t] = "inv"                              -> {"own"}
      [] at[t] = "compact"                          -> {"own"}
      [] at[t] = "compactChain"                     -> {"own", "state"}
      [] at[t] = "headersWait"                      -> {"own", "chain"}
      [] at[t] = "add"                              -> HeldByAdd
      [] at[t] = "index"                            -> {"chain"}
      [] at[t] = "nextState"                        -> {"reading"}
      [] at[t] = "nextPeers"                        -> {"reading", "state"}
      [] at[t] = "verackChain"                      -> {"state"}
      [] at[t] = "verackWait"                       -> {"state", "reading"}
      [] at[t] = "compactData"                      -> {"reading"}
      [] at[t] = "filteredData"                     -> {"own"}
      [] at[t] = "filterData"                       -> {"filters"}
      [] at[t] = "retain"                           -> {"state"}
      [] OTHER                                      -> {}

WantsState == {"inv", "block", "unverify", "nextState", "compact", "verack", "connect"}
WantsPeers == {"nextPeers", "retain"}
WantsChain == {"add", "headers", "compactChain"}
WantsToRead == {"next", "verackChain", "compactData", "filteredData", "filterData"}
WantsWriter == {"headersWait", "verackWait"}

StateFree(t) == \A u \in Thread \ {t} : "state" \notin Held(u)
PeerFree(p) == "own" \notin Held(p)
ChainReadable == \A u \in Thread : "chain" \notin Held(u)
ChainFree == \A u \in Thread : Held(u) \cap {"chain", "reading"} = {}
FiltersFree == \A u \in Thread : "filters" \notin Held(u)

------------------------------------------------------------------------------
(* Threads.                                                                *)

\* A handler that is done with its block forgets it.
AboutBlock == {"block", "add", "index", "unverify", "compact", "compactChain"}

GotoWith(t, label, b) ==
    /\ at' = [at EXCEPT ![t] = label]
    /\ arg' = [arg EXCEPT ![t] = IF label \in AboutBlock THEN b ELSE 0]

Goto(t, label) == GotoWith(t, label, arg[t])

\* The reader looks at the flag after each message.
DoneLabel(p) == IF p \in disconnect THEN "end" ELSE "idle"

Done(p) == Goto(p, DoneLabel(p))

\* Peer::send fails once the receiving end is gone with the writer.
CanSend(p) == writer[p] # "ended"

\* After a message that is the handler's last act.
SentLabel(p) == IF CanSend(p) THEN DoneLabel(p) ELSE "end"

Init ==
    /\ at = [t \in Thread |-> IF t = Maintainer THEN "connect" ELSE "none"]
    /\ arg = [t \in Thread |-> 0]
    /\ todo = [t \in Thread |-> {}]
    /\ removed = FALSE
    /\ writer = [p \in Peer |-> "runs"]
    /\ peers = {} /\ headerSync = FALSE /\ txMap = {}
    /\ blockMap = {} /\ verifying = {} /\ compactBlocks = {}
    /\ ack = {} /\ disconnect = {}
    /\ peerTxs = [p \in Peer |-> {}]
    /\ peerBlocks = [p \in Peer |-> {}]
    /\ peerCompact = [p \in Peer |-> {}]
    /\ headers = 0 /\ disk = {} /\ invalid = {}

------------------------------------------------------------------------------
(* Connections.                                                            *)

\* maintain_peers connects while there are too few peers; connect_timeout may fail.  The
\* map is by address: a peer that is connected already may be replaced by the new one.
\* Its threads go on, and maintain_peers does not see it again.
Connect(p) ==
    /\ at[Maintainer] = "connect"
    /\ StateFree(Maintainer)
    /\ Cardinality(peers) < PeerLimit
    /\ at[p] = "none"
    /\ \E replaced \in SUBSET peers :
        /\ Cardinality(replaced) <= 1
        /\ peers' = (peers \ replaced) \cup {p}
    /\ Goto(p, "idle")
    /\ UNCHANGED <<todo, removed, writer, headerSync, txMap, blockMap, verifying,
                   compactBlocks, peerBooks, chain>>

\* The thread sleeps, and starts a round: it locks the state and looks at every peer.
StartRound ==
    /\ at[Maintainer] = "connect"
    /\ StateFree(Maintainer)
    /\ Goto(Maintainer, "retain")
    /\ todo' = [todo EXCEPT ![Maintainer] = peers]
    /\ UNCHANGED <<removed, writer, books, peerBooks, chain>>

\* Broken variant: the peer and its book go, but the state does not get the blocks back.
KeepsItsBlocks(p) ==
    /\ peers' = peers \ {p}
    /\ peerBlocks' = [peerBlocks EXCEPT ![p] = {}]
    /\ UNCHANGED blockMap

\* A peer that is removed hands its blocks back.  The manager keeps what it has of it in
\* the books of transactions and compact blocks, and as the peer of the header sync.
Remove(p) ==
    /\ peers' = peers \ {p}
    /\ blockMap' = blockMap \ peerBlocks[p]
    /\ peerBlocks' = [peerBlocks EXCEPT ![p] = {}]

Retain(p) ==
    /\ at[Maintainer] = "retain"
    /\ p \in todo[Maintainer]
    /\ PeerFree(p)
    /\ todo' = [todo EXCEPT ![Maintainer] = @ \ {p}]
    /\ IF p \in disconnect
       THEN Remove(p) /\ removed' = TRUE
       ELSE UNCHANGED <<peers, blockMap, peerBlocks, removed>>
    /\ UNCHANGED <<at, arg, writer, headerSync, txMap, verifying, compactBlocks, ack,
                   disconnect, peerTxs, peerCompact, chain>>

EndRound ==
    /\ at[Maintainer] = "retain"
    /\ todo[Maintainer] = {}
    /\ Goto(Maintainer, IF removed THEN "next" ELSE "connect")
    /\ removed' = FALSE
    /\ UNCHANGED <<todo, writer, books, peerBooks, chain>>

\* Bound: connections that fail, other than by what the reader makes of a message.
MayFail(p) ==
    Cardinality({q \in Peer \ {p} : writer[q] # "runs" \/ at[q] \in {"end", "ended"}})
        < MaxFailures

\* A write fails: the writer wants the lock of its peer before it ends.
WriterFails(p) ==
    /\ at[p] # "none"
    /\ writer[p] = "runs"
    /\ MayFail(p)
    /\ writer' = [writer EXCEPT ![p] = "failed"]
    /\ UNCHANGED <<threads, books, peerBooks, chain>>

WriterEnds(p) ==
    /\ writer[p] = "failed"
    /\ PeerFree(p)
    /\ writer' = [writer EXCEPT ![p] = "ended"]
    /\ disconnect' = disconnect \cup {p}
    /\ UNCHANGED <<threads, books, ack, peerTxs, peerBlocks, peerCompact, chain>>

\* The connection is closed or the message is refused: it is no message of the
\* handshake and there was none, or one that the handler bails on before any effect.
\* handle_not_found has a todo! for a transaction by wtxid that was not asked for.
ReaderFails(p) ==
    /\ at[p] = "idle"
    /\ MayFail(p)
    /\ \E label \in {"end", "panicked"} : Goto(p, label)
    /\ UNCHANGED <<todo, removed, writer, books, peerBooks, chain>>

ReaderEnds(p) ==
    /\ at[p] = "end"
    /\ Goto(p, "ended")
    /\ disconnect' = disconnect \cup {p}
    /\ UNCHANGED <<todo, removed, writer, books, ack, peerTxs, peerBlocks, peerCompact,
                   chain>>

------------------------------------------------------------------------------
(* The chain: valid blocks are connected as far as there is no gap.        *)

Tip == Max({n \in 0 .. headers : 1 .. n \subseteq disk \ invalid})

\* Chain::synced and is_recent ask the clock, which stands still here.
Synced == Tip >= RecentFrom

IsRecent == headers >= RecentFrom

------------------------------------------------------------------------------
(* Handshake and transactions.                                             *)

\* Peer::handle_verack, and PeerManager::handle_verack as far as the state: for each verack,
\* as only the flag ignores a second one.
Verack(p) ==
    /\ at[p] = "idle"
    /\ ack' = ack \cup {p}
    /\ Goto(p, IF CanSend(p) THEN "verack" ELSE "end")
    /\ UNCHANGED <<todo, removed, writer, books, disconnect, peerTxs, peerBlocks,
                   peerCompact, chain>>

VerackState(p) ==
    /\ at[p] = "verack"
    /\ StateFree(p)
    /\ Goto(p, "verackChain")
    /\ UNCHANGED <<todo, removed, writer, books, peerBooks, chain>>

\* Without a peer for the header sync this is the one; the others are asked once the
\* chain is synced.
VerackChain(p) ==
    /\ at[p] = "verackChain"
    /\ ChainReadable
    /\ headerSync' = TRUE
    /\ IF ~headerSync \/ Synced
       THEN Goto(p, IF CanSend(p) THEN "verackWait" ELSE "end")
       ELSE Done(p)
    /\ UNCHANGED <<todo, removed, writer, peers, txMap, blockMap, verifying,
                   compactBlocks, peerBooks, chain>>

\* send_and_wait returns when the writer has sent the message, or has ended.  A writer that
\* fails on this message lets go of it at once, one that has failed before when it ends.
Waited(p, label) ==
    /\ \/ /\ writer[p] # "failed"
          /\ Goto(p, IF writer[p] = "runs" THEN label ELSE "end")
          /\ UNCHANGED writer
       \/ /\ writer[p] = "runs" /\ MayFail(p)
          /\ writer' = [writer EXCEPT ![p] = "failed"]
          /\ Goto(p, "end")
    /\ UNCHANGED <<todo, removed, books, peerBooks, chain>>

VerackWait(p) == at[p] = "verackWait" /\ Waited(p, DoneLabel(p))

\* handle_inv, which does nothing until the chain is synced.
Inv(p) ==
    /\ at[p] = "idle" /\ p \in ack
    /\ ChainReadable /\ Synced
    /\ Goto(p, "inv")
    /\ UNCHANGED <<todo, removed, writer, books, peerBooks, chain>>

\* A transaction that was requested once is not requested again.
NewTxs(txs) == txs \ txMap

InvState(p) ==
    /\ at[p] = "inv"
    /\ StateFree(p)
    /\ \E txs \in SUBSET Tx :
        /\ txMap' = txMap \cup NewTxs(txs)
        /\ peerTxs' = [peerTxs EXCEPT ![p] = @ \cup NewTxs(txs)]
        /\ Goto(p, IF NewTxs(txs) = {} THEN DoneLabel(p) ELSE SentLabel(p))
    /\ UNCHANGED <<todo, removed, writer, peers, headerSync, blockMap, verifying,
                   compactBlocks, ack, disconnect, peerBlocks, peerCompact, chain>>

\* handle_tx: the transaction stays in the book of the state.
HandleTx(p, tx) ==
    /\ at[p] = "idle" /\ p \in ack
    /\ tx \in peerTxs[p]
    /\ ChainReadable
    /\ peerTxs' = [peerTxs EXCEPT ![p] = @ \ {tx}]
    /\ Done(p)
    /\ UNCHANGED <<todo, removed, writer, books, ack, disconnect, peerBlocks,
                   peerCompact, chain>>

\* handle_not_found, resolve_tx and resolve_block: both books forget the item.
NotFoundTx(p, tx) ==
    /\ at[p] = "idle" /\ p \in ack
    /\ StateFree(p)
    /\ tx \in peerTxs[p]
    /\ peerTxs' = [peerTxs EXCEPT ![p] = @ \ {tx}]
    /\ txMap' = txMap \ {tx}
    /\ Goto(p, IF tx \in txMap THEN DoneLabel(p) ELSE "panicked")
    /\ UNCHANGED <<todo, removed, writer, peers, headerSync, blockMap, verifying,
                   compactBlocks, ack, disconnect, peerBlocks, peerCompact, chain>>

\* Both books let go of the block; the assertion that the state had it ends the thread.
Release(p, b, label) ==
    /\ peerBlocks' = [peerBlocks EXCEPT ![p] = @ \ {b}]
    /\ blockMap' = blockMap \ {b}
    /\ Goto(p, IF b \in blockMap THEN label ELSE "panicked")

NotFoundBlock(p, b) ==
    /\ at[p] = "idle" /\ p \in ack
    /\ StateFree(p)
    /\ b \in peerBlocks[p]
    /\ Release(p, b, DoneLabel(p))
    /\ UNCHANGED <<todo, removed, writer, peers, headerSync, txMap, verifying,
                   compactBlocks, ack, disconnect, peerTxs, peerCompact, chain>>

------------------------------------------------------------------------------
(* handle_block.                                                           *)

ReceiveBlock(p, b) ==
    /\ at[p] = "idle" /\ p \in ack
    /\ GotoWith(p, "block", b)
    /\ UNCHANGED <<todo, removed, writer, books, peerBooks, chain>>

\* A block that was not asked for ends the connection.
BookBlock(p) ==
    /\ at[p] = "block"
    /\ StateFree(p)
    /\ IF arg[p] \in peerBlocks[p]
       THEN /\ Release(p, arg[p], "add")
            /\ verifying' = IF arg[p] \in blockMap THEN verifying \cup {arg[p]} ELSE verifying
       ELSE /\ Goto(p, "end")
            /\ UNCHANGED <<blockMap, verifying, peerBlocks>>
    /\ UNCHANGED <<todo, removed, writer, peers, headerSync, txMap, compactBlocks, ack,
                   disconnect, peerTxs, peerCompact, chain>>

\* Chain::add refuses the block before it is saved or when it is connected, and unwrap
\* ends the thread: the block stays among those that are verified.  The listeners hear of
\* a block that is connected, with the chain still locked.
AddBlock(p) ==
    /\ at[p] = "add"
    /\ ChainFree
    /\ \/ /\ disk' = disk \cup {arg[p]} /\ UNCHANGED invalid
          /\ Goto(p, IF arg[p] = Tip + 1 THEN "index" ELSE "unverify")
       \/ disk' = disk \cup {arg[p]} /\ invalid' = invalid \cup {arg[p]} /\ Goto(p, "panicked")
       \/ invalid' = invalid \cup {arg[p]} /\ UNCHANGED disk /\ Goto(p, "panicked")
    /\ UNCHANGED <<todo, removed, writer, books, peerBooks, headers>>

\* FilterIndexer::handle_connect.
IndexBlock(p) ==
    /\ at[p] = "index"
    /\ FiltersFree
    /\ Goto(p, "unverify")
    /\ UNCHANGED <<todo, removed, writer, books, peerBooks, chain>>

Unverify(p) ==
    /\ at[p] = "unverify"
    /\ StateFree(p)
    /\ verifying' = verifying \ {arg[p]}
    /\ Goto(p, "next")
    /\ UNCHANGED <<todo, removed, writer, peers, headerSync, txMap, blockMap, compactBlocks,
                   peerBooks, chain>>

------------------------------------------------------------------------------
(* get_next_blocks, called by a reader or by maintain_peers.               *)

NextChain(t) ==
    /\ at[t] = "next"
    /\ ChainReadable
    /\ Goto(t, "nextState")
    /\ UNCHANGED <<todo, removed, writer, books, peerBooks, chain>>

NextState(t) ==
    /\ at[t] = "nextState"
    /\ StateFree(t)
    /\ Goto(t, "nextPeers")
    /\ todo' = [todo EXCEPT ![t] = peers]
    /\ UNCHANGED <<removed, writer, books, peerBooks, chain>>

\* Broken variants: a block that is being verified is asked for again, or one beyond the
\* best header is.
NotBooked == {b \in 1 .. headers : b > Tip} \ (disk \cup blockMap)

OneMore == {b \in 1 .. headers + 1 : b > Tip} \ (disk \cup blockMap \cup verifying)

Wanted == {b \in 1 .. headers : b > Tip} \ (disk \cup blockMap \cup verifying)

\* The blocks above the tip are looked at by windows, up to the first with one to ask for.
Batch ==
    LET from == Tip + Window * ((Min(Wanted) - Tip - 1) \div Window)
    IN  IF Wanted = {} THEN {} ELSE Wanted \cap (from + 1 .. from + Window)

\* An idle peer is asked, if the headers are recent.  A peer that cannot be sent to ends
\* the loop and the thread that runs it: a reader, or maintain_peers, which unwraps.
NextPeer(t, p) ==
    /\ at[t] = "nextPeers"
    /\ p \in todo[t]
    /\ PeerFree(p)
    /\ IF IsRecent /\ p \in ack /\ peerBlocks[p] = {}
       THEN /\ blockMap' = blockMap \cup Batch
            /\ peerBlocks' = [peerBlocks EXCEPT ![p] = Batch]
            /\ IF CanSend(p)
               THEN UNCHANGED <<at, arg>> /\ todo' = [todo EXCEPT ![t] = @ \ {p}]
               ELSE /\ Goto(t, IF t = Maintainer THEN "panicked" ELSE "end")
                    /\ todo' = [todo EXCEPT ![t] = {}]
       ELSE UNCHANGED <<at, arg, blockMap, peerBlocks>> /\ todo' = [todo EXCEPT ![t] = @ \ {p}]
    /\ UNCHANGED <<removed, writer, peers, headerSync, txMap, verifying, compactBlocks,
                   ack, disconnect, peerTxs, peerCompact, chain>>

NextEnds(t) ==
    /\ at[t] = "nextPeers"
    /\ todo[t] = {}
    /\ Goto(t, IF t = Maintainer THEN "connect" ELSE DoneLabel(t))
    /\ UNCHANGED <<todo, removed, writer, books, peerBooks, chain>>

------------------------------------------------------------------------------
(* handle_headers.                                                         *)

ReceiveHeaders(p) ==
    /\ at[p] = "idle" /\ p \in ack
    /\ Goto(p, "headers")
    /\ UNCHANGED <<todo, removed, writer, books, peerBooks, chain>>

\* The headers first .. last follow each other; one whose parent is missing ends the
\* thread, a bad one the connection, and the headers before it stay.
HandleHeaders(p) ==
    /\ at[p] = "headers"
    /\ ChainFree
    /\ \E first \in Block : \E last \in first .. Height : \E good \in first - 1 .. last :
        /\ last - first < HeadersFull
        /\ headers' = IF first > headers + 1 THEN headers ELSE Max({headers, good})
        /\ Goto(p, CASE first > headers + 1            -> "panicked"
                     [] good < last                    -> "end"
                     [] last - first + 1 < HeadersFull -> "next"
                     [] CanSend(p)                     -> "headersWait"
                     [] OTHER                          -> "end")
    /\ UNCHANGED <<todo, removed, writer, books, peerBooks, disk, invalid>>

HeadersWait(p) == at[p] = "headersWait" /\ Waited(p, "next")

------------------------------------------------------------------------------
(* handle_compact_block and handle_block_txn.                              *)

ReceiveCompact(p, b) ==
    /\ at[p] = "idle" /\ p \in ack
    /\ GotoWith(p, "compact", b)
    /\ UNCHANGED <<todo, removed, writer, books, peerBooks, chain>>

\* A compact block that somebody is waiting for is ignored.  One that the peer was not
\* asked for is booked, and the assertion that no other peer was asked ends the thread
\* with the peer's book written already.
BookCompact(p) ==
    /\ at[p] = "compact"
    /\ StateFree(p)
    /\ IF arg[p] \in peerCompact[p] \cup compactBlocks
       THEN Done(p) /\ UNCHANGED <<blockMap, peerBlocks>>
       ELSE /\ peerBlocks' = [peerBlocks EXCEPT ![p] = @ \cup {arg[p]}]
            /\ blockMap' = blockMap \cup {arg[p]}
            /\ Goto(p, IF arg[p] \in blockMap \ peerBlocks[p] THEN "asserted"
                       ELSE "compactChain")
    /\ UNCHANGED <<todo, removed, writer, peers, headerSync, txMap, verifying,
                   compactBlocks, ack, disconnect, peerTxs, peerCompact, chain>>

\* Chain::add_header asserts that the header is new and that its parent is known.
NewHeader(b) == b = headers + 1

\* CompactBlock::new fails on two equal short ids and panics on an index of a transaction
\* out of range; fill_mempool fills the block from the pool or leaves some of it missing,
\* and the missing transactions are asked for.
CompactHeader(p) ==
    /\ at[p] = "compactChain"
    /\ ChainFree
    /\ \/ /\ Goto(p, IF NewHeader(arg[p]) THEN "end" ELSE "panicked")    \* a bad header
          /\ UNCHANGED <<headers, compactBlocks, peerCompact>>
       \/ /\ NewHeader(arg[p])
          /\ headers' = arg[p]
          /\ \/ Goto(p, "end") /\ UNCHANGED <<compactBlocks, peerCompact>>
             \/ Goto(p, "panicked") /\ UNCHANGED <<compactBlocks, peerCompact>>
             \/ Goto(p, "block") /\ UNCHANGED <<compactBlocks, peerCompact>>
             \/ /\ Cardinality(peerCompact[p]) < CompactLimit
                /\ compactBlocks' = compactBlocks \cup {arg[p]}
                /\ peerCompact' = [peerCompact EXCEPT ![p] = @ \cup {arg[p]}]
                /\ Goto(p, SentLabel(p))
    /\ UNCHANGED <<todo, removed, writer, peers, headerSync, txMap, blockMap, verifying,
                   ack, disconnect, peerTxs, peerBlocks, disk, invalid>>

\* Transactions for a block that is waited for: the block is complete, or the
\* connection ends.
BlockTxn(p, b) ==
    /\ at[p] = "idle" /\ p \in ack
    /\ StateFree(p)
    /\ b \in peerCompact[p]
    /\ peerCompact' = [peerCompact EXCEPT ![p] = @ \ {b}]
    /\ compactBlocks' = compactBlocks \ {b}
    /\ IF b \in compactBlocks
       THEN \E filled \in BOOLEAN : GotoWith(p, IF filled THEN "block" ELSE "end", b)
       ELSE Goto(p, "panicked")
    /\ UNCHANGED <<todo, removed, writer, peers, headerSync, txMap, blockMap, verifying, ack,
                   disconnect, peerTxs, peerBlocks, chain>>

------------------------------------------------------------------------------
(* Serving data.  Only the chain, the mempool and the index are read.      *)

\* handle_get_headers, handle_mempool, handle_get_block_txn, and handle_get_data for
\* transactions and blocks: one lock at a time.  The items of a message are served like
\* messages of their own.
Serve(p) ==
    /\ at[p] = "idle" /\ p \in ack
    /\ Goto(p, SentLabel(p))
    /\ UNCHANGED <<todo, removed, writer, books, peerBooks, chain>>

\* handle_get_data for a compact block looks up its height and reads the chain a second
\* time with the first guard alive; for a filtered block it reads the chain with the lock
\* of the peer, for its bloom filter.
GetData(p) ==
    /\ at[p] = "idle" /\ p \in ack
    /\ \/ ChainReadable /\ Goto(p, "compactData")
       \/ Goto(p, "filteredData")
    /\ UNCHANGED <<todo, removed, writer, books, peerBooks, chain>>

SendData(p) ==
    /\ at[p] \in {"compactData", "filteredData"}
    /\ ChainReadable
    /\ Goto(p, SentLabel(p))
    /\ UNCHANGED <<todo, removed, writer, books, peerBooks, chain>>

\* handle_get_cfheaders and handle_get_cfilters read the chain with the lock of the filter
\* index, and panic on hashes and heights that do not fit the chain or the index.
GetFilters(p) ==
    /\ at[p] = "idle" /\ p \in ack
    /\ Goto(p, "filterData")
    /\ UNCHANGED <<todo, removed, writer, books, peerBooks, chain>>

SendFilters(p) ==
    /\ at[p] = "filterData"
    /\ ChainReadable
    /\ \E label \in {SentLabel(p), "panicked"} : Goto(p, label)
    /\ UNCHANGED <<todo, removed, writer, books, peerBooks, chain>>

------------------------------------------------------------------------------

Reader(p) ==
    \/ WriterFails(p) \/ WriterEnds(p) \/ ReaderFails(p) \/ ReaderEnds(p)
    \/ Verack(p) \/ VerackState(p) \/ VerackChain(p) \/ VerackWait(p)
    \/ Inv(p) \/ InvState(p)
    \/ \E tx \in Tx : HandleTx(p, tx) \/ NotFoundTx(p, tx)
    \/ \E b \in Block :
        ReceiveBlock(p, b) \/ NotFoundBlock(p, b) \/ ReceiveCompact(p, b) \/ BlockTxn(p, b)
    \/ BookBlock(p) \/ AddBlock(p) \/ IndexBlock(p) \/ Unverify(p)
    \/ ReceiveHeaders(p) \/ HandleHeaders(p) \/ HeadersWait(p)
    \/ BookCompact(p) \/ CompactHeader(p)
    \/ Serve(p) \/ GetData(p) \/ SendData(p) \/ GetFilters(p) \/ SendFilters(p)

GetNextBlocks(t) ==
    NextChain(t) \/ NextState(t) \/ (\E p \in Peer : NextPeer(t, p)) \/ NextEnds(t)

MaintainPeers ==
    StartRound \/ EndRound \/ (\E p \in Peer : Connect(p) \/ Retain(p))

Next ==
    \/ \E p \in Peer : Reader(p)
    \/ \E t \in Thread : GetNextBlocks(t)
    \/ MaintainPeers

Spec == Init /\ [][Next]_vars

------------------------------------------------------------------------------
(* Properties.                                                             *)

\* The assertion of handle_compact_block has ended a reader: the book of its peer has a
\* block more than it should, for ever.
AssertedTwice == \E p \in Peer : at[p] = "asserted"

\* chain.rs:201 asserts that a block is added once: until that assertion, every handler
\* that gets as far as the chain adds a block that is not saved and that no other thread
\* is adding, whatever peers were removed and whatever other threads have panicked.
AddedOnce ==
    ~AssertedTwice =>
        \A p \in Peer : at[p] = "add" =>
            /\ arg[p] \in verifying \ disk
            /\ \A q \in Peer \ {p} : at[q] = "add" => arg[q] # arg[p]

\* Until that assertion the book of the state is the sum of those of the peers, and each
\* block, transaction or compact block is expected of one peer: the other assertions on
\* the books hold.  Only handle_compact_block books a block that is saved or being
\* verified, and the known header then ends its reader.
BooksAgree ==
    ~AssertedTwice =>
        /\ blockMap = UNION {peerBlocks[p] : p \in Peer}
        /\ \A p \in Peer : peerCompact[p] \subseteq compactBlocks /\ peerTxs[p] \subseteq txMap
        /\ \A p, q \in Peer : p # q =>
            /\ peerBlocks[p] \cap peerBlocks[q] = {}
            /\ peerTxs[p] \cap peerTxs[q] = {}
            /\ peerCompact[p] \cap peerCompact[q] = {}
        /\ \A p \in Peer : at[p] \notin {"compactChain", "panicked"} =>
            peerBlocks[p] \cap (verifying \cup disk) = {}

\* What a thread waits for, another (or the writer of its own peer) has to give up.  A
\* reader of the chain also waits behind a writer that is waiting, if it came later: also
\* one that reads the chain already.
WaitsFor(t, u) ==
    \/ at[t] \in WantsState /\ "state" \in Held(u)
    \/ at[t] \in WantsPeers /\ u \in todo[t] /\ "own" \in Held(u)
    \/ at[t] \in WantsChain /\ Held(u) \cap {"chain", "reading"} # {}
    \/ at[t] \in WantsToRead /\ ("chain" \in Held(u) \/ at[u] \in WantsChain)
    \/ at[t] \in WantsWriter /\ u = t /\ writer[t] = "failed" /\ "own" \in Held(t)
    \/ at[t] = "index" /\ "filters" \in Held(u)

Deadlocked(threadSet) ==
    threadSet # {} /\ \A t \in threadSet : \E u \in threadSet : WaitsFor(t, u)

\* handle_headers waits for the writer with the lock that a failed writer wants.
WriterLockedOut(s) == \E t \in s : at[t] = "headersWait" /\ writer[t] = "failed"

\* handle_inv and handle_compact_block take the lock of the peer before the state, the
\* loops over the peers after it.
PeerBeforeState(s) ==
    \E t, u \in s : at[t] \in {"inv", "compact"} /\ at[u] \in WantsPeers /\ t \in todo[u]

\* handle_compact_block and handle_verack take the state before the chain, and
\* get_next_blocks the chain before the state; handle_verack only reads the chain, and
\* waits if a third thread wants to write it.
StateBeforeChain(s) ==
    \E t, u \in s :
        /\ at[u] = "nextState"
        /\ \/ at[t] = "compactChain"
           \/ at[t] = "verackChain" /\ \E v \in s : at[v] \in {"add", "headers"}

\* handle_get_data reads the chain twice, and a thread that wants to write it came between.
ReadTwice(s) == \E t, u \in s : at[t] = "compactData" /\ at[u] \in WantsChain

\* handle_get_data wants the chain with the lock of its peer, a loop over the peers that
\* lock, and a third thread wants to write the chain.
PeerBeforeChain(s) ==
    \E t, u, v \in s :
        /\ at[t] = "filteredData" /\ at[u] \in WantsPeers /\ t \in todo[u]
        /\ at[v] \in {"add", "headers"}

\* The filters are served with the lock of the index, and wanted with that of the chain.
IndexBeforeChain(s) == \E t, u \in s : at[t] = "filterData" /\ at[u] = "index"

\* Threads that wait for each other do so in one of these six ways: handle_block,
\* handle_tx, handle_not_found, handle_block_txn, maintain_peers and get_next_blocks never
\* do among themselves.
DeadlocksByInversion ==
    \A s \in SUBSET Thread : Deadlocked(s) =>
        \/ WriterLockedOut(s) \/ PeerBeforeState(s) \/ StateBeforeChain(s)
        \/ ReadTwice(s) \/ PeerBeforeChain(s) \/ IndexBeforeChain(s)

==============================================================================
