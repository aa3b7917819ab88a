----------------------------- MODULE PeerManager -----------------------------
(***************************************************************************)
(* The PeerManager of src/src/net/new_peer_manager.rs: which peer headers  *)
(* are fetched from, which block is requested from whom, the thread that   *)
(* adds blocks to the chain, and the tasks that come and go with peers.    *)
(*                                                                         *)
(* A step is what a task does under the locks it takes together, or up to  *)
(* its next await.  Blocks are heights of one branch: which branch is the  *)
(* best one is the business of module Chain.                               *)
(***************************************************************************)
EXTENDS Integers, FiniteSets, Sequences

CONSTANTS
    Peer,        \* the addresses maintain_peers finds, each used once
    NoPeer,      \* None
    Flaky,       \* peers that may refuse, hang up, misbehave or not answer
    MaxHeight,   \* bound: the number of blocks that exist in the end
    FirstWorld,  \* how many of them exist at the start
    RecentFrom,  \* the height from which a header is recent (max_tip_age)
    OnDisk,      \* how many blocks the last session may have left on disk, not connected
    Worlds,      \* what may be wrong with the blocks
    MaxHeaders,  \* headers in a full headers message (2000)
    Window,      \* BLOCK_DOWNLOAD_WINDOW
    PerPeer      \* MAX_BLOCKS_PER_PEER

Blocks == 1 .. MaxHeight
NoBlock == 0

\* What the chain makes of a block: Chain::verify rejects it, verify_context rejects
\* it, or connecting it makes Chain panic (Chain!DisconnectPanics).
Flaws == {"none", "body", "inputs", "panic"}

ASSUME PeerManagerAssumption ==
    /\ NoPeer \notin Peer
    /\ Flaky \subseteq Peer
    /\ IsFiniteSet(Peer)
    /\ {MaxHeight, FirstWorld, RecentFrom} \subseteq Nat
    /\ FirstWorld <= MaxHeight
    /\ OnDisk \subseteq 0 .. FirstWorld
    /\ Worlds \subseteq [Blocks -> Flaws]
    /\ {MaxHeaders, Window, PerPeer} \subseteq Nat \ {0}
    /\ MaxHeaders > 1

VARIABLES
    \* PeerManager.state
    peers,         \* State.peers
    syncPeer,      \* State.header_sync_peer
    requested,     \* State.requested_blocks
    verifying,     \* State.verifying, its block hashes
    \* Peer.state of each peer
    asks,          \* peer.requested_blocks
    best,          \* best_hash, NoBlock for None
    common,        \* common_hash, -1 for None
    syncing,       \* peers with syncing set
    stalling,      \* peers with stalling_since set
    disconnected,  \* peers with disconnected set
    \* tasks and threads
    task,          \* where the task of a peer is
    kicked,        \* peers with a message in disconnect_rx
    chosen,        \* the new sync peer a task that ends has picked
    handling,      \* the block a task waits for, NoBlock when it waits for none
    reply,         \* what its oneshot channel holds
    addQueue,      \* the events sent to the add thread
    addUp,         \* the add thread has not panicked
    timerUp,       \* disconnect_stalling_peers has not panicked
    notified,      \* the permit of resolve_headers
    resolver,      \* where the resolve_headers task is, and its locals
    \* the chain, behind its lock
    headers,       \* height of the heaviest header
    has,           \* ChainDB.downloaded
    invalid,       \* ChainDB.invalid
    tip,           \* Chain.tip
    \* the network
    flaw,          \* what is wrong with each block
    world,         \* height of the chain the peers have
    headersFrom    \* first height a peer's next headers message starts with, or 0

stateVars == <<peers, syncPeer, requested, verifying>>
peerVars  == <<asks, best, common, syncing, stalling, disconnected>>
taskVars  == <<task, kicked, chosen, handling, reply>>
addVars   == <<addQueue, addUp>>
chainVars == <<headers, has, invalid, tip>>
netVars   == <<flaw, world, headersFrom>>

vars == <<stateVars, peerVars, taskVars, addVars, timerUp, notified, resolver,
          chainVars, netVars>>

Tasks == {"new", "handshake", "complete", "sync", "run", "await", "closing",
          "cleanup", "resync", "gone", "refused", "dead"}

Heights == 0 .. MaxHeight

Resolvers ==
    [at : {"pick", "attach", "attaching", "get", "stall", "dead"},
     list : SUBSET Peer, peer : Peer \cup {NoPeer},
     items : SUBSET Blocks, saved : Heights, staller : Peer \cup {NoPeer}]

TypeOK ==
    /\ peers \subseteq Peer
    /\ syncPeer \in Peer \cup {NoPeer}
    /\ requested \in [Blocks -> Peer \cup {NoPeer}]
    /\ verifying \subseteq Blocks
    /\ asks \in [Peer -> SUBSET Blocks]
    /\ best \in [Peer -> Heights]
    /\ common \in [Peer -> Heights \cup {-1}]
    /\ {syncing, stalling, disconnected, kicked} \subseteq SUBSET Peer
    /\ task \in [Peer -> Tasks]
    /\ chosen \in [Peer -> Peer \cup {NoPeer}]
    /\ handling \in [Peer -> Heights]
    /\ reply \in [Peer \cup {NoPeer} -> {"none", "ok", "err"}]
    /\ addQueue \in Seq([from : Peer \cup {NoPeer}, block : Blocks])
    /\ {addUp, timerUp, notified} \subseteq BOOLEAN
    /\ resolver \in Resolvers
    /\ headers \in Heights
    /\ has \subseteq Blocks
    /\ invalid \subseteq Blocks
    /\ tip \in Heights
    /\ flaw \in Worlds
    /\ world \in Heights
    /\ headersFrom \in [Peer -> 0 .. MaxHeight + 1]

------------------------------------------------------------------------------
(* Queries and helpers.                                                    *)

Lesser(a, b) == IF a < b THEN a ELSE b
Greater(a, b) == IF a < b THEN b ELSE a

\* Chain::is_recent.
Recent == headers >= RecentFrom

\* peer_state.handshake, set when the verack arrives.
Handshaken(p) == task[p] \notin {"new", "handshake", "refused"}

\* is_syncable.
IsSyncable(p) ==
    /\ p \notin disconnected
    /\ Handshaken(p)
    /\ Recent \/ syncPeer = p

\* send_sync: the locator starts below the heaviest header.
SendSync(p) ==
    IF p \notin syncing /\ IsSyncable(p)
    THEN /\ syncing' = syncing \cup {p}
         /\ headersFrom' = [headersFrom EXCEPT ![p] = Greater(headers, 1)]
    ELSE UNCHANGED <<syncing, headersFrom>>

Requested == {b \in Blocks : requested[b] # NoPeer}

\* The receiver of peer.disconnect lives as long as the task of the peer.
Listening(p) == task[p] \notin {"new", "gone", "refused", "dead"}

\* Peer::disconnect.
Disconnect(p) ==
    IF p \in disconnected \/ ~Listening(p)
    THEN disconnected' = disconnected \cup {p} /\ UNCHANGED kicked
    ELSE disconnected' = disconnected \cup {p} /\ kicked' = kicked \cup {p}

\* ... panics when nobody listens.
DisconnectPanics(p) == p \notin disconnected /\ ~Listening(p)

------------------------------------------------------------------------------
(* A peer connects.                                                        *)

\* connect_to_peer: a connection, and the peer is in the map.
ConnectToPeer(p) ==
    /\ task[p] = "new"
    /\ peers' = peers \cup {p}
    /\ task' = [task EXCEPT ![p] = "handshake"]
    /\ UNCHANGED <<syncPeer, requested, verifying, peerVars, kicked, chosen, handling, reply, addVars,
                   timerUp, notified, resolver, chainVars, netVars>>

\* The handshake fails or times out: only the map forgets the peer.
HandshakeFails(p) ==
    /\ p \in Flaky
    /\ task[p] = "handshake"
    /\ peers' = peers \ {p}
    /\ task' = [task EXCEPT ![p] = "refused"]
    /\ UNCHANGED <<syncPeer, requested, verifying, peerVars, kicked, chosen, handling, reply, addVars,
                   timerUp, notified, resolver, chainVars, netVars>>

\* The verack arrives.
Handshake(p) ==
    /\ task[p] = "handshake"
    /\ task' = [task EXCEPT ![p] = "complete"]
    /\ UNCHANGED <<stateVars, peerVars, kicked, chosen, handling, reply, addVars, timerUp, notified,
                   resolver, chainVars, netVars>>

\* handshake_complete, up to the end of its critical section.
HandshakeComplete(p) ==
    /\ task[p] = "complete"
    /\ IF syncPeer = NoPeer
       THEN syncPeer' = p /\ task' = [task EXCEPT ![p] = "sync"] /\ UNCHANGED notified
       ELSE task' = [task EXCEPT ![p] = "run"] /\ notified' = TRUE /\ UNCHANGED syncPeer
    /\ UNCHANGED <<peers, requested, verifying, peerVars, kicked, chosen, handling, reply, addVars,
                   timerUp, resolver, chainVars, netVars>>

\* ... its send_sync and the notification.
SyncAfterHandshake(p) ==
    /\ task[p] = "sync"
    /\ SendSync(p)
    /\ notified' = TRUE
    /\ task' = [task EXCEPT ![p] = "run"]
    /\ UNCHANGED <<stateVars, asks, best, common, stalling, disconnected, kicked, chosen, handling, reply,
                   addVars, timerUp, resolver, chainVars, flaw, world>>

------------------------------------------------------------------------------
(* Messages from a peer, handled by its task.                              *)

\* The headers a peer sends: what it was asked for, or the block it announces.
Asked(p) == headersFrom[p]

LastOf(from) == Lesser(from + MaxHeaders - 1, world)

\* handle_headers of a message with the headers from .. to.
HandleHeaders(p, from, to) ==
    /\ from <= headers + 1
    /\ to > headers => headers \notin invalid
    /\ headers' = Greater(headers, to)
    /\ best' = [best EXCEPT ![p] = to]
    /\ notified' = TRUE
    /\ UNCHANGED <<stateVars, asks, common, syncing, stalling, disconnected, taskVars,
                   addVars, timerUp, resolver, has, invalid, tip, flaw, world>>

\* Broken variant: a header is left out.
ContinueAfterNext(from, to) == IF to - from + 1 = MaxHeaders THEN to + 2 ELSE 0

\* After a full message the peer is asked for what follows.
Continue(from, to) == IF to - from + 1 = MaxHeaders THEN to + 1 ELSE 0

\* An answer to getheaders; an empty one changes nothing.
Headers(p) ==
    /\ task[p] = "run"
    /\ Asked(p) # 0
    /\ headersFrom' = [headersFrom EXCEPT ![p] = Continue(@, LastOf(@))]
    /\ \/ Asked(p) <= world /\ HandleHeaders(p, Asked(p), LastOf(Asked(p)))
       \/ /\ Asked(p) > world
          /\ UNCHANGED <<stateVars, peerVars, taskVars, addVars, timerUp, notified,
                         resolver, chainVars, flaw, world>>

\* The headers a peer may send without being asked, first and last: a reliable one the
\* newest block, as sendheaders told it to, and a flaky one any that exist, known ones
\* too, at any time after the handshake.
Unasked(p) ==
    IF p \in Flaky
    THEN {sent \in Blocks \X Blocks : sent[1] <= sent[2] /\ sent[2] <= LastOf(sent[1])}
    ELSE {sent \in {<<world, world>>} : world > FirstWorld /\ best[p] < world}

Announce(p) ==
    /\ task[p] = "run"
    /\ \E sent \in Unasked(p) :
          /\ HandleHeaders(p, sent[1], sent[2])
          /\ headersFrom' =
                [headersFrom EXCEPT ![p] = IF Continue(sent[1], sent[2]) # 0
                                           THEN Continue(sent[1], sent[2]) ELSE @]

\* add_header panics in the task of the peer: the parent of the first header is
\* unknown, as it may be of any header a flaky peer makes up, or the parent of a new
\* one is invalid.  What came before it is kept.
HeadersPanic(p) ==
    /\ task[p] = "run"
    /\ \/ /\ p \in Flaky \/ \E from \in {Asked(p)} \cup {sent[1] : sent \in Unasked(p)} :
                                   headers + 1 < from /\ from <= world
          /\ UNCHANGED <<best, invalid>>
       \/ /\ headers \in invalid
          /\ \E from \in ({Asked(p)} \ {0}) \cup {sent[1] : sent \in Unasked(p)} :
                /\ from <= headers + 1
                /\ headers < LastOf(from)
                /\ best' = [best EXCEPT ![p] = IF from <= headers THEN headers ELSE @]
          /\ invalid' = invalid \cup {headers + 1}
    /\ task' = [task EXCEPT ![p] = "dead"]
    /\ UNCHANGED <<stateVars, asks, common, syncing, stalling, disconnected, kicked, chosen,
                   handling, reply, addVars, timerUp, notified, resolver, headers, has, tip,
                   netVars>>

\* Broken variant: the block is not marked.
NotVerifying(b) == verifying

\* handle_block takes the block out of the requests and marks it as being verified.
NowVerifying(b) == verifying \cup {b}

\* handle_block, up to its await: the block goes to the add thread.
Block(p, b) ==
    /\ task[p] = "run"
    /\ b \in asks[p]
    /\ asks' = [asks EXCEPT ![p] = @ \ {b}]
    /\ requested' = [requested EXCEPT ![b] = NoPeer]
    /\ stalling' = stalling \ {p}
    /\ verifying' = NowVerifying(b)
    /\ addQueue' = IF addUp THEN Append(addQueue, [from |-> p, block |-> b]) ELSE addQueue
    /\ handling' = [handling EXCEPT ![p] = b]
    /\ task' = [task EXCEPT ![p] = "await"]
    /\ UNCHANGED <<peers, syncPeer, best, common, syncing, disconnected, kicked, chosen,
                   reply, addUp, timerUp, notified, resolver, chainVars, netVars>>

\* handle_block after its await, when the block was added.
BlockAdded(p) ==
    /\ task[p] = "await"
    /\ reply[p] = "ok"
    /\ verifying' = verifying \ {handling[p]}
    /\ handling' = [handling EXCEPT ![p] = NoBlock]
    /\ reply' = [reply EXCEPT ![p] = "none"]
    /\ task' = [task EXCEPT ![p] = "run"]
    /\ notified' = TRUE
    /\ UNCHANGED <<peers, syncPeer, requested, peerVars, kicked, chosen, addVars, timerUp,
                   resolver, chainVars, netVars>>

\* ... when it was not: the error ends the loop of run_peer, and the block stays
\* in verifying.
BlockRefused(p) ==
    /\ task[p] = "await"
    /\ reply[p] = "err"
    /\ handling' = [handling EXCEPT ![p] = NoBlock]
    /\ reply' = [reply EXCEPT ![p] = "none"]
    /\ task' = [task EXCEPT ![p] = "closing"]
    /\ UNCHANGED <<stateVars, peerVars, kicked, chosen, addVars, timerUp, notified, resolver,
                   chainVars, netVars>>

\* ... when the add thread is gone: rx.await.unwrap() panics.
BlockPanics(p) ==
    /\ task[p] = "await"
    /\ reply[p] = "none"
    /\ ~addUp
    /\ handling' = [handling EXCEPT ![p] = NoBlock]
    /\ task' = [task EXCEPT ![p] = "dead"]
    /\ UNCHANGED <<stateVars, peerVars, kicked, chosen, reply, addVars, timerUp, notified,
                   resolver, chainVars, netVars>>

\* A message that makes a handler fail: a broken chain of headers, a block that
\* was not requested, a second handshake.
BadMessage(p) ==
    /\ p \in Flaky
    /\ task[p] = "run"
    /\ task' = [task EXCEPT ![p] = "closing"]
    /\ UNCHANGED <<stateVars, peerVars, kicked, chosen, handling, reply, addVars, timerUp,
                   notified, resolver, chainVars, netVars>>

------------------------------------------------------------------------------
(* The peer goes away.                                                     *)

\* run_connection ends: the remote side closed the connection.
HangUp(p) ==
    /\ p \in Flaky
    /\ task[p] \in {"complete", "sync", "run", "await"}
    /\ p \notin kicked
    /\ kicked' = kicked \cup {p}
    /\ UNCHANGED <<stateVars, peerVars, task, chosen, handling, reply, addVars, timerUp,
                   notified, resolver, chainVars, netVars>>

\* Broken variant: a handler can be interrupted, the wait for a message cannot.
SelectsInner == {"await"}

\* Where run_peer waits for disconnect_rx as well.
Selects == {"run", "await"}

\* run_peer takes the message from disconnect_rx.  If it was in the middle of a
\* handler, the handler is dropped at its await.
Kicked(p) ==
    /\ task[p] \in Selects
    /\ p \in kicked
    /\ task' = [task EXCEPT ![p] = "closing"]
    /\ handling' = [handling EXCEPT ![p] = NoBlock]
    /\ reply' = [reply EXCEPT ![p] = "none"]
    /\ UNCHANGED <<stateVars, peerVars, kicked, chosen, addVars, timerUp, notified, resolver,
                   chainVars, netVars>>

\* The end of run_peer: from here no block is requested from the peer.
Closing(p) ==
    /\ task[p] = "closing"
    /\ disconnected' = disconnected \cup {p}
    /\ task' = [task EXCEPT ![p] = "cleanup"]
    /\ UNCHANGED <<stateVars, asks, best, common, syncing, stalling, kicked, chosen, handling,
                   reply, addVars, timerUp, notified, resolver, chainVars, netVars>>

\* Broken variant: they stay requested.
ReleasedNone(p) == requested

\* The blocks in flight from a peer that has gone can be requested again.
Released(p) == [b \in Blocks |-> IF b \in asks[p] THEN NoPeer ELSE requested[b]]

\* peer_disconnected, up to the end of its critical section: another peer, any
\* that is connected, takes over the headers.
PeerDisconnected(p) ==
    /\ task[p] = "cleanup"
    /\ peers' = peers \ {p}
    /\ requested' = Released(p)
    /\ asks' = [asks EXCEPT ![p] = {}]
    /\ \/ /\ syncPeer \notin {p, NoPeer} \/ peers' = {}
          /\ syncPeer' = IF syncPeer = p THEN NoPeer ELSE syncPeer
          /\ task' = [task EXCEPT ![p] = "gone"]
          /\ notified' = TRUE
          /\ UNCHANGED chosen
       \/ /\ syncPeer \in {p, NoPeer}
          /\ syncPeer' \in peers'
          /\ chosen' = [chosen EXCEPT ![p] = syncPeer']
          /\ task' = [task EXCEPT ![p] = "resync"]
          /\ UNCHANGED notified
    /\ UNCHANGED <<verifying, best, common, syncing, stalling, disconnected, kicked,
                   handling, reply, addVars, timerUp, resolver, chainVars, netVars>>

\* ... its send_sync to the peer it chose, and the notification.
SyncAfterDisconnect(p) ==
    /\ task[p] = "resync"
    /\ SendSync(chosen[p])
    /\ chosen' = [chosen EXCEPT ![p] = NoPeer]
    /\ notified' = TRUE
    /\ task' = [task EXCEPT ![p] = "gone"]
    /\ UNCHANGED <<stateVars, asks, best, common, stalling, disconnected, kicked, handling,
                   reply, addVars, timerUp, resolver, chainVars, flaw, world>>

\* disconnect_stalling_peers: two minutes without a block from a peer that owes
\* some, or two seconds as the peer the window waits for.
StallTimer(p) ==
    /\ p \in Flaky
    /\ timerUp
    /\ p \in peers \ disconnected
    /\ (p \in syncing /\ asks[p] # {}) \/ p \in stalling
    /\ timerUp' = ~DisconnectPanics(p)
    /\ Disconnect(p)
    /\ UNCHANGED <<stateVars, asks, best, common, syncing, stalling, task, chosen, handling,
                   reply, addVars, notified, resolver, chainVars, netVars>>

------------------------------------------------------------------------------
(* resolve_headers: what to request from whom.                             *)

Idle == [at |-> "pick", list |-> {}, peer |-> NoPeer, items |-> {},
         saved |-> NoBlock, staller |-> NoPeer]

\* resolve_headers starts on a notification, when enough headers are known and
\* there is room for requests.
ResolveHeaders ==
    /\ resolver = Idle
    /\ notified
    /\ notified' = FALSE
    /\ resolver' = IF Recent /\ Cardinality(Requested) <= Window - PerPeer
                   THEN [Idle EXCEPT !.list = peers]
                   ELSE Idle
    /\ UNCHANGED <<stateVars, peerVars, taskVars, addVars, timerUp, chainVars, netVars>>

\* resolve_headers_for_peer has nothing to request from p; if it knows nothing of
\* the headers of p, it asks for them.
PassOver(p) ==
    /\ resolver.at = "pick"
    /\ p \in resolver.list
    /\ \/ ~IsSyncable(p)
       \/ Cardinality(asks[p]) >= PerPeer
       \/ best[p] <= tip
    /\ IF IsSyncable(p) /\ Cardinality(asks[p]) < PerPeer /\ best[p] = NoBlock
       THEN SendSync(p)
       ELSE UNCHANGED <<syncing, headersFrom>>
    /\ resolver' = [resolver EXCEPT !.list = @ \ {p}]
    /\ UNCHANGED <<stateVars, asks, best, common, stalling, disconnected, taskVars,
                   addVars, timerUp, notified, chainVars, flaw, world>>

\* get_next_blocks: where the walk towards best[p] starts ...
WalkFrom(p) == Lesser(IF common[p] = -1 THEN tip ELSE common[p], best[p])

\* ... and ends: in steps of PerPeer entries, one past the end of the window.
WalkTo(p) ==
    LET steps == Lesser(best[p] - WalkFrom(p), Window + 1) + PerPeer - 1
    IN Lesser(best[p], WalkFrom(p) + PerPeer * (steps \div PerPeer))

\* Blocks that are neither requested, nor verified, nor on their way there.
Free(b) == requested[b] = NoPeer /\ b > tip /\ b \notin verifying

\* How many blocks may still be requested from p.
Room(p) == PerPeer - Cardinality(asks[p])

\* The blocks of the window to request, the lowest first.
Items(p) ==
    LET window == {b \in WalkFrom(p) + 1 .. Lesser(WalkTo(p), WalkFrom(p) + Window) :
                      Free(b) /\ b \notin has}
    IN {b \in window : Cardinality({x \in window : x < b}) < Room(p)}

\* The walk stops early when there are enough items.
Walked(p) ==
    LET full == Cardinality(Items(p)) = Room(p)
    IN {b \in WalkFrom(p) + 1 .. WalkTo(p) : full => \E i \in Items(p) : b <= i}

Lowest(S) == CHOOSE b \in S : \A x \in S : b <= x

\* The peer that holds up the window: nothing to request below a block beyond it,
\* and the first block that is waited for was requested from another peer.
Staller(p) ==
    LET waiting == {b \in Walked(p) : requested[b] # NoPeer}
        beyond  == {b \in Walked(p) : b > WalkFrom(p) + Window /\ Free(b) /\ b \notin has}
    IN IF /\ Items(p) = {} /\ beyond # {} /\ waiting # {}
          /\ Lowest(waiting) < Lowest(beyond)
          /\ requested[Lowest(waiting)] # p
       THEN requested[Lowest(waiting)] ELSE NoPeer

\* The resolver goes on with what it has found for a peer: a block to attach, then
\* blocks to request, then a peer that stalls, then the next peer.
GoOn(found) ==
    IF found.saved # NoBlock THEN [found EXCEPT !.at = "attach"]
    ELSE IF found.items # {} THEN [found EXCEPT !.at = "get"]
    ELSE IF found.staller # NoPeer THEN [found EXCEPT !.at = "stall"]
    ELSE [Idle EXCEPT !.list = found.list]

\* get_next_blocks, under the locks of the state, the peer and the chain.
GetNextBlocks(p) ==
    /\ resolver.at = "pick"
    /\ p \in resolver.list
    /\ IsSyncable(p)
    /\ Room(p) > 0
    /\ best[p] > tip
    /\ LET saved  == {b \in Walked(p) : Free(b) /\ b \notin invalid /\ b \in has}
           barred == \E b \in Walked(p) : requested[b] = NoPeer /\ b \in invalid
           rest   == resolver.list \ {p}
       IN resolver' =
             IF barred THEN [Idle EXCEPT !.list = rest]
             ELSE GoOn([at |-> "pick", list |-> rest, peer |-> p, items |-> Items(p),
                        saved |-> IF saved = {} THEN NoBlock ELSE Lowest(saved),
                        staller |-> Staller(p)])
    /\ common' = [common EXCEPT ![p] =
                     IF tip > WalkFrom(p) THEN Lesser(tip, WalkTo(p)) ELSE WalkFrom(p)]
    /\ UNCHANGED <<stateVars, asks, best, syncing, stalling, disconnected, taskVars, addVars,
                   timerUp, notified, chainVars, netVars>>

\* attach_block: the event is sent ...
AttachSent ==
    /\ resolver.at = "attach"
    /\ IF addUp
       THEN /\ addQueue' = Append(addQueue, [from |-> NoPeer, block |-> resolver.saved])
            /\ resolver' = [resolver EXCEPT !.at = "attaching"]
       ELSE /\ resolver' = [resolver EXCEPT !.at = "dead"]
            /\ UNCHANGED addQueue
    /\ UNCHANGED <<stateVars, peerVars, taskVars, addUp, timerUp, notified, chainVars, netVars>>

\* ... and has been handled, or the thread has panicked over it.
AttachDone ==
    /\ resolver.at = "attaching"
    /\ \/ /\ reply[NoPeer] = "ok"
          /\ resolver' = GoOn([resolver EXCEPT !.saved = NoBlock])
          /\ reply' = [reply EXCEPT ![NoPeer] = "none"]
       \/ /\ reply[NoPeer] = "none"
          /\ ~addUp
          /\ resolver' = [resolver EXCEPT !.at = "dead"]
          /\ UNCHANGED reply
    /\ UNCHANGED <<stateVars, peerVars, task, kicked, chosen, handling, addVars, timerUp,
                   notified, chainVars, netVars>>

\* Broken variant: get_block does not look at the peer again.
GivesAlways(p) == TRUE

\* A peer whose run_peer has ended is given nothing more.
Gives(p) == p \notin disconnected

\* get_block: what is still wanted is requested.
GetBlock ==
    /\ resolver.at = "get"
    /\ LET p    == resolver.peer
           take == {b \in resolver.items : requested[b] = NoPeer /\ b \notin verifying \cup has}
       IN IF Gives(p)
          THEN /\ requested' = [b \in Blocks |-> IF b \in take THEN p ELSE requested[b]]
               /\ asks' = [asks EXCEPT ![p] = @ \cup take]
          ELSE UNCHANGED <<requested, asks>>
    /\ resolver' = GoOn([resolver EXCEPT !.items = {}])
    /\ UNCHANGED <<peers, syncPeer, verifying, best, common, syncing, stalling, disconnected,
                   taskVars, addVars, timerUp, notified, chainVars, netVars>>

\* peer_stalling: the first time it is noted, two seconds later the peer is cut off.
PeerStalling ==
    /\ resolver.at = "stall"
    /\ LET p == resolver.staller IN
       \/ /\ p \notin peers
          /\ UNCHANGED <<stalling, disconnected, kicked>>
          /\ resolver' = [Idle EXCEPT !.list = resolver.list]
       \/ /\ p \in peers
          /\ stalling' = stalling \cup {p}
          /\ UNCHANGED <<disconnected, kicked>>
          /\ resolver' = [Idle EXCEPT !.list = resolver.list]
       \/ /\ p \in peers \cap stalling \cap Flaky
          /\ Disconnect(p)
          /\ resolver' = IF DisconnectPanics(p) THEN [resolver EXCEPT !.at = "dead"]
                         ELSE [Idle EXCEPT !.list = resolver.list]
          /\ UNCHANGED stalling
    /\ UNCHANGED <<stateVars, asks, best, common, syncing, task, chosen, handling, reply,
                   addVars, timerUp, notified, chainVars, netVars>>

------------------------------------------------------------------------------
(* The add thread.                                                         *)

\* The blocks that can be connected once b is on disk: the run from the tip
\* through b, if there are no gaps.
RunThrough(b, onDisk) ==
    LET ready == onDisk \ invalid
        top   == CHOOSE t \in b .. MaxHeight :
                    b .. t \subseteq ready /\ t + 1 \notin ready
    IN IF tip + 1 .. b \subseteq ready THEN tip + 1 .. top ELSE {}

\* Chain::connect_best for b: the run is connected up to the first block with a flaw.
Flawed(b, onDisk) == {x \in RunThrough(b, onDisk) : flaw[x] # "none"}

ConnectBest(b, onDisk) ==
    LET flawed == Flawed(b, onDisk) IN
    /\ tip' = IF flawed = {} THEN tip + Cardinality(RunThrough(b, onDisk))
              ELSE Lowest(flawed) - 1
    /\ invalid' = invalid \cup {x \in flawed : x = Lowest(flawed) /\ flaw[x] = "inputs"}

Result(b, onDisk) ==
    LET flawed == Flawed(b, onDisk) IN
    IF flawed = {} THEN "ok" ELSE IF flaw[Lowest(flawed)] = "inputs" THEN "err" ELSE "panic"

\* The thread panics: its receiver and all that was sent to it are dropped.
AddPanics == addUp' = FALSE /\ addQueue' = <<>> /\ UNCHANGED reply

\* The outcome reaches a handler that still waits for it.
Answer(p, result) ==
    /\ reply' = IF p = NoPeer \/ task[p] = "await" THEN [reply EXCEPT ![p] = result] ELSE reply
    /\ addQueue' = Tail(addQueue)
    /\ UNCHANGED addUp

\* Broken variant: the block is refused and forgotten.
RejectOnly(b) == invalid

\* Chain::add_block of a block that verify refuses.
Reject(b) == invalid \cup {b}

\* AddEvent::AddBlock: Chain::add under the write lock, with the assertion in
\* add_block that the block is new.
AddBlock ==
    /\ addUp
    /\ addQueue # <<>>
    /\ LET p == Head(addQueue).from
           b == Head(addQueue).block
       IN /\ p # NoPeer
          /\ \/ /\ flaw[b] = "body"
                /\ invalid' = Reject(b)
                /\ Answer(p, "err")
                /\ UNCHANGED <<has, tip>>
             \/ /\ flaw[b] # "body"
                /\ has' = has \cup {b}
                /\ IF b \in has THEN UNCHANGED <<tip, invalid>> ELSE ConnectBest(b, has')
                /\ IF b \in has \/ Result(b, has') = "panic" THEN AddPanics
                   ELSE Answer(p, Result(b, has'))
    /\ UNCHANGED <<stateVars, peerVars, task, kicked, chosen, handling, timerUp, notified,
                   resolver, headers, netVars>>

\* AddEvent::Attach: Chain::attach, which must succeed.
Attach ==
    /\ addUp
    /\ addQueue # <<>>
    /\ LET b == Head(addQueue).block IN
       /\ Head(addQueue).from = NoPeer
       /\ \/ b <= tip /\ UNCHANGED <<tip, invalid>>
          \/ b > tip /\ ConnectBest(b, has)
       /\ IF b > tip /\ Result(b, has) # "ok"
          THEN AddPanics /\ UNCHANGED notified
          ELSE Answer(NoPeer, "ok") /\ notified' = TRUE
    /\ UNCHANGED <<stateVars, peerVars, task, kicked, chosen, handling, timerUp, resolver,
                   headers, has, netVars>>

------------------------------------------------------------------------------
(* The specification.                                                      *)

\* Somebody mines a block, and all peers have it.
Mine ==
    /\ world < MaxHeight
    /\ world' = world + 1
    /\ UNCHANGED <<stateVars, peerVars, taskVars, addVars, timerUp, notified, resolver,
                   chainVars, flaw, headersFrom>>

\* A node that starts again with the headers and blocks of its last session.
Init ==
    /\ peers = {}
    /\ syncPeer = NoPeer
    /\ requested = [b \in Blocks |-> NoPeer]
    /\ verifying = {}
    /\ asks = [p \in Peer |-> {}]
    /\ best = [p \in Peer |-> NoBlock]
    /\ common = [p \in Peer |-> -1]
    /\ syncing = {}
    /\ stalling = {}
    /\ disconnected = {}
    /\ task = [p \in Peer |-> "new"]
    /\ kicked = {}
    /\ chosen = [p \in Peer |-> NoPeer]
    /\ handling = [p \in Peer |-> NoBlock]
    /\ reply = [p \in Peer \cup {NoPeer} |-> "none"]
    /\ addQueue = <<>>
    /\ addUp = TRUE
    /\ timerUp = TRUE
    /\ notified = FALSE
    /\ resolver = Idle
    /\ flaw \in Worlds
    /\ headers \in OnDisk
    /\ has = 1 .. headers
    /\ \A b \in has : flaw[b] # "body"
    /\ invalid = {}
    /\ tip = 0
    /\ world = FirstWorld
    /\ headersFrom = [p \in Peer |-> 0]

Connecting(p) == ConnectToPeer(p) \/ HandshakeComplete(p) \/ SyncAfterHandshake(p)

Handling(p) == BlockAdded(p) \/ BlockRefused(p) \/ BlockPanics(p)

Leaving(p) == Kicked(p) \/ Closing(p) \/ PeerDisconnected(p) \/ SyncAfterDisconnect(p)

Messages(p) == Handshake(p) \/ Headers(p) \/ Announce(p) \/ \E b \in Blocks : Block(p, b)

Misbehaviour(p) == HandshakeFails(p) \/ BadMessage(p) \/ HangUp(p) \/ HeadersPanic(p)

Resolve ==
    \/ ResolveHeaders
    \/ \E p \in Peer : PassOver(p) \/ GetNextBlocks(p)
    \/ AttachSent
    \/ AttachDone
    \/ GetBlock
    \/ PeerStalling

AddThread == AddBlock \/ Attach

Next ==
    \/ \E p \in Peer :
          \/ Connecting(p) \/ Handling(p) \/ Leaving(p) \/ Messages(p)
          \/ Misbehaviour(p) \/ StallTimer(p)
    \/ Resolve
    \/ AddThread
    \/ Mine

\* Tasks and the thread run, timers expire, and the peers that are not flaky
\* answer what they are asked.
Fairness ==
    /\ \A p \in Peer :
          /\ WF_vars(Connecting(p) \/ Handling(p) \/ Leaving(p))
          /\ WF_vars(StallTimer(p))
    /\ \A p \in Peer \ Flaky : WF_vars(Messages(p))
    /\ WF_vars(Resolve)
    /\ WF_vars(AddThread)

Spec == Init /\ [][Next]_vars /\ Fairness

------------------------------------------------------------------------------
(* Properties.                                                             *)

\* The two books on requests agree: a block is in State.requested_blocks with a
\* peer exactly when it is in that peer's requested_blocks, and no block is left
\* with a peer whose task has ended in order.  No peer is asked for more than
\* MAX_BLOCKS_PER_PEER blocks at a time, although the number is checked under locks
\* that are released before the request.
RequestsMatch ==
    /\ \A b \in Blocks, p \in Peer : requested[b] = p <=> b \in asks[p]
    /\ \A p \in Peer : task[p] \in {"gone", "resync", "refused"} => asks[p] = {}
    /\ \A p \in Peer : Cardinality(asks[p]) <= PerPeer

\* A block is fetched once: while it is requested it is neither being verified nor
\* on disk, and what is sent to the add thread is not there yet.  These are the
\* conditions of three asserts ("FIX: requested duplicate blocks", the unwrap
\* before it and !has_block in Chain::add_block).
FetchedOnce ==
    /\ \A b \in Requested : b \notin verifying \cup has
    /\ \A i, j \in DOMAIN addQueue :
          addQueue[i].from # NoPeer =>
             /\ addQueue[i].block \notin has \cup Requested
             /\ addQueue[j].block = addQueue[i].block => i = j

\* The entries that error paths and dropped handlers leave behind in verifying,
\* which bar a block from being requested for good, never bar one the node needs:
\* it is on its way to the chain, has arrived there, or is invalid.
VerifyingIsHarmless ==
    addUp => \A b \in verifying :
        \/ b \in has \cup invalid
        \/ \E i \in DOMAIN addQueue : addQueue[i].block = b

\* Not for good: a task that has panicked, or blocks due from a peer that was never
\* asked for headers.  disconnect_stalling_peers passes over such a peer (the guard
\* peer_state.syncing at line 830), though an unasked headers message is enough to have
\* blocks requested from it.
Unstuck(p) == task[p] # "dead" /\ (asks[p] = {} \/ p \in syncing)

\* As long as one peer is not flaky the node arrives at the block the network has,
\* whichever peers hang up, stall, misbehave or announce what they like in between, and
\* when; unless the headers never become recent (nothing cuts off a header sync peer
\* that does not answer, and its successor may be one that is never asked), a task
\* panics, or blocks stay with a peer nobody watches.  Nothing else stops the download.
BlocksArrive ==
    ([]<>Recent /\ \A p \in Peer : []<>Unstuck(p)) => <>[](tip = world)

\* A peer that is to be disconnected is given up, and its task ends.
DisconnectsHappen == \A p \in Peer : p \in kicked ~> task[p] \in {"gone", "dead"}
==============================================================================
