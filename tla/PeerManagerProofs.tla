-------------------------- MODULE PeerManagerProofs --------------------------
(***************************************************************************)
(* What holds of PeerManager for any number of peers, blocks and headers,  *)
(* any window and any flaws: types, that the two books on requests agree   *)
(* and no peer has too many, that no block is fetched twice, and that what *)
(* stays marked as being verified does no harm.                            *)
(***************************************************************************)
EXTENDS PeerManager, FiniteSetTheorems, NaturalsInduction, WellFoundedInduction, TLAPS

USE PeerManagerAssumption

------------------------------------------------------------------------------
(* The inductive invariant.                                                *)

\* What the types rest on: a task that synchronises has chosen a peer, and what is
\* connected is on disk.
Typed ==
    /\ TypeOK
    /\ \A p \in Peer : task[p] = "resync" => chosen[p] \in Peer
    /\ 1 .. tip \subseteq has

\* The books of the manager and of the peers.  What the resolver has in hand for a peer
\* fits behind what the peer has been asked for.
Books ==
    /\ \A b \in Blocks, p \in Peer : requested[b] = p <=> b \in asks[p]
    /\ \A p \in Peer : asks[p] # {} => Handshaken(p) /\ task[p] \notin {"resync", "gone"}
    /\ \A p \in Peer : task[p] \in {"cleanup", "resync", "gone"} => p \in disconnected
    /\ \A p \in Peer : Cardinality(asks[p]) <= PerPeer
    /\ resolver.items # {} =>
          /\ resolver.peer \in Peer
          /\ Handshaken(resolver.peer)
          /\ Cardinality(asks[resolver.peer]) + Cardinality(resolver.items) <= PerPeer

Underway == {"await", "closing", "cleanup", "resync", "gone", "dead"}

\* What the resolver has found on disk stays there.
OnDiskFound ==
    /\ resolver.saved # NoBlock => resolver.saved \in has
    /\ resolver.at = "attach" => resolver.saved # NoBlock

\* What is sent to the add thread: a block on disk that is to be attached, or the one
\* block the task of a peer, while it waits, waits for.
Sent ==
    /\ \A i \in DOMAIN addQueue :
          LET e == addQueue[i] IN
          IF e.from = NoPeer THEN e.block \in has
          ELSE /\ e.block \in verifying \ has
               /\ task[e.from] \in Underway
               /\ task[e.from] = "await" =>
                     reply[e.from] = "none" /\ e.block = handling[e.from]
    /\ \A i, j \in DOMAIN addQueue :
          /\ addQueue[i].from # NoPeer
          /\ addQueue[j].from = addQueue[i].from \/ addQueue[j].block = addQueue[i].block
          => i = j

\* An answer is there for a task that waits, and a block that was added is on disk.
Answered ==
    \A p \in Peer :
        /\ task[p] # "await" => reply[p] = "none"
        /\ reply[p] = "ok" => handling[p] \in has

NotRequested == \A b \in Blocks : requested[b] # NoPeer => b \notin verifying \cup has

Fetching == NotRequested /\ OnDiskFound /\ Sent /\ Answered

IInv == Typed /\ Books /\ Fetching /\ VerifyingIsHarmless

------------------------------------------------------------------------------
(* Numbers, sets of numbers and sequences.                                 *)

Before == {e \in Nat \X Nat : e[1] < e[2]}

LEMMA BeforeWellFounded == IsWellFoundedOn(Before, Nat)
<1>1. OpToRel(<, Nat) = Before
    BY DEF OpToRel, Before
<1> QED
    BY <1>1, NatLessThanWellFounded

\* A set of numbers that is not empty has a least one.
LEMMA Least ==
    ASSUME NEW S \in SUBSET Nat, S # {}
    PROVE  \E m \in S : \A x \in S : m <= x
<1>1. PICK m \in S : \A x \in S : ~ (<<x, m>> \in Before)
    BY BeforeWellFounded, WFMin
<1>2. \A x \in S : ~ (x < m)
    <2> TAKE x \in S
    <2>1. <<x, m>> \in Nat \X Nat /\ <<x, m>>[1] = x /\ <<x, m>>[2] = m
        OBVIOUS
    <2> QED
        BY <1>1, <2>1 DEF Before
<1> QED
    BY <1>1, <1>2

LEMMA LowestIs ==
    ASSUME NEW S \in SUBSET Nat, S # {}
    PROVE  Lowest(S) \in S /\ \A x \in S : Lowest(S) <= x
    BY Least DEF Lowest

LEMMA Greatest ==
    ASSUME NEW S \in SUBSET Blocks, S # {}
    PROVE  \E m \in S : \A x \in S : x <= m
<1> DEFINE T == {n \in Nat : \E x \in S : n = MaxHeight - x}
<1>1. \A x \in S : x \in Nat /\ MaxHeight - x \in Nat
    BY DEF Blocks
<1>2. T # {} /\ T \in SUBSET Nat
    BY <1>1
<1>3. PICK n \in T : \A k \in T : n <= k
    BY <1>2, Least
<1>4. PICK m \in S : n = MaxHeight - m
    BY <1>3
<1>5. \A x \in S : x <= m
    <2> TAKE x \in S
    <2>1. MaxHeight - x \in T
        BY <1>1
    <2>2. n <= MaxHeight - x
        BY <1>3, <2>1
    <2> QED
        BY <1>1, <1>4, <2>2
<1> QED
    BY <1>4, <1>5

LEMMA BlocksFinite ==
    ASSUME NEW S \in SUBSET Blocks
    PROVE  IsFiniteSet(S) /\ Cardinality(S) \in Nat
<1>1. IsFiniteSet(Blocks)
    BY FS_Interval DEF Blocks
<1>2. IsFiniteSet(S)
    BY <1>1, FS_Subset
<1> QED
    BY <1>2, FS_CardinalityType

\* If fewer than n elements are below each, there are at most n.
LEMMA FewBelow ==
    ASSUME NEW S \in SUBSET Blocks, NEW n \in Nat,
           \A b \in S : Cardinality({x \in S : x < b}) < n
    PROVE  Cardinality(S) <= n
<1>1. CASE S = {}
    BY <1>1, FS_EmptySet
<1>2. CASE S # {}
    <2>1. PICK m \in S : \A x \in S : x <= m
        BY <1>2, Greatest
    <2>2. {x \in S : x < m} = S \ {m}
        <3>1. \A x \in S : x < m <=> x # m
            BY <2>1 DEF Blocks
        <3> QED
            BY <3>1
    <2>3. Cardinality(S \ {m}) = Cardinality(S) - 1
        BY BlocksFinite, FS_RemoveElement
    <2>4. Cardinality(S) \in Nat
        BY BlocksFinite
    <2>5. Cardinality(S) - 1 < n
        BY <2>1, <2>2, <2>3
    <2> QED
        BY <2>4, <2>5
<1> QED
    BY <1>1, <1>2

LEMMA Product == ASSUME NEW j \in Nat, NEW k \in Nat PROVE j * k \in Nat
    OBVIOUS

LEMMA Steps ==
    ASSUME NEW n \in Nat, NEW k \in Nat \ {0}
    PROVE  k * (n \div k) \in Nat
<1>1. n \div k \in Nat
    OBVIOUS
<1> QED
    BY <1>1, Product

Event == [from : Peer \cup {NoPeer}, block : Blocks]

LEMMA Elements ==
    ASSUME NEW s \in Seq(Event), NEW i \in DOMAIN s
    PROVE  s[i] \in Event /\ s[i].from \in Peer \cup {NoPeer} /\ s[i].block \in Blocks
<1>1. s[i] \in Event
    OBVIOUS
<1> QED
    BY <1>1 DEF Event

LEMMA Behead ==
    ASSUME NEW s \in Seq(Event), s # <<>>
    PROVE  /\ Head(s) = s[1] /\ Head(s) \in Event /\ 1 \in DOMAIN s
           /\ Tail(s) \in Seq(Event)
           /\ \A i \in DOMAIN Tail(s) : i + 1 \in DOMAIN s /\ Tail(s)[i] = s[i + 1]
           /\ \A i \in DOMAIN s : i # 1 => i - 1 \in DOMAIN Tail(s)
    OBVIOUS

LEMMA AtEnd ==
    ASSUME NEW s \in Seq(Event), NEW e \in Event
    PROVE  /\ Append(s, e) \in Seq(Event)
           /\ DOMAIN Append(s, e) = DOMAIN s \cup {Len(s) + 1}
           /\ Append(s, e)[Len(s) + 1] = e
           /\ \A i \in DOMAIN s : Append(s, e)[i] = s[i]
           /\ Len(s) + 1 \notin DOMAIN s
    OBVIOUS

------------------------------------------------------------------------------
(* Types are kept.                                                         *)

LEMMA InitTyped == Init => Typed
<1> SUFFICES ASSUME Init PROVE Typed
    OBVIOUS
<1>1. headers \in 0 .. FirstWorld /\ has = 1 .. headers /\ tip = 0
    BY DEF Init
<1>2. headers \in Heights /\ has \subseteq Blocks
    BY <1>1 DEF Heights, Blocks
<1>3. resolver \in Resolvers
    BY DEF Init, Idle, Resolvers, Heights, NoBlock
<1>4. /\ world \in Heights /\ tip \in Heights
      /\ best \in [Peer -> Heights] /\ handling \in [Peer -> Heights]
      /\ headersFrom \in [Peer -> 0 .. MaxHeight + 1]
      /\ common \in [Peer -> Heights \cup {-1}]
    BY DEF Init, Heights, NoBlock
<1>5. /\ task \in [Peer -> Tasks] /\ addQueue \in Seq([from : Peer \cup {NoPeer}, block : Blocks])
      /\ requested \in [Blocks -> Peer \cup {NoPeer}]
    BY DEF Init, Tasks
<1>6. TypeOK
    BY <1>2, <1>3, <1>4, <1>5 DEF Init, TypeOK
<1> QED
    BY <1>1, <1>6 DEF Typed, Init

\* A resolver that goes on has the same block, blocks and staller in hand, or none.
LEMMA GoOnTyped ==
    ASSUME NEW found \in Resolvers
    PROVE  /\ GoOn(found) \in Resolvers
           /\ GoOn(found).items # {} =>
                 GoOn(found).items = found.items /\ GoOn(found).peer = found.peer
           /\ GoOn(found).saved # NoBlock => GoOn(found).saved = found.saved
           /\ GoOn(found).at = "attach" => GoOn(found).saved # NoBlock
    BY DEF GoOn, Resolvers, Idle, NoBlock, Heights

LEMMA DoneTyped ==
    ASSUME TypeOK, NEW p \in Peer, NEW label \in Tasks
    PROVE  /\ [task EXCEPT ![p] = label] \in [Peer -> Tasks]
           /\ [handling EXCEPT ![p] = NoBlock] \in [Peer -> Heights]
           /\ [reply EXCEPT ![p] = "none"] \in [Peer \cup {NoPeer} -> {"none", "ok", "err"}]
<1>1. [task EXCEPT ![p] = label] \in [Peer -> Tasks]
    BY DEF TypeOK
<1>2. NoBlock \in Heights
    BY DEF Heights, NoBlock
<1>3. [handling EXCEPT ![p] = NoBlock] \in [Peer -> Heights]
    BY <1>2 DEF TypeOK
<1>4. [reply EXCEPT ![p] = "none"] \in [Peer \cup {NoPeer} -> {"none", "ok", "err"}]
    BY DEF TypeOK
<1> QED
    BY <1>1, <1>3, <1>4

LEMMA SyncTyped ==
    ASSUME TypeOK, NEW p \in Peer, SendSync(p)
    PROVE  syncing' \subseteq Peer /\ headersFrom' \in [Peer -> 0 .. MaxHeight + 1]
<1>1. headers \in 0 .. MaxHeight /\ MaxHeight \in Nat
    BY DEF TypeOK, Heights
<1>3. Greater(headers, 1) \in 0 .. MaxHeight + 1
    BY <1>1 DEF Greater
<1>2. [headersFrom EXCEPT ![p] = Greater(headers, 1)] \in [Peer -> 0 .. MaxHeight + 1]
    BY <1>3 DEF TypeOK
<1> QED
    BY <1>2 DEF TypeOK, SendSync

LEMMA ConnectToPeerTyped == ASSUME Typed, NEW p \in Peer, ConnectToPeer(p) PROVE Typed'
    BY DEF Typed, TypeOK, stateVars, peerVars, taskVars, addVars, chainVars, netVars, Tasks, ConnectToPeer

LEMMA HandshakeFailsTyped == ASSUME Typed, NEW p \in Peer, HandshakeFails(p) PROVE Typed'
    BY DEF Typed, TypeOK, stateVars, peerVars, taskVars, addVars, chainVars, netVars, Tasks, HandshakeFails

LEMMA HandshakeTyped == ASSUME Typed, NEW p \in Peer, Handshake(p) PROVE Typed'
    BY DEF Typed, TypeOK, stateVars, peerVars, taskVars, addVars, chainVars, netVars, Tasks, Handshake

LEMMA HandshakeCompleteTyped == ASSUME Typed, NEW p \in Peer, HandshakeComplete(p) PROVE Typed'
<1>1. PICK label \in {"sync", "run"} : task' = [task EXCEPT ![p] = label]
    BY DEF HandshakeComplete
<1>2. task' \in [Peer -> Tasks] /\ \A q \in Peer : task'[q] = "resync" => task[q] = "resync"
    BY <1>1 DEF Typed, TypeOK, Tasks
<1>3. syncPeer' \in Peer \cup {NoPeer} /\ notified' \in BOOLEAN
    BY DEF HandshakeComplete, Typed, TypeOK
<1> QED
    BY <1>2, <1>3 DEF Typed, TypeOK, peerVars, addVars, chainVars, netVars, HandshakeComplete

LEMMA BlockRefusedTyped == ASSUME Typed, NEW p \in Peer, BlockRefused(p) PROVE Typed'
<1>1. "closing" \in Tasks
    BY DEF Tasks
<1> QED
    BY <1>1, DoneTyped
       DEF Typed, TypeOK, stateVars, peerVars, addVars, chainVars, netVars, BlockRefused

LEMMA BlockPanicsTyped == ASSUME Typed, NEW p \in Peer, BlockPanics(p) PROVE Typed'
<1>1. "dead" \in Tasks
    BY DEF Tasks
<1> QED
    BY <1>1, DoneTyped
       DEF Typed, TypeOK, stateVars, peerVars, addVars, chainVars, netVars, BlockPanics

LEMMA BadMessageTyped == ASSUME Typed, NEW p \in Peer, BadMessage(p) PROVE Typed'
    BY DEF Typed, TypeOK, stateVars, peerVars, taskVars, addVars, chainVars, netVars, Tasks, BadMessage

LEMMA HangUpTyped == ASSUME Typed, NEW p \in Peer, HangUp(p) PROVE Typed'
    BY DEF Typed, TypeOK, stateVars, peerVars, taskVars, addVars, chainVars, netVars, Tasks, HangUp

LEMMA KickedTyped == ASSUME Typed, NEW p \in Peer, Kicked(p) PROVE Typed'
<1>1. "closing" \in Tasks
    BY DEF Tasks
<1> QED
    BY <1>1, DoneTyped
       DEF Typed, TypeOK, stateVars, peerVars, addVars, chainVars, netVars, Kicked

LEMMA ClosingTyped == ASSUME Typed, NEW p \in Peer, Closing(p) PROVE Typed'
    BY DEF Typed, TypeOK, stateVars, peerVars, taskVars, addVars, chainVars, netVars, Tasks, Closing

LEMMA SyncAfterHandshakeTyped ==
    ASSUME Typed, NEW p \in Peer, SyncAfterHandshake(p) PROVE Typed'
<1>1. "run" \in Tasks /\ "run" # "resync"
    BY DEF Tasks
<1>2. SendSync(p) /\ task' = [task EXCEPT ![p] = "run"]
    BY DEF SyncAfterHandshake
<1>3. syncing' \subseteq Peer /\ headersFrom' \in [Peer -> 0 .. MaxHeight + 1]
    BY <1>2, SyncTyped DEF Typed
<1>4. task' \in [Peer -> Tasks] /\ \A q \in Peer : task'[q] = "resync" => task[q] = "resync"
    BY <1>1, <1>2 DEF Typed, TypeOK
<1> QED
    BY <1>3, <1>4 DEF Typed, TypeOK, stateVars, addVars, chainVars, SyncAfterHandshake

LEMMA LastTyped ==
    ASSUME TypeOK, NEW from \in 1 .. MaxHeight + 1
    PROVE  LastOf(from) \in Heights /\ (from <= world => LastOf(from) \in from .. world)
<1>1. world \in 0 .. MaxHeight /\ MaxHeight \in Nat /\ MaxHeaders \in Nat /\ MaxHeaders > 1
    BY DEF TypeOK, Heights
<1> QED
    BY <1>1 DEF LastOf, Lesser, Heights

LEMMA ContinueTyped ==
    ASSUME NEW from \in Nat, NEW to \in Heights
    PROVE  Continue(from, to) \in 0 .. MaxHeight + 1
    BY DEF Continue, Heights

LEMMA HeadersArriveTyped ==
    ASSUME TypeOK, NEW p \in Peer, NEW from \in Heights, NEW to \in Heights,
           HandleHeaders(p, from, to)
    PROVE  headers' \in Heights /\ best' \in [Peer -> Heights] /\ notified' \in BOOLEAN
    BY DEF TypeOK, HandleHeaders, Greater

LEMMA HeadersTyped == ASSUME Typed, NEW p \in Peer, Headers(p) PROVE Typed'
<1> DEFINE from == headersFrom[p]
           to   == LastOf(from)
<1>1. from \in 1 .. MaxHeight + 1
    BY DEF Typed, TypeOK, Headers, Asked
<1>2. to \in Heights /\ Continue(from, to) \in 0 .. MaxHeight + 1
    <2>1. to \in Heights
        BY <1>1, LastTyped DEF Typed
    <2> QED
        BY <1>1, <2>1, ContinueTyped
<1>3. headersFrom' \in [Peer -> 0 .. MaxHeight + 1]
    BY <1>2 DEF Headers, Typed, TypeOK
<1>4. CASE HandleHeaders(p, from, to) /\ from <= world
    <2>1. from \in Heights
        BY <1>1, <1>4 DEF Typed, TypeOK, Heights
    <2>2. headers' \in Heights /\ best' \in [Peer -> Heights] /\ notified' \in BOOLEAN
        BY <1>2, <1>4, <2>1, HeadersArriveTyped DEF Typed
    <2> QED
        BY <1>3, <1>4, <2>2
           DEF Typed, TypeOK, HandleHeaders, stateVars, peerVars, taskVars, addVars, chainVars
<1>5. CASE UNCHANGED <<stateVars, peerVars, taskVars, addVars, timerUp, notified,
                       resolver, chainVars, flaw, world>>
    BY <1>3, <1>5 DEF Typed, TypeOK, stateVars, peerVars, taskVars, addVars, chainVars
<1> QED
    BY <1>4, <1>5 DEF Headers, Asked

\* What a peer sends unasked are headers that exist.
LEMMA UnaskedTyped ==
    ASSUME Typed, NEW p \in Peer, NEW sent \in Unasked(p)
    PROVE  sent[1] \in Blocks /\ sent[2] \in Heights
<1>1. CASE p \in Flaky
    BY <1>1 DEF Unasked, Blocks, Heights
<1>2. CASE p \notin Flaky
    <2>1. sent = <<world, world>> /\ world > FirstWorld
        BY <1>2 DEF Unasked
    <2>2. world \in 0 .. MaxHeight /\ FirstWorld \in Nat
        BY PeerManagerAssumption DEF Typed, TypeOK, Heights
    <2> QED
        BY <2>1, <2>2 DEF Blocks, Heights
<1> QED
    BY <1>1, <1>2

LEMMA AnnounceTyped == ASSUME Typed, NEW p \in Peer, Announce(p) PROVE Typed'
<1>1. PICK sent \in Unasked(p) :
          /\ HandleHeaders(p, sent[1], sent[2])
          /\ headersFrom' =
                [headersFrom EXCEPT ![p] = IF Continue(sent[1], sent[2]) # 0
                                           THEN Continue(sent[1], sent[2]) ELSE @]
    BY DEF Announce
<1>2. sent[1] \in Blocks /\ sent[2] \in Heights
    BY UnaskedTyped
<1>3. sent[1] \in Heights /\ sent[1] \in Nat
    BY <1>2 DEF Blocks, Heights
<1>4. headers' \in Heights /\ best' \in [Peer -> Heights] /\ notified' \in BOOLEAN
    BY <1>1, <1>2, <1>3, HeadersArriveTyped DEF Typed
<1>5. Continue(sent[1], sent[2]) \in 0 .. MaxHeight + 1
    BY <1>2, <1>3, ContinueTyped
<1>6. headersFrom' \in [Peer -> 0 .. MaxHeight + 1]
    BY <1>1, <1>5 DEF Typed, TypeOK
<1> QED
    BY <1>1, <1>4, <1>6 DEF Typed, TypeOK, HandleHeaders, stateVars, peerVars, taskVars,
       addVars, chainVars

LEMMA HeadersPanicTyped == ASSUME Typed, NEW p \in Peer, HeadersPanic(p) PROVE Typed'
<1> DEFINE Starts == ({Asked(p)} \ {0}) \cup {sent[1] : sent \in Unasked(p)}
<1>1. best \in [Peer -> Heights] /\ headers \in 0 .. MaxHeight /\ invalid \subseteq Blocks
    BY DEF Typed, TypeOK, Heights
<1>2. \A from \in Starts : from \in 1 .. MaxHeight + 1
    <2>1. \A from \in {Asked(p)} \ {0} : from \in 1 .. MaxHeight + 1
        BY DEF Typed, TypeOK, Asked
    <2>2. \A sent \in Unasked(p) : sent[1] \in 1 .. MaxHeight + 1
        BY UnaskedTyped, PeerManagerAssumption DEF Blocks
    <2> QED
        BY <2>1, <2>2
<1>3. best' \in [Peer -> Heights] /\ invalid' \subseteq Blocks
    <2>1. CASE UNCHANGED <<best, invalid>>
        BY <1>1, <2>1
    <2>2. ASSUME NEW from \in Starts,
                 headers < LastOf(from),
                 best' = [best EXCEPT ![p] = IF from <= headers THEN headers ELSE @],
                 invalid' = invalid \cup {headers + 1}
          PROVE  best' \in [Peer -> Heights] /\ invalid' \subseteq Blocks
        <3>1. LastOf(from) \in 0 .. MaxHeight
            BY <1>2, LastTyped DEF Typed, Heights
        <3>2. headers + 1 \in Blocks /\ headers \in Heights
            BY <1>1, <2>2, <3>1 DEF Blocks, Heights
        <3> QED
            BY <1>1, <2>2, <3>2
    <2> QED
        BY <2>1, <2>2 DEF HeadersPanic
<1>4. "dead" \in Tasks /\ "dead" # "resync"
    BY DEF Tasks
<1>5. /\ task' = [task EXCEPT ![p] = "dead"]
      /\ UNCHANGED <<stateVars, asks, common, syncing, stalling, disconnected, kicked, chosen,
                     handling, reply, addVars, timerUp, notified, resolver, headers, has, tip,
                     netVars>>
    BY DEF HeadersPanic
<1> QED
    BY <1>3, <1>4, <1>5, DoneTyped DEF Typed, TypeOK, stateVars, addVars, netVars

LEMMA BlockTyped ==
    ASSUME Typed, NEW p \in Peer, NEW b \in Blocks, Block(p, b) PROVE Typed'
<1>1. addQueue' \in Seq(Event)
    <2>1. [from |-> p, block |-> b] \in Event
        BY DEF Event
    <2>2. addQueue \in Seq(Event)
        BY DEF Typed, TypeOK, Event
    <2> QED
        BY <2>1, <2>2, AtEnd DEF Block
<1>2. /\ handling' \in [Peer -> Heights] /\ task' \in [Peer -> Tasks]
      /\ asks' \in [Peer -> SUBSET Blocks]
      /\ requested' \in [Blocks -> Peer \cup {NoPeer}]
      /\ verifying' \subseteq Blocks /\ stalling' \subseteq Peer
    <2>1. b \in Heights /\ "await" \in Tasks
        BY DEF Heights, Blocks, Tasks
    <2>2. handling' \in [Peer -> Heights] /\ task' \in [Peer -> Tasks]
        BY <2>1 DEF Block, Typed, TypeOK
    <2>3. verifying' \subseteq Blocks /\ stalling' \subseteq Peer
        BY DEF Block, NowVerifying, Typed, TypeOK
    <2>4. asks' \in [Peer -> SUBSET Blocks]
        BY DEF Block, Typed, TypeOK
    <2>5. requested' \in [Blocks -> Peer \cup {NoPeer}]
        BY DEF Block, Typed, TypeOK
    <2> QED
        BY <2>2, <2>3, <2>4, <2>5
<1>3. \A q \in Peer : task'[q] = "resync" => task[q] = "resync"
    BY DEF Block, Typed, TypeOK
<1> QED
    BY <1>1, <1>2, <1>3 DEF Block, Typed, TypeOK, Event, chainVars, netVars

LEMMA BlockAddedTyped == ASSUME Typed, NEW p \in Peer, BlockAdded(p) PROVE Typed'
<1>1. "run" \in Tasks /\ "run" # "resync"
    BY DEF Tasks
<1>2. verifying' \subseteq Blocks
    BY DEF BlockAdded, Typed, TypeOK
<1> QED
    BY <1>1, <1>2, DoneTyped DEF BlockAdded, Typed, TypeOK, peerVars, addVars, chainVars, netVars

LEMMA PeerDisconnectedTyped == ASSUME Typed, NEW p \in Peer, PeerDisconnected(p) PROVE Typed'
<1>1. /\ "gone" \in Tasks /\ "resync" \in Tasks
      /\ requested' \in [Blocks -> Peer \cup {NoPeer}] /\ asks' \in [Peer -> SUBSET Blocks]
      /\ peers' \subseteq Peer
    BY DEF PeerDisconnected, Released, Typed, TypeOK, Tasks
<1>2. CASE /\ syncPeer' = IF syncPeer = p THEN NoPeer ELSE syncPeer
           /\ task' = [task EXCEPT ![p] = "gone"]
           /\ notified' = TRUE
           /\ UNCHANGED chosen
    BY <1>1, <1>2 DEF PeerDisconnected, Typed, TypeOK, addVars, chainVars, netVars
<1>3. CASE /\ syncPeer' \in peers'
           /\ chosen' = [chosen EXCEPT ![p] = syncPeer']
           /\ task' = [task EXCEPT ![p] = "resync"]
           /\ UNCHANGED notified
    BY <1>1, <1>3 DEF PeerDisconnected, Typed, TypeOK, addVars, chainVars, netVars
<1> QED
    BY <1>2, <1>3 DEF PeerDisconnected

LEMMA SyncAfterDisconnectTyped ==
    ASSUME Typed, NEW p \in Peer, SyncAfterDisconnect(p) PROVE Typed'
<1>1. "gone" \in Tasks /\ "gone" # "resync"
    BY DEF Tasks
<1>2. chosen[p] \in Peer /\ SendSync(chosen[p])
    BY DEF Typed, SyncAfterDisconnect
<1>3. syncing' \subseteq Peer /\ headersFrom' \in [Peer -> 0 .. MaxHeight + 1]
    BY <1>2, SyncTyped DEF Typed
<1>4. /\ chosen' \in [Peer -> Peer \cup {NoPeer}]
      /\ \A q \in Peer \ {p} : chosen'[q] = chosen[q] /\ task'[q] = task[q]
      /\ task'[p] = "gone"
    <2>1. chosen \in [Peer -> Peer \cup {NoPeer}] /\ task \in [Peer -> Tasks]
        BY DEF Typed, TypeOK
    <2>2. chosen' = [chosen EXCEPT ![p] = NoPeer] /\ task' = [task EXCEPT ![p] = "gone"]
        BY DEF SyncAfterDisconnect
    <2> QED
        BY <2>1, <2>2
<1>5. task' \in [Peer -> Tasks]
    BY <1>1, DoneTyped DEF Typed, SyncAfterDisconnect
<1>6. \A q \in Peer : task'[q] = "resync" => chosen'[q] \in Peer
    BY <1>1, <1>4 DEF Typed
<1>7. UNCHANGED <<stateVars, asks, best, common, stalling, disconnected, kicked, handling, reply,
                  addVars, timerUp, resolver, chainVars, flaw, world>> /\ notified' = TRUE
    BY DEF SyncAfterDisconnect
<1> QED
    BY <1>3, <1>4, <1>5, <1>6, <1>7 DEF Typed, TypeOK, stateVars, addVars, chainVars

LEMMA DisconnectTyped ==
    ASSUME TypeOK, NEW p \in Peer, Disconnect(p)
    PROVE  disconnected' \subseteq Peer /\ kicked' \subseteq Peer
    BY DEF TypeOK, Disconnect

LEMMA StallTimerTyped == ASSUME Typed, NEW p \in Peer, StallTimer(p) PROVE Typed'
<1>1. Disconnect(p) /\ timerUp' \in BOOLEAN
    BY DEF StallTimer
<1>2. disconnected' \subseteq Peer /\ kicked' \subseteq Peer
    BY <1>1, DisconnectTyped DEF Typed
<1> QED
    BY <1>1, <1>2 DEF Typed, TypeOK, stateVars, addVars, chainVars, netVars, StallTimer

LEMMA MineTyped == ASSUME Typed, Mine PROVE Typed'
<1>1. world' \in Heights
    BY DEF Typed, TypeOK, Heights, Mine
<1> QED
    BY <1>1 DEF Typed, TypeOK, stateVars, peerVars, taskVars, addVars, chainVars, Mine

------------------------------------------------------------------------------
(* Types are kept by the resolver.                                         *)

LEMMA IdleTyped == Idle \in Resolvers /\ Idle.items = {} /\ Idle.saved = NoBlock
    BY DEF Idle, Resolvers, Heights, NoBlock

LEMMA ResolverTyped ==
    ASSUME TypeOK
    PROVE  /\ [resolver EXCEPT !.at = "attaching"] \in Resolvers
           /\ [resolver EXCEPT !.at = "dead"] \in Resolvers
           /\ [resolver EXCEPT !.items = {}] \in Resolvers
           /\ [resolver EXCEPT !.saved = NoBlock] \in Resolvers
<1>1. resolver \in Resolvers /\ NoBlock \in Heights
    BY DEF TypeOK, Heights, NoBlock
<1> QED
    BY <1>1 DEF Resolvers

LEMMA ResolveHeadersTyped == ASSUME Typed, ResolveHeaders PROVE Typed'
<1>1. resolver' \in Resolvers
    BY IdleTyped DEF ResolveHeaders, Typed, TypeOK, Resolvers
<1> QED
    BY <1>1 DEF ResolveHeaders, Typed, TypeOK, stateVars, peerVars, taskVars, addVars, chainVars,
       netVars

LEMMA PassOverTyped == ASSUME Typed, NEW p \in Peer, PassOver(p) PROVE Typed'
<1>1. resolver' \in Resolvers
    BY DEF PassOver, Typed, TypeOK, Resolvers
<1>2. syncing' \subseteq Peer /\ headersFrom' \in [Peer -> 0 .. MaxHeight + 1]
    BY SyncTyped DEF PassOver, Typed, TypeOK
<1> QED
    BY <1>1, <1>2 DEF PassOver, Typed, TypeOK, stateVars, taskVars, addVars, chainVars

\* The walk starts at a height and stays among the blocks up to the best one of the peer.
LEMMA WalkTyped ==
    ASSUME TypeOK, NEW p \in Peer
    PROVE  /\ WalkFrom(p) \in Heights /\ WalkTo(p) \in Heights
           /\ Items(p) \subseteq Blocks /\ Walked(p) \subseteq Blocks
           /\ Items(p) \cap has = {} /\ \A b \in Items(p) : Free(b)
<1>1. best[p] \in 0 .. MaxHeight /\ common[p] \in 0 .. MaxHeight \cup {-1} /\ tip \in 0 .. MaxHeight
    BY DEF TypeOK, Heights
<1>2. WalkFrom(p) \in 0 .. best[p]
    BY <1>1 DEF WalkFrom, Lesser
<1> DEFINE n == Lesser(best[p] - WalkFrom(p), Window + 1) + PerPeer - 1
           far == WalkFrom(p) + PerPeer * (n \div PerPeer)
<1>3. n \in Nat
    BY <1>1, <1>2 DEF Lesser
<1>4. PerPeer * (n \div PerPeer) \in Nat
    BY <1>3, Steps
<1> HIDE DEF n
<1>5. far \in Nat
    BY <1>2, <1>4
<1>6. WalkTo(p) = Lesser(best[p], far)
    BY DEF WalkTo, n
<1>7. WalkTo(p) \in 0 .. best[p]
    BY <1>1, <1>5, <1>6 DEF Lesser
<1>8. WalkFrom(p) + 1 .. WalkTo(p) \subseteq Blocks
    BY <1>1, <1>2, <1>7 DEF Blocks
<1>9. Lesser(WalkTo(p), WalkFrom(p) + Window) <= WalkTo(p)
    BY <1>2, <1>7 DEF Lesser
<1>10. Lesser(WalkTo(p), WalkFrom(p) + Window) \in Int
    BY <1>2, <1>7 DEF Lesser
<1>11. WalkFrom(p) + 1 .. Lesser(WalkTo(p), WalkFrom(p) + Window) \subseteq Blocks
    BY <1>2, <1>7, <1>8, <1>9, <1>10
<1>12. Items(p) \subseteq Blocks /\ Items(p) \cap has = {} /\ \A b \in Items(p) : Free(b)
    BY <1>11 DEF Items
<1>13. Walked(p) \subseteq Blocks
    BY <1>8 DEF Walked
<1> QED
    BY <1>1, <1>2, <1>7, <1>12, <1>13 DEF Heights

\* What is chosen for a peer fits.
LEMMA ItemsFit ==
    ASSUME TypeOK, NEW p \in Peer, Room(p) > 0
    PROVE  Cardinality(asks[p]) + Cardinality(Items(p)) <= PerPeer
<1>1. asks[p] \subseteq Blocks /\ Items(p) \subseteq Blocks
    BY WalkTyped DEF TypeOK
<1>2. Cardinality(asks[p]) \in Nat /\ Cardinality(Items(p)) \in Nat
    BY <1>1, BlocksFinite
<1>3. Room(p) \in Nat /\ PerPeer = Room(p) + Cardinality(asks[p])
    BY <1>2 DEF Room
<1> DEFINE window == {b \in WalkFrom(p) + 1 .. Lesser(WalkTo(p), WalkFrom(p) + Window) :
                         Free(b) /\ b \notin has}
<1>4. Items(p) = {b \in window : Cardinality({x \in window : x < b}) < Room(p)}
    BY DEF Items
<1>5. IsFiniteSet(window)
    <2>1. WalkFrom(p) + 1 \in Int /\ Lesser(WalkTo(p), WalkFrom(p) + Window) \in Int
        BY WalkTyped DEF Heights, Lesser
    <2>2. IsFiniteSet(WalkFrom(p) + 1 .. Lesser(WalkTo(p), WalkFrom(p) + Window))
        BY <2>1, FS_Interval
    <2> QED
        BY <2>2, FS_Subset
<1> HIDE DEF window
<1>6. \A b \in Items(p) : Cardinality({x \in Items(p) : x < b}) < Room(p)
    <2> TAKE b \in Items(p)
    <2>1. Cardinality({x \in window : x < b}) < Room(p)
        BY <1>4
    <2>2. IsFiniteSet({x \in window : x < b})
        BY <1>5, FS_Subset
    <2>3. {x \in Items(p) : x < b} \in SUBSET {x \in window : x < b}
        BY <1>4
    <2>4. /\ Cardinality({x \in Items(p) : x < b}) <= Cardinality({x \in window : x < b})
          /\ Cardinality({x \in Items(p) : x < b}) \in Nat
          /\ Cardinality({x \in window : x < b}) \in Nat
        BY <2>2, <2>3, FS_Subset, FS_CardinalityType
    <2> QED
        BY <1>3, <2>1, <2>4
<1>7. Cardinality(Items(p)) <= Room(p)
    BY <1>1, <1>3, <1>6, FewBelow
<1> QED
    BY <1>2, <1>3, <1>7

\* What get_next_blocks finds for a peer.
Found(p, saved) ==
    [at |-> "pick", list |-> resolver.list \ {p}, peer |-> p, items |-> Items(p),
     saved |-> saved, staller |-> Staller(p)]

LEMMA NextBlocksFound ==
    ASSUME TypeOK, NEW p \in Peer, GetNextBlocks(p)
    PROVE  \/ resolver' = [Idle EXCEPT !.list = resolver.list \ {p}]
           \/ \E saved \in Heights :
                 /\ saved # NoBlock => saved \in has
                 /\ Found(p, saved) \in Resolvers
                 /\ resolver' = GoOn(Found(p, saved))
<1>1. Walked(p) \subseteq Blocks /\ Blocks \subseteq Nat /\ Blocks \subseteq Heights
    BY WalkTyped DEF Blocks, Heights
<1>2. Staller(p) \in Peer \cup {NoPeer}
    <2> DEFINE waiting == {b \in Walked(p) : requested[b] # NoPeer}
    <2>1. CASE waiting # {}
        <3>1. Lowest(waiting) \in Blocks
            BY <1>1, <2>1, LowestIs
        <3> QED
            BY <3>1 DEF TypeOK, Staller
    <2>2. CASE waiting = {}
        BY <2>2 DEF Staller
    <2> QED
        BY <2>1, <2>2
<1> DEFINE saved == {b \in Walked(p) : Free(b) /\ b \notin invalid /\ b \in has}
           one == IF saved = {} THEN NoBlock ELSE Lowest(saved)
<1>3. one \in Heights /\ (one # NoBlock => one \in has)
    <2>1. CASE saved # {}
        <3>1. Lowest(saved) \in saved
            BY <1>1, <2>1, LowestIs
        <3> QED
            BY <1>1, <2>1, <3>1
    <2>2. CASE saved = {}
        BY <2>2 DEF NoBlock, Heights
    <2> QED
        BY <2>1, <2>2
<1>4. Found(p, one) \in Resolvers
    <2>1. resolver.list \ {p} \in SUBSET Peer /\ Items(p) \subseteq Blocks
        BY WalkTyped DEF TypeOK, Resolvers
    <2> HIDE DEF one
    <2> QED
        BY <1>2, <1>3, <2>1 DEF Found, Resolvers
<1>5. resolver' = [Idle EXCEPT !.list = resolver.list \ {p}] \/ resolver' = GoOn(Found(p, one))
    BY DEF GetNextBlocks, Found
<1> QED
    BY <1>3, <1>4, <1>5

LEMMA GetNextBlocksTyped == ASSUME Typed, NEW p \in Peer, GetNextBlocks(p) PROVE Typed'
<1>1. resolver' \in Resolvers
    <2>1. [Idle EXCEPT !.list = resolver.list \ {p}] \in Resolvers
        BY IdleTyped DEF Typed, TypeOK, Resolvers
    <2> QED
        BY <2>1, NextBlocksFound, GoOnTyped DEF Typed
<1>2. common' \in [Peer -> Heights \cup {-1}]
    <2>1. Lesser(tip, WalkTo(p)) \in Heights /\ WalkFrom(p) \in Heights
        BY WalkTyped DEF Lesser, Typed, TypeOK
    <2> QED
        BY <2>1 DEF GetNextBlocks, Typed, TypeOK
<1> QED
    BY <1>1, <1>2 DEF GetNextBlocks, Typed, TypeOK, stateVars, taskVars, addVars, chainVars, netVars

LEMMA AttachSentTyped == ASSUME Typed, OnDiskFound, AttachSent PROVE Typed'
<1>1. resolver' \in Resolvers
    BY ResolverTyped DEF AttachSent, Typed
<1>2. addQueue' \in Seq(Event)
    <2>1. [from |-> NoPeer, block |-> resolver.saved] \in Event
        BY DEF AttachSent, OnDiskFound, Typed, TypeOK, Event
    <2>2. addQueue \in Seq(Event)
        BY DEF Typed, TypeOK, Event
    <2>3. Append(addQueue, [from |-> NoPeer, block |-> resolver.saved]) \in Seq(Event)
        BY <2>1, <2>2, AtEnd
    <2> QED
        BY <2>2, <2>3 DEF AttachSent
<1> QED
    BY <1>1, <1>2 DEF AttachSent, Typed, TypeOK, Event, stateVars, peerVars, taskVars, chainVars,
       netVars

LEMMA AttachDoneTyped == ASSUME Typed, AttachDone PROVE Typed'
<1>2. resolver' \in Resolvers
    BY ResolverTyped, GoOnTyped DEF AttachDone, Typed
<1>3. reply' \in [Peer \cup {NoPeer} -> {"none", "ok", "err"}]
    BY DEF AttachDone, Typed, TypeOK
<1> QED
    BY <1>2, <1>3 DEF AttachDone, Typed, TypeOK, stateVars, peerVars, addVars, chainVars, netVars

\* The blocks of which get_block requests those that are still wanted.
Taken == {b \in resolver.items : requested[b] = NoPeer /\ b \notin verifying \cup has}

\* The books of one block and of one peer after get_block.
LEMMA GetBlockBooks ==
    ASSUME Typed, GetBlock
    PROVE  \/ UNCHANGED <<requested, asks>>
           \/ /\ Gives(resolver.peer) /\ Taken \subseteq Blocks
              /\ requested' \in [Blocks -> Peer \cup {NoPeer}] /\ asks' \in [Peer -> SUBSET Blocks]
              /\ \A b \in Blocks : requested'[b] = IF b \in Taken THEN resolver.peer ELSE requested[b]
              /\ \A p \in Peer : asks'[p] = IF p = resolver.peer THEN asks[p] \cup Taken ELSE asks[p]
<1>1. resolver.peer \in Peer \cup {NoPeer} /\ Taken \subseteq Blocks
    BY DEF Typed, TypeOK, Resolvers, Taken
<1>2. requested \in [Blocks -> Peer \cup {NoPeer}] /\ asks \in [Peer -> SUBSET Blocks]
    BY DEF Typed, TypeOK
<1>3. CASE Gives(resolver.peer)
    <2>1. requested' = [b \in Blocks |-> IF b \in Taken THEN resolver.peer ELSE requested[b]]
        BY <1>3 DEF GetBlock, Taken
    <2>2. asks' = [asks EXCEPT ![resolver.peer] = @ \cup Taken]
        BY <1>3 DEF GetBlock, Taken
    <2> HIDE DEF Taken
    <2>3. requested' \in [Blocks -> Peer \cup {NoPeer}]
        BY <1>1, <1>2, <2>1
    <2>4. asks' \in [Peer -> SUBSET Blocks]
        BY <1>1, <1>2, <2>2
    <2> QED
        BY <1>1, <1>2, <1>3, <2>1, <2>2, <2>3, <2>4
<1>4. CASE ~Gives(resolver.peer)
    BY <1>4 DEF GetBlock
<1> QED
    BY <1>3, <1>4

LEMMA GetBlockTyped == ASSUME Typed, GetBlock PROVE Typed'
<1>1. resolver' \in Resolvers
    BY ResolverTyped, GoOnTyped DEF GetBlock, Typed
<1>2. requested' \in [Blocks -> Peer \cup {NoPeer}] /\ asks' \in [Peer -> SUBSET Blocks]
    BY GetBlockBooks DEF Typed, TypeOK
<1> QED
    BY <1>1, <1>2 DEF GetBlock, Typed, TypeOK, taskVars, addVars, chainVars, netVars

LEMMA PeerStallingTyped == ASSUME Typed, PeerStalling PROVE Typed'
<1>1. resolver' \in Resolvers
    <2>1. [resolver EXCEPT !.at = "dead"] \in Resolvers
        BY DEF Typed, TypeOK, Resolvers
    <2>2. [Idle EXCEPT !.list = resolver.list] \in Resolvers
        BY IdleTyped DEF Typed, TypeOK, Resolvers
    <2> QED
        BY <2>1, <2>2 DEF PeerStalling
<1>2. stalling' \subseteq Peer /\ disconnected' \subseteq Peer /\ kicked' \subseteq Peer
    BY DisconnectTyped DEF PeerStalling, Typed, TypeOK
<1> QED
    BY <1>1, <1>2 DEF PeerStalling, Typed, TypeOK, stateVars, addVars, chainVars, netVars

------------------------------------------------------------------------------
(* Types are kept by the add thread.                                       *)

\* The run ends in front of the first block above b that is not ready.
LEMMA RunEnds ==
    ASSUME TypeOK, NEW b \in Blocks, NEW onDisk \in SUBSET Blocks, b > tip
    PROVE  \/ RunThrough(b, onDisk) = {}
           \/ \E top \in b .. MaxHeight :
                 RunThrough(b, onDisk) = tip + 1 .. top /\ tip + 1 .. top \subseteq onDisk \ invalid
<1> DEFINE ready == onDisk \ invalid
           Ends(t) == b .. t \subseteq ready /\ t + 1 \notin ready
<1> SUFFICES ASSUME tip + 1 .. b \subseteq ready
             PROVE  \E top \in b .. MaxHeight :
                       /\ RunThrough(b, onDisk) = tip + 1 .. top
                       /\ tip + 1 .. top \subseteq ready
    BY DEF RunThrough
<1>1. b \in 1 .. MaxHeight /\ tip \in 0 .. MaxHeight /\ ready \subseteq 1 .. MaxHeight
    BY DEF Blocks, TypeOK, Heights
<1> DEFINE last == {t \in Nat : t >= b /\ t + 1 \notin ready}
<1>2. MaxHeight \in last
    BY <1>1
<1>3. PICK m \in last : \A t \in last : m <= t
    BY <1>2, Least
<1>4. m \in b .. MaxHeight
    BY <1>1, <1>2, <1>3
<1>5. b .. m \subseteq ready
    <2> SUFFICES ASSUME NEW k \in b .. m PROVE k \in ready
        OBVIOUS
    <2>1. CASE k = b
        BY <1>1, <2>1
    <2>2. CASE k # b
        <3>1. k - 1 \in Nat /\ k - 1 >= b /\ k - 1 < m
            BY <1>1, <1>4, <2>2
        <3>2. k - 1 \notin last
            BY <1>3, <1>4, <3>1
        <3> QED
            BY <3>1, <3>2
    <2> QED
        BY <2>1, <2>2
<1>6. Ends(m)
    BY <1>3, <1>5
<1> DEFINE top == CHOOSE t \in b .. MaxHeight : Ends(t)
<1>7. top \in b .. MaxHeight /\ Ends(top)
    BY <1>4, <1>6
<1>8. RunThrough(b, onDisk) = tip + 1 .. top
    BY DEF RunThrough
<1> HIDE DEF top
<1>9. tip + 1 .. top \subseteq ready
    <2> SUFFICES ASSUME NEW k \in tip + 1 .. top PROVE k \in ready
        OBVIOUS
    <2>1. k \in tip + 1 .. b \/ k \in b .. top
        BY <1>1, <1>7
    <2> QED
        BY <1>7, <2>1
<1> QED
    BY <1>7, <1>8, <1>9

LEMMA Connects ==
    ASSUME Typed, NEW b \in Blocks, NEW onDisk \in SUBSET Blocks, has \subseteq onDisk,
           b > tip, ConnectBest(b, onDisk)
    PROVE  /\ tip' \in Heights /\ 1 .. tip' \subseteq onDisk
           /\ invalid \subseteq invalid' /\ invalid' \subseteq Blocks
<1> DEFINE run == RunThrough(b, onDisk)
           flawed == Flawed(b, onDisk)
<1>1. b \in 1 .. MaxHeight /\ tip \in 0 .. MaxHeight /\ 1 .. tip \subseteq onDisk
    BY DEF Blocks, Typed, TypeOK, Heights
<1>2. flawed \subseteq run
    BY DEF Flawed
<1>3. /\ tip' = IF flawed = {} THEN tip + Cardinality(run) ELSE Lowest(flawed) - 1
      /\ invalid' = invalid \cup {x \in flawed : x = Lowest(flawed) /\ flaw[x] = "inputs"}
    BY DEF ConnectBest
<1>4. CASE run = {}
    <2>1. tip' = tip
        BY <1>1, <1>2, <1>3, <1>4, FS_EmptySet
    <2>2. invalid' = invalid
        BY <1>2, <1>3, <1>4
    <2> QED
        BY <1>1, <2>1, <2>2 DEF Typed, TypeOK
<1>5. ASSUME NEW top \in b .. MaxHeight, run = tip + 1 .. top, run \subseteq onDisk
      PROVE  /\ tip' \in tip .. top
             /\ invalid \subseteq invalid' /\ invalid' \subseteq Blocks
    <2>1. flawed \subseteq Blocks
        BY <1>2, <1>5
    <2>2. invalid \subseteq invalid' /\ invalid' \subseteq Blocks
        BY <1>3, <2>1 DEF Typed, TypeOK
    <2>3. CASE flawed = {}
        <3>1. top \in Int /\ tip \in Int /\ tip + 1 <= top
            BY <1>1
        <3>2. Cardinality(run) = top - tip
            BY <1>5, <3>1, FS_Interval
        <3> QED
            BY <1>1, <1>3, <2>2, <2>3, <3>1, <3>2
    <2>4. CASE flawed # {}
        <3>1. flawed \subseteq Nat
            BY <2>1 DEF Blocks
        <3>2. Lowest(flawed) \in flawed
            BY <2>4, <3>1, LowestIs
        <3>3. Lowest(flawed) \in tip + 1 .. top
            BY <1>2, <1>5, <3>2
        <3> QED
            BY <1>1, <1>3, <2>2, <2>4, <3>3
    <2> QED
        BY <2>3, <2>4
<1>6. CASE run # {}
    <2>1. PICK top \in b .. MaxHeight : run = tip + 1 .. top /\ run \subseteq onDisk
        BY <1>1, <1>6, RunEnds DEF Typed
    <2>2. /\ tip' \in tip .. top
          /\ invalid \subseteq invalid' /\ invalid' \subseteq Blocks
        BY <1>5, <2>1
    <2>3. 1 .. tip' \subseteq (1 .. tip) \cup (tip + 1 .. top)
        BY <1>1, <2>2
    <2>4. tip' \in Heights
        BY <1>1, <2>1, <2>2 DEF Heights
    <2> QED
        BY <1>1, <2>1, <2>2, <2>3, <2>4
<1> QED
    BY <1>4, <1>6

LEMMA AnswerTyped ==
    ASSUME TypeOK, addQueue # <<>>, NEW p \in Peer \cup {NoPeer}, NEW result \in {"ok", "err"},
           Answer(p, result)
    PROVE  /\ addQueue' \in Seq(Event) /\ addQueue' = Tail(addQueue) /\ addUp' = addUp
           /\ reply' \in [Peer \cup {NoPeer} -> {"none", "ok", "err"}]
<1>1. addQueue \in Seq(Event)
    BY DEF TypeOK, Event
<1> QED
    BY <1>1, Behead DEF TypeOK, Answer

LEMMA PanicsTyped ==
    ASSUME TypeOK, AddPanics
    PROVE  /\ addQueue' \in Seq(Event) /\ addUp' = FALSE /\ addQueue' = <<>>
           /\ reply' \in [Peer \cup {NoPeer} -> {"none", "ok", "err"}]
    BY DEF AddPanics, TypeOK

LEMMA Results ==
    ASSUME NEW b, NEW onDisk
    PROVE  Result(b, onDisk) \in {"ok", "err", "panic"}
    BY DEF Result

\* What AddBlock does with the block p has sent.
LEMMA AddBlockCases ==
    ASSUME Typed, AddBlock, NEW p, NEW b, p = Head(addQueue).from, b = Head(addQueue).block
    PROVE  /\ addUp /\ addQueue # <<>> /\ p \in Peer /\ b \in Blocks
           /\ \/ has' = has /\ tip' = tip /\ invalid' = invalid \cup {b} /\ Answer(p, "err")
              \/ /\ has' = has \cup {b}
                 /\ tip' \in Heights /\ 1 .. tip' \subseteq has'
                 /\ invalid \subseteq invalid' /\ invalid' \subseteq Blocks
                 /\ AddPanics \/ (b \notin has /\ \E result \in {"ok", "err"} : Answer(p, result))
<1>1. addUp /\ addQueue # <<>> /\ p \in Peer /\ b \in Blocks
    <2>1. Head(addQueue) \in Event
        BY Behead DEF AddBlock, Typed, TypeOK, Event
    <2> QED
        BY <2>1 DEF AddBlock, Event
<1>2. CASE flaw[b] = "body"
    BY <1>1, <1>2 DEF AddBlock, Reject
<1>3. CASE flaw[b] # "body"
    <2>1. has' = has \cup {b}
        BY <1>3 DEF AddBlock
    <2>2. IF b \in has \/ Result(b, has') = "panic" THEN AddPanics ELSE Answer(p, Result(b, has'))
        BY <1>3 DEF AddBlock
    <2>3. AddPanics \/ (b \notin has /\ \E result \in {"ok", "err"} : Answer(p, result))
        BY <2>2, Results
    <2>4. CASE b \in has
        <3>1. tip' = tip /\ invalid' = invalid
            BY <1>3, <2>4 DEF AddBlock
        <3> QED
            BY <1>1, <2>1, <2>3, <3>1 DEF Typed, TypeOK
    <2>5. CASE b \notin has
        <3>1. ConnectBest(b, has')
            BY <1>3, <2>5 DEF AddBlock
        <3>2. has' \in SUBSET Blocks /\ has \subseteq has'
            BY <1>1, <2>1 DEF Typed, TypeOK
        <3>3. b > tip
            BY <1>1, <2>5 DEF Typed, TypeOK, Heights, Blocks
        <3> QED
            BY <1>1, <2>1, <2>3, <3>1, <3>2, <3>3, Connects
    <2> QED
        BY <2>4, <2>5
<1> QED
    BY <1>2, <1>3

LEMMA AddBlockTyped == ASSUME Typed, AddBlock PROVE Typed'
<1> DEFINE p == Head(addQueue).from
           b == Head(addQueue).block
<1>1. /\ addUp /\ addQueue # <<>> /\ p \in Peer /\ b \in Blocks
      /\ \/ has' = has /\ tip' = tip /\ invalid' = invalid \cup {b} /\ Answer(p, "err")
         \/ /\ has' = has \cup {b}
            /\ tip' \in Heights /\ 1 .. tip' \subseteq has'
            /\ invalid \subseteq invalid' /\ invalid' \subseteq Blocks
            /\ AddPanics \/ (b \notin has /\ \E result \in {"ok", "err"} : Answer(p, result))
    BY AddBlockCases
<1> HIDE DEF p, b
<1>2. has' \subseteq Blocks /\ tip' \in Heights /\ 1 .. tip' \subseteq has' /\ invalid' \subseteq Blocks
    BY <1>1 DEF Typed, TypeOK
<1>3. /\ addQueue' \in Seq(Event) /\ addUp' \in BOOLEAN
      /\ reply' \in [Peer \cup {NoPeer} -> {"none", "ok", "err"}]
    <2>1. TypeOK
        BY DEF Typed
    <2>2. CASE AddPanics
        BY <2>1, <2>2, PanicsTyped
    <2>3. ASSUME NEW result \in {"ok", "err"}, Answer(p, result)
          PROVE  /\ addQueue' \in Seq(Event) /\ addUp' \in BOOLEAN
                 /\ reply' \in [Peer \cup {NoPeer} -> {"none", "ok", "err"}]
        <3>1. p \in Peer \cup {NoPeer} /\ addUp \in BOOLEAN
            BY <1>1, <2>1 DEF TypeOK
        <3> QED
            BY <1>1, <2>1, <2>3, <3>1, AnswerTyped
    <2> QED
        BY <1>1, <2>2, <2>3
<1> QED
    BY <1>2, <1>3 DEF AddBlock, Typed, TypeOK, Event, stateVars, peerVars, netVars

\* What Attach does.
LEMMA AttachCases ==
    ASSUME Typed, Attach
    PROVE  /\ addUp /\ addQueue # <<>> /\ Head(addQueue).from = NoPeer
           /\ Head(addQueue).block \in Blocks
           /\ tip' \in Heights /\ 1 .. tip' \subseteq has
           /\ invalid \subseteq invalid' /\ invalid' \subseteq Blocks
           /\ (AddPanics /\ UNCHANGED notified) \/ (Answer(NoPeer, "ok") /\ notified' = TRUE)
<1> DEFINE b == Head(addQueue).block
<1>1. addUp /\ addQueue # <<>> /\ Head(addQueue).from = NoPeer /\ b \in Blocks
    <2>1. Head(addQueue) \in Event
        BY Behead DEF Attach, Typed, TypeOK, Event
    <2> QED
        BY <2>1 DEF Attach, Event
<1>2. (AddPanics /\ UNCHANGED notified) \/ (Answer(NoPeer, "ok") /\ notified' = TRUE)
    BY DEF Attach
<1>3. CASE b > tip
    <2>1. b \in 1 .. MaxHeight /\ tip \in 0 .. MaxHeight
        BY <1>1 DEF Typed, TypeOK, Heights, Blocks
    <2>2. ConnectBest(b, has)
        BY <1>3, <2>1 DEF Attach
    <2>3. has \in SUBSET Blocks
        BY DEF Typed, TypeOK
    <2> QED
        BY <1>1, <1>2, <1>3, <2>2, <2>3, Connects
<1>4. CASE ~(b > tip)
    <2>1. tip' = tip /\ invalid' = invalid
        BY <1>4 DEF Attach
    <2> QED
        BY <1>1, <1>2, <2>1 DEF Typed, TypeOK
<1> QED
    BY <1>3, <1>4

LEMMA AttachTyped == ASSUME Typed, Attach PROVE Typed'
<1>1. /\ addQueue # <<>>
      /\ tip' \in Heights /\ 1 .. tip' \subseteq has /\ invalid' \subseteq Blocks
      /\ (AddPanics /\ UNCHANGED notified) \/ (Answer(NoPeer, "ok") /\ notified' = TRUE)
    BY AttachCases
<1>2. /\ addQueue' \in Seq(Event) /\ addUp' \in BOOLEAN /\ notified' \in BOOLEAN
      /\ reply' \in [Peer \cup {NoPeer} -> {"none", "ok", "err"}]
    BY <1>1, AnswerTyped, PanicsTyped DEF Typed, TypeOK
<1>3. UNCHANGED <<stateVars, peerVars, task, kicked, chosen, handling, timerUp, resolver,
                  headers, has, netVars>>
    BY DEF Attach
<1> QED
    BY <1>1, <1>2, <1>3 DEF Typed, TypeOK, Event, stateVars, peerVars, netVars

------------------------------------------------------------------------------
(* The books on requests.                                                  *)

LEMMA InitBooks == Init => Books
<1> SUFFICES ASSUME Init PROVE Books
    OBVIOUS
<1>1. \A b \in Blocks, p \in Peer : requested[b] # p
    BY DEF Init
<1>2. \A p \in Peer : task[p] = "new" /\ asks[p] = {} /\ Cardinality(asks[p]) = 0
    BY FS_EmptySet DEF Init
<1>3. resolver.items = {}
    BY DEF Init, Idle
<1> QED
    BY <1>1, <1>2, <1>3 DEF Books

\* Tasks move on, the resolver goes on, and nobody is asked or released.
LEMMA BooksKept ==
    ASSUME Books, UNCHANGED <<requested, asks>>, disconnected \subseteq disconnected',
           \A p \in Peer : Handshaken(p) => Handshaken(p)',
           \A p \in Peer : task'[p] \in {"resync", "gone"} => task[p] \in {"resync", "gone"},
           \A p \in Peer : task'[p] = "cleanup" => p \in disconnected',
           \/ resolver'.items = {}
           \/ resolver'.items = resolver.items /\ resolver'.peer = resolver.peer
    PROVE  Books'
<1>1. \A p \in Peer : asks'[p] # {} => Handshaken(p)' /\ task'[p] \notin {"resync", "gone"}
    BY DEF Books
<1>2. \A p \in Peer : task'[p] \in {"cleanup", "resync", "gone"} => p \in disconnected'
    BY DEF Books
<1>3. resolver'.items # {} =>
          /\ resolver'.peer \in Peer
          /\ Handshaken(resolver.peer)'
          /\ Cardinality(asks'[resolver'.peer]) + Cardinality(resolver'.items) <= PerPeer
    BY DEF Books, Handshaken
<1> QED
    BY <1>1, <1>2, <1>3 DEF Books

\* ... by the steps of a task.
LEMMA TaskBooks ==
    ASSUME Typed, Books, NEW p \in Peer,
           \/ ConnectToPeer(p) \/ HandshakeFails(p) \/ Handshake(p) \/ HandshakeComplete(p)
           \/ SyncAfterHandshake(p) \/ BlockAdded(p) \/ BlockRefused(p) \/ BlockPanics(p)
           \/ BadMessage(p) \/ Kicked(p) \/ Closing(p) \/ HeadersPanic(p) \/ SyncAfterDisconnect(p)
    PROVE  Books'
<1>1. UNCHANGED <<requested, asks, resolver>>
    BY DEF ConnectToPeer, HandshakeFails, Handshake, HandshakeComplete, SyncAfterHandshake,
       BlockAdded, BlockRefused, BlockPanics, BadMessage, Kicked, Closing, HeadersPanic,
       SyncAfterDisconnect, stateVars, peerVars
<1>2. disconnected' = disconnected \/ (Closing(p) /\ disconnected' = disconnected \cup {p})
    BY DEF ConnectToPeer, HandshakeFails, Handshake, HandshakeComplete, SyncAfterHandshake,
       BlockAdded, BlockRefused, BlockPanics, BadMessage, Kicked, Closing, HeadersPanic,
       SyncAfterDisconnect, peerVars
<1>3. \E label \in Tasks :
          /\ task' = [task EXCEPT ![p] = label]
          /\ Handshaken(p) => label \notin {"new", "handshake", "refused"}
          /\ label \in {"resync", "gone"} => task[p] = "resync"
          /\ label = "cleanup" => Closing(p)
    BY DEF ConnectToPeer, HandshakeFails, Handshake, HandshakeComplete, SyncAfterHandshake,
       BlockAdded, BlockRefused, BlockPanics, BadMessage, Kicked, Closing, HeadersPanic,
       SyncAfterDisconnect, Handshaken, Tasks
<1>4. PICK label \in Tasks :
          /\ task' = [task EXCEPT ![p] = label]
          /\ Handshaken(p) => label \notin {"new", "handshake", "refused"}
          /\ label \in {"resync", "gone"} => task[p] = "resync"
          /\ label = "cleanup" => Closing(p)
    BY <1>3
<1>5. /\ task'[p] = label
      /\ \A q \in Peer \ {p} : task'[q] = task[q]
    BY <1>4 DEF Typed, TypeOK
<1>6. Closing(p) => p \in disconnected'
    BY DEF Closing
<1>7. \A q \in Peer : Handshaken(q) => Handshaken(q)'
    BY <1>4, <1>5 DEF Handshaken
<1>8. \A q \in Peer : task'[q] = "cleanup" => q \in disconnected'
    BY <1>2, <1>4, <1>5, <1>6 DEF Books
<1>9. \A q \in Peer : task'[q] \in {"resync", "gone"} => task[q] \in {"resync", "gone"}
    BY <1>4, <1>5
<1>10. disconnected \subseteq disconnected'
    BY <1>2
<1> QED
    BY <1>1, <1>7, <1>8, <1>9, <1>10, BooksKept

\* ... and by other steps, which move no task.
LEMMA OtherBooks ==
    ASSUME Typed, Books, UNCHANGED <<requested, asks, task>>, disconnected \subseteq disconnected',
           \/ resolver'.items = {}
           \/ resolver'.items = resolver.items /\ resolver'.peer = resolver.peer
    PROVE  Books'
<1>1. \A p \in Peer : Handshaken(p) => Handshaken(p)'
    BY DEF Handshaken
<1>2. \A p \in Peer : task'[p] = "cleanup" => p \in disconnected'
    BY DEF Books
<1> QED
    BY <1>1, <1>2, BooksKept

LEMMA MessageBooks ==
    ASSUME Typed, Books, NEW p \in Peer, Headers(p) \/ Announce(p) \/ HangUp(p) \/ StallTimer(p)
    PROVE  Books'
<1>1. UNCHANGED <<requested, asks, task, resolver>>
    BY DEF Headers, Announce, HandleHeaders, HangUp, StallTimer, stateVars, peerVars, taskVars
<1>2. disconnected \subseteq disconnected'
    BY DEF Headers, Announce, HandleHeaders, HangUp, StallTimer, Disconnect, peerVars
<1> QED
    BY <1>1, <1>2, OtherBooks

LEMMA ChainBooks == ASSUME Typed, Books, Mine \/ AddBlock \/ Attach PROVE Books'
<1>1. UNCHANGED <<requested, asks, task, resolver, disconnected>>
    BY DEF Mine, AddBlock, Attach, stateVars, peerVars, taskVars
<1> QED
    BY <1>1, OtherBooks

LEMMA ResolverBooks ==
    ASSUME Typed, Books,
           \/ ResolveHeaders \/ AttachSent \/ AttachDone \/ PeerStalling
           \/ \E p \in Peer : PassOver(p)
    PROVE  Books'
<1>1. UNCHANGED <<requested, asks, task>>
    BY DEF ResolveHeaders, AttachSent, AttachDone, PeerStalling, PassOver, stateVars, peerVars,
       taskVars
<1>2. disconnected \subseteq disconnected'
    BY DEF ResolveHeaders, AttachSent, AttachDone, PeerStalling, PassOver, peerVars, Disconnect
<1>3. resolver \in Resolvers
    BY DEF Typed, TypeOK
<1>4. \/ resolver'.items = {}
      \/ resolver'.items = resolver.items /\ resolver'.peer = resolver.peer
    <2>1. CASE AttachDone
        <3>1. [resolver EXCEPT !.saved = NoBlock] \in Resolvers
            BY ResolverTyped DEF Typed
        <3>2. CASE resolver' = GoOn([resolver EXCEPT !.saved = NoBlock])
            BY <1>3, <3>1, <3>2, GoOnTyped DEF Resolvers
        <3>3. CASE resolver' = [resolver EXCEPT !.at = "dead"]
            BY <1>3, <3>3 DEF Resolvers
        <3> QED
            BY <2>1, <3>2, <3>3 DEF AttachDone
    <2>2. CASE ResolveHeaders
        BY <2>2, IdleTyped DEF ResolveHeaders, Idle
    <2>3. CASE AttachSent
        BY <1>3, <2>3 DEF AttachSent, Resolvers
    <2>4. CASE PeerStalling
        BY <1>3, <2>4 DEF PeerStalling, Resolvers, Idle
    <2>5. CASE \E p \in Peer : PassOver(p)
        BY <1>3, <2>5 DEF PassOver, Resolvers
    <2> QED
        BY <2>1, <2>2, <2>3, <2>4, <2>5
<1> QED
    BY <1>1, <1>2, <1>4, OtherBooks

\* Who is asked for less has room for what the resolver has in hand.
LEMMA FewerAsked ==
    ASSUME Typed, Books, \A q \in Peer : asks'[q] \in SUBSET asks[q]
    PROVE  /\ \A q \in Peer : Cardinality(asks'[q]) <= PerPeer
           /\ resolver.items # {} =>
                 /\ resolver.peer \in Peer
                 /\ Handshaken(resolver.peer)
                 /\ Cardinality(asks'[resolver.peer]) + Cardinality(resolver.items) <= PerPeer
<1>1. ASSUME NEW q \in Peer
      PROVE  /\ Cardinality(asks'[q]) <= Cardinality(asks[q])
             /\ Cardinality(asks'[q]) \in Nat /\ Cardinality(asks[q]) \in Nat
    <2>1. asks[q] \in SUBSET Blocks /\ asks'[q] \in SUBSET asks[q]
        BY DEF Typed, TypeOK
    <2> QED
        BY <2>1, BlocksFinite, FS_Subset
<1>2. Cardinality(resolver.items) \in Nat
    <2>1. resolver.items \in SUBSET Blocks
        BY DEF Typed, TypeOK, Resolvers
    <2> QED
        BY <2>1, BlocksFinite
<1>3. \A q \in Peer : Cardinality(asks[q]) <= PerPeer
    BY DEF Books
<1>4. resolver.items # {} =>
          /\ resolver.peer \in Peer /\ Handshaken(resolver.peer)
          /\ Cardinality(asks[resolver.peer]) + Cardinality(resolver.items) <= PerPeer
    BY DEF Books
<1> QED
    BY <1>1, <1>2, <1>3, <1>4

LEMMA BlockBooks ==
    ASSUME Typed, Books, NEW p \in Peer, NEW b \in Blocks, Block(p, b) PROVE Books'
<1>1. /\ \A q \in Peer \ {p} : asks'[q] = asks[q] /\ task'[q] = task[q]
      /\ asks'[p] = asks[p] \ {b} /\ task'[p] = "await" /\ task[p] = "run"
      /\ b \in asks[p]
      /\ \A c \in Blocks \ {b} : requested'[c] = requested[c]
      /\ requested'[b] = NoPeer
      /\ disconnected' = disconnected /\ resolver' = resolver
    BY DEF Block, Typed, TypeOK
<1>2. \A c \in Blocks, q \in Peer : requested'[c] = q <=> c \in asks'[q]
    BY <1>1 DEF Books
<1>3. \A q \in Peer : Handshaken(q)' <=> Handshaken(q)
    BY <1>1 DEF Handshaken
<1>4. \A q \in Peer : asks'[q] # {} => Handshaken(q)' /\ task'[q] \notin {"resync", "gone"}
    BY <1>1, <1>3 DEF Books
<1>5. \A q \in Peer : task'[q] \in {"cleanup", "resync", "gone"} => q \in disconnected'
    BY <1>1 DEF Books
<1>6. \A q \in Peer : asks'[q] \in SUBSET asks[q]
    BY <1>1
<1>7. /\ \A q \in Peer : Cardinality(asks'[q]) <= PerPeer
      /\ resolver.items # {} =>
            /\ resolver.peer \in Peer
            /\ Handshaken(resolver.peer)
            /\ Cardinality(asks'[resolver.peer]) + Cardinality(resolver.items) <= PerPeer
    BY <1>6, FewerAsked
<1> QED
    BY <1>1, <1>2, <1>3, <1>4, <1>5, <1>7 DEF Books, Handshaken

LEMMA PeerDisconnectedBooks ==
    ASSUME Typed, Books, NEW p \in Peer, PeerDisconnected(p) PROVE Books'
<1>1. /\ \A q \in Peer \ {p} : asks'[q] = asks[q] /\ task'[q] = task[q]
      /\ asks'[p] = {} /\ task'[p] \in {"gone", "resync"} /\ task[p] = "cleanup"
      /\ \A c \in Blocks : requested'[c] = IF c \in asks[p] THEN NoPeer ELSE requested[c]
      /\ disconnected' = disconnected /\ resolver' = resolver
    BY DEF PeerDisconnected, Released, Typed, TypeOK
<1>2. \A c \in Blocks, q \in Peer : requested'[c] = q <=> c \in asks'[q]
    BY <1>1 DEF Books
<1>3. \A q \in Peer : Handshaken(q)' <=> Handshaken(q)
    BY <1>1 DEF Handshaken
<1>4. \A q \in Peer : asks'[q] # {} => Handshaken(q)' /\ task'[q] \notin {"resync", "gone"}
    BY <1>1, <1>3 DEF Books
<1>5. \A q \in Peer : task'[q] \in {"cleanup", "resync", "gone"} => q \in disconnected'
    BY <1>1 DEF Books
<1>6. \A q \in Peer : asks'[q] \in SUBSET asks[q]
    BY <1>1
<1>7. /\ \A q \in Peer : Cardinality(asks'[q]) <= PerPeer
      /\ resolver.items # {} =>
            /\ resolver.peer \in Peer
            /\ Handshaken(resolver.peer)
            /\ Cardinality(asks'[resolver.peer]) + Cardinality(resolver.items) <= PerPeer
    BY <1>6, FewerAsked
<1> QED
    BY <1>1, <1>2, <1>3, <1>4, <1>5, <1>7 DEF Books, Handshaken

LEMMA GetNextBlocksBooks ==
    ASSUME Typed, Books, NEW p \in Peer, GetNextBlocks(p) PROVE Books'
<1>1. UNCHANGED <<requested, asks, task, disconnected>>
    BY DEF GetNextBlocks, stateVars, taskVars
<1>2. CASE resolver' = [Idle EXCEPT !.list = resolver.list \ {p}]
    <2>1. resolver'.items = {}
        BY <1>2 DEF Idle
    <2> QED
        BY <1>1, <2>1, OtherBooks
<1>3. ASSUME NEW saved \in Heights, Found(p, saved) \in Resolvers,
             resolver' = GoOn(Found(p, saved))
      PROVE  Books'
    <2>1. resolver'.items # {} => resolver'.items = Items(p) /\ resolver'.peer = p
        BY <1>3, GoOnTyped DEF Found
    <2>2. Cardinality(asks[p]) + Cardinality(Items(p)) <= PerPeer /\ Handshaken(p)
        BY ItemsFit DEF GetNextBlocks, Typed, IsSyncable
    <2> QED
        BY <1>1, <2>1, <2>2 DEF Books, Handshaken
<1> QED
    BY <1>2, <1>3, NextBlocksFound DEF Typed

LEMMA GetBlockTaken ==
    ASSUME Typed, Books, GetBlock,
           Gives(resolver.peer), Taken \subseteq Blocks,
           \A b \in Blocks : requested'[b] = IF b \in Taken THEN resolver.peer ELSE requested[b],
           \A p \in Peer : asks'[p] = IF p = resolver.peer THEN asks[p] \cup Taken ELSE asks[p],
           resolver.items # {}
    PROVE  Books'
<1> DEFINE p == resolver.peer
<1>1. /\ p \in Peer /\ Handshaken(p)
      /\ Cardinality(asks[p]) + Cardinality(resolver.items) <= PerPeer
    BY DEF Books
<1>2. UNCHANGED <<task, disconnected>>
    BY DEF GetBlock, taskVars
<1>3. p \notin disconnected /\ task[p] \notin {"resync", "gone"}
    BY <1>1 DEF Gives, Books
<1>4. \A b \in Taken : requested[b] = NoPeer /\ \A q \in Peer : b \notin asks[q]
    BY DEF Taken, Books
<1>5. \A b \in Blocks, q \in Peer : requested'[b] = q <=> b \in asks'[q]
    <2> SUFFICES ASSUME NEW b \in Blocks, NEW q \in Peer
                 PROVE  requested'[b] = q <=> b \in asks'[q]
        OBVIOUS
    <2>1. requested[b] = q <=> b \in asks[q]
        BY DEF Books
    <2>2. CASE b \in Taken
        <3>1. requested'[b] = p /\ b \notin asks[q]
            BY <1>4, <2>2
        <3> QED
            BY <1>1, <2>2, <3>1
    <2>3. CASE b \notin Taken
        BY <1>1, <2>1, <2>3
    <2> QED
        BY <2>2, <2>3
<1>6. \A q \in Peer : asks'[q] # {} => Handshaken(q)' /\ task'[q] \notin {"resync", "gone"}
    BY <1>1, <1>2, <1>3 DEF Books, Handshaken
<1>7. Cardinality(asks'[p]) <= PerPeer
    <2>1. asks[p] \in SUBSET Blocks /\ resolver.items \in SUBSET Blocks /\ Taken \in SUBSET resolver.items
        BY <1>1 DEF Typed, TypeOK, Resolvers, Taken
    <2>2. /\ IsFiniteSet(asks[p]) /\ IsFiniteSet(Taken) /\ IsFiniteSet(resolver.items)
          /\ Cardinality(asks[p]) \in Nat /\ Cardinality(Taken) \in Nat
          /\ Cardinality(resolver.items) \in Nat
        BY <2>1, BlocksFinite
    <2>3. Cardinality(Taken) <= Cardinality(resolver.items)
        BY <2>1, <2>2, FS_Subset
    <2>4. asks[p] \cap Taken = {}
        BY <1>1, <1>4
    <2>5. Cardinality(asks[p] \cup Taken) = Cardinality(asks[p]) + Cardinality(Taken)
        <3>1. Cardinality(asks[p] \cap Taken) = 0
            BY <2>4, FS_EmptySet
        <3>2. Cardinality(asks[p] \cup Taken) =
                  Cardinality(asks[p]) + Cardinality(Taken) - Cardinality(asks[p] \cap Taken)
            BY <2>2, FS_Union
        <3> QED
            BY <2>2, <3>1, <3>2
    <2> QED
        BY <1>1, <2>2, <2>3, <2>5
<1>8. \A q \in Peer : Cardinality(asks'[q]) <= PerPeer
    BY <1>7 DEF Books
<1>9. resolver'.items = {}
    <2>1. [resolver EXCEPT !.items = {}] \in Resolvers /\ [resolver EXCEPT !.items = {}].items = {}
        BY ResolverTyped DEF Typed, TypeOK, Resolvers
    <2> QED
        BY <2>1, GoOnTyped DEF GetBlock
<1> QED
    BY <1>2, <1>5, <1>6, <1>8, <1>9 DEF Books

LEMMA GetBlockKeepsBooks == ASSUME Typed, Books, GetBlock PROVE Books'
<1>1. UNCHANGED <<task, disconnected>>
    BY DEF GetBlock, taskVars
<1>2. resolver'.items = {}
    <2>1. [resolver EXCEPT !.items = {}] \in Resolvers /\ [resolver EXCEPT !.items = {}].items = {}
        BY ResolverTyped DEF Typed, TypeOK, Resolvers
    <2> QED
        BY <2>1, GoOnTyped DEF GetBlock
<1>3. CASE UNCHANGED <<requested, asks>>
    BY <1>1, <1>2, <1>3, OtherBooks
<1>4. CASE resolver.items = {} /\ ~UNCHANGED <<requested, asks>>
    <2>1. Taken = {}
        BY <1>4 DEF Taken
    <2>2. /\ requested' \in [Blocks -> Peer \cup {NoPeer}] /\ asks' \in [Peer -> SUBSET Blocks]
          /\ \A b \in Blocks : requested'[b] = requested[b]
          /\ \A p \in Peer : asks'[p] = asks[p]
        BY <1>4, <2>1, GetBlockBooks
    <2>3. requested' = requested /\ asks' = asks
        BY <2>2 DEF Typed, TypeOK
    <2> QED
        BY <1>4, <2>3
<1>5. CASE resolver.items # {} /\ ~UNCHANGED <<requested, asks>>
    BY <1>5, GetBlockBooks, GetBlockTaken
<1> QED
    BY <1>3, <1>4, <1>5

LEMMA NextBooks == ASSUME Typed, Books, Next PROVE Books'
<1>1. ASSUME NEW p \in Peer,
             \/ Connecting(p) \/ Handling(p) \/ Leaving(p) \/ Messages(p)
             \/ Misbehaviour(p) \/ StallTimer(p)
      PROVE  Books'
    BY <1>1, TaskBooks, MessageBooks, BlockBooks, PeerDisconnectedBooks
       DEF Connecting, Handling, Leaving, Messages, Misbehaviour
<1>2. CASE Resolve
    BY <1>2, ResolverBooks, GetNextBlocksBooks, GetBlockKeepsBooks DEF Resolve
<1>3. CASE AddThread \/ Mine
    BY <1>3, ChainBooks DEF AddThread
<1> QED
    BY <1>1, <1>2, <1>3 DEF Next

------------------------------------------------------------------------------
(* What is fetched.                                                        *)

LEMMA InitFetching == Init => Fetching /\ VerifyingIsHarmless
<1> SUFFICES ASSUME Init PROVE Fetching /\ VerifyingIsHarmless
    OBVIOUS
<1>1. addQueue = <<>> /\ DOMAIN addQueue = {} /\ verifying = {}
    BY DEF Init
<1>2. NotRequested
    BY DEF Init, NotRequested
<1>3. OnDiskFound
    BY DEF Init, OnDiskFound, Idle, NoBlock
<1>4. Sent
    BY <1>1 DEF Sent
<1>5. Answered
    BY DEF Init, Answered
<1> QED
    BY <1>1, <1>2, <1>3, <1>4, <1>5 DEF Fetching, VerifyingIsHarmless

\* Nothing is sent, added or answered, and a task that waits does so as before.
LEMMA FetchingKept ==
    ASSUME Fetching, VerifyingIsHarmless, addQueue \in Seq(Event),
           UNCHANGED <<verifying, has, addQueue, addUp>>, invalid \subseteq invalid',
           \A q \in Peer : task[q] \in Underway => task'[q] \in Underway,
           \A q \in Peer : task'[q] = "await" =>
               task[q] = "await" /\ reply'[q] = reply[q] /\ handling'[q] = handling[q],
           \A q \in Peer : task'[q] # "await" => reply'[q] = "none",
           NotRequested', OnDiskFound'
    PROVE  Fetching' /\ VerifyingIsHarmless'
<1>1. \A i \in DOMAIN addQueue : addQueue[i].from \in Peer \cup {NoPeer}
    BY Elements
<1>2. Answered'
    BY DEF Fetching, Answered
<1>3. Sent'
    BY <1>1 DEF Fetching, Sent
<1>4. VerifyingIsHarmless'
    BY DEF VerifyingIsHarmless
<1> QED
    BY <1>2, <1>3, <1>4 DEF Fetching

LEMMA ReleasedOnly ==
    ASSUME NotRequested, UNCHANGED <<verifying, has>>,
           \A b \in Blocks : requested'[b] # NoPeer => requested[b] # NoPeer
    PROVE  NotRequested'
    BY DEF NotRequested

LEMMA TaskFetching ==
    ASSUME Typed, Fetching, VerifyingIsHarmless, NEW p \in Peer,
           \/ ConnectToPeer(p) \/ HandshakeFails(p) \/ Handshake(p) \/ HandshakeComplete(p)
           \/ SyncAfterHandshake(p) \/ BlockRefused(p) \/ BlockPanics(p) \/ BadMessage(p)
           \/ Kicked(p) \/ Closing(p) \/ HeadersPanic(p) \/ PeerDisconnected(p)
           \/ SyncAfterDisconnect(p)
    PROVE  Fetching' /\ VerifyingIsHarmless'
<1>1. UNCHANGED <<verifying, has, addQueue, addUp, resolver>> /\ invalid \subseteq invalid'
    BY DEF ConnectToPeer, HandshakeFails, Handshake, HandshakeComplete, SyncAfterHandshake,
       BlockRefused, BlockPanics, BadMessage, Kicked, Closing, HeadersPanic, PeerDisconnected,
       SyncAfterDisconnect, stateVars, addVars, chainVars
<1>2. requested' = requested \/ requested' = Released(p)
    BY DEF ConnectToPeer, HandshakeFails, Handshake, HandshakeComplete, SyncAfterHandshake,
       BlockRefused, BlockPanics, BadMessage, Kicked, Closing, HeadersPanic, PeerDisconnected,
       SyncAfterDisconnect, stateVars
<1>3. \E label \in Tasks \ {"await"} :
          /\ task' = [task EXCEPT ![p] = label]
          /\ task[p] \in Underway => label \in Underway
          /\ \/ UNCHANGED reply /\ reply[p] = "none"
             \/ reply' = [reply EXCEPT ![p] = "none"]
             \/ UNCHANGED reply /\ task[p] # "await"
    BY DEF ConnectToPeer, HandshakeFails, Handshake, HandshakeComplete, SyncAfterHandshake,
       BlockRefused, BlockPanics, BadMessage, Kicked, Closing, HeadersPanic, PeerDisconnected,
       SyncAfterDisconnect, Underway, Tasks
<1>4. handling' = handling \/ handling' = [handling EXCEPT ![p] = NoBlock]
    BY DEF ConnectToPeer, HandshakeFails, Handshake, HandshakeComplete, SyncAfterHandshake,
       BlockRefused, BlockPanics, BadMessage, Kicked, Closing, HeadersPanic, PeerDisconnected,
       SyncAfterDisconnect
<1>5. PICK label \in Tasks \ {"await"} :
          /\ task' = [task EXCEPT ![p] = label]
          /\ task[p] \in Underway => label \in Underway
          /\ \/ UNCHANGED reply /\ reply[p] = "none"
             \/ reply' = [reply EXCEPT ![p] = "none"]
             \/ UNCHANGED reply /\ task[p] # "await"
    BY <1>3
<1>6. task'[p] = label /\ \A q \in Peer \ {p} : task'[q] = task[q]
    BY <1>5 DEF Typed, TypeOK
<1>7. \A q \in Peer \ {p} : reply'[q] = reply[q] /\ handling'[q] = handling[q]
    BY <1>4, <1>5 DEF Typed, TypeOK
<1>8. reply'[p] = "none"
    BY <1>5 DEF Typed, TypeOK, Fetching, Answered
<1>9. \A q \in Peer : task'[q] # "await" => reply'[q] = "none"
    BY <1>6, <1>7, <1>8 DEF Fetching, Answered
<1>10. \A q \in Peer : task[q] \in Underway => task'[q] \in Underway
    BY <1>5, <1>6
<1>11. \A q \in Peer : task'[q] = "await" =>
           task[q] = "await" /\ reply'[q] = reply[q] /\ handling'[q] = handling[q]
    BY <1>5, <1>6, <1>7
<1>12. OnDiskFound'
    BY <1>1 DEF Fetching, OnDiskFound
<1>13. NotRequested'
    <2>1. \A b \in Blocks : requested'[b] # NoPeer => requested[b] # NoPeer
        BY <1>2 DEF Released
    <2> QED
        BY <1>1, <2>1, ReleasedOnly DEF Fetching
<1>14. addQueue \in Seq(Event)
    BY DEF Typed, TypeOK, Event
<1> QED
    BY <1>1, <1>9, <1>10, <1>11, <1>12, <1>13, <1>14, FetchingKept

\* Steps that no task waits for and that move none.
LEMMA OtherFetching ==
    ASSUME Typed, Fetching, VerifyingIsHarmless,
           UNCHANGED <<verifying, has, addQueue, addUp, task, handling>>,
           invalid \subseteq invalid', \A q \in Peer : reply'[q] = reply[q],
           NotRequested', OnDiskFound'
    PROVE  Fetching' /\ VerifyingIsHarmless'
<1>1. addQueue \in Seq(Event)
    BY DEF Typed, TypeOK, Event
<1>2. \A q \in Peer : task[q] # "await" => reply[q] = "none"
    BY DEF Fetching, Answered
<1> QED
    BY <1>1, <1>2, FetchingKept

LEMMA MessageFetching ==
    ASSUME Typed, Fetching, VerifyingIsHarmless, NEW p \in Peer,
           Headers(p) \/ Announce(p) \/ HangUp(p) \/ StallTimer(p)
    PROVE  Fetching' /\ VerifyingIsHarmless'
<1>1. UNCHANGED <<requested, verifying, has, addQueue, addUp, task, handling, reply, invalid, resolver>>
    BY DEF Headers, Announce, HandleHeaders, HangUp, StallTimer, stateVars, taskVars, addVars,
       chainVars
<1>2. NotRequested' /\ OnDiskFound'
    BY <1>1 DEF Fetching, NotRequested, OnDiskFound
<1> QED
    BY <1>1, <1>2, OtherFetching

LEMMA MineFetching ==
    ASSUME Typed, Fetching, VerifyingIsHarmless, Mine PROVE Fetching' /\ VerifyingIsHarmless'
<1>1. UNCHANGED <<requested, verifying, has, addQueue, addUp, task, handling, reply, invalid, resolver>>
    BY DEF Mine, stateVars, taskVars, addVars, chainVars
<1>2. NotRequested' /\ OnDiskFound'
    BY <1>1 DEF Fetching, NotRequested, OnDiskFound
<1> QED
    BY <1>1, <1>2, OtherFetching

LEMMA ResolverFetching ==
    ASSUME Typed, Fetching, VerifyingIsHarmless,
           \/ ResolveHeaders \/ AttachDone \/ PeerStalling
           \/ \E p \in Peer : PassOver(p) \/ GetNextBlocks(p)
    PROVE  Fetching' /\ VerifyingIsHarmless'
<1>1. UNCHANGED <<requested, verifying, has, addQueue, addUp, task, handling, invalid>>
    BY DEF ResolveHeaders, AttachDone, PeerStalling, PassOver, GetNextBlocks, stateVars, taskVars,
       addVars, chainVars
<1>2. \A q \in Peer : reply'[q] = reply[q]
    BY DEF ResolveHeaders, AttachDone, PeerStalling, PassOver, GetNextBlocks, taskVars, Typed, TypeOK
<1>3. NotRequested'
    BY <1>1 DEF Fetching, NotRequested
<1>4. resolver \in Resolvers
    BY DEF Typed, TypeOK
<1>5. OnDiskFound'
    <2>1. CASE ResolveHeaders \/ PeerStalling \/ \E p \in Peer : PassOver(p)
        <3>1. CASE ResolveHeaders
            BY <3>1, <1>4 DEF ResolveHeaders, OnDiskFound, Idle, NoBlock
        <3>2. CASE PeerStalling
            BY <3>2, <1>1, <1>4 DEF PeerStalling, OnDiskFound, Idle, NoBlock, Fetching, Resolvers
        <3>3. CASE \E p \in Peer : PassOver(p)
            BY <3>3, <1>1, <1>4 DEF PassOver, OnDiskFound, Fetching, Resolvers
        <3> QED
            BY <2>1, <3>1, <3>2, <3>3
    <2>2. CASE AttachDone
        <3>1. /\ [resolver EXCEPT !.saved = NoBlock] \in Resolvers
              /\ [resolver EXCEPT !.saved = NoBlock].saved = NoBlock
            BY <1>4, ResolverTyped DEF Typed, Resolvers
        <3>2. CASE resolver' = GoOn([resolver EXCEPT !.saved = NoBlock])
            BY <3>1, <3>2, GoOnTyped DEF OnDiskFound
        <3>3. CASE resolver' = [resolver EXCEPT !.at = "dead"]
            BY <1>1, <1>4, <3>3 DEF OnDiskFound, Fetching, Resolvers
        <3> QED
            BY <2>2, <3>2, <3>3 DEF AttachDone
    <2>3. ASSUME NEW p \in Peer, GetNextBlocks(p) PROVE OnDiskFound'
        <3>1. CASE resolver' = [Idle EXCEPT !.list = resolver.list \ {p}]
            BY <3>1 DEF OnDiskFound, Idle, NoBlock
        <3>2. ASSUME NEW saved \in Heights, saved # NoBlock => saved \in has,
                     Found(p, saved) \in Resolvers, resolver' = GoOn(Found(p, saved))
              PROVE  OnDiskFound'
            <4>1. Found(p, saved).saved = saved
                BY DEF Found
            <4> QED
                BY <1>1, <3>2, <4>1, GoOnTyped DEF OnDiskFound
        <3> QED
            BY <2>3, <3>1, <3>2, NextBlocksFound DEF Typed
    <2> QED
        BY <2>1, <2>2, <2>3
<1> QED
    BY <1>1, <1>2, <1>3, <1>5, OtherFetching

LEMMA GetBlockFetching ==
    ASSUME Typed, Fetching, VerifyingIsHarmless, GetBlock
    PROVE  Fetching' /\ VerifyingIsHarmless'
<1>1. UNCHANGED <<verifying, has, addQueue, addUp, task, handling, reply, invalid>>
    BY DEF GetBlock, taskVars, addVars, chainVars
<1>2. NotRequested'
    <2>1. CASE UNCHANGED <<requested, asks>>
        BY <1>1, <2>1 DEF Fetching, NotRequested
    <2>2. CASE \A b \in Blocks : requested'[b] = IF b \in Taken THEN resolver.peer ELSE requested[b]
        BY <1>1, <2>2 DEF Fetching, NotRequested, Taken
    <2> QED
        BY <2>1, <2>2, GetBlockBooks
<1>3. OnDiskFound'
    <2>1. resolver \in Resolvers
        BY DEF Typed, TypeOK
    <2>2. /\ [resolver EXCEPT !.items = {}] \in Resolvers
          /\ [resolver EXCEPT !.items = {}].saved = resolver.saved
        BY <2>1, ResolverTyped DEF Typed, Resolvers
    <2>3. resolver' = GoOn([resolver EXCEPT !.items = {}])
        BY DEF GetBlock
    <2> QED
        BY <1>1, <2>2, <2>3, GoOnTyped DEF OnDiskFound, Fetching
<1> QED
    BY <1>1, <1>2, <1>3, OtherFetching

\* A block that was requested is not on its way to the add thread yet.
LEMMA BlockFetching ==
    ASSUME Typed, Books, Fetching, VerifyingIsHarmless, NEW p \in Peer, NEW b \in Blocks,
           Block(p, b)
    PROVE  Fetching' /\ VerifyingIsHarmless'
<1> DEFINE e == [from |-> p, block |-> b]
           n == Len(addQueue) + 1
<1>1. /\ task[p] = "run" /\ b \in asks[p] /\ requested[b] = p
      /\ b \notin verifying /\ b \notin has /\ p # NoPeer
    BY DEF Block, Books, Fetching, NotRequested
<1>2. /\ UNCHANGED <<has, addUp, resolver, invalid, reply>>
      /\ verifying' = verifying \cup {b}
      /\ requested' = [requested EXCEPT ![b] = NoPeer]
    BY DEF Block, NowVerifying, chainVars
<1>3. /\ task'[p] = "await" /\ handling'[p] = b
      /\ \A q \in Peer \ {p} : task'[q] = task[q] /\ handling'[q] = handling[q]
    BY DEF Block, Typed, TypeOK
<1>4. addQueue \in Seq(Event) /\ e \in Event /\ e.from = p /\ e.block = b
    BY DEF Typed, TypeOK, Event
<1>5. \A i \in DOMAIN addQueue : addQueue[i].from # p /\ addQueue[i].block # b
    BY <1>1 DEF Fetching, Sent, Underway
<1>6. reply[p] = "none"
    BY <1>1 DEF Fetching, Answered
<1>7. NotRequested'
    BY <1>2 DEF Fetching, NotRequested, Typed, TypeOK
<1>8. OnDiskFound'
    BY <1>2 DEF Fetching, OnDiskFound
<1>9. Answered'
    BY <1>2, <1>3, <1>6 DEF Fetching, Answered
<1>10. \A i \in DOMAIN addQueue :
          IF addQueue[i].from = NoPeer THEN addQueue[i].block \in has'
          ELSE /\ addQueue[i].block \in verifying' \ has'
               /\ task'[addQueue[i].from] \in Underway
               /\ task'[addQueue[i].from] = "await" =>
                     /\ reply'[addQueue[i].from] = "none"
                     /\ addQueue[i].block = handling'[addQueue[i].from]
    <2> SUFFICES ASSUME NEW i \in DOMAIN addQueue
                 PROVE  IF addQueue[i].from = NoPeer THEN addQueue[i].block \in has'
                        ELSE /\ addQueue[i].block \in verifying' \ has'
                             /\ task'[addQueue[i].from] \in Underway
                             /\ task'[addQueue[i].from] = "await" =>
                                   /\ reply'[addQueue[i].from] = "none"
                                   /\ addQueue[i].block = handling'[addQueue[i].from]
        OBVIOUS
    <2>1. addQueue[i].from \in Peer \cup {NoPeer} /\ addQueue[i].from # p
        BY <1>4, <1>5, Elements
    <2> QED
        BY <1>2, <1>3, <2>1 DEF Fetching, Sent
<1>11. CASE addUp
    <2>1. addQueue' = Append(addQueue, e)
        BY <1>11 DEF Block
    <2>2. /\ DOMAIN addQueue' = DOMAIN addQueue \cup {n}
          /\ addQueue'[n] = e /\ \A i \in DOMAIN addQueue : addQueue'[i] = addQueue[i]
          /\ n \notin DOMAIN addQueue
        BY <1>4, <2>1, AtEnd
    <2> HIDE DEF n, e
    <2>3. Sent'
        <3>1. ASSUME NEW i \in DOMAIN addQueue'
              PROVE  IF addQueue'[i].from = NoPeer THEN addQueue'[i].block \in has'
                     ELSE /\ addQueue'[i].block \in verifying' \ has'
                          /\ task'[addQueue'[i].from] \in Underway
                          /\ task'[addQueue'[i].from] = "await" =>
                                /\ reply'[addQueue'[i].from] = "none"
                                /\ addQueue'[i].block = handling'[addQueue'[i].from]
            <4>1. CASE i \in DOMAIN addQueue
                BY <1>10, <2>2, <4>1
            <4>2. CASE i = n
                BY <1>1, <1>2, <1>3, <1>4, <1>6, <2>2, <4>2 DEF Underway
            <4> QED
                BY <2>2, <4>1, <4>2
        <3>2. ASSUME NEW i \in DOMAIN addQueue', NEW j \in DOMAIN addQueue',
                     addQueue'[i].from # NoPeer,
                     \/ addQueue'[j].from = addQueue'[i].from
                     \/ addQueue'[j].block = addQueue'[i].block
              PROVE  i = j
            <4>1. CASE i \in DOMAIN addQueue /\ j \in DOMAIN addQueue
                BY <2>2, <3>2, <4>1 DEF Fetching, Sent
            <4>2. CASE i = n \/ j = n
                BY <1>4, <1>5, <2>2, <3>2, <4>2
            <4> QED
                BY <2>2, <4>1, <4>2
        <3> QED
            BY <3>1, <3>2 DEF Sent
    <2>4. VerifyingIsHarmless'
        BY <1>2, <1>4, <2>2 DEF VerifyingIsHarmless
    <2> QED
        BY <1>7, <1>8, <1>9, <2>3, <2>4 DEF Fetching
<1>12. CASE ~addUp
    <2>1. addQueue' = addQueue
        BY <1>12 DEF Block
    <2>2. Sent'
        BY <1>10, <2>1 DEF Fetching, Sent
    <2>3. VerifyingIsHarmless'
        BY <1>2, <1>12 DEF VerifyingIsHarmless
    <2> QED
        BY <1>7, <1>8, <1>9, <2>2, <2>3 DEF Fetching
<1> QED
    BY <1>11, <1>12

\* A block that was added is on disk: no event names it any more.
LEMMA BlockAddedFetching ==
    ASSUME Typed, Fetching, VerifyingIsHarmless, NEW p \in Peer, BlockAdded(p)
    PROVE  Fetching' /\ VerifyingIsHarmless'
<1>1. task[p] = "await" /\ reply[p] = "ok" /\ handling[p] \in has
    BY DEF BlockAdded, Fetching, Answered
<1>2. /\ UNCHANGED <<requested, has, addQueue, addUp, resolver, invalid>>
      /\ verifying' = verifying \ {handling[p]}
    BY DEF BlockAdded, addVars, chainVars
<1>3. /\ task'[p] = "run" /\ reply'[p] = "none"
      /\ \A q \in Peer \ {p} : task'[q] = task[q] /\ handling'[q] = handling[q] /\ reply'[q] = reply[q]
    BY DEF BlockAdded, Typed, TypeOK
<1>4. addQueue \in Seq(Event)
    BY DEF Typed, TypeOK, Event
<1>5. \A i \in DOMAIN addQueue : addQueue[i].from # p
    BY <1>1 DEF Fetching, Sent
<1>6. NotRequested'
    BY <1>2 DEF Fetching, NotRequested
<1>7. OnDiskFound'
    BY <1>2 DEF Fetching, OnDiskFound
<1>8. Answered'
    BY <1>2, <1>3 DEF Fetching, Answered
<1>9. ASSUME NEW i \in DOMAIN addQueue
      PROVE  IF addQueue[i].from = NoPeer THEN addQueue[i].block \in has'
             ELSE /\ addQueue[i].block \in verifying' \ has'
                  /\ task'[addQueue[i].from] \in Underway
                  /\ task'[addQueue[i].from] = "await" =>
                        /\ reply'[addQueue[i].from] = "none"
                        /\ addQueue[i].block = handling'[addQueue[i].from]
    <2>1. addQueue[i].from \in Peer \cup {NoPeer} /\ addQueue[i].from # p
        BY <1>4, <1>5, Elements
    <2>2. addQueue[i].from # NoPeer => addQueue[i].block \notin has
        BY DEF Fetching, Sent
    <2> QED
        BY <1>1, <1>2, <1>3, <2>1, <2>2 DEF Fetching, Sent
<1>10. Sent'
    BY <1>2, <1>9 DEF Fetching, Sent
<1>11. VerifyingIsHarmless'
    BY <1>2 DEF VerifyingIsHarmless
<1> QED
    BY <1>6, <1>7, <1>8, <1>10, <1>11 DEF Fetching

LEMMA AttachSentFetching ==
    ASSUME Typed, Fetching, VerifyingIsHarmless, AttachSent
    PROVE  Fetching' /\ VerifyingIsHarmless'
<1> DEFINE e == [from |-> NoPeer, block |-> resolver.saved]
           n == Len(addQueue) + 1
<1>1. UNCHANGED <<requested, verifying, has, addUp, task, handling, reply, invalid>>
    BY DEF AttachSent, stateVars, taskVars, chainVars
<1>2. resolver.saved \in has /\ resolver \in Resolvers
    BY DEF AttachSent, Fetching, OnDiskFound, Typed, TypeOK
<1>3. resolver' = [resolver EXCEPT !.at = IF addUp THEN "attaching" ELSE "dead"]
    BY DEF AttachSent
<1>4. OnDiskFound'
    BY <1>1, <1>2, <1>3 DEF OnDiskFound, Resolvers
<1>5. NotRequested' /\ Answered'
    BY <1>1 DEF Fetching, NotRequested, Answered
<1>6. addQueue \in Seq(Event) /\ e \in Event
    BY <1>2 DEF Typed, TypeOK, Event
<1>7. CASE addUp
    <2>1. /\ DOMAIN addQueue' = DOMAIN addQueue \cup {n}
          /\ addQueue'[n].from = NoPeer /\ addQueue'[n].block \in has
          /\ \A i \in DOMAIN addQueue : addQueue'[i] = addQueue[i]
        <3>1. addQueue' = Append(addQueue, e)
            BY <1>7 DEF AttachSent
        <3>2. /\ DOMAIN addQueue' = DOMAIN addQueue \cup {n} /\ addQueue'[n] = e
              /\ \A i \in DOMAIN addQueue : addQueue'[i] = addQueue[i]
            BY <1>6, <3>1, AtEnd
        <3> QED
            BY <1>2, <3>2
    <2> HIDE DEF n
    <2>2. \A i \in DOMAIN addQueue : addQueue[i].from # NoPeer => addQueue[i].block \notin has
        BY DEF Fetching, Sent
    <2>3. \A i, j \in DOMAIN addQueue' :
              /\ addQueue'[i].from # NoPeer
              /\ addQueue'[j].from = addQueue'[i].from \/ addQueue'[j].block = addQueue'[i].block
              => i = j
        BY <2>1, <2>2 DEF Fetching, Sent
    <2>4. Sent'
        BY <1>1, <2>1, <2>3 DEF Fetching, Sent
    <2>5. VerifyingIsHarmless'
        BY <1>1, <2>1 DEF VerifyingIsHarmless
    <2> QED
        BY <1>4, <1>5, <2>4, <2>5 DEF Fetching
<1>8. CASE ~addUp
    <2>1. addQueue' = addQueue
        BY <1>8 DEF AttachSent
    <2> QED
        BY <1>1, <1>4, <1>5, <2>1 DEF Fetching, Sent, VerifyingIsHarmless
<1> QED
    BY <1>7, <1>8

\* What is behind the first event stays as it is when that one has been handled.
LEMMA TailSent ==
    ASSUME Typed, Fetching, addQueue # <<>>, addQueue' = Tail(addQueue),
           UNCHANGED <<verifying, task, handling>>,
           has \subseteq has',
           has' = has \/ (Head(addQueue).from # NoPeer /\ has' = has \cup {Head(addQueue).block}),
           \A q \in Peer \ {Head(addQueue).from} : reply'[q] = reply[q]
    PROVE  Sent'
<1>1. addQueue \in Seq(Event)
    BY DEF Typed, TypeOK, Event
<1>2. /\ Head(addQueue) = addQueue[1] /\ 1 \in DOMAIN addQueue
      /\ \A i \in DOMAIN addQueue' : /\ i + 1 \in DOMAIN addQueue /\ i + 1 # 1
                                     /\ addQueue'[i] = addQueue[i + 1] /\ i \in Nat
    <2>1. addQueue' \in Seq(Event)
        BY <1>1, Behead
    <2>2. \A i \in DOMAIN addQueue' : i \in Nat /\ i + 1 # 1
        BY <2>1
    <2> QED
        BY <1>1, <2>2, Behead
<1> HIDE DEF Event
<1>3. ASSUME NEW i \in DOMAIN addQueue'
      PROVE  IF addQueue'[i].from = NoPeer THEN addQueue'[i].block \in has'
             ELSE /\ addQueue'[i].block \in verifying' \ has'
                  /\ task'[addQueue'[i].from] \in Underway
                  /\ task'[addQueue'[i].from] = "await" =>
                        /\ reply'[addQueue'[i].from] = "none"
                        /\ addQueue'[i].block = handling'[addQueue'[i].from]
    <2> DEFINE k == i + 1
    <2>1. k \in DOMAIN addQueue /\ k # 1 /\ addQueue'[i] = addQueue[k]
        BY <1>2
    <2> HIDE DEF k
    <2>2. addQueue[k].from \in Peer \cup {NoPeer}
        BY <1>1, <2>1, Elements
    <2>3. CASE addQueue[k].from = NoPeer
        BY <2>1, <2>3 DEF Fetching, Sent
    <2>4. CASE addQueue[k].from # NoPeer
        <3>1. addQueue[k].from # addQueue[1].from /\ addQueue[k].block # addQueue[1].block
            BY <1>2, <2>1, <2>4 DEF Fetching, Sent
        <3>2. reply'[addQueue[k].from] = reply[addQueue[k].from]
            BY <1>2, <2>2, <2>4, <3>1
        <3>3. addQueue[k].block \notin has'
            BY <1>2, <2>1, <2>4, <3>1 DEF Fetching, Sent
        <3> QED
            BY <2>1, <2>4, <3>2, <3>3 DEF Fetching, Sent
    <2> QED
        BY <2>3, <2>4
<1>4. ASSUME NEW i \in DOMAIN addQueue', NEW j \in DOMAIN addQueue',
             addQueue'[i].from # NoPeer,
             \/ addQueue'[j].from = addQueue'[i].from
             \/ addQueue'[j].block = addQueue'[i].block
      PROVE  i = j
    <2>1. i + 1 = j + 1
        BY <1>2, <1>4 DEF Fetching, Sent
    <2> QED
        BY <1>2, <2>1
<1> QED
    BY <1>3, <1>4 DEF Sent

\* What was marked as being verified is no less harmless when an event has been handled.
LEMMA TailHarmless ==
    ASSUME Typed, VerifyingIsHarmless, addQueue # <<>>, addQueue' = Tail(addQueue),
           UNCHANGED <<verifying, addUp>>, has \subseteq has', invalid \subseteq invalid',
           Head(addQueue).block \in has' \cup invalid'
    PROVE  VerifyingIsHarmless'
<1>1. addQueue \in Seq(Event)
    BY DEF Typed, TypeOK, Event
<1>2. /\ Head(addQueue) = addQueue[1]
      /\ \A i \in DOMAIN addQueue : i # 1 => i - 1 \in DOMAIN addQueue'
      /\ \A i \in DOMAIN addQueue' : addQueue'[i] = addQueue[i + 1]
      /\ \A i \in DOMAIN addQueue : i \in Nat
    BY <1>1, Behead
<1> SUFFICES ASSUME addUp, NEW b \in verifying, b \notin has' \cup invalid'
             PROVE  \E i \in DOMAIN addQueue' : addQueue'[i].block = b
    BY DEF VerifyingIsHarmless
<1>3. PICK i \in DOMAIN addQueue : addQueue[i].block = b
    BY DEF VerifyingIsHarmless
<1>4. i # 1 /\ i \in Nat
    BY <1>2, <1>3
<1>5. i - 1 \in DOMAIN addQueue' /\ (i - 1) + 1 = i
    BY <1>2, <1>4
<1>6. addQueue'[i - 1].block = b
    BY <1>2, <1>3, <1>5
<1> QED
    BY <1>5, <1>6

LEMMA PanicFetching ==
    ASSUME AddPanics, UNCHANGED <<task, handling>>, has \subseteq has',
           NotRequested', OnDiskFound', Answered
    PROVE  Fetching' /\ VerifyingIsHarmless'
<1>1. addQueue' = <<>> /\ addUp' = FALSE /\ reply' = reply
    BY DEF AddPanics
<1>2. DOMAIN addQueue' = {}
    BY <1>1
<1>3. Sent'
    BY <1>2 DEF Sent
<1>4. Answered'
    BY <1>1 DEF Answered
<1> QED
    BY <1>1, <1>3, <1>4 DEF Fetching, VerifyingIsHarmless

LEMMA AddBlockFetching ==
    ASSUME Typed, Fetching, VerifyingIsHarmless, AddBlock
    PROVE  Fetching' /\ VerifyingIsHarmless'
<1> DEFINE p == Head(addQueue).from
           b == Head(addQueue).block
<1>1. /\ addUp /\ addQueue # <<>> /\ p \in Peer /\ b \in Blocks
      /\ \/ has' = has /\ tip' = tip /\ invalid' = invalid \cup {b} /\ Answer(p, "err")
         \/ /\ has' = has \cup {b}
            /\ tip' \in Heights /\ 1 .. tip' \subseteq has'
            /\ invalid \subseteq invalid' /\ invalid' \subseteq Blocks
            /\ AddPanics \/ (b \notin has /\ \E result \in {"ok", "err"} : Answer(p, result))
    BY AddBlockCases
<1>2. UNCHANGED <<requested, verifying, task, handling, resolver>>
    BY DEF AddBlock, stateVars
<1>3. p # NoPeer /\ b \in verifying /\ (task[p] = "await" => handling[p] = b)
    <2>1. Head(addQueue) = addQueue[1] /\ 1 \in DOMAIN addQueue
        BY <1>1, Behead DEF Typed, TypeOK, Event
    <2> QED
        BY <1>1, <2>1 DEF Fetching, Sent
<1>4. has \subseteq has' /\ has' \subseteq has \cup {b} /\ invalid \subseteq invalid'
    BY <1>1
<1>5. NotRequested'
    BY <1>2, <1>3, <1>4 DEF Fetching, NotRequested
<1>6. OnDiskFound'
    BY <1>2, <1>4 DEF Fetching, OnDiskFound
<1>7. ASSUME NEW result \in {"ok", "err"}, Answer(p, result), b \in has' \cup invalid',
             result = "ok" => b \in has'
      PROVE  Fetching' /\ VerifyingIsHarmless'
    <2>1. addQueue' = Tail(addQueue) /\ addUp' = addUp
        BY <1>7 DEF Answer
    <2>2. /\ \A q \in Peer \ {p} : reply'[q] = reply[q]
          /\ reply'[p] = IF task[p] = "await" THEN result ELSE reply[p]
        BY <1>1, <1>3, <1>7 DEF Answer, Typed, TypeOK
    <2>3. has' = has \/ (p # NoPeer /\ has' = has \cup {b})
        BY <1>3, <1>4
    <2>4. Sent'
        BY <1>1, <1>2, <1>4, <2>1, <2>2, <2>3, TailSent
    <2>5. VerifyingIsHarmless'
        BY <1>1, <1>2, <1>4, <1>7, <2>1, TailHarmless
    <2>6. Answered'
        <3> SUFFICES ASSUME NEW q \in Peer
                     PROVE  /\ task[q] # "await" => reply'[q] = "none"
                            /\ reply'[q] = "ok" => handling[q] \in has'
            BY <1>2 DEF Answered
        <3>1. /\ task[q] # "await" => reply[q] = "none"
              /\ reply[q] = "ok" => handling[q] \in has
            BY DEF Fetching, Answered
        <3>2. CASE q # p
            BY <1>4, <2>2, <3>1, <3>2
        <3>3. CASE q = p
            BY <1>3, <1>4, <1>7, <2>2, <3>1, <3>3
        <3> QED
            BY <3>2, <3>3
    <2> QED
        BY <1>5, <1>6, <2>4, <2>5, <2>6 DEF Fetching
<1>8. CASE AddPanics
    BY <1>2, <1>4, <1>5, <1>6, <1>8, PanicFetching DEF Fetching
<1> HIDE DEF p, b
<1>9. CASE has' = has /\ invalid' = invalid \cup {b} /\ Answer(p, "err")
    BY <1>7, <1>9
<1>10. ASSUME NEW result \in {"ok", "err"}, has' = has \cup {b}, Answer(p, result)
       PROVE  Fetching' /\ VerifyingIsHarmless'
    BY <1>7, <1>10
<1> QED
    BY <1>1, <1>8, <1>9, <1>10

LEMMA AttachFetching ==
    ASSUME Typed, Fetching, VerifyingIsHarmless, Attach
    PROVE  Fetching' /\ VerifyingIsHarmless'
<1>1. /\ addUp /\ addQueue # <<>> /\ Head(addQueue).from = NoPeer
      /\ invalid \subseteq invalid'
      /\ (AddPanics /\ UNCHANGED notified) \/ (Answer(NoPeer, "ok") /\ notified' = TRUE)
    BY AttachCases
<1>2. UNCHANGED <<requested, verifying, task, handling, resolver, has>>
    BY DEF Attach, stateVars
<1>3. Head(addQueue).block \in has
    <2>1. Head(addQueue) = addQueue[1] /\ 1 \in DOMAIN addQueue
        BY <1>1, Behead DEF Typed, TypeOK, Event
    <2> QED
        BY <1>1, <2>1 DEF Fetching, Sent
<1>4. NotRequested' /\ OnDiskFound'
    BY <1>2 DEF Fetching, NotRequested, OnDiskFound
<1>5. CASE AddPanics
    BY <1>2, <1>4, <1>5, PanicFetching DEF Fetching
<1>6. CASE Answer(NoPeer, "ok")
    <2>1. addQueue' = Tail(addQueue) /\ addUp' = addUp
        BY <1>6 DEF Answer
    <2>2. \A q \in Peer : reply'[q] = reply[q]
        BY <1>6 DEF Answer, Typed, TypeOK
    <2>3. Sent'
        BY <1>1, <1>2, <2>1, <2>2, TailSent
    <2>4. VerifyingIsHarmless'
        BY <1>1, <1>2, <1>3, <2>1, TailHarmless
    <2>5. Answered'
        BY <1>2, <2>2 DEF Fetching, Answered
    <2> QED
        BY <1>4, <2>3, <2>4, <2>5 DEF Fetching
<1> QED
    BY <1>1, <1>5, <1>6

------------------------------------------------------------------------------
(* The theorems.                                                           *)

LEMMA NextFetching ==
    ASSUME Typed, Books, Fetching, VerifyingIsHarmless, Next
    PROVE  Fetching' /\ VerifyingIsHarmless'
<1>1. ASSUME NEW p \in Peer,
             \/ Connecting(p) \/ Handling(p) \/ Leaving(p) \/ Messages(p)
             \/ Misbehaviour(p) \/ StallTimer(p)
      PROVE  Fetching' /\ VerifyingIsHarmless'
    BY <1>1, TaskFetching, MessageFetching, BlockFetching, BlockAddedFetching
       DEF Connecting, Handling, Leaving, Messages, Misbehaviour
<1>2. CASE Resolve
    BY <1>2, ResolverFetching, AttachSentFetching, GetBlockFetching DEF Resolve
<1>3. CASE AddThread \/ Mine
    BY <1>3, AddBlockFetching, AttachFetching, MineFetching DEF AddThread
<1> QED
    BY <1>1, <1>2, <1>3 DEF Next

LEMMA NextTyped == ASSUME Typed, Fetching, Next PROVE Typed'
<1>1. ASSUME NEW p \in Peer,
             \/ Connecting(p) \/ Handling(p) \/ Leaving(p) \/ Messages(p)
             \/ Misbehaviour(p) \/ StallTimer(p)
      PROVE  Typed'
    BY <1>1, ConnectToPeerTyped, HandshakeCompleteTyped, SyncAfterHandshakeTyped, BlockAddedTyped,
       BlockRefusedTyped, BlockPanicsTyped, KickedTyped, ClosingTyped, PeerDisconnectedTyped,
       SyncAfterDisconnectTyped, HandshakeTyped, HeadersTyped, AnnounceTyped, BlockTyped,
       HandshakeFailsTyped, BadMessageTyped, HangUpTyped, HeadersPanicTyped, StallTimerTyped
       DEF Connecting, Handling, Leaving, Messages, Misbehaviour
<1>2. CASE Resolve
    BY <1>2, ResolveHeadersTyped, PassOverTyped, GetNextBlocksTyped, AttachSentTyped,
       AttachDoneTyped, GetBlockTyped, PeerStallingTyped DEF Resolve, Fetching
<1>3. CASE AddThread \/ Mine
    BY <1>3, AddBlockTyped, AttachTyped, MineTyped DEF AddThread
<1> QED
    BY <1>1, <1>2, <1>3 DEF Next

LEMMA UnchangedKeeps == ASSUME IInv, UNCHANGED vars PROVE IInv'
<1>1. Typed'
    BY DEF IInv, Typed, TypeOK, vars, stateVars, peerVars, taskVars, addVars, chainVars, netVars
<1>2. Books'
    BY DEF IInv, Books, Handshaken, vars, stateVars, peerVars, taskVars
<1>3. Fetching' /\ VerifyingIsHarmless'
    BY DEF IInv, Fetching, NotRequested, OnDiskFound, Sent, Answered, VerifyingIsHarmless, vars,
       stateVars, taskVars, addVars, chainVars
<1> QED
    BY <1>1, <1>2, <1>3 DEF IInv

\* The inductive invariant holds, whatever peers do and in whatever order tasks, the
\* resolver and the add thread run.
THEOREM DownloadInvariance == Spec => []IInv
<1>1. Init => IInv
    BY InitTyped, InitBooks, InitFetching DEF IInv
<1>2. IInv /\ [Next]_vars => IInv'
    BY NextTyped, NextBooks, NextFetching, UnchangedKeeps DEF IInv
<1> QED
    BY <1>1, <1>2, PTL DEF Spec

\* Types, for any number of peers and blocks.
THEOREM DownloadTyped == Spec => []TypeOK
<1>1. IInv => TypeOK
    BY DEF IInv, Typed
<1> QED
    BY <1>1, DownloadInvariance, PTL

\* The two books on requests agree, a peer that has gone owes nothing, and no peer is
\* asked for more than MAX_BLOCKS_PER_PEER blocks.
THEOREM RequestsAlwaysMatch == Spec => []RequestsMatch
<1>1. IInv => RequestsMatch
    <2> SUFFICES ASSUME Books PROVE RequestsMatch
        BY DEF IInv
    <2>1. \A p \in Peer : task[p] \in {"gone", "resync", "refused"} => asks[p] = {}
        BY DEF Books, Handshaken
    <2> QED
        BY <2>1 DEF Books, RequestsMatch
<1> QED
    BY <1>1, DownloadInvariance, PTL

\* No block is fetched twice, and none is added twice.
THEOREM BlocksFetchedOnce == Spec => []FetchedOnce
<1>1. IInv => FetchedOnce
    <2> SUFFICES ASSUME Typed, Fetching PROVE FetchedOnce
        BY DEF IInv
    <2>1. \A b \in Requested : b \notin verifying \cup has
        BY DEF Fetching, NotRequested, Requested
    <2>2. ASSUME NEW i \in DOMAIN addQueue, NEW j \in DOMAIN addQueue, addQueue[i].from # NoPeer
          PROVE  /\ addQueue[i].block \notin has \cup Requested
                 /\ addQueue[j].block = addQueue[i].block => i = j
        <3>1. addQueue[i].block \in verifying \ has
            BY <2>2 DEF Fetching, Sent
        <3>2. addQueue[j].block = addQueue[i].block => i = j
            BY <2>2 DEF Fetching, Sent
        <3> QED
            BY <2>1, <3>1, <3>2
    <2> QED
        BY <2>1, <2>2 DEF FetchedOnce
<1> QED
    BY <1>1, DownloadInvariance, PTL

\* What errors and hangups leave marked as being verified bars no block that is needed.
THEOREM LeftoversAreHarmless == Spec => []VerifyingIsHarmless
<1>1. IInv => VerifyingIsHarmless
    BY DEF IInv
<1> QED
    BY <1>1, DownloadInvariance, PTL
==============================================================================
