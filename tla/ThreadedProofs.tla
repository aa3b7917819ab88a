--------------------------- MODULE ThreadedProofs ---------------------------
(***************************************************************************)
(* What holds of Threaded for any number of peers, of blocks and of        *)
(* transactions: that the books of the manager and of the peers keep a     *)
(* block from being added twice, and the ways in which threads can wait    *)
(* for each other.                                                         *)
(***************************************************************************)
EXTENDS Threaded, TLAPS

USE ThreadedAssumption

------------------------------------------------------------------------------
(* The inductive invariant.                                                *)

\* A reader that is past the message has booked a header the chain refused.
Leaving == {"end", "ended", "panicked", "asserted"}

\* Blocks are requested, verified and added by the headers of the chain.
KnownBlocks ==
    /\ verifying \subseteq 1 .. headers
    /\ \A p \in Peer : at[p] \in AboutBlock => arg[p] \in Block
    /\ \A p \in Peer : at[p] = "add" => arg[p] <= headers
    /\ \A p \in Peer : \A b \in peerBlocks[p] :
        \/ b <= headers
        \/ at[p] \in Leaving
        \/ at[p] = "compactChain" /\ b = arg[p]

\* The books of blocks: what a peer is asked for is neither saved nor being verified, but
\* for a known block that is announced as a compact one.
BlockBooks ==
    /\ blockMap = UNION {peerBlocks[p] : p \in Peer}
    /\ \A p, q \in Peer : p # q => peerBlocks[p] \cap peerBlocks[q] = {}
    /\ \A p \in Peer : \A b \in peerBlocks[p] \cap (verifying \cup disk) :
        \/ at[p] = "panicked"
        \/ at[p] = "compactChain" /\ b = arg[p]

\* The books of transactions and of compact blocks.
OtherBooks ==
    /\ \A p \in Peer : peerCompact[p] \subseteq compactBlocks /\ peerTxs[p] \subseteq txMap
    /\ \A p, q \in Peer : p # q =>
        peerTxs[p] \cap peerTxs[q] = {} /\ peerCompact[p] \cap peerCompact[q] = {}
    /\ \A p \in Peer : at[p] = "compactChain" => arg[p] \notin compactBlocks
    /\ \A p, q \in Peer : at[p] = "compactChain" /\ at[q] = "compactChain" => p = q

\* Where handle_block is done with the books and not with the block.
AfterBooks == {"add", "index", "unverify"}

\* A block that a thread adds or has added is its own.
Adding ==
    /\ \A p \in Peer : at[p] \in AfterBooks => arg[p] \in verifying
    /\ \A p \in Peer : at[p] = "add" => arg[p] \notin disk
    /\ \A p, q \in Peer :
        p # q /\ at[p] \in AfterBooks /\ at[q] \in AfterBooks => arg[p] # arg[q]

IInv ==
    /\ TypeOK
    /\ KnownBlocks
    /\ ~AssertedTwice => BlockBooks /\ OtherBooks /\ Adding

------------------------------------------------------------------------------
(* Types are kept, and blocks are known.                                   *)

LEMMA MaxOfTwo ==
    ASSUME NEW a \in Nat, NEW b \in Nat
    PROVE  Max({a, b}) = IF a >= b THEN a ELSE b
<1> DEFINE m == IF a >= b THEN a ELSE b
<1>1. m \in {a, b} /\ \A y \in {a, b} : m >= y
    OBVIOUS
<1>2. \A x \in {a, b} : (\A y \in {a, b} : x >= y) => x = m
    OBVIOUS
<1>3. Max({a, b}) \in {a, b} /\ \A y \in {a, b} : Max({a, b}) >= y
    BY <1>1 DEF Max
<1> QED
    BY <1>2, <1>3

LEMMA LabelsOfDone ==
    ASSUME NEW p \in Peer
    PROVE  DoneLabel(p) \in {"end", "idle"} /\ SentLabel(p) \in {"end", "idle"}
    BY DEF DoneLabel, SentLabel

LEMMA BatchWanted == Batch \subseteq Wanted
    BY DEF Batch

Typed == TypeOK /\ KnownBlocks

LEMMA InitInv == Init => IInv
<1> SUFFICES ASSUME Init PROVE IInv
    OBVIOUS
<1>1. TypeOK
    <2>1. at \in [Thread -> Labels] /\ arg \in [Thread -> 0 .. Height]
        BY DEF Init, Labels
    <2>2. disk \subseteq 1 .. headers /\ invalid \subseteq 1 .. headers /\ headers \in 0 .. Height
        BY DEF Init
    <2> QED
        BY <2>1, <2>2 DEF Init, TypeOK
<1>2. KnownBlocks
    BY DEF Init, KnownBlocks, AboutBlock, Thread
<1>3. BlockBooks
    BY DEF Init, BlockBooks, Thread
<1>4. OtherBooks
    BY DEF Init, OtherBooks, Thread
<1>5. Adding
    BY DEF Init, Adding, AfterBooks, Thread
<1> QED
    BY <1>1, <1>2, <1>3, <1>4, <1>5 DEF IInv

\* Where a thread goes, and that the others stay.
LEMMA Goes ==
    ASSUME TypeOK, NEW t \in Thread, NEW label \in Labels, NEW b \in 0 .. Height,
           GotoWith(t, label, b)
    PROVE  /\ at' \in [Thread -> Labels] /\ at'[t] = label
           /\ arg' \in [Thread -> 0 .. Height]
           /\ arg'[t] = (IF label \in AboutBlock THEN b ELSE 0)
           /\ \A u \in Thread \ {t} : at'[u] = at[u] /\ arg'[u] = arg[u]
<1> DEFINE c == IF label \in AboutBlock THEN b ELSE 0
<1>1. c \in 0 .. Height
    OBVIOUS
<1> QED
    BY <1>1 DEF GotoWith, TypeOK

LEMMA GotoTyped ==
    ASSUME Typed, NEW p \in Peer, NEW label \in Labels, Goto(p, label)
    PROVE  at' \in [Thread -> Labels] /\ arg' \in [Thread -> 0 .. Height]
<1>1. p \in Thread /\ arg[p] \in 0 .. Height
    BY DEF Typed, TypeOK, Thread
<1>2. GotoWith(p, label, arg[p])
    BY DEF Goto
<1> QED
    BY <1>1, <1>2, Goes DEF Typed

LEMMA ReleaseTyped ==
    ASSUME Typed, NEW p \in Peer, NEW b \in Block, NEW label \in Labels, Release(p, b, label)
    PROVE  /\ at' \in [Thread -> Labels] /\ arg' \in [Thread -> 0 .. Height]
           /\ peerBlocks' \in [Peer -> SUBSET Block] /\ blockMap' \subseteq Block
           /\ peerBlocks'[p] = peerBlocks[p] \ {b}
           /\ \A q \in Peer \ {p} : peerBlocks'[q] = peerBlocks[q]
<1>1. peerBlocks' \in [Peer -> SUBSET Block]
    BY DEF Release, Typed, TypeOK
<1>2. blockMap' \subseteq Block
    BY DEF Release, Typed, TypeOK
<1>3. at' \in [Thread -> Labels] /\ arg' \in [Thread -> 0 .. Height]
    <2>1. (IF b \in blockMap THEN label ELSE "panicked") \in Labels
        BY DEF Labels
    <2> QED
        BY <2>1, Goes DEF Release, Goto, Typed, TypeOK, Thread
<1>4. peerBlocks'[p] = peerBlocks[p] \ {b} /\ \A q \in Peer \ {p} : peerBlocks'[q] = peerBlocks[q]
    BY DEF Release, Typed, TypeOK
<1> QED
    BY <1>1, <1>2, <1>3, <1>4

LEMMA BookBlockTyped ==
    ASSUME Typed, NEW p \in Peer, BookBlock(p)
    PROVE  Typed'
<1>1. arg[p] \in Block
    BY DEF BookBlock, Typed, KnownBlocks, AboutBlock
<1>2. CASE arg[p] \in peerBlocks[p]
    <2>1. Release(p, arg[p], "add")
        BY <1>2 DEF BookBlock
    <2>2. arg[p] \in 1 .. headers
        BY <1>1, <1>2 DEF BookBlock, Typed, TypeOK, KnownBlocks, Leaving, Block
    <2>3. verifying' \subseteq verifying \cup {arg[p]}
        BY <1>2 DEF BookBlock
    <2>4. TypeOK'
      <3>1. verifying' \subseteq Block
        BY <1>1, <2>3 DEF Typed, TypeOK
      <3> QED
        BY <2>1, <1>1, ReleaseTyped, <3>1 DEF BookBlock, Typed, TypeOK, Labels, chain
    <2>5. \A q \in Peer : \/ at'[q] = at[q] /\ arg'[q] = arg[q]
                          \/ q = p /\ at'[q] = "add" /\ arg'[q] = arg[q] /\ arg'[q] \in 1 .. headers
                          \/ q = p /\ at'[q] = "panicked"
        BY <1>2, <2>2 DEF BookBlock, Release, Goto, GotoWith, AboutBlock, Typed, TypeOK, Thread
    <2>6. \A q \in Peer : peerBlocks'[q] \subseteq peerBlocks[q]
        BY <2>1, <1>1, ReleaseTyped DEF Labels
    <2>7. KnownBlocks'
        BY <1>1, <1>2, <2>2, <2>3, <2>5, <2>6
        DEF BookBlock, Typed, TypeOK, KnownBlocks, Leaving, AboutBlock, chain
    <2> QED
        BY <2>4, <2>7 DEF Typed
<1>3. CASE arg[p] \notin peerBlocks[p]
    <2>1. Goto(p, "end") /\ UNCHANGED <<todo, removed, writer, books, peerBooks, chain>>
        BY <1>3 DEF BookBlock, books, peerBooks
    <2>2. at' \in [Thread -> Labels] /\ arg' \in [Thread -> 0 .. Height] 
        BY <2>1, Goes DEF Goto, Typed, TypeOK, Labels, Thread
    <2>3. TypeOK'
        BY <2>1, <2>2 DEF Typed, TypeOK, books, peerBooks, chain
    <2>4. KnownBlocks'
        BY <2>1, <1>1 DEF Typed, TypeOK, KnownBlocks, Leaving, AboutBlock, books, peerBooks, chain,
                          Goto, GotoWith, Thread
    <2> QED
        BY <2>3, <2>4 DEF Typed
<1> QED
    BY <1>2, <1>3

LEMMA UnverifyTyped ==
    ASSUME Typed, NEW p \in Peer, Unverify(p)
    PROVE  Typed'
<1>1. at' \in [Thread -> Labels] /\ arg' \in [Thread -> 0 .. Height]
    BY Goes DEF Unverify, Goto, Typed, TypeOK, Labels, Thread
<1>2. TypeOK'
    BY <1>1 DEF Unverify, Typed, TypeOK, chain, peerBooks
<1>3. \A q \in Peer : \/ q # p /\ at'[q] = at[q] /\ arg'[q] = arg[q]
                      \/ at'[q] = "next" /\ at[q] = "unverify"
    BY DEF Unverify, Goto, GotoWith, Typed, TypeOK, Thread
<1>4. verifying' = verifying \ {arg[p]} /\ UNCHANGED <<peerBlocks, headers>>
    BY DEF Unverify, peerBooks, chain
<1>5. KnownBlocks'
    BY <1>3, <1>4 DEF Typed, KnownBlocks, AboutBlock, Leaving
<1> QED
    BY <1>2, <1>5 DEF Typed

LEMMA BookCompactTyped ==
    ASSUME Typed, NEW p \in Peer, BookCompact(p)
    PROVE  Typed'
<1>1. arg[p] \in Block
    BY DEF BookCompact, Typed, KnownBlocks, AboutBlock
<1>2. at' \in [Thread -> Labels] /\ arg' \in [Thread -> 0 .. Height]
    <2>1. PICK label \in {"end", "idle", "asserted", "compactChain"} : Goto(p, label)
        BY LabelsOfDone DEF BookCompact, Done
    <2>2. label \in Labels
        BY DEF Labels
    <2> QED
        BY <2>1, <2>2, GotoTyped
<1>3. peerBlocks' \in [Peer -> SUBSET Block]
    BY <1>1 DEF BookCompact, Typed, TypeOK
<1>4. blockMap' \subseteq Block
    BY <1>1 DEF BookCompact, Typed, TypeOK
<1>5. TypeOK'
    BY <1>2, <1>3, <1>4 DEF BookCompact, Typed, TypeOK, chain
<1>6. \A q \in Peer : \/ at'[q] = at[q] /\ arg'[q] = arg[q] /\ peerBlocks'[q] = peerBlocks[q]
                      \/ /\ at'[q] \in {"end", "idle"}
                         /\ peerBlocks'[q] = peerBlocks[q] /\ at[q] = "compact"
                      \/ /\ at'[q] \in {"compactChain", "asserted"}
                         /\ peerBlocks'[q] \subseteq peerBlocks[q] \cup {arg[q]}
                         /\ at'[q] = "compactChain" => arg'[q] = arg[q] /\ arg[q] \in Block
                         /\ at[q] = "compact"
    BY <1>1, LabelsOfDone DEF BookCompact, Goto, GotoWith, Done, AboutBlock, Typed,
       TypeOK, Thread
<1>7. KnownBlocks'
    BY <1>6 DEF BookCompact, Typed, KnownBlocks, AboutBlock, Leaving, chain
<1> QED
    BY <1>5, <1>7 DEF Typed

LEMMA CompactHeaderTyped ==
    ASSUME Typed, NEW p \in Peer, CompactHeader(p)
    PROVE  Typed'
<1>1. arg[p] \in Block /\ arg[p] \in Nat
    BY DEF CompactHeader, Typed, KnownBlocks, AboutBlock, Block
<1>2. at' \in [Thread -> Labels] /\ arg' \in [Thread -> 0 .. Height]
    <2>1. PICK label \in {"end", "idle", "block", "panicked"} : Goto(p, label)
        BY LabelsOfDone DEF CompactHeader
    <2>2. label \in Labels
        BY DEF Labels
    <2> QED
        BY <2>1, <2>2, GotoTyped
<1>3. headers' \in 0 .. Height /\ headers' >= headers /\ (headers' = headers \/ headers' = arg[p])
    BY <1>1 DEF CompactHeader, NewHeader, Typed, TypeOK, Block
<1>4. peerCompact' \in [Peer -> SUBSET Block]
    BY <1>1 DEF CompactHeader, Typed, TypeOK
<1>5. compactBlocks' \subseteq Block
    BY <1>1 DEF CompactHeader, Typed, TypeOK
<1>6. TypeOK'
    <2>1. UNCHANGED <<todo, removed, writer, peers, headerSync, txMap, blockMap, verifying,
                      ack, disconnect, peerTxs, peerBlocks, disk, invalid>>
        BY DEF CompactHeader
    <2>2. disk' \subseteq 1 .. headers' /\ invalid' \subseteq 1 .. headers'
        BY <1>3, <2>1 DEF Typed, TypeOK
    <2> QED
        BY <1>2, <1>3, <1>4, <1>5, <2>1, <2>2 DEF Typed, TypeOK
<1>7. \A q \in Peer : \/ q # p /\ at'[q] = at[q] /\ arg'[q] = arg[q]
                      \/ q = p /\ at'[q] \in {"end", "panicked"}
                      \/ /\ q = p /\ headers' = arg[q] /\ at'[q] \in {"idle", "block"}
                         /\ at'[q] = "block" => arg'[q] = arg[q]
    BY LabelsOfDone DEF CompactHeader, Goto, GotoWith, AboutBlock, Typed, TypeOK, Thread
<1>8. \A q \in Peer : arg[q] \in Nat /\ \A b \in peerBlocks[q] : b \in Nat
    BY DEF Typed, TypeOK, Block, Thread
<1>9. KnownBlocks'
    BY <1>1, <1>3, <1>7, <1>8 DEF CompactHeader, Typed, TypeOK, KnownBlocks, AboutBlock,
       Leaving
<1> QED
    BY <1>6, <1>9 DEF Typed

LEMMA NextPeerTyped ==
    ASSUME Typed, NEW t \in Thread, NEW p \in Peer, NextPeer(t, p)
    PROVE  Typed'
<1>1. Batch \subseteq 1 .. headers /\ Batch \in SUBSET Block
    BY BatchWanted DEF Wanted, Typed, TypeOK, Block
<1>2. at' \in [Thread -> Labels] /\ arg' \in [Thread -> 0 .. Height]
    <2>1. (IF t = Maintainer THEN "panicked" ELSE "end") \in Labels
        BY DEF Labels
    <2> QED
        BY <2>1, Goes DEF NextPeer, Goto, Typed, TypeOK
<1>3. /\ peerBlocks' \in [Peer -> SUBSET Block]
      /\ \A q \in Peer : peerBlocks'[q] \subseteq peerBlocks[q] \cup Batch
    BY <1>1 DEF NextPeer, Typed, TypeOK
<1>4. blockMap' \subseteq Block
    BY <1>1 DEF NextPeer, Typed, TypeOK
<1>5. todo' \in [Thread -> SUBSET Peer]
    BY DEF NextPeer, Typed, TypeOK
<1>6. TypeOK'
    BY <1>2, <1>3, <1>4, <1>5 DEF NextPeer, Typed, TypeOK, chain
<1>7. \A q \in Peer : \/ at'[q] = at[q] /\ arg'[q] = arg[q]
                      \/ at'[q] \in {"end", "panicked"}
    BY DEF NextPeer, Goto, GotoWith, AboutBlock, Typed, TypeOK, Thread
<1>8. headers' = headers /\ verifying' = verifying
    BY DEF NextPeer, chain
<1>9. KnownBlocks'
    BY <1>1, <1>3, <1>7, <1>8 DEF Typed, TypeOK, KnownBlocks, AboutBlock, Leaving
<1> QED
    BY <1>6, <1>9 DEF Typed

LEMMA AddBlockTyped ==
    ASSUME Typed, NEW p \in Peer, AddBlock(p)
    PROVE  Typed'
<1>1. arg[p] \in Block /\ arg[p] \in 1 .. headers
    BY DEF AddBlock, Typed, TypeOK, KnownBlocks, AboutBlock, Block
<1>2. at' \in [Thread -> Labels] /\ arg' \in [Thread -> 0 .. Height]
    BY <1>1, Goes DEF AddBlock, Goto, Typed, TypeOK, Labels, Thread
<1>3. disk' \subseteq 1 .. headers' /\ invalid' \subseteq 1 .. headers'
    BY <1>1 DEF AddBlock, Typed, TypeOK
<1>4. TypeOK'
    BY <1>2, <1>3 DEF AddBlock, Typed, TypeOK, books, peerBooks
<1>5. \A q \in Peer : \/ at'[q] = at[q] /\ arg'[q] = arg[q]
                      \/ at'[q] = "panicked"
                      \/ at'[q] \in {"index", "unverify"} /\ arg'[q] \in Block /\ at[q] = "add"
    BY <1>1 DEF AddBlock, Goto, GotoWith, AboutBlock, Typed, TypeOK, Thread
<1>6. KnownBlocks'
    BY <1>5 DEF AddBlock, Typed, KnownBlocks, AboutBlock, Leaving, books, peerBooks
<1> QED
    BY <1>4, <1>6 DEF Typed

LEMMA HandleHeadersTyped ==
    ASSUME Typed, NEW p \in Peer, HandleHeaders(p)
    PROVE  Typed'
<1> DEFINE Step(first, good) ==
        /\ headers' = IF first > headers + 1 THEN headers ELSE Max({headers, good})
        /\ \E label \in {"panicked", "end", "next", "headersWait"} : Goto(p, label)
<1>1. PICK first \in Block : \E last \in first .. Height : \E good \in first - 1 .. last :
        Step(first, good)
    BY DEF HandleHeaders
<1>2. PICK good \in 0 .. Height : Step(first, good)
    <2>1. \A last \in first .. Height : \A good \in first - 1 .. last : good \in 0 .. Height
        BY DEF Block
    <2> QED
        BY <1>1, <2>1
<1>3. PICK label \in {"panicked", "end", "next", "headersWait"} : Goto(p, label)
    BY <1>2
<1>4. at' \in [Thread -> Labels] /\ arg' \in [Thread -> 0 .. Height]
    BY <1>3, GotoTyped DEF Labels
<1>5. good \in 0 .. Height /\ headers \in 0 .. Height
    BY DEF Typed, TypeOK
<1>6. headers' \in 0 .. Height /\ headers' >= headers
    BY <1>2, <1>5, MaxOfTwo
<1>7. UNCHANGED <<todo, removed, writer, books, peerBooks, disk, invalid>>
    BY DEF HandleHeaders
<1>8. TypeOK'
    BY <1>4, <1>5, <1>6, <1>7 DEF Typed, TypeOK, books, peerBooks
<1>9. \A q \in Peer : \/ q # p /\ at'[q] = at[q] /\ arg'[q] = arg[q]
                      \/ q = p /\ at'[q] \notin AboutBlock /\ at[q] = "headers"
    BY <1>3 DEF HandleHeaders, Goto, GotoWith, AboutBlock, Typed, TypeOK, Thread
<1>10. \A q \in Peer : arg[q] \in Nat /\ \A b \in peerBlocks[q] : b \in Nat
    BY DEF Typed, TypeOK, Block, Thread
<1>11. KnownBlocks'
    BY <1>5, <1>6, <1>7, <1>9, <1>10
    DEF Typed, KnownBlocks, AboutBlock, Leaving, books, peerBooks
<1> QED
    BY <1>8, <1>11 DEF Typed

LEMMA TypedStep == Typed /\ [Next]_vars => Typed'
<1> SUFFICES ASSUME Typed, [Next]_vars PROVE Typed'
    OBVIOUS
<1> USE LabelsOfDone DEF Typed, TypeOK, KnownBlocks, GotoWith, Goto, Done,
        AboutBlock, Labels, Block, Thread, Leaving, threads, books, peerBooks, chain
<1>1. ASSUME NEW p \in Peer, Connect(p) PROVE Typed'
    BY <1>1 DEF Connect
<1>2. ASSUME StartRound PROVE Typed'
    BY <1>2 DEF StartRound
<1>3. ASSUME NEW p \in Peer, Retain(p) PROVE Typed'
    BY <1>3 DEF Retain, Remove
<1>4. ASSUME EndRound PROVE Typed'
    <2>1. (IF removed THEN "next" ELSE "connect") \in Labels
        OBVIOUS
    <2>2. at' \in [Thread -> Labels] /\ arg' \in [Thread -> 0 .. Height]
        BY <1>4, <2>1, Goes DEF EndRound
    <2>3. TypeOK'
        BY <1>4, <2>2 DEF EndRound
    <2>4. KnownBlocks'
        BY <1>4 DEF EndRound
    <2> QED
        BY <2>3, <2>4
<1>5. ASSUME NEW p \in Peer, WriterFails(p) PROVE Typed'
    BY <1>5 DEF WriterFails
<1>6. ASSUME NEW p \in Peer, WriterEnds(p) PROVE Typed'
    BY <1>6 DEF WriterEnds
<1>7. ASSUME NEW p \in Peer, ReaderFails(p) PROVE Typed'
    BY <1>7 DEF ReaderFails
<1>8. ASSUME NEW p \in Peer, ReaderEnds(p) PROVE Typed'
    BY <1>8 DEF ReaderEnds
<1>9. ASSUME NEW p \in Peer, Verack(p) PROVE Typed'
    BY <1>9 DEF Verack
<1>10. ASSUME NEW p \in Peer, VerackState(p) PROVE Typed'
    BY <1>10 DEF VerackState
<1>11. ASSUME NEW p \in Peer, VerackChain(p) PROVE Typed'
    BY <1>11 DEF VerackChain
<1>12. ASSUME NEW p \in Peer, VerackWait(p) PROVE Typed'
    BY <1>12 DEF VerackWait, Waited
<1>13. ASSUME NEW p \in Peer, Inv(p) PROVE Typed'
    BY <1>13 DEF Inv
<1>14. ASSUME NEW p \in Peer, InvState(p) PROVE Typed'
    BY <1>14 DEF InvState, NewTxs
<1>15. ASSUME NEW p \in Peer, NEW tx \in Tx, HandleTx(p, tx) PROVE Typed'
    BY <1>15 DEF HandleTx
<1>16. ASSUME NEW p \in Peer, NEW tx \in Tx, NotFoundTx(p, tx) PROVE Typed'
    BY <1>16 DEF NotFoundTx
<1>17. ASSUME NEW p \in Peer, NEW b \in Block, ReceiveBlock(p, b) PROVE Typed'
    BY <1>17 DEF ReceiveBlock
<1>18. ASSUME NEW p \in Peer, NEW b \in Block, NotFoundBlock(p, b) PROVE Typed'
    BY <1>18 DEF NotFoundBlock, Release
<1>19. ASSUME NEW p \in Peer, NEW b \in Block, ReceiveCompact(p, b) PROVE Typed'
    BY <1>19 DEF ReceiveCompact
<1>20. ASSUME NEW p \in Peer, NEW b \in Block, BlockTxn(p, b) PROVE Typed'
    BY <1>20 DEF BlockTxn
<1>21. ASSUME NEW p \in Peer, BookBlock(p) PROVE Typed'
    BY <1>21, BookBlockTyped
<1>22. ASSUME NEW p \in Peer, AddBlock(p) PROVE Typed'
    BY <1>22, AddBlockTyped
<1>23. ASSUME NEW p \in Peer, Unverify(p) PROVE Typed'
    BY <1>23, UnverifyTyped
<1>24. ASSUME NEW p \in Peer, ReceiveHeaders(p) PROVE Typed'
    BY <1>24 DEF ReceiveHeaders
<1>25. ASSUME NEW p \in Peer, HandleHeaders(p) PROVE Typed'
    BY <1>25, HandleHeadersTyped
<1>26. ASSUME NEW p \in Peer, HeadersWait(p) PROVE Typed'
    BY <1>26 DEF HeadersWait, Waited
<1>27. ASSUME NEW p \in Peer, BookCompact(p) PROVE Typed'
    BY <1>27, BookCompactTyped
<1>28. ASSUME NEW p \in Peer, CompactHeader(p) PROVE Typed'
    BY <1>28, CompactHeaderTyped
<1>29. ASSUME NEW t \in Thread, NextChain(t) PROVE Typed'
    BY <1>29 DEF NextChain
<1>30. ASSUME NEW t \in Thread, NextState(t) PROVE Typed'
    BY <1>30 DEF NextState
<1>31. ASSUME NEW t \in Thread, NEW p \in Peer, NextPeer(t, p) PROVE Typed'
    BY <1>31, NextPeerTyped
<1>32. ASSUME NEW t \in Thread, NextEnds(t) PROVE Typed'
    BY <1>32 DEF NextEnds
<1>33. ASSUME UNCHANGED vars PROVE Typed'
    BY <1>33 DEF vars, threads
<1>34. ASSUME NEW p \in Peer, IndexBlock(p) PROVE Typed'
    BY <1>34 DEF IndexBlock
<1>35. ASSUME NEW p \in Peer, Serve(p) PROVE Typed'
    BY <1>35 DEF Serve
<1>36. ASSUME NEW p \in Peer, GetData(p) PROVE Typed'
    BY <1>36 DEF GetData
<1>37. ASSUME NEW p \in Peer, SendData(p) PROVE Typed'
    BY <1>37 DEF SendData
<1>38. ASSUME NEW p \in Peer, GetFilters(p) PROVE Typed'
    BY <1>38 DEF GetFilters
<1>39. ASSUME NEW p \in Peer, SendFilters(p) PROVE Typed'
    BY <1>39 DEF SendFilters
<1> QED
    BY <1>1, <1>2, <1>3, <1>4, <1>5, <1>6, <1>7, <1>8, <1>9, <1>10, <1>11, <1>12, <1>13,
       <1>14, <1>15, <1>16, <1>17, <1>18, <1>19, <1>20, <1>21, <1>22, <1>23, <1>24, <1>25,
       <1>26, <1>27, <1>28, <1>29, <1>30, <1>31, <1>32, <1>33, <1>34, <1>35, <1>36, <1>37,
       <1>38, <1>39
    DEF Next, Reader, GetNextBlocks, MaintainPeers

------------------------------------------------------------------------------
(* The books are kept.                                                     *)

Books == BlockBooks /\ OtherBooks /\ Adding

bookVars == <<txMap, blockMap, verifying, compactBlocks, peerTxs, peerBlocks, peerCompact,
              disk>>

\* A reader that goes on without a block of its own, or that stays.
Passes(p) ==
    \/ at'[p] = at[p] /\ arg'[p] = arg[p]
    \/ /\ at[p] \notin {"compactChain", "panicked"}
       /\ at'[p] \notin {"compactChain", "add", "index", "unverify"}

LEMMA QuietStep ==
    ASSUME Typed, Books, UNCHANGED bookVars, \A p \in Peer : Passes(p)
    PROVE  Books'
<1> USE DEF Passes, bookVars
<1>1. BlockBooks'
    BY DEF Books, BlockBooks
<1>2. OtherBooks'
    BY DEF Books, OtherBooks
<1>3. Adding'
    BY DEF Books, Adding, AfterBooks
<1> QED
    BY <1>1, <1>2, <1>3 DEF Books

\* The steps that touch no book and no block.
Quiet ==
    \/ StartRound \/ EndRound
    \/ \E p \in Peer :
        \/ Connect(p) \/ WriterFails(p) \/ WriterEnds(p) \/ ReaderFails(p) \/ ReaderEnds(p)
        \/ Verack(p) \/ VerackState(p) \/ VerackChain(p) \/ VerackWait(p) \/ Inv(p)
        \/ ReceiveHeaders(p) \/ HandleHeaders(p) \/ HeadersWait(p)
        \/ Serve(p) \/ GetData(p) \/ SendData(p) \/ GetFilters(p) \/ SendFilters(p)
        \/ \E b \in Block : ReceiveBlock(p, b) \/ ReceiveCompact(p, b)
    \/ \E t \in Thread : NextChain(t) \/ NextState(t) \/ NextEnds(t)

LEMMA QuietActions ==
    ASSUME Typed, Quiet
    PROVE  UNCHANGED bookVars /\ \A p \in Peer : Passes(p)
<1> DEFINE Goal == UNCHANGED bookVars /\ \A r \in Peer : Passes(r)
<1> USE LabelsOfDone DEF Typed, TypeOK, GotoWith, Goto, Done, AboutBlock, Thread,
        Passes, bookVars, threads, books, peerBooks, chain
<1>1. ASSUME NEW p \in Peer, Connect(p) PROVE Goal
    BY <1>1 DEF Connect
<1>2. ASSUME StartRound PROVE Goal
    BY <1>2 DEF StartRound
<1>3. ASSUME EndRound PROVE Goal
    BY <1>3 DEF EndRound
<1>4. ASSUME NEW p \in Peer, WriterFails(p) PROVE Goal
    BY <1>4 DEF WriterFails
<1>5. ASSUME NEW p \in Peer, WriterEnds(p) PROVE Goal
    BY <1>5 DEF WriterEnds
<1>6. ASSUME NEW p \in Peer, ReaderFails(p) PROVE Goal
    BY <1>6 DEF ReaderFails
<1>7. ASSUME NEW p \in Peer, ReaderEnds(p) PROVE Goal
    BY <1>7 DEF ReaderEnds
<1>8. ASSUME NEW p \in Peer, Verack(p) PROVE Goal
    BY <1>8 DEF Verack
<1>9. ASSUME NEW p \in Peer, VerackState(p) PROVE Goal
    BY <1>9 DEF VerackState
<1>10. ASSUME NEW p \in Peer, VerackChain(p) PROVE Goal
    BY <1>10 DEF VerackChain
<1>11. ASSUME NEW p \in Peer, VerackWait(p) PROVE Goal
    BY <1>11 DEF VerackWait, Waited
<1>12. ASSUME NEW p \in Peer, Inv(p) PROVE Goal
    BY <1>12 DEF Inv
<1>13. ASSUME NEW p \in Peer, NEW b \in Block, ReceiveBlock(p, b) PROVE Goal
    BY <1>13 DEF ReceiveBlock
<1>14. ASSUME NEW p \in Peer, NEW b \in Block, ReceiveCompact(p, b) PROVE Goal
    BY <1>14 DEF ReceiveCompact
<1>15. ASSUME NEW p \in Peer, ReceiveHeaders(p) PROVE Goal
    BY <1>15 DEF ReceiveHeaders
<1>16. ASSUME NEW p \in Peer, HandleHeaders(p) PROVE Goal
    BY <1>16 DEF HandleHeaders
<1>17. ASSUME NEW p \in Peer, HeadersWait(p) PROVE Goal
    BY <1>17 DEF HeadersWait, Waited
<1>18. ASSUME NEW t \in Thread, NextChain(t) PROVE Goal
    BY <1>18 DEF NextChain
<1>19. ASSUME NEW t \in Thread, NextState(t) PROVE Goal
    BY <1>19 DEF NextState
<1>20. ASSUME NEW t \in Thread, NextEnds(t) PROVE Goal
    BY <1>20 DEF NextEnds
<1>21. ASSUME NEW p \in Peer, Serve(p) PROVE Goal
    BY <1>21 DEF Serve
<1>22. ASSUME NEW p \in Peer, GetData(p) PROVE Goal
    BY <1>22 DEF GetData
<1>23. ASSUME NEW p \in Peer, SendData(p) PROVE Goal
    BY <1>23 DEF SendData
<1>24. ASSUME NEW p \in Peer, GetFilters(p) PROVE Goal
    BY <1>24 DEF GetFilters
<1>25. ASSUME NEW p \in Peer, SendFilters(p) PROVE Goal
    BY <1>25 DEF SendFilters
<1> QED
    BY <1>1, <1>2, <1>3, <1>4, <1>5, <1>6, <1>7, <1>8, <1>9, <1>10, <1>11, <1>12, <1>13,
       <1>14, <1>15, <1>16, <1>17, <1>18, <1>19, <1>20, <1>21, <1>22, <1>23, <1>24, <1>25
    DEF Quiet

\* The parts of the books that a step leaves alone.
LEMMA SameBlockBooks ==
    ASSUME BlockBooks, UNCHANGED <<blockMap, peerBlocks, verifying, disk>>,
           \A p \in Peer : Passes(p)
    PROVE  BlockBooks'
    BY DEF BlockBooks, Passes

LEMMA SameOtherBooks ==
    ASSUME OtherBooks, UNCHANGED <<txMap, peerTxs, compactBlocks, peerCompact>>,
           \A p \in Peer : at'[p] = "compactChain" => at[p] = at'[p] /\ arg[p] = arg'[p]
    PROVE  OtherBooks'
    BY DEF OtherBooks

LEMMA SameAdding ==
    ASSUME Adding, UNCHANGED <<verifying, disk>>,
           \A p \in Peer : at'[p] \in AfterBooks => at[p] = at'[p] /\ arg[p] = arg'[p]
    PROVE  Adding'
    BY DEF Adding, AfterBooks

LEMMA RetainBooks ==
    ASSUME Typed, Books, NEW p \in Peer, Retain(p)
    PROVE  Books'
<1>1. \A q \in Peer : Passes(q)
    BY DEF Retain, Passes
<1>2. UNCHANGED <<at, arg, txMap, verifying, compactBlocks, peerTxs, peerCompact, disk>>
    BY DEF Retain, chain
<1>3. BlockBooks'
    <2>1. CASE p \in disconnect
        <3>1. blockMap' = blockMap \ peerBlocks[p]
            BY <2>1 DEF Retain, Remove
        <3>2. /\ peerBlocks'[p] = {}
              /\ \A q \in Peer \ {p} : peerBlocks'[q] = peerBlocks[q]
            BY <2>1 DEF Retain, Remove, Typed, TypeOK
        <3> QED
            BY <1>2, <3>1, <3>2 DEF Books, BlockBooks
    <2>2. CASE p \notin disconnect
        BY <1>1, <1>2, <2>2, SameBlockBooks DEF Retain, Books
    <2> QED
        BY <2>1, <2>2
<1>4. OtherBooks'
    BY <1>2, SameOtherBooks DEF Books
<1>5. Adding'
    BY <1>2, SameAdding DEF Books, AfterBooks
<1> QED
    BY <1>3, <1>4, <1>5 DEF Books

LEMMA TxBooks ==
    ASSUME Typed, Books, NEW p \in Peer,
           InvState(p) \/ \E tx \in Tx : HandleTx(p, tx) \/ NotFoundTx(p, tx)
    PROVE  Books'
<1>1. \A q \in Peer : Passes(q)
    BY LabelsOfDone DEF InvState, HandleTx, NotFoundTx, Done, Goto, GotoWith,
       AboutBlock, Passes,
                        Typed, TypeOK, Thread
<1>2. UNCHANGED <<blockMap, peerBlocks, compactBlocks, peerCompact, verifying, disk>>
    BY DEF InvState, HandleTx, NotFoundTx, books, chain
<1>3. BlockBooks'
    BY <1>1, <1>2, SameBlockBooks DEF Books
<1>4. OtherBooks'
    <2>1. \A q \in Peer : at'[q] = "compactChain" => at[q] = "compactChain" /\ arg'[q] = arg[q]
        BY <1>1 DEF Passes
    <2> DEFINE Kept == /\ \A q \in Peer : peerTxs'[q] \subseteq txMap'
                       /\ \A q, r \in Peer : q # r => peerTxs'[q] \cap peerTxs'[r] = {}
    <2>2. Kept
        <3>1. CASE InvState(p)
            <4>1. PICK txs \in SUBSET Tx :
                    /\ txMap' = txMap \cup NewTxs(txs)
                    /\ peerTxs' = [peerTxs EXCEPT ![p] = @ \cup NewTxs(txs)]
                BY <3>1 DEF InvState
            <4>2. /\ peerTxs'[p] = peerTxs[p] \cup NewTxs(txs)
                  /\ \A q \in Peer \ {p} : peerTxs'[q] = peerTxs[q]
                BY <4>1 DEF Typed, TypeOK
            <4>3. NewTxs(txs) \cap txMap = {}
                BY DEF NewTxs
            <4> QED
                BY <4>1, <4>2, <4>3 DEF Books, OtherBooks
        <3>2. ASSUME NEW tx \in Tx, HandleTx(p, tx) \/ NotFoundTx(p, tx)
              PROVE  Kept
            <4>1. /\ peerTxs'[p] = peerTxs[p] \ {tx}
                  /\ \A q \in Peer \ {p} : peerTxs'[q] = peerTxs[q]
                BY <3>2 DEF HandleTx, NotFoundTx, Typed, TypeOK
            <4>2. tx \in peerTxs[p] /\ txMap \ {tx} \subseteq txMap'
                BY <3>2 DEF HandleTx, NotFoundTx, books
            <4> QED
                BY <4>1, <4>2 DEF Books, OtherBooks
        <3> QED
            BY <3>1, <3>2
    <2> QED
        BY <1>2, <2>1, <2>2 DEF Books, OtherBooks
<1>5. Adding'
    BY <1>1, <1>2, SameAdding DEF Books, Passes, AfterBooks
<1> QED
    BY <1>3, <1>4, <1>5 DEF Books

\* A block that is released is in one book of a peer less, and in that of the state.
LEMMA ReleaseBooks ==
    ASSUME Typed, Books, NEW p \in Peer, NEW b \in peerBlocks[p], NEW label \in Labels,
           Release(p, b, label)
    PROVE  /\ Goto(p, label)
           /\ blockMap' = UNION {peerBlocks'[q] : q \in Peer}
           /\ \A q \in Peer : b \notin peerBlocks'[q] /\ peerBlocks'[q] \subseteq peerBlocks[q]
<1>1. b \in blockMap /\ b \in Block
    BY DEF Books, BlockBooks, Typed, TypeOK
<1>2. peerBlocks'[p] = peerBlocks[p] \ {b} /\ \A q \in Peer \ {p} : peerBlocks'[q] = peerBlocks[q]
    BY <1>1, ReleaseTyped
<1>3. blockMap' = blockMap \ {b} /\ Goto(p, label)
    BY <1>1 DEF Release
<1>4. \A q \in Peer \ {p} : b \notin peerBlocks[q]
    BY DEF Books, BlockBooks
<1> QED
    BY <1>2, <1>3, <1>4 DEF Books, BlockBooks

LEMMA NotFoundBlockBooks ==
    ASSUME Typed, Books, NEW p \in Peer, NEW b \in Block, NotFoundBlock(p, b)
    PROVE  Books'
<1>1. b \in peerBlocks[p] /\ DoneLabel(p) \in Labels /\ Release(p, b, DoneLabel(p))
    BY LabelsOfDone DEF NotFoundBlock, Labels
<1>2. /\ Goto(p, DoneLabel(p))
      /\ blockMap' = UNION {peerBlocks'[q] : q \in Peer}
      /\ \A q \in Peer : peerBlocks'[q] \subseteq peerBlocks[q]
    BY <1>1, ReleaseBooks
<1>3. \A q \in Peer : Passes(q)
    BY <1>2, LabelsOfDone DEF NotFoundBlock, Goto, GotoWith, Passes, Typed, TypeOK,
       Thread, AboutBlock
<1>4. UNCHANGED <<txMap, peerTxs, compactBlocks, peerCompact, verifying, disk>>
    BY DEF NotFoundBlock, chain
<1>5. BlockBooks'
    BY <1>2, <1>3, <1>4 DEF Books, BlockBooks, Passes
<1>6. OtherBooks'
    BY <1>3, <1>4, SameOtherBooks DEF Books, Passes
<1>7. Adding'
    BY <1>3, <1>4, SameAdding DEF Books, Passes, AfterBooks
<1> QED
    BY <1>5, <1>6, <1>7 DEF Books

LEMMA BlockTxnBooks ==
    ASSUME Typed, Books, NEW p \in Peer, NEW b \in Block, BlockTxn(p, b)
    PROVE  Books'
<1>1. \A q \in Peer : Passes(q)
    BY DEF BlockTxn, Goto, GotoWith, Passes, Typed, TypeOK, Thread, AboutBlock
<1>2. UNCHANGED <<txMap, peerTxs, blockMap, peerBlocks, verifying, disk>>
    BY DEF BlockTxn, chain
<1>3. BlockBooks'
    BY <1>1, <1>2, SameBlockBooks DEF Books
<1>4. OtherBooks'
    <2>1. /\ peerCompact'[p] = peerCompact[p] \ {b}
          /\ \A q \in Peer \ {p} : peerCompact'[q] = peerCompact[q]
        BY DEF BlockTxn, Typed, TypeOK
    <2>2. b \in peerCompact[p] /\ compactBlocks' = compactBlocks \ {b}
        BY DEF BlockTxn
    <2> QED
        BY <1>1, <1>2, <2>1, <2>2 DEF Books, OtherBooks, Passes
<1>5. Adding'
    BY <1>1, <1>2, SameAdding DEF Books, Passes, AfterBooks
<1> QED
    BY <1>3, <1>4, <1>5 DEF Books

LEMMA BookBlockBooks ==
    ASSUME Typed, Books, NEW p \in Peer, BookBlock(p)
    PROVE  Books'
<1>1. UNCHANGED <<txMap, peerTxs, compactBlocks, peerCompact, disk>>
    BY DEF BookBlock, chain
<1>2. CASE arg[p] \notin peerBlocks[p]
    <2>1. \A q \in Peer : Passes(q)
        BY <1>2 DEF BookBlock, Goto, GotoWith, Passes, Typed, TypeOK, Thread
    <2>2. UNCHANGED bookVars
        BY <1>1, <1>2 DEF BookBlock, bookVars
    <2> QED
        BY <2>1, <2>2, QuietStep
<1>3. CASE arg[p] \in peerBlocks[p]
    <2> DEFINE b == arg[p]
    <2>1. Release(p, b, "add") /\ "add" \in Labels
        BY <1>3 DEF BookBlock, Labels
    <2>2. /\ Goto(p, "add")
          /\ blockMap' = UNION {peerBlocks'[q] : q \in Peer}
          /\ \A q \in Peer : b \notin peerBlocks'[q] /\ peerBlocks'[q] \subseteq peerBlocks[q]
        BY <1>3, <2>1, ReleaseBooks
    <2>3. verifying' = verifying \cup {b}
        BY <1>3 DEF BookBlock, Books, BlockBooks
    <2>4. b \notin verifying \cup disk
        BY <1>3 DEF BookBlock, Books, BlockBooks
    <2>5. /\ at'[p] = "add" /\ arg'[p] = b
          /\ \A q \in Peer \ {p} : at'[q] = at[q] /\ arg'[q] = arg[q]
        BY <2>2 DEF Goto, GotoWith, AboutBlock, Typed, TypeOK, Thread
    <2>6. BlockBooks'
        BY <1>1, <2>2, <2>3, <2>5 DEF BookBlock, Books, BlockBooks
    <2>7. OtherBooks'
        BY <1>1, <2>5, SameOtherBooks DEF Books
    <2>8. Adding'
        BY <1>1, <2>3, <2>4, <2>5 DEF Books, Adding, AfterBooks
    <2> QED
        BY <2>6, <2>7, <2>8 DEF Books
<1> QED
    BY <1>2, <1>3

LEMMA AddBlockBooks ==
    ASSUME Typed, Books, NEW p \in Peer, AddBlock(p)
    PROVE  Books'
<1>1. UNCHANGED <<txMap, peerTxs, compactBlocks, peerCompact, blockMap, peerBlocks, verifying>>
    BY DEF AddBlock, books, peerBooks
<1>2. /\ at[p] = "add" /\ arg[p] \in verifying
      /\ disk \subseteq disk' /\ disk' \subseteq disk \cup {arg[p]}
    BY DEF AddBlock, Books, Adding, AfterBooks
<1>3. /\ at'[p] \in {"index", "unverify", "panicked"}
      /\ at'[p] # "panicked" => arg'[p] = arg[p]
      /\ \A q \in Peer \ {p} : at'[q] = at[q] /\ arg'[q] = arg[q]
    BY DEF AddBlock, Goto, GotoWith, AboutBlock, Typed, TypeOK, Thread
<1>4. BlockBooks'
    BY <1>1, <1>2, <1>3 DEF Books, BlockBooks
<1>5. OtherBooks'
    BY <1>1, <1>3, SameOtherBooks DEF Books
<1>6. Adding'
    BY <1>1, <1>2, <1>3 DEF Books, Adding, AfterBooks
<1> QED
    BY <1>4, <1>5, <1>6 DEF Books

LEMMA IndexBlockBooks ==
    ASSUME Typed, Books, NEW p \in Peer, IndexBlock(p)
    PROVE  Books'
<1>1. /\ UNCHANGED <<txMap, peerTxs, compactBlocks, peerCompact, blockMap, peerBlocks>>
      /\ UNCHANGED <<verifying, disk>>
    BY DEF IndexBlock, books, peerBooks, chain
<1>2. /\ at[p] = "index" /\ at'[p] = "unverify" /\ arg'[p] = arg[p]
      /\ \A q \in Peer \ {p} : at'[q] = at[q] /\ arg'[q] = arg[q]
    BY DEF IndexBlock, Goto, GotoWith, AboutBlock, Typed, TypeOK, Thread
<1>3. BlockBooks'
    BY <1>1, <1>2 DEF Books, BlockBooks
<1>4. OtherBooks'
    BY <1>1, <1>2, SameOtherBooks DEF Books
<1>5. Adding'
    BY <1>1, <1>2 DEF Books, Adding, AfterBooks
<1> QED
    BY <1>3, <1>4, <1>5 DEF Books

LEMMA UnverifyBooks ==
    ASSUME Typed, Books, NEW p \in Peer, Unverify(p)
    PROVE  Books'
<1>1. UNCHANGED <<txMap, peerTxs, compactBlocks, peerCompact, blockMap, peerBlocks, disk>>
    BY DEF Unverify, peerBooks, chain
<1>2. at[p] = "unverify" /\ verifying' = verifying \ {arg[p]}
    BY DEF Unverify
<1>3. at'[p] = "next" /\ \A q \in Peer \ {p} : at'[q] = at[q] /\ arg'[q] = arg[q]
    BY DEF Unverify, Goto, GotoWith, Typed, TypeOK, Thread
<1>4. BlockBooks'
    BY <1>1, <1>2, <1>3 DEF Books, BlockBooks
<1>5. OtherBooks'
    BY <1>1, <1>3, SameOtherBooks DEF Books
<1>6. Adding'
    BY <1>1, <1>2, <1>3 DEF Books, Adding, AfterBooks
<1> QED
    BY <1>4, <1>5, <1>6 DEF Books

\* Unless the assertion fails, the book of no other peer has the block.
LEMMA BookCompactBooks ==
    ASSUME Typed, Books, NEW p \in Peer, BookCompact(p), ~AssertedTwice'
    PROVE  Books'
<1>1. UNCHANGED <<txMap, peerTxs, compactBlocks, peerCompact, verifying, disk>>
    BY DEF BookCompact, chain
<1>2. CASE arg[p] \in peerCompact[p] \cup compactBlocks
    <2>1. \A q \in Peer : Passes(q)
        BY <1>2, LabelsOfDone
        DEF BookCompact, Done, Goto, GotoWith, AboutBlock, Passes, Typed, TypeOK, Thread
    <2>2. UNCHANGED bookVars
        BY <1>1, <1>2 DEF BookCompact, bookVars
    <2> QED
        BY <2>1, <2>2, QuietStep
<1>3. CASE arg[p] \notin peerCompact[p] \cup compactBlocks
    <2> DEFINE b == arg[p]
    <2>1. Goto(p, IF b \in blockMap \ peerBlocks[p] THEN "asserted" ELSE "compactChain")
        BY <1>3 DEF BookCompact
    <2>2. at'[p] = (IF b \in blockMap \ peerBlocks[p] THEN "asserted" ELSE "compactChain")
        BY <2>1 DEF Goto, GotoWith, Typed, TypeOK, Thread
    <2>3. b \notin blockMap \ peerBlocks[p] /\ at'[p] = "compactChain"
        BY <2>2 DEF AssertedTwice
    <2>4. arg'[p] = b /\ \A q \in Peer \ {p} : at'[q] = at[q] /\ arg'[q] = arg[q]
        BY <2>1, <2>3 DEF Goto, GotoWith, AboutBlock, Typed, TypeOK, Thread
    <2>5. /\ peerBlocks'[p] = peerBlocks[p] \cup {b}
          /\ \A q \in Peer \ {p} : peerBlocks'[q] = peerBlocks[q]
          /\ blockMap' = blockMap \cup {b}
        BY <1>3 DEF BookCompact, Typed, TypeOK
    <2>6. \A q \in Peer \ {p} : b \notin peerBlocks[q]
        BY <2>3 DEF Books, BlockBooks
    <2>7. \A q \in Peer \ {p} : at[q] # "compactChain"
        BY DEF BookCompact, StateFree, Held, Thread
    <2>8. at[p] = "compact"
        BY DEF BookCompact
    <2>9. BlockBooks'
        BY <1>1, <2>3, <2>4, <2>5, <2>6, <2>8 DEF Books, BlockBooks
    <2>10. OtherBooks'
        BY <1>1, <1>3, <2>3, <2>4, <2>7 DEF Books, OtherBooks
    <2>11. Adding'
        BY <1>1, <2>3, <2>4, SameAdding DEF Books, AfterBooks
    <2> QED
        BY <2>9, <2>10, <2>11 DEF Books
<1> QED
    BY <1>2, <1>3

\* A header that is new belongs to a block that nobody has.
LEMMA CompactHeaderBooks ==
    ASSUME Typed, Books, NEW p \in Peer, CompactHeader(p)
    PROVE  Books'
<1>1. UNCHANGED <<txMap, peerTxs, blockMap, peerBlocks, verifying, disk>>
    BY DEF CompactHeader
<1>2. at[p] = "compactChain"
    BY DEF CompactHeader
<1>3. /\ at'[p] \in {"idle", "end", "block", "panicked"}
      /\ at'[p] # "panicked" => NewHeader(arg[p])
      /\ \A q \in Peer \ {p} : at'[q] = at[q] /\ arg'[q] = arg[q]
    BY LabelsOfDone DEF CompactHeader, Goto, GotoWith, Typed, TypeOK, Thread
<1>4. NewHeader(arg[p]) => arg[p] \notin verifying \cup disk
    BY DEF NewHeader, Typed, TypeOK, KnownBlocks
<1>5. BlockBooks'
    BY <1>1, <1>2, <1>3, <1>4 DEF Books, BlockBooks
<1>6. OtherBooks'
    <2>1. \A q \in Peer \ {p} : at[q] # "compactChain"
        BY <1>2 DEF Books, OtherBooks
    <2>2. CASE UNCHANGED <<compactBlocks, peerCompact>>
        BY <1>1, <1>3, <2>2, SameOtherBooks DEF Books
    <2>3. CASE /\ compactBlocks' = compactBlocks \cup {arg[p]}
               /\ peerCompact' = [peerCompact EXCEPT ![p] = @ \cup {arg[p]}]
        <3>1. /\ peerCompact'[p] = peerCompact[p] \cup {arg[p]}
              /\ \A q \in Peer \ {p} : peerCompact'[q] = peerCompact[q]
            BY <2>3 DEF Typed, TypeOK
        <3>2. arg[p] \notin compactBlocks
            BY <1>2 DEF Books, OtherBooks
        <3> QED
            BY <1>1, <1>3, <2>1, <2>3, <3>1, <3>2 DEF Books, OtherBooks
    <2> QED
        BY <2>2, <2>3 DEF CompactHeader
<1>7. Adding'
    BY <1>1, <1>3, SameAdding DEF Books, AfterBooks
<1> QED
    BY <1>5, <1>6, <1>7 DEF Books

LEMMA NextPeerBooks ==
    ASSUME Typed, Books, NEW t \in Thread, NEW p \in Peer, NextPeer(t, p)
    PROVE  Books'
<1>1. UNCHANGED <<txMap, peerTxs, compactBlocks, peerCompact, verifying, disk>>
    BY DEF NextPeer, chain
<1>2. \A q \in Peer : Passes(q)
    BY DEF NextPeer, Goto, GotoWith, AboutBlock, Passes, Typed, TypeOK, Thread
<1>3. CASE UNCHANGED <<blockMap, peerBlocks>>
    BY <1>1, <1>2, <1>3, QuietStep DEF bookVars
<1>4. CASE /\ peerBlocks[p] = {}
           /\ blockMap' = blockMap \cup Batch
           /\ peerBlocks' = [peerBlocks EXCEPT ![p] = Batch]
    <2>1. Batch \cap (disk \cup blockMap \cup verifying) = {}
        BY BatchWanted DEF Wanted
    <2>2. peerBlocks'[p] = Batch /\ \A q \in Peer \ {p} : peerBlocks'[q] = peerBlocks[q]
        BY <1>4 DEF Typed, TypeOK
    <2>3. BlockBooks'
        BY <1>1, <1>2, <1>4, <2>1, <2>2 DEF Books, BlockBooks, Passes
    <2>4. OtherBooks'
        BY <1>1, <1>2, SameOtherBooks DEF Books, Passes
    <2>5. Adding'
        BY <1>1, <1>2, SameAdding DEF Books, Passes, AfterBooks
    <2> QED
        BY <2>3, <2>4, <2>5 DEF Books
<1> QED
    BY <1>3, <1>4 DEF NextPeer

------------------------------------------------------------------------------
(* The theorems.                                                           *)

\* Where the state is locked.
StateHolders == {"compactChain", "nextPeers", "verackChain", "verackWait", "retain"}

LEMMA StateHeldThere ==
    ASSUME NEW t \in Thread
    PROVE  "state" \in Held(t) <=> at[t] \in StateHolders
    BY DEF Held, HeldByAdd, StateHolders

\* A step takes at most one thread from one place to another, and to one where the state
\* is locked only if it was free or the thread's own.
Moves(t) ==
    /\ \A u \in Thread \ {t} : at'[u] = at[u]
    /\ at[t] # "asserted"
    /\ at'[t] \in StateHolders => StateFree(t) \/ at[t] \in StateHolders

LEMMA OneMoves ==
    ASSUME Typed, [Next]_vars
    PROVE  UNCHANGED at \/ \E t \in Thread : Moves(t)
<1> DEFINE Goal == UNCHANGED at \/ \E t \in Thread : Moves(t)
<1> USE LabelsOfDone DEF Typed, TypeOK, GotoWith, Goto, Done, Thread, Moves, StateHolders,
        threads
<1>1. ASSUME StartRound PROVE Goal
    BY <1>1 DEF StartRound
<1>2. ASSUME EndRound PROVE Goal
    BY <1>2 DEF EndRound
<1>3. ASSUME NEW p \in Peer, Connect(p) PROVE Goal
    BY <1>3 DEF Connect
<1>4. ASSUME NEW p \in Peer, Retain(p) PROVE Goal
    BY <1>4 DEF Retain
<1>5. ASSUME NEW p \in Peer, WriterFails(p) PROVE Goal
    BY <1>5 DEF WriterFails
<1>6. ASSUME NEW p \in Peer, WriterEnds(p) PROVE Goal
    BY <1>6 DEF WriterEnds
<1>7. ASSUME NEW p \in Peer, ReaderFails(p) PROVE Goal
    BY <1>7 DEF ReaderFails
<1>8. ASSUME NEW p \in Peer, ReaderEnds(p) PROVE Goal
    BY <1>8 DEF ReaderEnds
<1>9. ASSUME NEW p \in Peer, Verack(p) PROVE Goal
    BY <1>9 DEF Verack
<1>10. ASSUME NEW p \in Peer, VerackState(p) PROVE Goal
    BY <1>10 DEF VerackState
<1>11. ASSUME NEW p \in Peer, VerackChain(p) PROVE Goal
    BY <1>11 DEF VerackChain
<1>12. ASSUME NEW p \in Peer, VerackWait(p) PROVE Goal
    BY <1>12 DEF VerackWait, Waited
<1>13. ASSUME NEW p \in Peer, Inv(p) PROVE Goal
    BY <1>13 DEF Inv
<1>14. ASSUME NEW p \in Peer, InvState(p) PROVE Goal
    BY <1>14 DEF InvState
<1>15. ASSUME NEW p \in Peer, BookBlock(p) PROVE Goal
    BY <1>15 DEF BookBlock, Release
<1>16. ASSUME NEW p \in Peer, AddBlock(p) PROVE Goal
    BY <1>16 DEF AddBlock
<1>17. ASSUME NEW p \in Peer, IndexBlock(p) PROVE Goal
    BY <1>17 DEF IndexBlock
<1>18. ASSUME NEW p \in Peer, Unverify(p) PROVE Goal
    BY <1>18 DEF Unverify
<1>19. ASSUME NEW p \in Peer, ReceiveHeaders(p) PROVE Goal
    BY <1>19 DEF ReceiveHeaders
<1>20. ASSUME NEW p \in Peer, HandleHeaders(p) PROVE Goal
    BY <1>20 DEF HandleHeaders
<1>21. ASSUME NEW p \in Peer, HeadersWait(p) PROVE Goal
    BY <1>21 DEF HeadersWait, Waited
<1>22. ASSUME NEW p \in Peer, BookCompact(p) PROVE Goal
    BY <1>22 DEF BookCompact
<1>23. ASSUME NEW p \in Peer, CompactHeader(p) PROVE Goal
    BY <1>23 DEF CompactHeader
<1>24. ASSUME NEW p \in Peer, Serve(p) PROVE Goal
    BY <1>24 DEF Serve
<1>25. ASSUME NEW p \in Peer, GetData(p) PROVE Goal
    BY <1>25 DEF GetData
<1>26. ASSUME NEW p \in Peer, SendData(p) PROVE Goal
    BY <1>26 DEF SendData
<1>27. ASSUME NEW p \in Peer, GetFilters(p) PROVE Goal
    BY <1>27 DEF GetFilters
<1>28. ASSUME NEW p \in Peer, SendFilters(p) PROVE Goal
    BY <1>28 DEF SendFilters
<1>29. ASSUME NEW p \in Peer, NEW tx \in Tx, HandleTx(p, tx) PROVE Goal
    BY <1>29 DEF HandleTx
<1>30. ASSUME NEW p \in Peer, NEW tx \in Tx, NotFoundTx(p, tx) PROVE Goal
    BY <1>30 DEF NotFoundTx
<1>31. ASSUME NEW p \in Peer, NEW b \in Block, ReceiveBlock(p, b) PROVE Goal
    BY <1>31 DEF ReceiveBlock
<1>32. ASSUME NEW p \in Peer, NEW b \in Block, NotFoundBlock(p, b) PROVE Goal
    BY <1>32 DEF NotFoundBlock, Release
<1>33. ASSUME NEW p \in Peer, NEW b \in Block, ReceiveCompact(p, b) PROVE Goal
    BY <1>33 DEF ReceiveCompact
<1>34. ASSUME NEW p \in Peer, NEW b \in Block, BlockTxn(p, b) PROVE Goal
    BY <1>34 DEF BlockTxn
<1>35. ASSUME NEW t \in Thread, NextChain(t) PROVE Goal
    BY <1>35 DEF NextChain
<1>36. ASSUME NEW t \in Thread, NextState(t) PROVE Goal
    BY <1>36 DEF NextState
<1>37. ASSUME NEW t \in Thread, NextEnds(t) PROVE Goal
    BY <1>37 DEF NextEnds
<1>38. ASSUME NEW t \in Thread, NEW p \in Peer, NextPeer(t, p) PROVE Goal
    BY <1>38 DEF NextPeer
<1>39. ASSUME UNCHANGED vars PROVE Goal
    BY <1>39 DEF vars
<1> QED
    BY <1>1, <1>2, <1>3, <1>4, <1>5, <1>6, <1>7, <1>8, <1>9, <1>10, <1>11, <1>12,
       <1>13, <1>14, <1>15, <1>16, <1>17, <1>18, <1>19, <1>20, <1>21, <1>22, <1>23,
       <1>24, <1>25, <1>26, <1>27, <1>28, <1>29, <1>30, <1>31, <1>32, <1>33, <1>34,
       <1>35, <1>36, <1>37, <1>38, <1>39
    DEF Next, Reader, GetNextBlocks, MaintainPeers

\* A thread that the assertion has ended does not come back.
LEMMA AssertedStays ==
    ASSUME Typed, [Next]_vars, AssertedTwice
    PROVE  AssertedTwice'
<1>1. PICK p \in Peer : at[p] = "asserted"
    BY DEF AssertedTwice
<1>2. at'[p] = "asserted"
    BY <1>1, OneMoves DEF Moves, Thread
<1> QED
    BY <1>2 DEF AssertedTwice

LEMMA BooksStep ==
    ASSUME Typed, Books, [Next]_vars, ~AssertedTwice'
    PROVE  Books'
<1>1. ASSUME Quiet PROVE Books'
    BY <1>1, QuietActions, QuietStep
<1>2. ASSUME UNCHANGED vars PROVE Books'
    <2>1. UNCHANGED bookVars /\ \A p \in Peer : Passes(p)
        BY <1>2 DEF vars, threads, books, peerBooks, chain, bookVars, Passes
    <2> QED
        BY <2>1, QuietStep
<1>3. ASSUME NEW p \in Peer,
             \/ Retain(p) \/ InvState(p) \/ BookBlock(p) \/ AddBlock(p) \/ IndexBlock(p)
             \/ Unverify(p) \/ BookCompact(p) \/ CompactHeader(p)
             \/ \E tx \in Tx : HandleTx(p, tx) \/ NotFoundTx(p, tx)
             \/ \E b \in Block : NotFoundBlock(p, b) \/ BlockTxn(p, b)
             \/ \E t \in Thread : NextPeer(t, p)
      PROVE  Books'
    BY <1>3, RetainBooks, TxBooks, BookBlockBooks, AddBlockBooks, IndexBlockBooks, UnverifyBooks,
       BookCompactBooks, CompactHeaderBooks, NotFoundBlockBooks, BlockTxnBooks, NextPeerBooks
<1> QED
    BY <1>1, <1>2, <1>3 DEF Next, Reader, GetNextBlocks, MaintainPeers, Quiet

LEMMA Invariance == IInv /\ [Next]_vars => IInv'
<1> SUFFICES ASSUME IInv, [Next]_vars PROVE IInv'
    OBVIOUS
<1>1. Typed /\ Typed'
    BY TypedStep DEF IInv, Typed
<1>2. ASSUME ~AssertedTwice' PROVE Books'
    <2>1. Books
        BY <1>1, <1>2, AssertedStays DEF IInv, Books
    <2> QED
        BY <1>1, <1>2, <2>1, BooksStep
<1> QED
    BY <1>1, <1>2 DEF IInv, Typed, Books

LEMMA Reached == Spec => []IInv
    BY InitInv, Invariance, PTL DEF Spec

\* However many peers there are, whatever they send and whichever threads end, the books,
\* the chain and the places of the threads keep their types: no block beyond the headers of
\* the chain is ever saved.
THEOREM TypeCorrect == Spec => []TypeOK
<1>1. IInv => TypeOK
    BY DEF IInv
<1> QED
    BY <1>1, Reached, PTL

\* Until the assertion of handle_compact_block fails, the book of the state is the sum of
\* those of the peers and everything is expected of one peer.
THEOREM BooksAlwaysAgree == Spec => []BooksAgree
<1>1. IInv => BooksAgree
    BY DEF IInv, BlockBooks, OtherBooks, BooksAgree
<1> QED
    BY <1>1, Reached, PTL

\* Until then Chain::add gets no block that is saved, and no two threads add the same.
THEOREM BlocksAddedOnce == Spec => []AddedOnce
<1>1. IInv => AddedOnce
    BY DEF IInv, Adding, AddedOnce, AfterBooks
<1> QED
    BY <1>1, Reached, PTL

------------------------------------------------------------------------------
(* Deadlocks.                                                              *)

\* One thread at a time has locked the state.
StateLockedOnce ==
    \A t, u \in Thread : "state" \in Held(t) /\ "state" \in Held(u) => t = u

LEMMA LockedOnceStep ==
    ASSUME Typed, [Next]_vars, StateLockedOnce
    PROVE  StateLockedOnce'
<1>1. CASE UNCHANGED at
    BY <1>1 DEF StateLockedOnce, Held, HeldByAdd
<1>2. ASSUME NEW t \in Thread, Moves(t) PROVE StateLockedOnce'
    <2>1. \A u \in Thread : at[u] \in StateHolders <=> "state" \in Held(u)
        BY StateHeldThere
    <2>2. \A u \in Thread : ("state" \in Held(u))' <=> at'[u] \in StateHolders
        BY DEF Held, HeldByAdd, StateHolders
    <2>3. SUFFICES ASSUME NEW u \in Thread \ {t}, at'[u] \in StateHolders,
                          at'[t] \in StateHolders
                   PROVE  FALSE
        BY <1>2, <2>1, <2>2 DEF StateLockedOnce, Moves
    <2>4. "state" \in Held(u)
        BY <1>2, <2>1, <2>3 DEF Moves
    <2> QED
        BY <1>2, <2>1, <2>3, <2>4 DEF Moves, StateFree, StateLockedOnce
<1> QED
    BY <1>1, <1>2, OneMoves

\* Whoever waits for the filter index, a peer or the chain waits, in the end, for the state
\* or for a reader of the chain that has it or waits for it.
LEMMA WaysToDeadlock == StateLockedOnce => DeadlocksByInversion
<1> SUFFICES ASSUME StateLockedOnce, NEW s \in SUBSET Thread, Deadlocked(s),
                    ~WriterLockedOut(s), ~PeerBeforeState(s), ~StateBeforeChain(s),
                    ~ReadTwice(s), ~PeerBeforeChain(s), ~IndexBeforeChain(s)
             PROVE  FALSE
    BY DEF DeadlocksByInversion
<1> USE DEF WantsState, WantsPeers, WantsChain, WantsToRead, WantsWriter
<1>1. \A t \in s : t \in Thread /\ \E u \in s : WaitsFor(t, u)
    BY DEF Deadlocked
\* Nobody has the chain locked for writing.
<1>2. \A t \in s : at[t] \notin {"headersWait", "verackWait", "index"}
    <2>1. \A t \in s : at[t] # "index"
        BY <1>1 DEF WaitsFor, IndexBeforeChain, Held, HeldByAdd
    <2>2. \A t \in s : at[t] \notin {"headersWait", "verackWait"}
        BY <1>1 DEF WaitsFor, WriterLockedOut, Held, HeldByAdd
    <2> QED
        BY <2>1, <2>2
<1>3. \A t \in s : "chain" \notin Held(t)
    BY <1>2 DEF Held, HeldByAdd
<1>4. \A t \in s : at[t] # "compactData"
    BY <1>1, <1>3 DEF WaitsFor, ReadTwice
<1>5. \A t \in s : "reading" \in Held(t) => at[t] \in {"nextState", "nextPeers"}
    BY <1>2, <1>4 DEF Held, HeldByAdd
\* So whoever wants to write the chain waits for one of get_next_blocks.
<1>6. \A t \in s : at[t] \in WantsChain =>
        \E u \in s : at[u] \in {"nextState", "nextPeers"}
    BY <1>1, <1>3, <1>5 DEF WaitsFor
<1>7. \A t \in s : at[t] \in WantsToRead => \E u \in s : at[u] \in WantsChain
    BY <1>1, <1>3 DEF WaitsFor
<1>8. \A t, u \in s : at[t] \in {"compactChain", "verackChain"} => at[u] # "nextPeers"
    BY DEF StateLockedOnce, Held, HeldByAdd
<1>9. \A t \in s : at[t] # "compactChain"
    BY <1>6, <1>8 DEF StateBeforeChain
<1>10. \A t \in s : at[t] # "verackChain"
    BY <1>6, <1>7, <1>8, <1>9 DEF StateBeforeChain
\* The state is left to the loops over the peers.
<1>11. \A t \in s : "state" \in Held(t) => at[t] \in WantsPeers
    BY <1>2, <1>9, <1>10 DEF Held, HeldByAdd
<1>12. \A t \in s : "own" \in Held(t) => at[t] \in {"inv", "compact", "filteredData"}
    BY <1>2, <1>9 DEF Held, HeldByAdd
<1>13. \A t \in s : at[t] \in WantsPeers =>
        \E u \in s : u \in todo[t] /\ at[u] \in {"inv", "compact", "filteredData"}
    BY <1>1, <1>12 DEF WaitsFor
<1>14. \A t \in s : at[t] \notin WantsPeers
    BY <1>7, <1>9, <1>13 DEF PeerBeforeState, PeerBeforeChain
<1>15. \A t \in s : at[t] \notin WantsState
    BY <1>1, <1>11, <1>14 DEF WaitsFor
<1>16. \A t \in s : at[t] \notin WantsChain
    BY <1>6, <1>14, <1>15
<1>17. \A t \in s : at[t] \notin WantsToRead
    BY <1>7, <1>16
<1> QED
    BY <1>1, <1>2, <1>14, <1>15, <1>16, <1>17 DEF Deadlocked, WaitsFor

\* However many peers there are and whatever their messages, threads that wait for each
\* other do so in one of the six ways that DeadlocksByInversion names: the order in which
\* the handlers take locks allows no other, as long as one thread has the state at a time.
THEOREM WaysThreadsDeadlock == Spec => []DeadlocksByInversion
<1>1. Init => StateLockedOnce
    BY DEF Init, StateLockedOnce, Held, HeldByAdd
<1>2. IInv /\ StateLockedOnce /\ [Next]_vars => StateLockedOnce'
    BY LockedOnceStep DEF IInv, Typed
<1> QED
    BY <1>1, <1>2, Reached, WaysToDeadlock, PTL DEF Spec

==============================================================================
