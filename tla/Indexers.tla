------------------------------- MODULE Indexers -------------------------------
(***************************************************************************)
(* The listeners of the chain (src/src/indexers), composed with it: the    *)
(* index of transactions, the index of addresses and the index of compact  *)
(* filters.                                                                *)
(*                                                                         *)
(* Chain::connect and disconnect notify them under the write lock of the   *)
(* chain, after their own batch is committed, in the order in which        *)
(* full_node.rs adds them.  Each writes one batch to a database of its     *)
(* own, so the process may stop between the batch of the chain and any of  *)
(* theirs, and nothing repeats a notice.                                   *)
(*                                                                         *)
(* Addresses are those whose key holds its length, the witness addresses.  *)
(* A filter header is what it commits to: the blocks up to its own.        *)
(***************************************************************************)
EXTENDS Chain, Sequences, SequencesExt

CONSTANTS
    Txs,       \* the transactions of a block, in order
    Address,   \* standard addresses
    AddressesOf \* the addresses in the inputs and outputs of a transaction

Tx == UNION {ToSet(Txs[b]) : b \in Block}

\* The chain that ends in a block.
ChainOf(top) ==
    {b \in Block : \A S \in SUBSET Block :
        top \in S /\ (\A c \in S \ {Genesis} : Prev[c] \in S) => b \in S}

\* No chain has a transaction twice.
ASSUME IndexAssumption ==
    /\ \A b \in Block : Txs[b] \in Seq(Tx) /\ IsInjective(Txs[b])
    /\ \A top \in Block : \A b, c \in ChainOf(top) :
          b # c => ToSet(Txs[b]) \cap ToSet(Txs[c]) = {}
    /\ AddressesOf \in [Tx -> SUBSET Address]

VARIABLES
    txIndex,    \* TxIndexer: Txid -> height and place in the block, or NoPlace
    addrMap,    \* Key::AddrMap: address, height, index
    txidAt,     \* Key::TxidByHeightAndIndex: height, index, Txid
    filter,     \* Key::FilterHeader: by height, the blocks committed to
    filterOf,   \* Key::Height: blocks with an entry; its value is their height
    due,        \* notices of the last batch of the chain that are still to be handled
    lost        \* history: the last notice of the block never reached the listener

indexVars == <<txIndex, addrMap, txidAt, filter, filterOf>>

allVars == <<vars, indexVars, due, lost>>

Listeners == <<"filter", "addr", "tx">>

NoPlace == <<-1, 0>>

------------------------------------------------------------------------------
(* The handlers.                                                           *)

\* TxIndexer::index_block.
IndexTxs(b) ==
    [t \in Tx |-> IF t \in ToSet(Txs[b])
                  THEN <<Height[b], CHOOSE i \in 1 .. Len(Txs[b]) : Txs[b][i] = t>>
                  ELSE txIndex[t]]

\* TxIndexer::unindex_block.
UnindexTxs(b) == [t \in Tx |-> IF t \in ToSet(Txs[b]) THEN NoPlace ELSE txIndex[t]]

HandleTx(kind, b) ==
    /\ txIndex' = IF kind = "connect" THEN IndexTxs(b) ELSE UnindexTxs(b)
    /\ UNCHANGED <<addrMap, txidAt, filter, filterOf>>

AddrEntries(b) ==
    UNION {{<<a, Height[b], i>> : a \in AddressesOf[Txs[b][i]]} : i \in 1 .. Len(Txs[b])}

\* Only transactions with an address are looked up by their place.
WithAddress(b) == {i \in 1 .. Len(Txs[b]) : AddressesOf[Txs[b][i]] # {}}

TxidsAt(b) == {<<Height[b], i, Txs[b][i]>> : i \in WithAddress(b)}

AtPlacesOf(b) == {e \in txidAt : e[1] = Height[b] /\ e[2] \in WithAddress(b)}

\* Broken variant: the addresses stay when their block goes.
AddrKept(b) == addrMap

AddrWithout(b) == addrMap \ AddrEntries(b)

\* AddrIndexer::index_block and unindex_block.
HandleAddr(kind, b) ==
    /\ IF kind = "connect"
       THEN /\ addrMap' = addrMap \cup AddrEntries(b)
            /\ txidAt' = (txidAt \ AtPlacesOf(b)) \cup TxidsAt(b)
       ELSE /\ addrMap' = AddrWithout(b)
            /\ txidAt' = txidAt \ AtPlacesOf(b)
    /\ UNCHANGED <<txIndex, filter, filterOf>>

\* FilterIndexer::filter_header_by_hash.
FilterHeaderByHash(b) == IF b \in filterOf THEN filter[Height[b]] ELSE <<>>

\* Broken variant: the filter of a block that was indexed before is taken to be there.
FilterOnce(b) ==
    [filter EXCEPT ![Height[b]] =
        IF b \in filterOf THEN @ ELSE Append(FilterHeaderByHash(Prev[b]), b)]

FilterWith(b) ==
    [filter EXCEPT ![Height[b]] = Append(FilterHeaderByHash(Prev[b]), b)]

\* FilterIndexer::block_connected; it ignores blocks that are disconnected.
HandleFilter(kind, b) ==
    /\ IF kind = "connect"
       THEN /\ Prev[b] \in filterOf
            /\ filter' = FilterWith(b)
            /\ filterOf' = filterOf \cup {b}
       ELSE UNCHANGED <<filter, filterOf>>
    /\ UNCHANGED <<txIndex, addrMap, txidAt>>

Handle ==
    LET l == Head(due)[1]  kind == Head(due)[2]  b == Head(due)[3] IN
    /\ due # <<>>
    /\ \/ l = "tx" /\ HandleTx(kind, b)
       \/ l = "addr" /\ HandleAddr(kind, b)
       \/ l = "filter" /\ HandleFilter(kind, b)
    /\ due' = Tail(due)
    /\ lost' = lost \ {<<l, b>>}
    /\ UNCHANGED vars

NeverHandled == {<<n[1], n[3]>> : n \in ToSet(due)}

\* The filter header of the block before is not there: unwrap panics in the thread that
\* connects, and the listeners that come later are not told.
HandlePanics ==
    /\ due # <<>>
    /\ Head(due)[1] = "filter" /\ Head(due)[2] = "connect"
    /\ Prev[Head(due)[3]] \notin filterOf
    /\ pc' = "down"
    /\ entry' = NoBlock
    /\ queue' = {}
    /\ lost' = lost \cup NeverHandled
    /\ due' = <<>>
    /\ UNCHANGED <<headerVars, mainVars, storeVars, invalid, pending, crashes, indexVars>>

------------------------------------------------------------------------------
(* The chain, with its listeners.                                          *)

\* Chain::notify_connect and notify_disconnect.
Notify(kind, b) == due' = [i \in 1 .. Len(Listeners) |-> <<Listeners[i], kind, b>>]

ConnectAndNotify ==
    \E b \in Block : Connect(b) /\ Notify("connect", b)

DisconnectAndNotify == Disconnect /\ Notify("disconnect", tip)

\* Everything the chain does that concerns no listener.
Unnoticed ==
    /\ \/ Calls
       \/ AddBlock
       \/ ConnectBest
       \/ DisconnectPanics
       \/ \E b \in Block : ConnectFails(b) \/ WriteUndo(b)
    /\ UNCHANGED due

\* Chain, TxIndexer, AddrIndexer and FilterIndexer::new: nothing is indexed again.
RestartAll ==
    /\ Restart
    /\ due' = <<>>
    /\ lost' = lost \cup NeverHandled
    /\ UNCHANGED indexVars

\* FilterIndexer::new has added genesis; no listener is told of it.
IndexInit ==
    /\ Init
    /\ txIndex = [t \in Tx |-> NoPlace]
    /\ addrMap = {}
    /\ txidAt = {}
    /\ filter = [h \in Heights |-> IF h = 0 THEN <<Genesis>> ELSE <<>>]
    /\ filterOf = {Genesis}
    /\ due = <<>>
    /\ lost = {}

IndexNext ==
    \/ /\ due = <<>>
       /\ ConnectAndNotify \/ DisconnectAndNotify \/ Unnoticed
       /\ UNCHANGED <<indexVars, lost>>
    \/ Handle
    \/ HandlePanics
    \/ RestartAll

IndexSpec == IndexInit /\ [][IndexNext]_allVars

------------------------------------------------------------------------------
(* Properties.  A reader holds the lock of the chain, so it sees the       *)
(* indexes only between two calls of the chain.                            *)

MainBlocks == {hash[h] : h \in 1 .. Height[tip]}

\* TxIndexer::tx: the transaction at that place of that block of the main chain.
TxAt(t) ==
    LET b == hash[txIndex[t][1]]  i == txIndex[t][2] IN
    IF b \in Block /\ i <= Len(Txs[b]) THEN Txs[b][i] ELSE "out of bounds"

\* AddrIndexer::txids_for_address, restricted to one height.
TxidsForAddress(a, h) ==
    {t \in Tx : \E e \in addrMap : e[1] = a /\ e[2] = h /\ <<h, e[3], t>> \in txidAt}

TransactionsOfMain ==
    \A t \in Tx :
        LET holders == {b \in Block : t \in ToSet(Txs[b])} IN
        (\A b \in holders : <<"tx", b>> \notin lost) =>
            IF holders \cap MainBlocks = {} THEN txIndex[t] = NoPlace
            ELSE txIndex[t] # NoPlace /\ TxAt(t) = t

AddressesOfMain ==
    \A a \in Address, h \in 1 .. MaxHeight :
        (\A b \in Block : Height[b] = h => <<"addr", b>> \notin lost) =>
            TxidsForAddress(a, h) =
                IF hash[h] = NoBlock THEN {}
                ELSE {t \in ToSet(Txs[hash[h]]) : a \in AddressesOf[t]}

\* A transaction is found at its place in the main chain, and only if it is there, through
\* every reorganisation that moves it to another height, and the transactions found for
\* an address are those of the main chain that pay or spend from it; a crash costs only
\* the block whose last notice it lost.
IndexesOfMain == due = <<>> => TransactionsOfMain /\ AddressesOfMain

\* The filter header of a main-chain block commits to the main chain up to it, although
\* the other branches had filters at the same heights before; after a crash, as far up as
\* no notice was lost.  So the next block finds the header it builds on, and a panic of the
\* listener (HandlePanics) is the price of a lost notice only.
FiltersOfMain ==
    due = <<>> =>
        \A h \in 0 .. Height[tip] :
            (\A k \in 0 .. h : <<"filter", hash[k]>> \notin lost) =>
                FilterHeaderByHash(hash[h]) = [k \in 1 .. h + 1 |-> hash[k - 1]]
==============================================================================
