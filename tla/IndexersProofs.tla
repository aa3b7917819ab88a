---------------------------- MODULE IndexersProofs ----------------------------
(***************************************************************************)
(* What holds of the indexes for any tree of blocks, any transactions and  *)
(* any number of crashes: all three are those of the main chain, but for   *)
(* blocks whose last notice was lost, and the filter index panics only     *)
(* above such a block.                                                     *)
(***************************************************************************)
EXTENDS Indexers, ChainProofs

------------------------------------------------------------------------------
(* The inductive invariant.                                                *)

\* The header a filter has for a block of the main chain.
PathTo(h) == [k \in 1 .. h + 1 |-> hash[k - 1]]

Listener == {"filter", "addr", "tx"}

Notice == Listener \X {"connect", "disconnect"} \X Block

\* The filter of the tip is still to be made.
TipDue == due # <<>> /\ Head(due)[1] = "filter" /\ Head(due)[2] = "connect"

\* Listeners are told of the tip, or of a block that was above it, the filter index first.
DueInv ==
    /\ due \in Seq(Notice)
    /\ \A i \in 2 .. Len(due) : due[i][1] # "filter"
    /\ \A i, j \in 1 .. Len(due) :
          /\ due[i][1] = due[j][1] => i = j
          /\ due[i][2] = due[j][2]
          /\ due[i][3] = due[j][3]
    /\ \A i \in 1 .. Len(due) :
          /\ due[i][3] # Genesis
          /\ due[i][2] = "connect" => due[i][3] = tip
          /\ due[i][2] = "disconnect" => Prev[due[i][3]] = tip

\* No notice of a block of the main chain up to a height was lost.
AllHandled(h) == \A k \in 0 .. h : <<"filter", hash[k]>> \notin lost

FilterInv ==
    /\ filter \in [Heights -> Seq(Block)]
    /\ filterOf \subseteq Block
    /\ \A h \in 0 .. Height[tip] :
          AllHandled(h) /\ ~(TipDue /\ h = Height[tip]) =>
              hash[h] \in filterOf /\ filter[h] = PathTo(h)

IndexInv == IInv /\ DueInv /\ FilterInv

------------------------------------------------------------------------------
(* Facts about the main chain.                                             *)

LEMMA MainHeights ==
    ASSUME IInv
    PROVE  /\ tip \in Block /\ Height[tip] \in Nat /\ Height[tip] <= MaxHeight
           /\ hash[Height[tip]] = tip
           /\ \A h \in 0 .. Height[tip] : hash[h] \in Block /\ Height[hash[h]] = h
           /\ \A h \in 1 .. Height[tip] : Prev[hash[h]] = hash[h - 1]
<1> USE TreeAssumption, TreeFacts DEF IInv, MainChainLinked
<1>1. tip \in Block /\ Height[tip] \in Nat /\ Height[tip] <= MaxHeight
    BY DEF TypeOK
<1>2. Genesis \in Block /\ Height[Genesis] = 0
    OBVIOUS
<1>3. ASSUME NEW h \in 0 .. Height[tip] PROVE hash[h] \in Block /\ Height[hash[h]] = h
    <2>1. CASE h = 0
        BY <1>2, <2>1
    <2>2. CASE h # 0
        <3>1. h \in 1 .. Height[tip]
            BY <1>1, <2>2
        <3>2. hash[h] \in headers /\ Height[hash[h]] = h
            BY <3>1
        <3> QED
            BY <3>2 DEF TypeOK
    <2> QED
        BY <2>1, <2>2
<1> QED
    BY <1>1, <1>3

\* What is connected goes on top of the tip, and is not genesis.
LEMMA ConnectHeight ==
    ASSUME IInv, NEW b \in Block, Connect(b)
    PROVE  b # Genesis /\ Height[b] = Height[tip] + 1 /\ b \notin Main
<1>1. queue \subseteq Ready /\ queue \cap Main = {}
    BY DEF IInv, CallInv, Connect, IsBranch
<1>2. b \in headers \ Main
    BY <1>1 DEF Connect, Ready, IInv, HeadersClosed
<1>3. Genesis \in Main
    BY MainFacts DEF IInv
<1> QED
    BY <1>2, <1>3, TreeFacts DEF Connect

\* The next notice is of the tip or of a block that was above it.
LEMMA HeadDue ==
    ASSUME DueInv, due # <<>>
    PROVE  /\ due \in Seq(Notice) /\ Head(due) \in Notice
           /\ Head(due)[3] # Genesis
           /\ Head(due)[2] = "connect" => Head(due)[3] = tip
           /\ Head(due)[2] = "disconnect" =>
                 /\ Prev[Head(due)[3]] = tip
                 /\ Height[Head(due)[3]] = Height[tip] + 1
<1>1. due \in Seq(Notice) /\ 1 \in 1 .. Len(due) /\ Head(due) = due[1]
    BY DEF DueInv
<1>2. Head(due) \in Notice /\ Head(due)[3] \in Block
    BY <1>1 DEF Notice
<1> QED
    BY <1>1, <1>2, TreeFacts DEF DueInv

\* A step that changes neither the main chain nor the filters nor what is due.
LEMMA FilterFrame ==
    ASSUME FilterInv, UNCHANGED <<hash, tip, filter, filterOf>>,
           \A h \in 0 .. Height[tip] :
               AllHandled(h)' /\ ~(TipDue' /\ h = Height[tip]) =>
                   AllHandled(h) /\ ~(TipDue /\ h = Height[tip])
    PROVE  FilterInv'
<1>1. \A h \in 0 .. Height[tip] : PathTo(h)' = PathTo(h)
    BY DEF PathTo
<1> QED
    BY <1>1 DEF FilterInv

------------------------------------------------------------------------------
(* The steps of the chain.                                                 *)

LEMMA NotifyDue ==
    ASSUME NEW kind \in {"connect", "disconnect"}, NEW b \in Block, Notify(kind, b)
    PROVE  /\ due' \in Seq(Notice) /\ due' # <<>>
           /\ Head(due') = <<"filter", kind, b>>
           /\ \A i \in 1 .. Len(due') : due'[i][2] = kind /\ due'[i][3] = b
           /\ \A i \in 2 .. Len(due') : due'[i][1] # "filter"
           /\ \A i, j \in 1 .. Len(due') : due'[i][1] = due'[j][1] => i = j
           /\ Len(due') = 3
           /\ due'[1] = <<"filter", kind, b>>
           /\ due'[2] = <<"addr", kind, b>>
           /\ due'[3] = <<"tx", kind, b>>
<1>1. Len(Listeners) = 3 /\ Listeners[1] = "filter" /\ Listeners[2] = "addr" /\ Listeners[3] = "tx"
    BY DEF Listeners
<1>2. due' = [i \in 1 .. 3 |-> <<Listeners[i], kind, b>>]
    BY <1>1 DEF Notify
<1>3. \A i \in 1 .. 3 : <<Listeners[i], kind, b>> \in Notice
    <2>1. \A i \in 1 .. 3 : Listeners[i] \in Listener
        BY <1>1 DEF Listener
    <2> QED
        BY <2>1 DEF Notice
<1>4. due' \in Seq(Notice) /\ Len(due') = 3
    BY <1>2, <1>3
<1>5. due' # <<>> /\ Head(due') = due'[1]
    BY <1>4
<1>6. due'[1] = <<"filter", kind, b>>
    BY <1>1, <1>2
<1>7. \A i \in 2 .. 3 : due'[i][1] # "filter"
    BY <1>1, <1>2
<1>8. \A i \in 1 .. 3 : due'[i][2] = kind /\ due'[i][3] = b
    BY <1>2
<1>9. \A i, j \in 1 .. 3 : due'[i][1] = due'[j][1] => i = j
    BY <1>1, <1>2
<1>10. /\ due'[1] = <<"filter", kind, b>>
       /\ due'[2] = <<"addr", kind, b>>
       /\ due'[3] = <<"tx", kind, b>>
    BY <1>1, <1>2
<1> QED
    BY <1>4, <1>5, <1>6, <1>7, <1>8, <1>9, <1>10

LEMMA ConnectKeeps ==
    ASSUME IndexInv, due = <<>>, NEW b \in Block, Connect(b), Notify("connect", b),
           UNCHANGED <<indexVars, lost>>
    PROVE  DueInv' /\ FilterInv'
<1> DEFINE n == Height[tip]
<1>1. b # Genesis /\ Height[b] = n + 1 /\ n \in Nat /\ Height[b] <= MaxHeight
    BY ConnectHeight, MainHeights, TreeFacts DEF IndexInv
<1>2. tip' = b /\ hash' = [hash EXCEPT ![Height[b]] = b] /\ hash \in [Heights -> Block \cup {NoBlock}]
    BY DEF Connect, IndexInv, IInv, TypeOK
<1>3. DueInv'
    BY <1>1, <1>2, NotifyDue DEF DueInv
<1>4. TipDue'
    BY NotifyDue DEF TipDue
<1>5. ASSUME NEW h \in 0 .. Height[tip'], AllHandled(h)', ~(TipDue' /\ h = Height[tip'])
      PROVE  hash'[h] \in filterOf' /\ filter'[h] = PathTo(h)'
    <2>1. h \in 0 .. n
        BY <1>1, <1>2, <1>4, <1>5
    <2>2. \A k \in 0 .. h : hash'[k] = hash[k]
        BY <1>1, <1>2, <2>1 DEF Heights
    <2>3. AllHandled(h)
        BY <1>5, <2>2 DEF AllHandled
    <2>4. PathTo(h)' = PathTo(h)
        <3>1. \A k \in 1 .. h + 1 : k - 1 \in 0 .. h
            BY <2>1
        <3> QED
            BY <2>2, <3>1 DEF PathTo
    <2>5. hash[h] \in filterOf /\ filter[h] = PathTo(h)
        BY <2>1, <2>3 DEF IndexInv, FilterInv, TipDue
    <2>6. hash'[h] = hash[h]
        BY <2>1, <2>2
    <2> QED
        BY <2>4, <2>5, <2>6 DEF indexVars
<1> QED
    BY <1>3, <1>5 DEF FilterInv, IndexInv, indexVars

LEMMA DisconnectKeeps ==
    ASSUME IndexInv, due = <<>>, Disconnect, Notify("disconnect", tip),
           UNCHANGED <<indexVars, lost>>
    PROVE  DueInv' /\ FilterInv'
<1> DEFINE n == Height[tip]
<1>1. tip \in Block /\ tip # Genesis /\ n \in Nat /\ n <= MaxHeight
    BY MainHeights DEF IndexInv, IInv, HeadersClosed, Disconnect
<1>2. Height[Prev[tip]] \in Nat /\ n = Height[Prev[tip]] + 1
    BY <1>1, TreeFacts
<1>3. tip' = Prev[tip] /\ hash' = [hash EXCEPT ![n] = NoBlock] /\ hash \in [Heights -> Block \cup {NoBlock}]
    BY DEF Disconnect, HashWithout, IndexInv, IInv, TypeOK
<1>4. DueInv'
    <2>1. /\ due' \in Seq(Notice)
          /\ \A i \in 1 .. Len(due') : due'[i][2] = "disconnect" /\ due'[i][3] = tip
          /\ \A i \in 2 .. Len(due') : due'[i][1] # "filter"
          /\ \A i, j \in 1 .. Len(due') : due'[i][1] = due'[j][1] => i = j
        BY <1>1, NotifyDue
    <2> QED
        BY <1>1, <1>3, <2>1 DEF DueInv
<1>5. ASSUME NEW h \in 0 .. Height[tip'], AllHandled(h)'
      PROVE  hash'[h] \in filterOf' /\ filter'[h] = PathTo(h)'
    <2>1. h \in 0 .. n /\ h < n
        BY <1>2, <1>3
    <2>2. \A k \in 0 .. h : hash'[k] = hash[k]
        BY <1>1, <1>3, <2>1 DEF Heights
    <2>3. AllHandled(h)
        BY <1>5, <2>2 DEF AllHandled
    <2>4. PathTo(h)' = PathTo(h)
        <3>1. \A k \in 1 .. h + 1 : k - 1 \in 0 .. h
            BY <2>1
        <3> QED
            BY <2>2, <3>1 DEF PathTo
    <2>5. hash[h] \in filterOf /\ filter[h] = PathTo(h)
        BY <2>1, <2>3 DEF IndexInv, FilterInv, TipDue
    <2>6. hash'[h] = hash[h]
        BY <2>1, <2>2
    <2> QED
        BY <2>4, <2>5, <2>6 DEF indexVars
<1> QED
    BY <1>4, <1>5 DEF FilterInv, IndexInv, indexVars

LEMMA UnnoticedKeeps ==
    ASSUME IndexInv, due = <<>>, Unnoticed, UNCHANGED <<indexVars, lost>>
    PROVE  DueInv' /\ FilterInv'
<1>1. UNCHANGED <<hash, tip, due>>
    BY DEF Unnoticed, Calls, AddHeader, AddHeaderOnInvalid, Add, Attach, AddBlock,
           ConnectBest, DisconnectPanics, ConnectFails, WriteUndo, mainVars
<1>2. DueInv'
    BY <1>1 DEF IndexInv, DueInv
<1>3. \A h \in 0 .. Height[tip] : AllHandled(h)' = AllHandled(h)
    BY <1>1 DEF AllHandled
<1>4. TipDue' = TipDue
    BY <1>1 DEF TipDue
<1>5. UNCHANGED <<filter, filterOf>>
    BY DEF indexVars
<1> QED
    BY <1>1, <1>2, <1>3, <1>4, <1>5, FilterFrame DEF IndexInv

\* Notices are lost with the call: with the one of the tip, the tip is not handled.
LEMMA LosingKeeps ==
    ASSUME IndexInv, UNCHANGED <<hash, tip, filter, filterOf>>,
           due' = <<>>, lost' = lost \cup NeverHandled
    PROVE  DueInv' /\ FilterInv'
<1>1. DueInv'
    BY DEF DueInv
<1>2. ASSUME NEW h \in 0 .. Height[tip], AllHandled(h)'
      PROVE  AllHandled(h) /\ ~(TipDue /\ h = Height[tip])
    <2>1. AllHandled(h)
        BY <1>2 DEF AllHandled
    <2>2. ASSUME TipDue, h = Height[tip] PROVE FALSE
        <3>1. due \in Seq(Notice) /\ due # <<>> /\ Head(due)[3] = tip /\ Head(due)[1] = "filter"
            BY <2>2, HeadDue DEF TipDue, IndexInv
        <3>2. Head(due) \in ToSet(due)
            BY <3>1 DEF ToSet
        <3>3. <<"filter", tip>> \in NeverHandled
            BY <3>1, <3>2 DEF NeverHandled
        <3>4. hash[h] = tip /\ h \in 0 .. h
            BY <2>2, MainHeights DEF IndexInv
        <3>5. <<"filter", hash[h]>> \notin lost'
            BY <1>2, <3>4 DEF AllHandled
        <3> QED
            BY <3>3, <3>4, <3>5
    <2> QED
        BY <2>1, <2>2
<1>3. ~TipDue'
    BY DEF TipDue
<1> QED
    BY <1>1, <1>2, FilterFrame DEF IndexInv

------------------------------------------------------------------------------
(* The steps of the listeners.                                             *)

\* The rest of what is due does not concern the filters.
LEMMA TailDue ==
    ASSUME DueInv, due # <<>>, due' = Tail(due), UNCHANGED tip
    PROVE  DueInv' /\ ~TipDue'
<1>1. due \in Seq(Notice) /\ due' \in Seq(Notice)
    BY DEF DueInv
<1>2. \A i \in 1 .. Len(due') :
          i + 1 \in 2 .. Len(due) /\ i + 1 \in 1 .. Len(due) /\ due'[i] = due[i + 1]
    BY <1>1
<1>3. \A i \in 1 .. Len(due') : due'[i][1] # "filter"
    BY <1>2 DEF DueInv
<1>4. due' # <<>> => 1 \in 1 .. Len(due') /\ Head(due') = due'[1]
    BY <1>1
<1>5. \A i \in 1 .. Len(due') :
          /\ due'[i][3] # Genesis
          /\ due'[i][2] = "connect" => due'[i][3] = tip
          /\ due'[i][2] = "disconnect" => Prev[due'[i][3]] = tip
    BY <1>2 DEF DueInv
<1>6. \A i \in 2 .. Len(due') : due'[i][1] # "filter"
    <2>1. Len(due') \in Nat
        BY <1>1
    <2>2. \A i \in 2 .. Len(due') : i \in 1 .. Len(due')
        BY <2>1
    <2> QED
        BY <1>3, <2>2
<1>7. ~TipDue'
    BY <1>3, <1>4 DEF TipDue
<1>8. \A i, j \in 1 .. Len(due') : due'[i][1] = due'[j][1] => i = j
    <2> SUFFICES ASSUME NEW i \in 1 .. Len(due'), NEW j \in 1 .. Len(due'),
                        due'[i][1] = due'[j][1]
                 PROVE  i = j
        OBVIOUS
    <2>1. i + 1 = j + 1
        BY <1>2 DEF DueInv
    <2> QED
        BY <2>1
<1>9. \A i, j \in 1 .. Len(due') : due'[i][2] = due'[j][2] /\ due'[i][3] = due'[j][3]
    BY <1>2 DEF DueInv
<1>10. DueInv'
    BY <1>1, <1>5, <1>6, <1>8, <1>9 DEF DueInv
<1> QED
    BY <1>7, <1>10

\* The filter of the tip is built on that of the block before it.
LEMMA FilterTip ==
    ASSUME IndexInv, Handle, TipDue
    PROVE  FilterInv'
<1> DEFINE n == Height[tip]
<1>1. due # <<>> /\ Head(due)[1] = "filter" /\ Head(due)[2] = "connect" /\ Head(due)[3] = tip
      /\ tip # Genesis
    BY HeadDue DEF TipDue, IndexInv
<1>2. HandleFilter("connect", tip) /\ lost' = lost \ {<<"filter", tip>>} /\ UNCHANGED vars
    BY <1>1 DEF Handle
<1>3. UNCHANGED <<hash, tip>>
    BY <1>2 DEF vars, mainVars
<1>4. n \in Nat /\ n > 0 /\ n <= MaxHeight /\ tip \in Block /\ hash[n] = tip
    BY <1>1, MainHeights, TreeFacts DEF IndexInv
<1>5. hash[n - 1] = Prev[tip] /\ Prev[tip] \in Block /\ Height[Prev[tip]] = n - 1
    BY <1>4, MainHeights DEF IndexInv
<1>6. Prev[tip] \in filterOf /\ filterOf' = filterOf \cup {tip}
      /\ filter' = [filter EXCEPT ![n] = Append(filter[n - 1], tip)]
    BY <1>2, <1>5 DEF HandleFilter, FilterWith, FilterHeaderByHash
<1>7. filter \in [Heights -> Seq(Block)] /\ n \in Heights /\ n - 1 \in Heights
    BY <1>4, TreeAssumption DEF IndexInv, FilterInv, Heights
<1>8. filter' \in [Heights -> Seq(Block)] /\ filterOf' \subseteq Block
    <2>1. Append(filter[n - 1], tip) \in Seq(Block)
        BY <1>4, <1>7
    <2> QED
        BY <1>4, <1>6, <1>7, <2>1 DEF IndexInv, FilterInv
<1>9. ASSUME NEW h \in 0 .. n, AllHandled(h)'
      PROVE  hash'[h] \in filterOf' /\ filter'[h] = PathTo(h)'
    <2>1. PathTo(h)' = PathTo(h) /\ hash'[h] = hash[h]
        BY <1>3 DEF PathTo
    <2>2. \A k \in 0 .. n - 1 : hash[k] # tip
        BY <1>4, MainHeights DEF IndexInv
    <2>3. \A k \in 0 .. n - 1 : k \in 0 .. h => <<"filter", hash[k]>> \notin lost
        BY <1>2, <1>3, <1>9, <2>2 DEF AllHandled
    <2>4. CASE h < n
        <3>1. h \in 0 .. n - 1 /\ \A k \in 0 .. h : k \in 0 .. n - 1
            BY <1>4, <2>4
        <3>2. AllHandled(h)
            BY <2>3, <3>1 DEF AllHandled
        <3>3. hash[h] \in filterOf /\ filter[h] = PathTo(h)
            BY <2>4, <3>2, <1>4 DEF IndexInv, FilterInv
        <3>4. filter'[h] = filter[h]
            BY <1>4, <1>6, <1>7, <2>4 DEF Heights
        <3> QED
            BY <1>6, <2>1, <3>3, <3>4
    <2>5. CASE h = n
        <3>1. n - 1 \in 0 .. n /\ n - 1 # n /\ \A k \in 0 .. n - 1 : k \in 0 .. h
            BY <1>4, <2>5
        <3>2. AllHandled(n - 1)
            BY <2>3, <3>1 DEF AllHandled
        <3>3. filter[n - 1] = PathTo(n - 1)
            BY <3>1, <3>2 DEF IndexInv, FilterInv
        <3>4. filter'[n] = Append(PathTo(n - 1), tip)
            BY <1>6, <1>7, <3>3
        <3>5. PathTo(n - 1) = [k \in 1 .. n |-> hash[k - 1]]
            BY <1>4 DEF PathTo
        <3>6. PathTo(n) = Append(PathTo(n - 1), tip)
            <4>1. \A k \in 1 .. n + 1 : k - 1 \in 0 .. n
                BY <1>4
            <4>2. \A k \in 1 .. n : hash[k - 1] \in Block
                BY <1>4, MainHeights DEF IndexInv
            <4>3. PathTo(n - 1) \in Seq(Block) /\ Len(PathTo(n - 1)) = n
                <5> DEFINE path == [k \in 1 .. n |-> hash[k - 1]]
                <5>1. path \in Seq(Block)
                    BY <1>4, <4>2
                <5>2. Len(path) = n
                    BY <1>4
                <5> QED
                    BY <3>5, <5>1, <5>2
            <4>4. PathTo(n) = [k \in 1 .. n + 1 |-> hash[k - 1]]
                BY DEF PathTo
            <4>5. Append(PathTo(n - 1), tip) =
                    [k \in 1 .. n + 1 |-> IF k = n + 1 THEN tip ELSE PathTo(n - 1)[k]]
                BY <1>4, <4>3
            <4>6. \A k \in 1 .. n + 1 :
                    hash[k - 1] = IF k = n + 1 THEN tip ELSE PathTo(n - 1)[k]
                BY <1>4, <3>5
            <4> QED
                BY <4>4, <4>5, <4>6
        <3> QED
            BY <1>4, <1>6, <2>1, <2>5, <3>4, <3>6
    <2> QED
        BY <1>4, <2>4, <2>5
<1> QED
    BY <1>3, <1>8, <1>9 DEF FilterInv

\* No other notice concerns the filters of the main chain.
LEMMA OtherNotice ==
    ASSUME IndexInv, Handle, ~TipDue
    PROVE  FilterInv'
<1>1. due # <<>> /\ due' = Tail(due) /\ UNCHANGED vars
    BY DEF Handle
<1>2. UNCHANGED <<hash, tip>>
    BY <1>1 DEF vars, mainVars
<1>3. Head(due) \in Notice
    BY <1>1, HeadDue DEF IndexInv
<1>4. UNCHANGED <<filter, filterOf>>
    <2>1. Head(due)[1] = "filter" => Head(due)[2] # "connect"
        BY <1>1 DEF TipDue
    <2> QED
        BY <2>1 DEF Handle, HandleTx, HandleAddr, HandleFilter
<1>5. ASSUME NEW h \in 0 .. Height[tip], AllHandled(h)' PROVE AllHandled(h)
    <2>1. SUFFICES ASSUME NEW k \in 0 .. h, <<"filter", hash[k]>> \in lost PROVE FALSE
        BY DEF AllHandled
    <2>2. lost' = lost \ {<<Head(due)[1], Head(due)[3]>>}
        BY DEF Handle
    <2>3. <<"filter", hash[k]>> \notin lost'
        BY <1>2, <1>5, <2>1 DEF AllHandled
    <2>4. Head(due)[1] = "filter" /\ Head(due)[3] = hash[k]
        BY <2>1, <2>2, <2>3
    <2>5. Head(due)[2] = "disconnect"
        BY <1>1, <1>3, <2>4 DEF TipDue, Notice
    <2>6. Height[hash[k]] = Height[tip] + 1
        BY <1>1, <2>4, <2>5, HeadDue DEF IndexInv
    <2>7. k \in 0 .. Height[tip] /\ Height[hash[k]] = k /\ Height[tip] \in Nat
        BY <1>5, <2>1, MainHeights DEF IndexInv
    <2> QED
        BY <2>6, <2>7
<1> QED
    BY <1>2, <1>4, <1>5, FilterFrame DEF IndexInv

------------------------------------------------------------------------------
(* The invariant is inductive.                                             *)

LEMMA InitIndex == IndexInit => IndexInv
<1> SUFFICES ASSUME IndexInit PROVE IndexInv
    OBVIOUS
<1>1. IInv
    BY InitInv DEF IndexInit
<1>2. due = <<>> /\ lost = {} /\ filterOf = {Genesis} /\ tip = Genesis
      /\ filter = [h \in Heights |-> IF h = 0 THEN <<Genesis>> ELSE <<>>]
    BY DEF IndexInit, Init
<1>3. DueInv
    BY <1>2 DEF DueInv
<1>4. Genesis \in Block /\ Height[Genesis] = 0 /\ 0 \in Heights
    BY TreeAssumption DEF Heights
<1>5. hash[0] = Genesis
    BY <1>1 DEF IInv, MainChainLinked
<1>6. PathTo(0) = <<Genesis>>
    BY <1>5 DEF PathTo
<1>7. filter[0] = <<Genesis>> /\ filter \in [Heights -> Seq(Block)]
    BY <1>2, <1>4
<1>8. FilterInv
    BY <1>2, <1>4, <1>5, <1>6, <1>7 DEF FilterInv
<1> QED
    BY <1>1, <1>3, <1>8 DEF IndexInv

\* The panic of the listener leaves the chain as DisconnectPanics does, in good order.
LEMMA HandlePanicsInv == ASSUME IInv, HandlePanics PROVE IInv'
<1> USE DEF IInv, HandlePanics, headerVars, mainVars, storeVars
<1>1. TypeOK' /\ HeadersClosed'
    BY DEF TypeOK, HeadersClosed, PCs
<1>2. MainChainLinked' /\ NextFollowsMain' /\ CoinsAreReplay' /\ MainChainVerified'
    BY MainFrame DEF TypeOK, Main
<1>3. UndoFits' /\ CallInv'
    BY DEF UndoFits, CallInv
<1> QED
    BY <1>1, <1>2, <1>3

LEMMA StepIndex == IndexInv /\ [IndexNext]_allVars => IndexInv'
<1> SUFFICES ASSUME IndexInv, [IndexNext]_allVars PROVE IndexInv'
    OBVIOUS
<1> USE DEF IndexInv
<1>1. ASSUME due = <<>>, ConnectAndNotify, UNCHANGED <<indexVars, lost>> PROVE IndexInv'
    <2>1. PICK b \in Block : Connect(b) /\ Notify("connect", b)
        BY <1>1 DEF ConnectAndNotify
    <2>2. IInv'
        BY <2>1, ConnectInv
    <2> QED
        BY <1>1, <2>1, <2>2, ConnectKeeps
<1>2. ASSUME due = <<>>, DisconnectAndNotify, UNCHANGED <<indexVars, lost>> PROVE IndexInv'
    <2>1. IInv'
        BY <1>2, DisconnectInv DEF DisconnectAndNotify
    <2> QED
        BY <1>2, <2>1, DisconnectKeeps DEF DisconnectAndNotify
<1>3. ASSUME due = <<>>, Unnoticed, UNCHANGED <<indexVars, lost>> PROVE IndexInv'
    <2>1. Next
        BY <1>3 DEF Unnoticed, Next, Steps
    <2>2. IInv'
        BY <2>1, NextInv
    <2> QED
        BY <1>3, <2>2, UnnoticedKeeps
<1>4. CASE Handle
    <2>1. UNCHANGED vars
        BY <1>4 DEF Handle
    <2>2. IInv'
        BY <2>1, NextInv
    <2>3. DueInv'
        BY <1>4, <2>1, TailDue DEF Handle, vars, mainVars
    <2>4. FilterInv'
        BY <1>4, FilterTip, OtherNotice
    <2> QED
        BY <2>2, <2>3, <2>4
<1>5. CASE HandlePanics
    <2>1. IInv'
        BY <1>5, HandlePanicsInv
    <2>2. DueInv' /\ FilterInv'
        BY <1>5, LosingKeeps DEF HandlePanics, mainVars, indexVars
    <2> QED
        BY <2>1, <2>2
<1>6. CASE RestartAll
    <2>1. IInv'
        BY <1>6, RestartInv DEF RestartAll
    <2>2. UNCHANGED <<hash, tip, filter, filterOf>>
        BY <1>6 DEF RestartAll, Restart, TipOnRestart, IInv, MainChainLinked, indexVars
    <2>3. DueInv' /\ FilterInv'
        BY <1>6, <2>2, LosingKeeps DEF RestartAll
    <2> QED
        BY <2>1, <2>3
<1>7. CASE UNCHANGED allVars
    <2>1. UNCHANGED vars /\ UNCHANGED <<filter, filterOf, due, lost>>
        BY <1>7 DEF allVars, indexVars
    <2>2. IInv'
        BY <2>1, NextInv
    <2>3. UNCHANGED <<hash, tip>>
        BY <2>1 DEF vars, mainVars
    <2>4. DueInv'
        BY <2>1, <2>3 DEF DueInv
    <2>5. TipDue' = TipDue /\ \A h \in 0 .. Height[tip] : AllHandled(h)' = AllHandled(h)
        BY <2>1, <2>3 DEF TipDue, AllHandled
    <2> QED
        BY <2>1, <2>2, <2>3, <2>4, <2>5, FilterFrame
<1> QED
    BY <1>1, <1>2, <1>3, <1>4, <1>5, <1>6, <1>7 DEF IndexNext

\* The invariant of the chain holds with its listeners too, and that of the filters.
THEOREM IndexInvariance == IndexSpec => []IndexInv
    BY InitIndex, StepIndex, PTL DEF IndexSpec

\* The filter header of every main-chain block commits to the main chain up to it, as far up
\* as no crash has lost a notice, whatever was reorganised and however often.
THEOREM FilterIndexCorrect == IndexSpec => []FiltersOfMain
<1>1. IndexInv => FiltersOfMain
    <2> SUFFICES ASSUME IndexInv, due = <<>>, NEW h \in 0 .. Height[tip], AllHandled(h)
                 PROVE  FilterHeaderByHash(hash[h]) = [k \in 1 .. h + 1 |-> hash[k - 1]]
        BY DEF FiltersOfMain, AllHandled
    <2>1. hash[h] \in filterOf /\ filter[h] = PathTo(h)
        BY DEF IndexInv, FilterInv, TipDue
    <2>2. Height[hash[h]] = h
        BY MainHeights DEF IndexInv
    <2> QED
        BY <2>1, <2>2 DEF FilterHeaderByHash, PathTo
<1> QED
    BY <1>1, IndexInvariance, PTL

\* The filter of the tip is due and the header it builds on is there.
HeaderThere ==
    TipDue /\ (\A b \in Block : <<"filter", b>> \notin lost) =>
        Prev[Head(due)[3]] \in filterOf

\* While no notice was lost the listener finds the header it builds on: HandlePanics, the
\* unwrap in block_connected, takes a crash in between two databases.
THEOREM PanicNeedsLoss == IndexSpec => []HeaderThere
<1>1. IndexInv => HeaderThere
    <2> SUFFICES ASSUME IndexInv, TipDue, \A b \in Block : <<"filter", b>> \notin lost
                 PROVE  Prev[Head(due)[3]] \in filterOf
        BY DEF HeaderThere
    <2> DEFINE n == Height[tip]
    <2>1. Head(due)[3] = tip /\ tip # Genesis
        BY HeadDue DEF IndexInv, TipDue
    <2>2. n \in Nat /\ n > 0
        BY <2>1, MainHeights, TreeFacts DEF IndexInv
    <2>3. Prev[tip] = hash[n - 1]
        BY <2>2, MainHeights DEF IndexInv
    <2>4. n - 1 \in 0 .. n /\ n - 1 # n
        BY <2>2
    <2>5. AllHandled(n - 1)
        BY <2>2, MainHeights DEF AllHandled, IndexInv
    <2> QED
        BY <2>1, <2>3, <2>4, <2>5 DEF IndexInv, FilterInv
<1> QED
    BY <1>1, IndexInvariance, PTL

\* The panic of the listener ends the call; nothing else depends on the listeners.
LEMMA BestWithListeners ==
    NoBlockFails => (IInv /\ BestInv /\ [IndexNext]_allVars => BestInv')
<1> SUFFICES ASSUME NoBlockFails, IInv, BestInv, [IndexNext]_allVars PROVE BestInv'
    OBVIOUS
<1>1. CASE HandlePanics
    <2>1. pc' = "down" /\ downloaded' = downloaded
        BY <1>1 DEF HandlePanics, storeVars
    <2> QED
        BY <2>1 DEF BestInv, VerifyBody
<1>2. CASE [Next]_vars
    BY <1>2, BestStep
<1> QED
    BY <1>1, <1>2
       DEF IndexNext, ConnectAndNotify, DisconnectAndNotify, Unnoticed, Handle, RestartAll,
           allVars, Next, Steps

\* Also with the listeners, whose panic ends a call half-way: where no block fails, the
\* active chain has the most work and the deployments are those of its tip.
THEOREM BestUnderListeners ==
    NoBlockFails => (IndexSpec => []TipHasMostWork /\ []DeploymentsOfTip)
<1> SUFFICES ASSUME NoBlockFails PROVE IndexSpec => []TipHasMostWork /\ []DeploymentsOfTip
    OBVIOUS
<1>1. IndexInit => BestInv
    BY InitBest DEF IndexInit
<1>2. IndexInv /\ BestInv /\ [IndexNext]_allVars => BestInv'
    BY BestWithListeners DEF IndexInv
<1>3. IndexInv /\ BestInv => TipHasMostWork /\ DeploymentsOfTip
    BY DEF BestInv, TipHasMostWork, DeploymentsOfTip, Connectable, From, Idle
<1> QED
    BY <1>1, <1>2, <1>3, IndexInvariance, PTL DEF IndexSpec

------------------------------------------------------------------------------
(* The blocks a listener knows: those of the main chain, as of the last    *)
(* notice it has handled.                                                  *)

\* The listener is still to be told of the last step of the chain.
Waits(l) == \E i \in 1 .. Len(due) : due[i][1] = l

Seen(l) ==
    IF ~Waits(l) THEN MainBlocks
    ELSE IF Head(due)[2] = "connect" THEN MainBlocks \ {Head(due)[3]}
    ELSE MainBlocks \cup {Head(due)[3]}

\* The main chain, and the block above it that is being taken off.
Around == MainBlocks \cup {due[i][3] : i \in 1 .. Len(due)}

LEMMA MainBlock ==
    ASSUME IInv
    PROVE  /\ \A b \in MainBlocks : b \in Block /\ b # Genesis /\ hash[Height[b]] = b
                                    /\ Height[b] \in 1 .. Height[tip]
           /\ tip # Genesis => tip \in MainBlocks
           /\ \A h \in Heights : h > Height[tip] => hash[h] = NoBlock
<1>1. ASSUME NEW h \in 1 .. Height[tip]
      PROVE  hash[h] \in Block /\ hash[h] # Genesis /\ Height[hash[h]] = h
    BY MainHeights DEF IInv, MainChainLinked
<1>2. tip # Genesis => Height[tip] \in 1 .. Height[tip] /\ hash[Height[tip]] = tip
    BY MainHeights, TreeFacts
<1> QED
    BY <1>1, <1>2 DEF MainBlocks, IInv, MainChainLinked

\* Every notice is the first one, but for the listener.
LEMMA DueAlike ==
    ASSUME DueInv, NEW i \in 1 .. Len(due)
    PROVE  /\ due # <<>> /\ due[i] \in Notice
           /\ due[i][2] = Head(due)[2] /\ due[i][3] = Head(due)[3]
<1>1. due \in Seq(Notice) /\ 1 \in 1 .. Len(due) /\ Head(due) = due[1]
    BY DEF DueInv
<1> QED
    BY <1>1 DEF DueInv

\* The main chain lies on the chain that ends in its tip.
LEMMA MainOnChain ==
    ASSUME IInv, NEW S \in SUBSET Block, tip \in S,
           \A c \in S \ {Genesis} : Prev[c] \in S
    PROVE  \A h \in 0 .. Height[tip] : hash[h] \in S
<1> DEFINE n == Height[tip]
           D == {d \in Nat : d <= n /\ hash[n - d] \notin S}
<1>1. n \in Nat /\ hash[n] = tip
    BY MainHeights
<1>2. ASSUME D # {} PROVE FALSE
    <2>1. PICK d \in D : \A x \in D : d <= x
        BY <1>2, Least
    <2>2. d # 0
        BY <1>1, <2>1
    <2>3. d - 1 \in Nat /\ d - 1 \notin D
        BY <2>1, <2>2
    <2>4. hash[n - d + 1] \in S /\ n - d + 1 \in 1 .. n
        BY <1>1, <2>1, <2>2, <2>3
    <2>5. hash[n - d + 1] # Genesis /\ Prev[hash[n - d + 1]] = hash[n - d]
        BY <1>1, <2>1, <2>4, MainHeights DEF IInv, MainChainLinked
    <2> QED
        BY <2>1, <2>4, <2>5
<1>3. ASSUME NEW h \in 0 .. n PROVE hash[h] \in S
    <2>1. n - h \in Nat /\ n - h <= n /\ n - (n - h) = h
        BY <1>1
    <2>2. n - h \notin D
        BY <1>2
    <2> QED
        BY <2>1, <2>2
<1> QED
    BY <1>3

\* The blocks around the main chain have heights of their own and share no transaction.
LEMMA AroundApart ==
    ASSUME IInv, DueInv
    PROVE  /\ Around \subseteq Block
           /\ \A b, c \in Around : b # c =>
                 Height[b] # Height[c] /\ ToSet(Txs[b]) \cap ToSet(Txs[c]) = {}
<1> DEFINE top == IF due # <<>> THEN Head(due)[3] ELSE tip
<1>1. \A b \in Around : b \in MainBlocks \/ (due # <<>> /\ b = Head(due)[3])
    BY DueAlike DEF Around
<1>2. due # <<>> =>
          /\ top \in Block /\ top # Genesis
          /\ top = tip \/ (Prev[top] = tip /\ Height[top] = Height[tip] + 1)
    BY HeadDue DEF Notice
<1>3. top \in Block /\ Height[tip] \in Nat
    BY <1>2, MainHeights
<1>4. Around \subseteq Block
    BY <1>1, <1>2, MainBlock
<1>5. ASSUME NEW b \in Around, NEW c \in Around, b # c PROVE Height[b] # Height[c]
    <2>1. b \in MainBlocks /\ c \in MainBlocks => hash[Height[b]] = b /\ hash[Height[c]] = c
        BY MainBlock
    <2>2. \A a \in MainBlocks : Height[a] <= Height[tip]
        BY MainBlock, <1>3
    <2>3. tip # Genesis => tip \in MainBlocks
        BY MainBlock
    <2> QED
        BY <1>1, <1>2, <1>3, <1>5, <2>1, <2>2, <2>3, MainBlock
<1>6. ASSUME NEW b \in Around PROVE b \in ChainOf(top)
    <2>1. SUFFICES ASSUME NEW S \in SUBSET Block, top \in S,
                          \A c \in S \ {Genesis} : Prev[c] \in S
                   PROVE  b \in S
        BY <1>4 DEF ChainOf
    <2>2. tip \in S
        BY <1>2, <2>1
    <2>3. \A h \in 0 .. Height[tip] : hash[h] \in S
        BY <2>1, <2>2, MainOnChain
    <2>4. MainBlocks \subseteq S
        BY <2>3, <1>3 DEF MainBlocks
    <2> QED
        BY <1>1, <2>1, <2>4
<1>7. ASSUME NEW b \in Around, NEW c \in Around, b # c
      PROVE  ToSet(Txs[b]) \cap ToSet(Txs[c]) = {}
    BY <1>3, <1>6, <1>7, IndexAssumption
<1> QED
    BY <1>4, <1>5, <1>7

LEMMA SeenAround == ASSUME DueInv PROVE \A l : Seen(l) \subseteq Around
<1>1. ASSUME due # <<>> PROVE Head(due)[3] \in Around
    BY <1>1, 1 \in 1 .. Len(due), Head(due) = due[1] DEF Around, DueInv
<1>2. \A l : Waits(l) => due # <<>>
    BY DueAlike DEF Waits
<1> QED
    BY <1>1, <1>2 DEF Seen, Around

------------------------------------------------------------------------------
(* The inductive invariant.                                                *)

\* Where a block holds a transaction.
Place(b, t) == <<Height[b], CHOOSE i \in 1 .. Len(Txs[b]) : Txs[b][i] = t>>

\* The last notice of no block with the transaction was lost.
Told(t) == \A b \in Block : t \in ToSet(Txs[b]) => <<"tx", b>> \notin lost

TxInv ==
    /\ txIndex = [t \in Tx |-> txIndex[t]]
    /\ \A t \in Tx : Told(t) =>
          /\ \A b \in Seen("tx") : t \in ToSet(Txs[b]) => txIndex[t] = Place(b, t)
          /\ (\A b \in Seen("tx") : t \notin ToSet(Txs[b])) => txIndex[t] = NoPlace

\* The entries of a block may be there, or must be.
MayHave(b) == b \in Seen("addr") \/ <<"addr", b>> \in lost

MustHave(b) == b \in Seen("addr") /\ <<"addr", b>> \notin lost

AddrInv ==
    /\ \A e \in addrMap : \E b \in Block : e \in AddrEntries(b) /\ MayHave(b)
    /\ \A e \in txidAt : \E b \in Block : e \in TxidsAt(b) /\ MayHave(b)
    /\ \A b \in Block : MustHave(b) =>
          AddrEntries(b) \subseteq addrMap /\ TxidsAt(b) \subseteq txidAt

SearchInv == IndexInv /\ TxInv /\ AddrInv

LEMMA SeenApart ==
    ASSUME IndexInv
    PROVE  \A l : /\ Seen(l) \subseteq Block
                  /\ \A b, c \in Seen(l) : b # c =>
                        Height[b] # Height[c] /\ ToSet(Txs[b]) \cap ToSet(Txs[c]) = {}
BY SeenAround, AroundApart DEF IndexInv

------------------------------------------------------------------------------
(* The steps of the chain.                                                 *)

\* A step that leaves the indexes alone, and what the listeners know but for lost notices.
LEMMA SearchFrame ==
    ASSUME IndexInv, TxInv, AddrInv, UNCHANGED <<txIndex, addrMap, txidAt>>,
           lost \subseteq lost',
           \A l \in Listener : Seen(l)' \subseteq Block,
           \A l \in Listener, b \in Block :
               (b \in Seen(l)' <=> b \in Seen(l)) \/ <<l, b>> \in lost'
    PROVE  TxInv' /\ AddrInv'
<1>1. "tx" \in Listener /\ "addr" \in Listener
    BY DEF Listener
<1>2. \A l \in Listener : Seen(l) \subseteq Block /\ Seen(l)' \subseteq Block
    BY SeenApart
<1>3. TxInv'
    <2>1. txIndex' = [t \in Tx |-> txIndex'[t]]
        BY DEF TxInv
    <2>2. ASSUME NEW t \in Tx, Told(t)'
          PROVE  /\ \A b \in Seen("tx")' : t \in ToSet(Txs[b]) => txIndex'[t] = Place(b, t)
                 /\ (\A b \in Seen("tx")' : t \notin ToSet(Txs[b])) => txIndex'[t] = NoPlace
        <3>1. Told(t)
            BY <2>2 DEF Told
        <3>2. \A b \in Block : t \in ToSet(Txs[b]) => (b \in Seen("tx")' <=> b \in Seen("tx"))
            BY <1>1, <2>2 DEF Told
        <3> QED
            BY <1>1, <1>2, <3>1, <3>2 DEF TxInv
    <2>3. \A b, t : Place(b, t)' = Place(b, t)
        BY DEF Place
    <2> QED
        BY <2>1, <2>2, <2>3 DEF TxInv
<1>4. AddrInv'
    <2>1. \A b \in Block : (MayHave(b) => MayHave(b)') /\ (MustHave(b)' => MustHave(b))
        BY <1>1, <1>2 DEF MayHave, MustHave
    <2>2. \A b \in Block : AddrEntries(b)' = AddrEntries(b) /\ TxidsAt(b)' = TxidsAt(b)
        BY DEF AddrEntries, TxidsAt, WithAddress
    <2> QED
        BY <2>1, <2>2 DEF AddrInv
<1> QED
    BY <1>3, <1>4

\* All listeners wait for a notice as soon as it is due, and none when nothing is.
LEMMA NotifyWaits ==
    ASSUME NEW kind \in {"connect", "disconnect"}, NEW b \in Block, Notify(kind, b)
    PROVE  /\ \A l \in Listener : Waits(l)'
           /\ Head(due')[2] = kind /\ Head(due')[3] = b
<1>1. /\ Len(due') = 3
      /\ due'[1] = <<"filter", kind, b>>
      /\ due'[2] = <<"addr", kind, b>>
      /\ due'[3] = <<"tx", kind, b>>
    BY NotifyDue
<1>2. ASSUME NEW l \in Listener PROVE Waits(l)'
    <2>1. PICK i \in 1 .. 3 : due'[i] = <<l, kind, b>>
        BY <1>1 DEF Listener
    <2>2. due'[i][1] = l /\ i \in 1 .. Len(due')
        BY <1>1, <2>1
    <2>3. Waits(l)' <=> \E j \in 1 .. Len(due') : due'[j][1] = l
        BY DEF Waits
    <2> QED
        BY <2>2, <2>3
<1>3. Head(due') = <<"filter", kind, b>>
    BY NotifyDue
<1> QED
    BY <1>2, <1>3

LEMMA NoneWaits == ASSUME due = <<>> PROVE \A l : ~ Waits(l)
BY DEF Waits

\* The listeners have not been told yet, so they know what they knew.
LEMMA ConnectUnseen ==
    ASSUME IndexInv, due = <<>>, NEW b \in Block, Connect(b), Notify("connect", b)
    PROVE  \A l \in Listener : Seen(l)' = Seen(l)
<1> DEFINE n == Height[tip]
<1>1. b # Genesis /\ Height[b] = n + 1 /\ n \in Nat /\ Height[b] <= MaxHeight
    BY ConnectHeight, MainHeights, TreeFacts DEF IndexInv
<1>2. tip' = b /\ hash' = [hash EXCEPT ![n + 1] = b] /\ hash \in [Heights -> Block \cup {NoBlock}]
    BY <1>1 DEF Connect, IndexInv, IInv, TypeOK
<1>3. hash'[n + 1] = b /\ \A h \in 1 .. n : hash'[h] = hash[h]
    BY <1>1, <1>2 DEF Heights
<1>4. MainBlocks' = {hash'[h] : h \in 1 .. n + 1}
    BY <1>1, <1>2 DEF MainBlocks
<1>5. MainBlocks' = MainBlocks \cup {b}
    <2>1. \A h : h \in 1 .. n + 1 <=> h \in 1 .. n \/ h = n + 1
        BY <1>1
    <2>2. MainBlocks' = {hash[h] : h \in 1 .. n} \cup {b}
        BY <1>3, <1>4, <2>1
    <2> QED
        BY <2>2 DEF MainBlocks
<1>6. b \notin MainBlocks
    BY <1>1, MainBlock DEF IndexInv
<1> QED
    BY <1>5, <1>6, NotifyWaits, NoneWaits DEF Seen

LEMMA DisconnectUnseen ==
    ASSUME IndexInv, due = <<>>, Disconnect, Notify("disconnect", tip)
    PROVE  \A l \in Listener : Seen(l)' = Seen(l)
<1> DEFINE n == Height[tip]
<1>1. tip \in Block /\ tip # Genesis /\ n \in Nat /\ n <= MaxHeight
    BY MainHeights DEF IndexInv, IInv, HeadersClosed, Disconnect
<1>2. Height[Prev[tip]] = n - 1 /\ n > 0
    BY <1>1, TreeFacts
<1>3. tip' = Prev[tip] /\ hash' = [hash EXCEPT ![n] = NoBlock] /\ hash \in [Heights -> Block \cup {NoBlock}]
    BY DEF Disconnect, HashWithout, IndexInv, IInv, TypeOK
<1>4. \A h \in 1 .. n - 1 : hash'[h] = hash[h]
    BY <1>1, <1>3 DEF Heights
<1>5. MainBlocks' = {hash'[h] : h \in 1 .. n - 1}
    BY <1>1, <1>2, <1>3 DEF MainBlocks
<1>6. hash[n] = tip /\ \A h : h \in 1 .. n <=> h \in 1 .. n - 1 \/ h = n
    BY <1>1, <1>2, MainHeights DEF IndexInv
<1>7. MainBlocks' = {hash[h] : h \in 1 .. n - 1}
    BY <1>4, <1>5
<1>8. MainBlocks = {hash[h] : h \in 1 .. n - 1} \cup {tip}
    BY <1>6 DEF MainBlocks
<1>9. MainBlocks = MainBlocks' \cup {tip} /\ tip \notin MainBlocks'
    <2>1. \A h \in 1 .. n - 1 : hash[h] # tip
        BY <1>1, MainHeights DEF IndexInv
    <2> QED
        BY <1>7, <1>8, <2>1
<1> QED
    BY <1>1, <1>9, NotifyWaits, NoneWaits DEF Seen

LEMMA ChainStepSeen ==
    ASSUME IndexInv, due = <<>>,
           ConnectAndNotify \/ DisconnectAndNotify \/ Unnoticed
    PROVE  \A l \in Listener : Seen(l)' = Seen(l)
<1>1. CASE ConnectAndNotify
    BY <1>1, ConnectUnseen DEF ConnectAndNotify
<1>2. CASE DisconnectAndNotify
    BY <1>2, DisconnectUnseen DEF DisconnectAndNotify
<1>3. CASE Unnoticed
    <2>1. UNCHANGED <<hash, tip, due>>
        BY <1>3 DEF Unnoticed, Calls, AddHeader, AddHeaderOnInvalid, Add, Attach, AddBlock,
               ConnectBest, DisconnectPanics, ConnectFails, WriteUndo, mainVars
    <2> QED
        BY <2>1 DEF Seen, Waits, MainBlocks
<1> QED
    BY <1>1, <1>2, <1>3

\* Notices are lost with the call: what a listener knows differs in a block that counts as lost.
LEMMA LosingSeen ==
    ASSUME IndexInv, UNCHANGED <<hash, tip>>, due' = <<>>, lost' = lost \cup NeverHandled
    PROVE  /\ \A l \in Listener : Seen(l)' \subseteq Block
           /\ \A l \in Listener, b \in Block :
                 (b \in Seen(l)' <=> b \in Seen(l)) \/ <<l, b>> \in lost'
<1>0. \A l \in Listener : Seen(l)' = MainBlocks
    BY DEF Seen, Waits, MainBlocks
<1>4. \A l \in Listener : Seen(l)' \subseteq Block
    BY <1>0, MainBlock DEF IndexInv
<1> SUFFICES ASSUME NEW l \in Listener, NEW b \in Block
             PROVE  (b \in Seen(l)' <=> b \in Seen(l)) \/ <<l, b>> \in lost'
    BY <1>4
<1>1. Seen(l)' = MainBlocks
    BY <1>0
<1>2. CASE ~ Waits(l)
    BY <1>1, <1>2 DEF Seen
<1>3. CASE Waits(l)
    <2>1. PICK i \in 1 .. Len(due) : due[i][1] = l
        BY <1>3 DEF Waits
    <2>2. due[i] \in ToSet(due) /\ due[i][3] = Head(due)[3]
        BY <2>1, DueAlike DEF ToSet, IndexInv, DueInv
    <2>3. <<l, Head(due)[3]>> \in lost'
        BY <2>1, <2>2 DEF NeverHandled
    <2>4. b # Head(due)[3] => (b \in MainBlocks <=> b \in Seen(l))
        BY DEF Seen
    <2> QED
        BY <1>1, <2>3, <2>4
<1> QED
    BY <1>2, <1>3

------------------------------------------------------------------------------
(* The steps of the listeners.                                             *)

\* A listener that handles its notice catches up with the main chain; the others do not.
LEMMA HandleSeen ==
    ASSUME IndexInv, Handle
    PROVE  \A l \in Listener :
               /\ l # Head(due)[1] => Seen(l)' = Seen(l)
               /\ l = Head(due)[1] /\ Head(due)[2] = "connect" =>
                     Seen(l)' = Seen(l) \cup {Head(due)[3]}
               /\ l = Head(due)[1] /\ Head(due)[2] = "disconnect" =>
                     Seen(l)' = Seen(l) \ {Head(due)[3]}
<1>1. due # <<>> /\ due' = Tail(due) /\ UNCHANGED <<hash, tip>>
    BY DEF Handle, vars, mainVars
<1>2. due \in Seq(Notice) /\ Head(due) = due[1] /\ 1 \in 1 .. Len(due) /\ Head(due) \in Notice
    BY <1>1 DEF IndexInv, DueInv
<1>3. Len(due') = Len(due) - 1 /\ \A i \in 1 .. Len(due') : due'[i] = due[i + 1]
    BY <1>1, <1>2
<1>4. MainBlocks' = MainBlocks
    BY <1>1 DEF MainBlocks
<1>5. due' # <<>> => Head(due')[2] = Head(due)[2] /\ Head(due')[3] = Head(due)[3]
    <2>1. SUFFICES ASSUME due' # <<>>
                   PROVE Head(due')[2] = Head(due)[2] /\ Head(due')[3] = Head(due)[3]
        OBVIOUS
    <2>2. Head(due') = due[2] /\ 2 \in 1 .. Len(due)
        BY <1>1, <1>2, <1>3, <2>1
    <2> QED
        BY <2>2, DueAlike DEF IndexInv
<1>6. ASSUME NEW l \in Listener, l # Head(due)[1] PROVE Seen(l)' = Seen(l)
    <2>1. Waits(l)' <=> \E i \in 1 .. Len(due') : due'[i][1] = l
        BY DEF Waits
    <2>2. Waits(l) => Waits(l)'
        <3>1. ASSUME NEW i \in 1 .. Len(due), due[i][1] = l PROVE Waits(l)'
            <4>1. i # 1 /\ i - 1 \in 1 .. Len(due') /\ due'[i - 1] = due[i]
                BY <1>2, <1>3, <1>6, <3>1
            <4> QED
                BY <2>1, <3>1, <4>1
        <3> QED
            BY <3>1 DEF Waits
    <2>3. Waits(l)' => Waits(l)
        <3>1. ASSUME NEW i \in 1 .. Len(due'), due'[i][1] = l PROVE Waits(l)
            <4>1. i + 1 \in 1 .. Len(due) /\ due[i + 1][1] = l
                BY <1>2, <1>3, <3>1
            <4> QED
                BY <4>1 DEF Waits
        <3> QED
            BY <2>1, <3>1
    <2>4. Waits(l)' => due' # <<>>
        BY <2>1
    <2> QED
        BY <1>4, <1>5, <2>2, <2>3, <2>4 DEF Seen
<1>7. ASSUME NEW l \in Listener, l = Head(due)[1]
      PROVE  /\ Head(due)[2] = "connect" => Seen(l)' = Seen(l) \cup {Head(due)[3]}
             /\ Head(due)[2] = "disconnect" => Seen(l)' = Seen(l) \ {Head(due)[3]}
    <2>1. Waits(l)
        BY <1>2, <1>7 DEF Waits
    <2>2. ~ Waits(l)'
        <3>1. Waits(l)' <=> \E i \in 1 .. Len(due') : due'[i][1] = l
            BY DEF Waits
        <3>2. SUFFICES ASSUME NEW i \in 1 .. Len(due'), due'[i][1] = l PROVE FALSE
            BY <3>1
        <3>3. i + 1 \in 1 .. Len(due) /\ due[i + 1][1] = due[1][1]
            BY <1>2, <1>3, <1>7, <3>2
        <3>4. i + 1 = 1
            BY <1>2, <3>3 DEF IndexInv, DueInv
        <3> QED
            BY <3>4
    <2>3. Seen(l)' = MainBlocks
        BY <1>4, <2>2 DEF Seen
    <2>4. ASSUME Head(due)[2] = "connect" PROVE Head(due)[3] \in MainBlocks
        <3>1. Head(due)[3] = tip /\ tip # Genesis
            BY <1>1, <2>4, HeadDue DEF IndexInv
        <3> QED
            BY <3>1, MainBlock DEF IndexInv
    <2>5. ASSUME Head(due)[2] = "disconnect" PROVE Head(due)[3] \notin MainBlocks
        <3>1. Height[Head(due)[3]] = Height[tip] + 1 /\ Height[tip] \in Nat
            BY <1>1, <2>5, HeadDue, MainHeights DEF IndexInv
        <3> QED
            BY <3>1, MainBlock DEF IndexInv
    <2> QED
        BY <2>1, <2>3, <2>4, <2>5 DEF Seen
<1> QED
    BY <1>6, <1>7

\* The block of the next notice is apart from every block its listener knows.
LEMMA HeadApart ==
    ASSUME IndexInv, due # <<>>, NEW l, NEW c \in Seen(l), c # Head(due)[3]
    PROVE  /\ c \in Block /\ Head(due)[3] \in Block
           /\ Height[c] # Height[Head(due)[3]]
           /\ ToSet(Txs[c]) \cap ToSet(Txs[Head(due)[3]]) = {}
<1>1. 1 \in 1 .. Len(due) /\ Head(due) = due[1]
    BY DEF IndexInv, DueInv
<1>2. Head(due)[3] \in Around
    BY <1>1 DEF Around
<1> QED
    BY <1>2, SeenAround, AroundApart DEF IndexInv

\* A block is connected or disconnected, and the place of each of its transactions with it.
LEMMA HandleTxKeeps ==
    ASSUME IndexInv, TxInv, Handle, Head(due)[1] = "tx"
    PROVE  TxInv'
<1> SUFFICES ASSUME NEW b, NEW kind, b = Head(due)[3], kind = Head(due)[2] PROVE TxInv'
    OBVIOUS
<1>1. due # <<>> /\ HandleTx(kind, b) /\ lost' = lost \ {<<"tx", b>>}
    BY DEF Handle
<1>2. b \in Block /\ kind \in {"connect", "disconnect"}
    BY <1>1, HeadDue DEF IndexInv, Notice
<1>3. /\ kind = "connect" => Seen("tx")' = Seen("tx") \cup {b}
      /\ kind = "disconnect" => Seen("tx")' = Seen("tx") \ {b}
    BY HandleSeen DEF Listener
<1>4. /\ kind = "connect" => txIndex' = IndexTxs(b)
      /\ kind = "disconnect" => txIndex' = UnindexTxs(b)
    BY <1>1, <1>2 DEF HandleTx
<1>5. \A t \in Tx : t \in ToSet(Txs[b]) =>
          /\ kind = "connect" => txIndex'[t] = Place(b, t)
          /\ kind = "disconnect" => txIndex'[t] = NoPlace
    BY <1>4 DEF IndexTxs, UnindexTxs, Place
<1>6. \A t \in Tx : t \notin ToSet(Txs[b]) => txIndex'[t] = txIndex[t]
    BY <1>2, <1>4 DEF IndexTxs, UnindexTxs
<1>7. txIndex' = [t \in Tx |-> txIndex'[t]]
    BY <1>2, <1>4 DEF IndexTxs, UnindexTxs
<1>8. \A c \in Seen("tx") : c # b => ToSet(Txs[c]) \cap ToSet(Txs[b]) = {}
    BY <1>1, HeadApart
<1>9. ASSUME NEW t \in Tx, Told(t)'
      PROVE  /\ \A c \in Seen("tx")' : t \in ToSet(Txs[c]) => txIndex'[t] = Place(c, t)
             /\ (\A c \in Seen("tx")' : t \notin ToSet(Txs[c])) => txIndex'[t] = NoPlace
    <2>1. CASE t \in ToSet(Txs[b])
        <3>1. \A c \in Seen("tx") : c # b => t \notin ToSet(Txs[c])
            BY <1>8, <2>1
        <3> QED
            BY <1>2, <1>3, <1>5, <2>1, <3>1
    <2>2. CASE t \notin ToSet(Txs[b])
        <3>1. Told(t)
            BY <1>1, <1>9, <2>2 DEF Told
        <3> QED
            BY <1>2, <1>3, <1>6, <2>2, <3>1 DEF TxInv
    <2> QED
        BY <2>1, <2>2
<1>10. \A c, t : Place(c, t)' = Place(c, t)
    BY DEF Place
<1> QED
    BY <1>7, <1>9, <1>10 DEF TxInv

\* The entries of a block name its height.
LEMMA EntryHeights ==
    ASSUME NEW b \in Block
    PROVE  /\ \A e \in AddrEntries(b) : e[2] = Height[b]
           /\ \A e \in TxidsAt(b) : e[1] = Height[b] /\ e[2] \in WithAddress(b)
BY DEF AddrEntries, TxidsAt

LEMMA HandleAddrKeeps ==
    ASSUME IndexInv, AddrInv, Handle, Head(due)[1] = "addr"
    PROVE  AddrInv'
<1> SUFFICES ASSUME NEW b, NEW kind, b = Head(due)[3], kind = Head(due)[2] PROVE AddrInv'
    OBVIOUS
<1>1. due # <<>> /\ HandleAddr(kind, b) /\ lost' = lost \ {<<"addr", b>>}
    BY DEF Handle
<1>2. b \in Block /\ kind \in {"connect", "disconnect"}
    BY <1>1, HeadDue DEF IndexInv, Notice
<1>3. /\ kind = "connect" => Seen("addr")' = Seen("addr") \cup {b}
      /\ kind = "disconnect" => Seen("addr")' = Seen("addr") \ {b}
    BY HandleSeen DEF Listener
<1>4. /\ kind = "connect" =>
            addrMap' = addrMap \cup AddrEntries(b) /\ txidAt' = (txidAt \ AtPlacesOf(b)) \cup TxidsAt(b)
      /\ kind = "disconnect" =>
            addrMap' = addrMap \ AddrEntries(b) /\ txidAt' = txidAt \ AtPlacesOf(b)
    BY <1>1, <1>2 DEF HandleAddr, AddrWithout
<1>5. \A c \in Block : AddrEntries(c)' = AddrEntries(c) /\ TxidsAt(c)' = TxidsAt(c)
    BY DEF AddrEntries, TxidsAt, WithAddress
<1>6. \A c \in Block : c # b => (MayHave(c) => MayHave(c)') /\ (MustHave(c)' => MustHave(c))
    BY <1>1, <1>2, <1>3 DEF MayHave, MustHave
<1>7. (kind = "connect" => MayHave(b)') /\ (kind = "disconnect" => ~ MustHave(b)')
    BY <1>3 DEF MayHave, MustHave
<1>8. ASSUME NEW e \in addrMap' PROVE \E c \in Block : e \in AddrEntries(c) /\ MayHave(c)'
    <2>1. CASE kind = "connect" /\ e \in AddrEntries(b)
        BY <1>2, <1>7, <2>1
    <2>2. CASE ~ (kind = "connect" /\ e \in AddrEntries(b))
        <3>1. e \in addrMap /\ e \notin AddrEntries(b)
            BY <1>2, <1>4, <1>8, <2>2
        <3>2. PICK c \in Block : e \in AddrEntries(c) /\ MayHave(c)
            BY <3>1 DEF AddrInv
        <3> QED
            BY <1>6, <3>1, <3>2
    <2> QED
        BY <2>1, <2>2
<1>9. ASSUME NEW e \in txidAt' PROVE \E c \in Block : e \in TxidsAt(c) /\ MayHave(c)'
    <2>1. CASE kind = "connect" /\ e \in TxidsAt(b)
        BY <1>2, <1>7, <2>1
    <2>2. CASE ~ (kind = "connect" /\ e \in TxidsAt(b))
        <3>1. e \in txidAt /\ e \notin AtPlacesOf(b)
            BY <1>2, <1>4, <1>9, <2>2
        <3>2. PICK c \in Block : e \in TxidsAt(c) /\ MayHave(c)
            BY <3>1 DEF AddrInv
        <3>3. c # b
            BY <1>2, <3>1, <3>2, EntryHeights DEF AtPlacesOf
        <3> QED
            BY <1>6, <3>2, <3>3
    <2> QED
        BY <2>1, <2>2
<1>10. ASSUME NEW c \in Block, MustHave(c)'
       PROVE  AddrEntries(c) \subseteq addrMap' /\ TxidsAt(c) \subseteq txidAt'
    <2>1. CASE c = b
        BY <1>2, <1>4, <1>7, <1>10, <2>1
    <2>2. CASE c # b
        <3>1. MustHave(c)
            BY <1>6, <1>10, <2>2
        <3>2. Height[c] # Height[b]
            BY <1>1, <2>2, <3>1, HeadApart DEF MustHave
        <3>3. AddrEntries(c) \cap AddrEntries(b) = {} /\ TxidsAt(c) \cap AtPlacesOf(b) = {}
            BY <1>2, <3>2, EntryHeights DEF AtPlacesOf
        <3>4. AddrEntries(c) \subseteq addrMap /\ TxidsAt(c) \subseteq txidAt
            BY <3>1 DEF AddrInv
        <3> QED
            BY <1>2, <1>4, <3>3, <3>4
    <2> QED
        BY <2>1, <2>2
<1> QED
    BY <1>5, <1>8, <1>9, <1>10 DEF AddrInv

------------------------------------------------------------------------------
(* The invariant is inductive.                                             *)

\* Nothing is found at first, and no transaction of genesis is looked up.
LEMMA InitSearch == IndexInit => SearchInv
<1> SUFFICES ASSUME IndexInit PROVE SearchInv
    OBVIOUS
<1>1. IndexInv
    BY InitIndex
<1>2. due = <<>> /\ tip = Genesis /\ txIndex = [t \in Tx |-> NoPlace] /\ addrMap = {} /\ txidAt = {}
    BY DEF IndexInit, Init
<1>3. MainBlocks = {}
    BY <1>2, TreeAssumption DEF MainBlocks
<1>4. \A l : Seen(l) = {}
    BY <1>2, <1>3, NoneWaits DEF Seen
<1>5. TxInv
    BY <1>2, <1>4 DEF TxInv
<1>6. AddrInv
    BY <1>2, <1>4 DEF AddrInv, MustHave
<1> QED
    BY <1>1, <1>5, <1>6 DEF SearchInv

LEMMA StepSearch == SearchInv /\ [IndexNext]_allVars => SearchInv'
<1> SUFFICES ASSUME SearchInv, [IndexNext]_allVars PROVE SearchInv'
    OBVIOUS
<1> USE DEF SearchInv
<1>1. IndexInv'
    BY StepIndex
<1>2. \A l \in Listener : Seen(l) \subseteq Block
    BY SeenApart
<1>3. ASSUME due = <<>>, ConnectAndNotify \/ DisconnectAndNotify \/ Unnoticed,
             UNCHANGED <<indexVars, lost>>
      PROVE  TxInv' /\ AddrInv'
    BY <1>2, <1>3, ChainStepSeen, SearchFrame DEF indexVars
<1>4. CASE Handle
    <2>1. due # <<>> /\ Head(due) \in Notice
        BY <1>4, HeadDue DEF Handle, IndexInv
    <2>2. PICK l \in Listener : l = Head(due)[1]
        BY <2>1 DEF Notice
    <2>3. \A k \in Listener : k # l => Seen(k)' = Seen(k)
        BY <1>4, <2>2, HandleSeen
    <2>4. \A k, b : k # l => (<<k, b>> \in lost' <=> <<k, b>> \in lost)
        BY <1>4, <2>2 DEF Handle
    <2>5. TxInv'
        <3>1. CASE l = "tx"
            BY <1>4, <2>2, <3>1, HandleTxKeeps
        <3>2. CASE l # "tx"
            <4>1. txIndex' = txIndex
                BY <1>4, <2>2, <3>2 DEF Handle, HandleAddr, HandleFilter
            <4>2. Seen("tx")' = Seen("tx")
                BY <2>3, <3>2 DEF Listener
            <4>3. \A t : Told(t)' = Told(t)
                BY <2>4, <3>2 DEF Told
            <4>4. \A b, t : Place(b, t)' = Place(b, t)
                BY DEF Place
            <4> QED
                BY <4>1, <4>2, <4>3, <4>4 DEF TxInv
        <3> QED
            BY <3>1, <3>2
    <2>6. AddrInv'
        <3>1. CASE l = "addr"
            BY <1>4, <2>2, <3>1, HandleAddrKeeps
        <3>2. CASE l # "addr"
            <4>1. addrMap' = addrMap /\ txidAt' = txidAt
                BY <1>4, <2>2, <3>2 DEF Handle, HandleTx, HandleFilter
            <4>2. Seen("addr")' = Seen("addr")
                BY <2>3, <3>2 DEF Listener
            <4>3. \A b : MayHave(b)' = MayHave(b) /\ MustHave(b)' = MustHave(b)
                BY <2>4, <3>2, <4>2 DEF MayHave, MustHave
            <4>4. \A b \in Block : AddrEntries(b)' = AddrEntries(b) /\ TxidsAt(b)' = TxidsAt(b)
                BY DEF AddrEntries, TxidsAt, WithAddress
            <4> QED
                BY <4>1, <4>3, <4>4 DEF AddrInv
        <3> QED
            BY <3>1, <3>2
    <2> QED
        BY <1>1, <2>5, <2>6
<1>5. CASE HandlePanics
    <2>1. UNCHANGED <<hash, tip, txIndex, addrMap, txidAt>> /\ due' = <<>>
          /\ lost' = lost \cup NeverHandled
        BY <1>5 DEF HandlePanics, mainVars, indexVars
    <2> QED
        BY <1>1, <2>1, LosingSeen, SearchFrame
<1>6. CASE RestartAll
    <2>1. UNCHANGED <<hash, tip, txIndex, addrMap, txidAt>> /\ due' = <<>>
          /\ lost' = lost \cup NeverHandled
        BY <1>6 DEF RestartAll, Restart, TipOnRestart, IndexInv, IInv, MainChainLinked, indexVars
    <2> QED
        BY <1>1, <2>1, LosingSeen, SearchFrame
<1>7. CASE UNCHANGED allVars
    <2>1. UNCHANGED <<hash, tip, due, lost, txIndex, addrMap, txidAt>>
        BY <1>7 DEF allVars, vars, mainVars, indexVars
    <2>2. \A l \in Listener : Seen(l)' = Seen(l)
        BY <2>1 DEF Seen, Waits, MainBlocks
    <2> QED
        BY <1>1, <1>2, <2>1, <2>2, SearchFrame
<1> QED
    BY <1>1, <1>3, <1>4, <1>5, <1>6, <1>7 DEF IndexNext

\* Whatever the listeners have seen, the two indexes hold the transactions and addresses of
\* these blocks and no others.
THEOREM SearchInvariance == IndexSpec => []SearchInv
    BY InitSearch, StepSearch, PTL DEF IndexSpec

------------------------------------------------------------------------------
(* What is found.                                                          *)

\* A transaction is where the block says.
LEMMA PlaceOf ==
    ASSUME NEW b \in Block, NEW t \in ToSet(Txs[b])
    PROVE  /\ Place(b, t)[1] = Height[b]
           /\ Place(b, t)[2] \in 1 .. Len(Txs[b])
           /\ Txs[b][Place(b, t)[2]] = t
<1>1. Txs[b] \in Seq(Tx)
    BY IndexAssumption
<1>2. \E i \in 1 .. Len(Txs[b]) : Txs[b][i] = t
    BY <1>1 DEF ToSet
<1> QED
    BY <1>2 DEF Place

LEMMA TransactionsFound == ASSUME SearchInv, due = <<>> PROVE TransactionsOfMain
<1>1. IInv /\ Seen("tx") = MainBlocks
    BY NoneWaits DEF Seen, SearchInv, IndexInv
<1> SUFFICES ASSUME NEW t \in Tx,
                    \A b \in {c \in Block : t \in ToSet(Txs[c])} : <<"tx", b>> \notin lost
             PROVE  IF {c \in Block : t \in ToSet(Txs[c])} \cap MainBlocks = {}
                    THEN txIndex[t] = NoPlace
                    ELSE txIndex[t] # NoPlace /\ TxAt(t) = t
    BY DEF TransactionsOfMain
<1>2. Told(t)
    BY DEF Told
<1>3. \A b \in MainBlocks : b \in Block
    BY <1>1, MainBlock
<1>4. CASE \A b \in MainBlocks : t \notin ToSet(Txs[b])
    <2>1. txIndex[t] = NoPlace
        BY <1>1, <1>2, <1>4 DEF SearchInv, TxInv
    <2> QED
        BY <1>4, <2>1
<1>5. CASE \E b \in MainBlocks : t \in ToSet(Txs[b])
    <2>1. PICK b \in MainBlocks : t \in ToSet(Txs[b])
        BY <1>5
    <2>2. b \in Block /\ hash[Height[b]] = b /\ Height[b] \in Nat
        BY <1>1, <2>1, MainBlock, TreeFacts
    <2>3. txIndex[t] = Place(b, t)
        BY <1>1, <1>2, <2>1 DEF SearchInv, TxInv
    <2>4. txIndex[t][1] = Height[b] /\ txIndex[t][2] \in 1 .. Len(Txs[b])
          /\ Txs[b][txIndex[t][2]] = t
        BY <2>1, <2>2, <2>3, PlaceOf
    <2>5. txIndex[t] # NoPlace
        BY <2>2, <2>4 DEF NoPlace
    <2>6. Len(Txs[b]) \in Nat
        BY <2>2, IndexAssumption
    <2>7. TxAt(t) = t
        <3>1. hash[txIndex[t][1]] = b /\ txIndex[t][2] <= Len(Txs[b])
            BY <2>2, <2>4, <2>6
        <3>2. TxAt(t) = Txs[b][txIndex[t][2]]
            BY <2>2, <3>1, Zenon DEF TxAt
        <3> QED
            BY <2>4, <3>2
    <2> QED
        BY <2>1, <2>2, <2>5, <2>7
<1> QED
    BY <1>4, <1>5

LEMMA AddressesFound == ASSUME SearchInv, due = <<>> PROVE AddressesOfMain
<1>1. IInv /\ Seen("addr") = MainBlocks
    BY NoneWaits DEF Seen, SearchInv, IndexInv
<1> SUFFICES ASSUME NEW a \in Address, NEW h \in 1 .. MaxHeight,
                    \A b \in Block : Height[b] = h => <<"addr", b>> \notin lost
             PROVE  TxidsForAddress(a, h) =
                        IF hash[h] = NoBlock THEN {}
                        ELSE {t \in ToSet(Txs[hash[h]]) : a \in AddressesOf[t]}
    BY DEF AddressesOfMain
<1>2. \A b \in Block : Height[b] = h /\ MayHave(b) => b = hash[h]
    BY <1>1, MainBlock DEF MayHave
<1>3. hash[h] # NoBlock =>
          hash[h] \in Block /\ Height[hash[h]] = h /\ MustHave(hash[h])
    <2>1. SUFFICES ASSUME hash[h] # NoBlock
                   PROVE  hash[h] \in Block /\ Height[hash[h]] = h /\ MustHave(hash[h])
        OBVIOUS
    <2>2. h \in Heights
        BY TreeAssumption DEF Heights
    <2>3. h \in 1 .. Height[tip]
        BY <1>1, <2>1, <2>2, MainBlock, MainHeights
    <2>4. hash[h] \in Block /\ Height[hash[h]] = h /\ hash[h] \in MainBlocks
        BY <1>1, <2>3, MainHeights DEF MainBlocks
    <2> QED
        BY <1>1, <2>4 DEF MustHave
<1>4. ASSUME NEW t \in TxidsForAddress(a, h)
      PROVE  hash[h] # NoBlock /\ t \in ToSet(Txs[hash[h]]) /\ a \in AddressesOf[t]
    <2>1. PICK e \in addrMap : e[1] = a /\ e[2] = h /\ <<h, e[3], t>> \in txidAt
        BY <1>4 DEF TxidsForAddress
    <2>2. PICK b \in Block : e \in AddrEntries(b) /\ MayHave(b)
        BY <2>1 DEF SearchInv, AddrInv
    <2>3. PICK c \in Block : <<h, e[3], t>> \in TxidsAt(c) /\ MayHave(c)
        BY <2>1 DEF SearchInv, AddrInv
    <2>4. Height[b] = h /\ Height[c] = h
        BY <2>1, <2>2, <2>3, EntryHeights
    <2>5. b = hash[h] /\ c = hash[h]
        BY <1>2, <2>2, <2>3, <2>4
    <2>6. e[3] \in 1 .. Len(Txs[b]) /\ a \in AddressesOf[Txs[b][e[3]]]
        BY <2>1, <2>2 DEF AddrEntries
    <2>7. t = Txs[c][e[3]]
        BY <2>3 DEF TxidsAt
    <2>8. t \in ToSet(Txs[b])
        BY <2>5, <2>6, <2>7, IndexAssumption DEF ToSet
    <2> QED
        BY <2>5, <2>6, <2>7, <2>8, TreeAssumption
<1>5. ASSUME hash[h] # NoBlock, NEW t \in ToSet(Txs[hash[h]]), a \in AddressesOf[t]
      PROVE  t \in TxidsForAddress(a, h)
    <2> DEFINE b == hash[h]
    <2>1. b \in Block /\ Height[b] = h /\ Txs[b] \in Seq(Tx)
          /\ AddrEntries(b) \subseteq addrMap /\ TxidsAt(b) \subseteq txidAt
        BY <1>3, <1>5, IndexAssumption DEF SearchInv, AddrInv
    <2>2. PICK i \in 1 .. Len(Txs[b]) : Txs[b][i] = t
        BY <1>5, <2>1 DEF ToSet
    <2>3. <<a, h, i>> \in AddrEntries(b)
        BY <1>5, <2>1, <2>2 DEF AddrEntries
    <2>4. <<h, i, t>> \in TxidsAt(b)
        BY <1>5, <2>1, <2>2 DEF TxidsAt, WithAddress
    <2>5. t \in Tx
        BY <2>1, <2>2
    <2> DEFINE e == <<a, h, i>>
    <2>6. e \in addrMap /\ e[1] = a /\ e[2] = h /\ e[3] = i
        BY <2>1, <2>3
    <2> QED
        BY <2>1, <2>4, <2>5, <2>6 DEF TxidsForAddress
<1> QED
    BY <1>4, <1>5

\* A transaction is found at its place in the main chain and only if it is there, and the
\* transactions found for an address are those of the main chain, through every
\* reorganisation and any number of crashes: a crash costs only the block whose last notice
\* it lost.
THEOREM IndexesFollowMain == IndexSpec => []IndexesOfMain
<1>1. SearchInv => IndexesOfMain
    BY TransactionsFound, AddressesFound DEF IndexesOfMain
<1> QED
    BY <1>1, SearchInvariance, PTL
==============================================================================
