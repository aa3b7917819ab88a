----------------------------- MODULE ChainProofs -----------------------------
(***************************************************************************)
(* Theorems about Chain, for every tree of blocks, every assignment of     *)
(* coins to blocks and any number of crashes.                              *)
(***************************************************************************)
EXTENDS Chain, NaturalsInduction, WellFoundedInduction, TLAPS

------------------------------------------------------------------------------
(* The inductive invariant.                                                *)

\* Entries are saved after their parents and blocks after their entries.
HeadersClosed ==
    /\ Genesis \in headers
    /\ \A b \in headers \ {Genesis} : Prev[b] \in headers
    /\ Genesis \in downloaded
    /\ downloaded \subseteq headers
    /\ Genesis \notin undoRecord

\* Every undo record, also that of a block which was disconnected or whose
\* connection was cut short by a crash, fits the coins of the block's parent.
UndoFits == \A b \in undoRecord : undo[b] = UndoOf(b, Utxo[Prev[b]])

\* What a call knows between two of its writes.
CallInv ==
    /\ pc = "add_block" => entry \in headers \ downloaded
    /\ pc = "connect_best" => entry \in headers
    /\ pc = "reorg" => queue \subseteq Ready /\ IsBranch(queue) /\ MoreWork(queue)

IInv ==
    /\ TypeOK
    /\ HeadersClosed
    /\ MainChainLinked
    /\ NextFollowsMain
    /\ CoinsAreReplay
    /\ UndoFits
    /\ MainChainVerified
    /\ CallInv

------------------------------------------------------------------------------
(* Facts about the coins.                                                  *)

\* Undoing a block gives back the coins of its parent, with their heights.
LEMMA UndoInverts ==
    ASSUME NEW b \in Block \ {Genesis}, Acceptable(b, Utxo[Prev[b]])
    PROVE  DisconnectCoins(b, Utxo[b], UndoOf(b, Utxo[Prev[b]])) = Utxo[Prev[b]]
<1> DEFINE before == Utxo[Prev[b]]
<1>1. before \in CoinMaps
  BY TreeAssumption, CoinAssumption
<1>2. Utxo[b] = ConnectCoins(b, before)
  BY CoinAssumption
<1>3. \A c \in Creates[b] : before[c] = Absent
  BY DEF Acceptable, NoDuplicates
<1>4. Creates[b] \subseteq Coin /\ Spends[b] \subseteq Coin
  BY CoinAssumption
<1> HIDE DEF before
<1>5. \A c \in Coin :
        DisconnectCoins(b, ConnectCoins(b, before), UndoOf(b, before))[c] = before[c]
  BY <1>3, <1>4 DEF DisconnectCoins, ConnectCoins, UndoOf
<1>6. DisconnectCoins(b, ConnectCoins(b, before), UndoOf(b, before)) = before
  BY <1>1, <1>5 DEF CoinMaps, DisconnectCoins
<1> QED
  BY <1>2, <1>6 DEF before

\* The operators on coin databases stay within the type.
LEMMA CoinTypes ==
    ASSUME NEW b \in Block, NEW m \in CoinMaps, NEW u \in CoinMaps
    PROVE  /\ ConnectCoins(b, m) \in CoinMaps
           /\ UndoOf(b, m) \in CoinMaps
           /\ DisconnectCoins(b, m, u) \in CoinMaps
BY TreeAssumption
   DEF CoinMaps, ConnectCoins, UndoOf, DisconnectCoins, Heights, Absent

------------------------------------------------------------------------------
(* Facts about the tree and the main chain.                                *)

\* Only genesis is at height 0, and a child is one above its parent.
LEMMA TreeFacts ==
    /\ \A b \in Block : Height[b] \in Nat /\ Height[b] <= MaxHeight
    /\ \A b \in Block : Prev[b] \in Block
    /\ \A b \in Block \ {Genesis} :
          /\ Height[b] = Height[Prev[b]] + 1
          /\ Height[b] > 0
          /\ ChainWork[b] \in Nat
          /\ ChainWork[Prev[b]] \in Nat
          /\ ChainWork[Prev[b]] < ChainWork[b]
BY TreeAssumption DEF Heights

\* What the height index says about the main chain.
LEMMA MainFacts ==
    ASSUME TypeOK, HeadersClosed, MainChainLinked
    PROVE  /\ Genesis \in Main
           /\ tip \in Main
           /\ \A b \in Main : Height[b] <= Height[tip]
           /\ \A b \in Main \ {Genesis} : Prev[b] \in Main
           /\ \A b \in Main : Height[b] = Height[tip] => b = tip
           /\ \A b \in Block : b \in Main <=> hash[Height[b]] = b
<1> USE TreeAssumption, TreeFacts
<1>1. Genesis \in Main
  BY DEF HeadersClosed, MainChainLinked, Main, IsMain
<1>2. \A b \in Block : Height[b] > Height[tip] => hash[Height[b]] = NoBlock
  BY DEF MainChainLinked, Heights
<1>3. \A b \in Block : hash[Height[b]] = b => Height[b] <= Height[tip]
  BY <1>2, TreeAssumption DEF TypeOK
<1>4. \A b \in Block \ {Genesis} : hash[Height[b]] = b =>
          Height[b] \in 1 .. Height[tip] /\ b \in headers
  BY <1>3 DEF MainChainLinked, TypeOK
<1>5. \A b \in Block : b \in Main <=> hash[Height[b]] = b
  BY <1>1, <1>4 DEF Main, IsMain, TypeOK
<1>6. tip \in Main
  BY <1>5 DEF MainChainLinked, TypeOK
<1>7. ASSUME NEW b \in Main \ {Genesis} PROVE Prev[b] \in Main
  <2>1. b \in Block /\ hash[Height[b]] = b /\ Height[b] \in 1 .. Height[tip]
    BY <1>4, <1>5, <1>7 DEF Main, TypeOK
  <2>2. Prev[b] = hash[Height[b] - 1]
    BY <2>1 DEF MainChainLinked
  <2>3. Height[b] - 1 = Height[Prev[b]]
    BY <2>1, <1>7
  <2> QED
    BY <2>1, <2>2, <2>3, <1>5
<1> QED
  BY <1>1, <1>3, <1>5, <1>6, <1>7 DEF Main, TypeOK, MainChainLinked

\* Connecting a child of the tip adds it to the main chain.
LEMMA MainAfterConnect ==
    ASSUME TypeOK, HeadersClosed, MainChainLinked,
           NEW b \in headers \ Main, Prev[b] = tip,
           headers' = headers,
           hash' = [hash EXCEPT ![Height[b]] = b]
    PROVE  /\ Main' = Main \cup {b}
           /\ Height[b] = Height[tip] + 1
<1> USE TreeAssumption, TreeFacts, MainFacts DEF TypeOK
<1>1. Height[b] = Height[tip] + 1
  BY DEF Heights
<1>2. b \in Block /\ Height[b] \in Heights
  BY TreeAssumption
<1>3. \A c \in Block : hash'[Height[c]] = c <=> hash[Height[c]] = c \/ c = b
  BY <1>1, <1>2
<1> QED
  BY <1>1, <1>3 DEF Main, IsMain

\* Disconnecting the tip takes it, and only it, off the main chain.
LEMMA MainAfterDisconnect ==
    ASSUME TypeOK, HeadersClosed, MainChainLinked, tip # Genesis,
           headers' = headers,
           hash' = HashWithout(tip)
    PROVE  /\ Main' = Main \ {tip}
           /\ Prev[tip] \in Main'
           /\ Height[tip] = Height[Prev[tip]] + 1
<1> USE TreeAssumption, TreeFacts, MainFacts DEF TypeOK
<1>1. Height[tip] = Height[Prev[tip]] + 1 /\ Height[tip] \in Heights
  BY TreeAssumption
<1>2. \A c \in Block : hash'[Height[c]] = c <=> hash[Height[c]] = c /\ c # tip
  BY <1>1 DEF HashWithout
<1>3. Main' = Main \ {tip}
  BY <1>2 DEF Main, IsMain
<1>4. Prev[tip] \in Main /\ Prev[tip] # tip
  BY <1>1
<1> QED
  BY <1>1, <1>3, <1>4

\* The entry of a branch that comes next is its root: no other entry has its
\* parent on the main chain.  Taking it off leaves a branch on top of it, or nothing.
LEMMA BranchStep ==
    ASSUME TypeOK, HeadersClosed, MainChainLinked,
           IsBranch(queue), queue \subseteq headers,
           NEW b \in queue, Prev[b] \in Main,
           queue \ {b} # {}
    PROVE  \E n \in queue \ {b} :
             /\ Prev[n] = b
             /\ \A c \in (queue \ {b}) \ {n} : Prev[c] \in queue \ {b}
             /\ (queue \ {b}) \cap (Main \cup {b}) = {}
             /\ \A c, e \in queue \ {b} : Height[c] = Height[e] => c = e
             /\ \E top \in Heights :
                   {Height[c] : c \in queue \ {b}} = Height[n] .. top
<1> USE TreeFacts DEF TypeOK
<1> DEFINE rest == queue \ {b}
<1>1. queue \cap Main = {} /\ Genesis \notin queue /\ queue \subseteq Block
  BY MainFacts DEF IsBranch
<1>2. \A c \in queue \ {b} : Prev[c] \in queue
  BY <1>1 DEF IsBranch
<1>3. \A c, d \in queue : Height[c] = Height[d] => c = d
  BY DEF IsBranch
<1>4. PICK top \in Heights : {Height[c] : c \in queue} = Height[b] .. top
  BY <1>1 DEF IsBranch
<1>5. top \in Nat
  BY <1>4, TreeAssumption DEF Heights
<1>6. \A c \in queue : Height[c] \in Height[b] .. top
  BY <1>4
<1>7. PICK first \in rest : TRUE
  OBVIOUS
<1>8. Height[b] + 1 \in Height[b] .. top
  <2>1. Height[first] # Height[b]
    BY <1>3, <1>7
  <2>2. Height[first] \in Height[b] .. top
    BY <1>6, <1>7
  <2>3. Height[b] \in Nat /\ Height[first] \in Nat
    BY <1>1, <1>7
  <2> HIDE DEF rest
  <2> QED
    BY <2>1, <2>2, <2>3, <1>5
<1>9. PICK n \in queue : Height[n] = Height[b] + 1
  <2>1. Height[b] + 1 \in {Height[c] : c \in queue}
    BY <1>4, <1>8, Zenon
  <2> QED
    BY <2>1
<1>10. n \in rest
  BY <1>1, <1>9
<1>11. ASSUME NEW c \in rest, Prev[c] = b PROVE c = n
  BY <1>1, <1>3, <1>9, <1>11
<1>12. Prev[n] = b
  <2>1. Prev[n] \in queue
    BY <1>2, <1>10
  <2>2. Height[n] = Height[Prev[n]] + 1 /\ Height[Prev[n]] \in Nat /\ Height[b] \in Nat
    BY <1>1, <1>9, <2>1
  <2> QED
    BY <1>3, <1>9, <2>1, <2>2
<1>13. \A c \in rest \ {n} : Prev[c] \in rest
  BY <1>2, <1>11
<1>14. {Height[c] : c \in rest} = Height[n] .. top
  <2>1. ASSUME NEW h \in Height[n] .. top PROVE \E c \in rest : Height[c] = h
    <3>1. h \in Height[b] .. top /\ h # Height[b]
      BY <1>1, <1>5, <1>9
    <3>2. PICK c \in queue : Height[c] = h
      BY <1>4, <3>1
    <3> QED
      BY <3>1, <3>2
  <2>2. ASSUME NEW c \in rest PROVE Height[c] \in Height[n] .. top
    <3>1. Height[c] \in Height[b] .. top /\ Height[c] # Height[b]
      BY <1>3, <1>6, <2>2
    <3> QED
      BY <3>1, <1>1, <1>5, <1>9
  <2> QED
    BY <2>1, <2>2
<1> QED
  BY <1>1, <1>3, <1>4, <1>10, <1>12, <1>13, <1>14
------------------------------------------------------------------------------
(* Every step preserves the invariant.                                     *)

LEMMA InitInv == Init => IInv
<1> SUFFICES ASSUME Init PROVE IInv
  OBVIOUS
<1> USE TreeAssumption, CoinAssumption, CrashAssumption DEF Init
<1>1. TypeOK
  <2>1. NoCoins \in CoinMaps
    BY DEF CoinMaps, NoCoins, Absent
  <2>2. hash \in [Heights -> Block \cup {NoBlock}]
    OBVIOUS
  <2>3. nextHash \in [Block -> Block \cup {NoBlock}] /\ undo \in [Block -> CoinMaps]
    BY <2>1
  <2>4. crashes \in 0 .. MaxCrashes
    OBVIOUS
  <2> QED
    BY <2>1, <2>2, <2>3, <2>4 DEF TypeOK, PCs
<1>2. HeadersClosed /\ UndoFits /\ CoinsAreReplay /\ CallInv
  BY DEF HeadersClosed, UndoFits, CoinsAreReplay, CallInv
<1>3. MainChainLinked
  BY DEF MainChainLinked, Heights
<1>4. Main = {Genesis}
  BY DEF Main, IsMain, Heights
<1>5. NextFollowsMain /\ MainChainVerified
  BY <1>4 DEF NextFollowsMain, MainChainVerified
<1> QED
  BY <1>1, <1>2, <1>3, <1>5 DEF IInv

\* A step that leaves the main chain alone, and marks none of its blocks
\* invalid, keeps what the invariant says about the main chain.
LEMMA MainFrame ==
    ASSUME IInv,
           UNCHANGED <<hash, nextHash, dbTip, coins, tip>>,
           headers \subseteq headers', headers' \subseteq Block,
           downloaded \subseteq downloaded',
           invalid' \cap Main \subseteq invalid
    PROVE  /\ Main' = Main
           /\ MainChainLinked' /\ NextFollowsMain' /\ CoinsAreReplay'
           /\ MainChainVerified'
<1> USE DEF IInv
<1>1. Main' = Main
  BY MainFacts DEF Main, IsMain, TypeOK
<1>2. MainChainLinked'
  BY DEF MainChainLinked
<1>3. NextFollowsMain'
  BY <1>1 DEF NextFollowsMain
<1>4. CoinsAreReplay'
  BY DEF CoinsAreReplay
<1>5. MainChainVerified'
  BY <1>1 DEF MainChainVerified
<1> QED
  BY <1>1, <1>2, <1>3, <1>4, <1>5

LEMMA AddHeaderInv == ASSUME IInv, NEW b \in Block, AddHeader(b) PROVE IInv'
<1> USE DEF IInv, AddHeader, NewHeader, SaveEntry, mainVars, storeVars, callVars
<1>1. TypeOK'
  BY TreeAssumption DEF TypeOK, TipsWith, MaxWork
<1>2. HeadersClosed'
  BY DEF HeadersClosed
<1>3. MainChainLinked' /\ NextFollowsMain' /\ CoinsAreReplay' /\ MainChainVerified'
  BY MainFrame DEF TypeOK
<1>4. UndoFits' /\ CallInv'
  BY DEF UndoFits, CallInv
<1> QED
  BY <1>1, <1>2, <1>3, <1>4

LEMMA AddHeaderOnInvalidInv ==
    ASSUME IInv, NEW b \in Block, AddHeaderOnInvalid(b) PROVE IInv'
<1> USE DEF IInv, AddHeaderOnInvalid, headerVars, mainVars, storeVars, callVars
<1>1. TypeOK' /\ HeadersClosed'
  BY DEF TypeOK, HeadersClosed
<1>2. MainChainLinked' /\ NextFollowsMain' /\ CoinsAreReplay' /\ MainChainVerified'
  BY MainFrame DEF TypeOK, Main
<1>3. UndoFits' /\ CallInv'
  BY DEF UndoFits, CallInv
<1> QED
  BY <1>1, <1>2, <1>3

LEMMA AddInv == ASSUME IInv, NEW b \in Block, Add(b) PROVE IInv'
<1> USE DEF IInv, Add, headerVars, mainVars, storeVars
<1>1. TypeOK' /\ HeadersClosed' /\ headers \subseteq headers' /\ b \in headers'
  BY TreeAssumption
     DEF TypeOK, HeadersClosed, NewHeader, SaveEntry, TipsWith, MaxWork, PCs
<1>2. MainChainLinked' /\ NextFollowsMain' /\ CoinsAreReplay' /\ MainChainVerified'
  BY <1>1, MainFrame DEF TypeOK
<1>3. UndoFits' /\ CallInv'
  BY <1>1 DEF UndoFits, CallInv
<1> QED
  BY <1>1, <1>2, <1>3

LEMMA AddBlockInv == ASSUME IInv, AddBlock PROVE IInv'
<1> USE DEF IInv, AddBlock, EndCall, headerVars, mainVars, storeVars
<1>1. entry \in headers \ downloaded
  BY DEF CallInv
<1>2. TypeOK' /\ HeadersClosed'
  BY <1>1 DEF TypeOK, HeadersClosed, PCs
<1>3. entry \notin Main
  BY <1>1 DEF HeadersClosed, MainChainVerified
<1>4. MainChainLinked' /\ NextFollowsMain' /\ CoinsAreReplay' /\ MainChainVerified'
  BY <1>2, <1>3, MainFrame DEF TypeOK
<1>5. UndoFits' /\ CallInv'
  BY <1>1 DEF UndoFits, CallInv
<1> QED
  BY <1>2, <1>4, <1>5

\* has_block and attach move on without touching anything durable.
LEMMA AttachInv == ASSUME IInv, NEW b \in Block, Attach(b) PROVE IInv'
<1> USE DEF IInv, Attach, headerVars, mainVars, storeVars
<1>1. TypeOK' /\ HeadersClosed'
  BY DEF TypeOK, HeadersClosed, PCs
<1>2. MainChainLinked' /\ NextFollowsMain' /\ CoinsAreReplay' /\ MainChainVerified'
  BY MainFrame DEF TypeOK, Main
<1>3. UndoFits' /\ CallInv'
  BY DEF UndoFits, CallInv
<1> QED
  BY <1>1, <1>2, <1>3

LEMMA ConnectBestInv == ASSUME IInv, ConnectBest PROVE IInv'
<1> USE DEF IInv, ConnectBest, EndCall, headerVars, mainVars, storeVars
<1>1. pc' = "idle" \/ (pc' = "reorg" /\ queue' \in BestBranches(entry) /\ MoreWork(queue'))
  OBVIOUS
<1>2. ASSUME NEW Q \in BestBranches(entry) PROVE Q \subseteq Ready /\ IsBranch(Q)
  BY <1>2 DEF BestBranches, BranchesThrough
<1>3. TypeOK' /\ HeadersClosed'
  <2>1. Ready \subseteq Block
    BY DEF Ready, TypeOK
  <2>2. queue' \subseteq Block /\ entry' \in Block \cup {NoBlock} /\ pc' \in PCs
    BY <1>2, <2>1 DEF TypeOK, PCs
  <2> QED
    BY <2>2 DEF TypeOK, HeadersClosed
<1>4. Main' = Main /\ MainChainLinked' /\ NextFollowsMain' /\ CoinsAreReplay' /\ MainChainVerified'
  BY MainFrame DEF TypeOK, Main
<1>5. UndoFits'
  BY DEF UndoFits
<1>6. CallInv'
  <2>1. CASE pc' = "idle"
    BY <2>1 DEF CallInv
  <2>2. CASE pc' = "reorg"
    <3>1. queue' \subseteq Ready /\ IsBranch(queue') /\ MoreWork(queue')
      BY <1>1, <1>2, <2>2
    <3>2. (queue \subseteq Ready /\ IsBranch(queue) /\ MoreWork(queue))'
      BY <3>1, <1>4 DEF Ready, IsBranch, MoreWork
    <3> QED
      BY <2>2, <3>2 DEF CallInv
  <2> QED
    BY <1>1, <2>1, <2>2
<1> QED
  BY <1>3, <1>4, <1>5, <1>6

\* The next entry of the queue, when there is no child of the tip in it, hangs
\* off a block of the main chain below the tip.
LEMMA DisconnectInv == ASSUME IInv, Disconnect PROVE IInv'
<1> USE TreeAssumption, TreeFacts, MainFacts
    DEF IInv, Disconnect, headerVars, storeVars, callVars
<1>1. tip # Genesis /\ tip \in Block \ {Genesis} /\ tip \in Main
  BY DEF HeadersClosed, TypeOK
<1>2. Main' = Main \ {tip} /\ Prev[tip] \in Main' /\ Height[tip] = Height[Prev[tip]] + 1
  BY <1>1, MainAfterDisconnect
<1>3. coins' = Utxo[tip']
  <2>1. Acceptable(tip, Utxo[Prev[tip]])
    BY <1>1 DEF MainChainVerified
  <2>2. undo[tip] = UndoOf(tip, Utxo[Prev[tip]])
    BY DEF UndoFits
  <2> QED
    BY <1>1, <2>1, <2>2, UndoInverts DEF CoinsAreReplay
<1>4. TypeOK'
  <2>1. coins' \in CoinMaps
    BY <1>3, <1>1, CoinAssumption
  <2>2. hash' \in [Heights -> Block \cup {NoBlock}] /\ nextHash' \in [Block -> Block \cup {NoBlock}]
    BY DEF HashWithout, NextWithout, TypeOK
  <2> QED
    BY <1>1, <2>1, <2>2 DEF TypeOK
<1>5. HeadersClosed' /\ UndoFits' /\ CoinsAreReplay'
  BY <1>3 DEF HeadersClosed, UndoFits, CoinsAreReplay
<1>6. MainChainLinked'
  <2>1. \A h \in Heights : hash'[h] = IF h = Height[tip] THEN NoBlock ELSE hash[h]
    BY <1>1 DEF HashWithout, TypeOK
  <2>2. Height[tip'] \in Nat /\ Height[tip] = Height[tip'] + 1 /\ Height[tip'] \in Heights
    BY <1>1, <1>2
  <2>3. hash'[Height[tip']] = tip'
    BY <2>1, <2>2, <1>2 DEF Main, IsMain
  <2>4. \A h \in Heights : h > Height[tip'] => hash'[h] = NoBlock
    BY <2>1, <2>2 DEF MainChainLinked, Heights
  <2>5. ASSUME NEW h \in 1 .. Height[tip']
        PROVE  /\ hash'[h] \in headers \ {Genesis}
               /\ Height[hash'[h]] = h
               /\ Prev[hash'[h]] = hash'[h - 1]
    <3>1. h \in 1 .. Height[tip] /\ h \in Heights /\ h - 1 \in Heights
      BY <2>2, <1>1 DEF Heights
    <3>2. hash'[h] = hash[h] /\ hash'[h - 1] = hash[h - 1]
      BY <2>1, <2>2, <3>1
    <3> QED
      BY <3>1, <3>2 DEF MainChainLinked
  <2>6. hash'[0] = Genesis
    BY <2>1, <2>2 DEF MainChainLinked, Heights
  <2> QED
    BY <2>3, <2>4, <2>5, <2>6 DEF MainChainLinked
<1>7. NextFollowsMain'
  <2>1. nextHash' = [nextHash EXCEPT ![Prev[tip]] = NoBlock]
    BY DEF NextWithout
  <2>2. \A b \in Block : b \in Main \ {tip} => Height[b] + 1 \in Heights /\ (b # Prev[tip] => Height[b] + 1 # Height[tip])
    <3> TAKE b \in Block
    <3> HAVE b \in Main \ {tip}
    <3>1. Height[b] <= Height[tip] /\ Height[b] # Height[tip]
      OBVIOUS
    <3>2. b # Prev[tip] => Height[b] # Height[Prev[tip]]
      BY <1>1, <1>2 DEF Main, IsMain
    <3> QED
      BY <1>1, <1>2, <3>1, <3>2 DEF Heights
  <2>3. \A b \in Block : b \in Main' /\ b # tip' => hash'[Height[b] + 1] = hash[Height[b] + 1]
    BY <1>1, <1>2, <2>2 DEF HashWithout, TypeOK
  <2> QED
    BY <1>1, <1>2, <2>1, <2>3 DEF NextFollowsMain, TypeOK
<1>8. MainChainVerified'
  BY <1>2 DEF MainChainVerified
<1>9. CallInv'
  <2>1. queue \subseteq Ready /\ IsBranch(queue) /\ MoreWork(queue)
    BY DEF CallInv
  <2>2. Ready' = Ready
    BY DEF Ready
  <2>3. IsBranch(queue)'
    BY <1>2, <2>1 DEF IsBranch
  <2>4. MoreWork(queue)'
    <3>1. ChainWork[tip'] < ChainWork[tip]
      BY <1>1
    <3>2. \A b \in queue : ChainWork[b] \in Nat
      BY <2>1 DEF Ready, TypeOK
    <3> QED
      BY <1>1, <2>1, <3>1, <3>2 DEF MoreWork
  <2> QED
    BY <2>1, <2>2, <2>3, <2>4 DEF CallInv
<1> QED
  BY <1>3, <1>4, <1>5, <1>6, <1>7, <1>8, <1>9

LEMMA DisconnectPanicsInv == ASSUME IInv, DisconnectPanics PROVE IInv'
<1> USE DEF IInv, DisconnectPanics, headerVars, mainVars, storeVars
<1>1. TypeOK' /\ HeadersClosed'
  BY DEF TypeOK, HeadersClosed, PCs
<1>2. MainChainLinked' /\ NextFollowsMain' /\ CoinsAreReplay' /\ MainChainVerified'
  BY MainFrame DEF TypeOK, Main
<1>3. UndoFits' /\ CallInv'
  BY DEF UndoFits, CallInv
<1> QED
  BY <1>1, <1>2, <1>3

\* The entry that is marked invalid is waiting in the queue, off the main chain.
LEMMA ConnectFailsInv == ASSUME IInv, NEW b \in Block, ConnectFails(b) PROVE IInv'
<1> USE DEF IInv, ConnectFails, EndCall, headerVars, mainVars, storeVars
<1>1. b \notin Main
  BY DEF CallInv, IsBranch
<1>2. TypeOK' /\ HeadersClosed'
  BY DEF TypeOK, HeadersClosed, PCs
<1>3. MainChainLinked' /\ NextFollowsMain' /\ CoinsAreReplay' /\ MainChainVerified'
  BY <1>1, MainFrame DEF TypeOK, Main
<1>4. UndoFits' /\ CallInv'
  BY DEF UndoFits, CallInv
<1> QED
  BY <1>2, <1>3, <1>4

LEMMA WriteUndoInv == ASSUME IInv, NEW b \in Block, WriteUndo(b) PROVE IInv'
<1> USE DEF IInv, WriteUndo, headerVars, mainVars, callVars
<1>1. b # Genesis
  BY MainFacts DEF CallInv, IsBranch
<1>2. coins = Utxo[Prev[b]] /\ coins \in CoinMaps
  BY DEF CoinsAreReplay, TypeOK
<1>3. TypeOK' /\ HeadersClosed'
  <2>1. UndoOf(b, coins) \in CoinMaps
    BY <1>2, CoinTypes
  <2> QED
    BY <1>1, <2>1 DEF TypeOK, HeadersClosed
<1>4. UndoFits'
  BY <1>2 DEF UndoFits, TypeOK
<1>5. Main' = Main /\ MainChainLinked' /\ NextFollowsMain' /\ CoinsAreReplay' /\ MainChainVerified'
  BY MainFrame DEF TypeOK, Main
<1>6. CallInv'
  BY <1>5 DEF CallInv, Ready, IsBranch, MoreWork
<1> QED
  BY <1>3, <1>4, <1>5, <1>6

LEMMA ConnectInv == ASSUME IInv, NEW b \in Block, Connect(b) PROVE IInv'
<1> USE TreeAssumption, TreeFacts, MainFacts
    DEF IInv, Connect, headerVars, storeVars
<1>1. /\ queue \subseteq Ready /\ IsBranch(queue) /\ MoreWork(queue)
      /\ b \in queue /\ b \in headers \ Main /\ b # Genesis /\ Prev[b] = tip
  BY DEF CallInv, IsBranch, Ready, HeadersClosed
<1>2. Main' = Main \cup {b} /\ Height[b] = Height[tip] + 1 /\ Height[b] \in Heights
  BY <1>1, MainAfterConnect
<1>3. coins' = Utxo[tip'] /\ coins' \in CoinMaps
  BY <1>1, CoinAssumption DEF CoinsAreReplay
<1>4. TypeOK'
  <2>1. pc' \in PCs /\ entry' \in Block \cup {NoBlock} /\ queue' \subseteq Block
    BY DEF TypeOK, EndCall, QueueWithout, PCs
  <2>2. /\ hash' \in [Heights -> Block \cup {NoBlock}]
        /\ nextHash' \in [Block -> Block \cup {NoBlock}]
    BY DEF TypeOK
  <2> QED
    BY <1>3, <2>1, <2>2 DEF TypeOK, DeployedBy
<1>5. HeadersClosed' /\ UndoFits' /\ CoinsAreReplay'
  BY <1>3 DEF HeadersClosed, UndoFits, CoinsAreReplay
<1>6. MainChainLinked'
  <2>1. \A h \in Heights : hash'[h] = IF h = Height[b] THEN b ELSE hash[h]
    BY <1>2 DEF TypeOK
  <2>2. Height[tip] \in Nat /\ Height[tip'] = Height[tip] + 1
    BY <1>2 DEF TypeOK
  <2>3. hash'[Height[tip']] = tip' /\ hash'[0] = Genesis
    BY <2>1, <2>2, <1>2 DEF MainChainLinked, Heights
  <2>4. \A h \in Heights : h > Height[tip'] => hash'[h] = NoBlock
    BY <2>1, <2>2, <1>2 DEF MainChainLinked, Heights
  <2>5. ASSUME NEW h \in 1 .. Height[tip']
        PROVE  /\ hash'[h] \in headers \ {Genesis}
               /\ Height[hash'[h]] = h
               /\ Prev[hash'[h]] = hash'[h - 1]
    <3>1. h \in Heights /\ h - 1 \in Heights
      BY <1>2, <2>2 DEF Heights
    <3>2. CASE h = Height[b]
      BY <1>1, <1>2, <2>1, <2>2, <3>1, <3>2 DEF MainChainLinked
    <3>3. CASE h # Height[b]
      <4>1. h \in 1 .. Height[tip] /\ hash'[h] = hash[h] /\ hash'[h - 1] = hash[h - 1]
        BY <1>2, <2>1, <2>2, <3>1, <3>3
      <4> QED
        BY <4>1 DEF MainChainLinked
    <3> QED
      BY <3>2, <3>3
  <2> QED
    BY <2>3, <2>4, <2>5 DEF MainChainLinked
<1>7. NextFollowsMain'
  <2>1. \A c \in Block : c \in Main => Height[c] <= Height[tip] /\ (c # tip => Height[c] + 1 # Height[b])
    BY <1>2 DEF TypeOK
  <2>2. ASSUME NEW c \in Block
        PROVE  nextHash'[c] = IF c \in Main' /\ c # tip' THEN hash'[Height[c] + 1] ELSE NoBlock
    <3>1. CASE c = tip
      BY <1>1, <1>2, <3>1 DEF TypeOK
    <3>2. CASE c = b
      BY <1>1, <1>2, <3>2 DEF TypeOK, NextFollowsMain
    <3>3. CASE c # tip /\ c # b
      <4>1. nextHash'[c] = nextHash[c]
        BY <3>3, <1>1 DEF TypeOK
      <4>2. c \in Main => hash'[Height[c] + 1] = hash[Height[c] + 1]
        <5> HAVE c \in Main
        <5>1. Height[c] < Height[tip] /\ Height[c] \in Nat
          BY <3>3 DEF TypeOK
        <5>2. Height[c] + 1 \in Heights /\ Height[c] + 1 # Height[b]
          BY <5>1, <1>2 DEF Heights
        <5> QED
          BY <5>2 DEF TypeOK
      <4> QED
        BY <1>2, <3>3, <4>1, <4>2 DEF NextFollowsMain
    <3> QED
      BY <3>1, <3>2, <3>3
  <2> QED
    BY <2>2 DEF NextFollowsMain
<1>8. MainChainVerified'
  BY <1>1, <1>2 DEF MainChainVerified, VerifyContext, CoinsAreReplay, Ready
<1>9. CallInv'
  <2>1. CASE queue \ {b} = {}
    BY <2>1 DEF QueueWithout, EndCall, CallInv
  <2>2. CASE queue \ {b} # {}
    <3>1. queue' = queue \ {b} /\ pc' = "reorg" /\ queue' \subseteq Ready'
      BY <1>1, <2>2 DEF QueueWithout, Ready
    <3>2. queue \subseteq headers
      BY <1>1 DEF Ready, HeadersClosed
    <3>3. Prev[b] \in Main
      BY <1>1
    <3>4. PICK n \in queue' :
             /\ Prev[n] = b
             /\ \A c \in queue' \ {n} : Prev[c] \in queue'
             /\ queue' \cap Main' = {}
             /\ \A c, e \in queue' : Height[c] = Height[e] => c = e
             /\ \E top \in Heights : {Height[c] : c \in queue'} = Height[n] .. top
      <4> HIDE DEF IInv, Connect, headerVars, storeVars
      <4>1. TypeOK /\ HeadersClosed /\ MainChainLinked
        BY DEF IInv
      <4> QED
        BY <1>1, <1>2, <2>2, <3>1, <3>2, <3>3, <4>1, BranchStep
    <3>5. IsBranch(queue)'
      BY <1>2, <3>4 DEF IsBranch
    <3>6. MoreWork(queue)'
      <4>1. n \in Block \ {Genesis} /\ tip' = b
        BY <1>1, <3>1, <3>4 DEF TypeOK, IsBranch
      <4>2. ChainWork[b] < ChainWork[n] /\ ChainWork[b] \in Nat /\ ChainWork[n] \in Nat
        BY <3>4, <4>1
      <4> QED
        BY <3>4, <4>1, <4>2 DEF MoreWork
    <3> QED
      BY <3>1, <3>5, <3>6 DEF CallInv
  <2> QED
    BY <2>1, <2>2
<1> QED
  BY <1>4, <1>5, <1>6, <1>7, <1>8, <1>9

LEMMA RestartInv == ASSUME IInv, Restart PROVE IInv'
<1> USE DEF IInv, Restart, TipOnRestart, EndCall, storeVars
<1>1. tip' = tip
  BY DEF MainChainLinked
<1>2. crashes' \in 0 .. MaxCrashes
  BY CrashAssumption DEF TypeOK
<1>3. mostWork' \in Block
  BY DEF MaxWork, TypeOK
<1>4. TypeOK' /\ HeadersClosed'
  BY <1>1, <1>2, <1>3 DEF TypeOK, HeadersClosed, PCs
<1>5. MainChainLinked' /\ NextFollowsMain' /\ CoinsAreReplay' /\ MainChainVerified'
  BY <1>1, MainFrame DEF TypeOK, Main
<1>6. UndoFits' /\ CallInv'
  BY DEF UndoFits, CallInv
<1> QED
  BY <1>4, <1>5, <1>6

LEMMA NextInv == IInv /\ [Next]_vars => IInv'
<1> SUFFICES ASSUME IInv, [Next]_vars PROVE IInv'
  OBVIOUS
<1>1. ASSUME NEW b \in Block, AddHeader(b) PROVE IInv'
  BY <1>1, AddHeaderInv
<1>2. ASSUME NEW b \in Block, AddHeaderOnInvalid(b) PROVE IInv'
  BY <1>2, AddHeaderOnInvalidInv
<1>3. ASSUME NEW b \in Block, Add(b) PROVE IInv'
  BY <1>3, AddInv
<1>4. ASSUME NEW b \in Block, Attach(b) PROVE IInv'
  BY <1>4, AttachInv
<1>5. CASE AddBlock
  BY <1>5, AddBlockInv
<1>6. CASE ConnectBest
  BY <1>6, ConnectBestInv
<1>7. CASE Disconnect
  BY <1>7, DisconnectInv
<1>8. CASE DisconnectPanics
  BY <1>8, DisconnectPanicsInv
<1>9. ASSUME NEW b \in Block, ConnectFails(b) PROVE IInv'
  BY <1>9, ConnectFailsInv
<1>10. ASSUME NEW b \in Block, WriteUndo(b) PROVE IInv'
  BY <1>10, WriteUndoInv
<1>11. ASSUME NEW b \in Block, Connect(b) PROVE IInv'
  BY <1>11, ConnectInv
<1>12. CASE Restart
  BY <1>12, RestartInv
<1>13. CASE UNCHANGED vars
  <2> USE <1>13 DEF vars, headerVars, mainVars, storeVars, callVars
  <2>1. TypeOK' /\ HeadersClosed' /\ UndoFits' /\ MainChainLinked' /\ CoinsAreReplay'
    BY DEF IInv, TypeOK, HeadersClosed, UndoFits, MainChainLinked, CoinsAreReplay
  <2>2. Main' = Main /\ Ready' = Ready
    BY DEF Main, IsMain, Ready
  <2>3. NextFollowsMain' /\ MainChainVerified'
    BY <2>2 DEF IInv, NextFollowsMain, MainChainVerified
  <2>4. CallInv'
    BY <2>2 DEF IInv, CallInv, IsBranch, MoreWork
  <2> QED
    BY <2>1, <2>3, <2>4 DEF IInv
<1> QED
  BY <1>1, <1>2, <1>3, <1>4, <1>5, <1>6, <1>7, <1>8, <1>9, <1>10, <1>11, <1>12, <1>13
     DEF Next, Calls, Steps

------------------------------------------------------------------------------
(* The index of header tips has an invariant of its own.                   *)

\* Every header is outweighed by a tip, so the heaviest tip is the heaviest header.
TipsInv ==
    /\ HeaderTipsAreLeaves
    /\ \A h \in headers : \E t \in tips : ChainWork[h] <= ChainWork[t]

LEMMA SaveEntryTips ==
    ASSUME TypeOK, HeadersClosed, TipsInv,
           NEW b \in Block, NewHeader(b), SaveEntry(b)
    PROVE  TipsInv'
<1> USE TreeAssumption, TreeFacts DEF TypeOK, SaveEntry, NewHeader, TipsWith
<1>1. b # Genesis /\ Prev[b] # b /\ b \notin headers /\ Prev[b] \in headers
  BY DEF HeadersClosed
<1>2. \A c \in headers \ {Genesis} : Prev[c] # b
  BY <1>1 DEF HeadersClosed
<1>3. tips' = {h \in headers' : \A c \in headers' \ {Genesis} : Prev[c] # h}
  BY <1>1, <1>2 DEF TipsInv, HeaderTipsAreLeaves
<1>4. mostWork' \in MaxWork(headers')
  BY <1>1 DEF TipsInv, HeaderTipsAreLeaves, MaxWork
<1>5. ASSUME NEW h \in headers' PROVE \E t \in tips' : ChainWork[h] <= ChainWork[t]
  <2>1. CASE h = b
    BY <2>1
  <2>2. CASE h # b
    <3>1. PICK t \in tips : ChainWork[h] <= ChainWork[t]
      BY <1>5, <2>2 DEF TipsInv
    <3>2. CASE t = Prev[b]
      BY <1>1, <1>5, <3>1, <3>2
    <3>3. CASE t # Prev[b]
      BY <3>1, <3>3
    <3> QED
      BY <3>2, <3>3
  <2> QED
    BY <2>1, <2>2
<1> QED
  BY <1>3, <1>4, <1>5 DEF TipsInv, HeaderTipsAreLeaves

LEMMA TipsStep == IInv /\ TipsInv /\ [Next]_vars => TipsInv'
<1> SUFFICES ASSUME IInv, TipsInv, [Next]_vars PROVE TipsInv'
  OBVIOUS
<1>1. CASE \E b \in Block : AddHeader(b) \/ (Add(b) /\ ~UNCHANGED headerVars)
  BY <1>1, SaveEntryTips DEF IInv, AddHeader, Add
<1>2. CASE UNCHANGED headerVars
  BY <1>2 DEF headerVars, TipsInv, HeaderTipsAreLeaves, MaxWork
<1>3. CASE Restart
  <2>1. headers' = headers /\ tips' = tips /\ mostWork' \in MaxWork(tips)
    BY <1>3 DEF Restart
  <2>2. mostWork' \in headers
    BY <2>1 DEF MaxWork, TipsInv, HeaderTipsAreLeaves
  <2>3. ASSUME NEW h \in headers PROVE ChainWork[h] <= ChainWork[mostWork']
    <3>1. PICK t \in tips : ChainWork[h] <= ChainWork[t]
      BY DEF TipsInv
    <3>2. ChainWork[t] <= ChainWork[mostWork']
      BY <2>1 DEF MaxWork
    <3>3. ChainWork[h] \in Nat /\ ChainWork[t] \in Nat /\ ChainWork[mostWork'] \in Nat
      BY <2>2, TreeAssumption DEF IInv, TypeOK
    <3> QED
      BY <3>1, <3>2, <3>3
  <2> QED
    BY <2>1, <2>2, <2>3 DEF TipsInv, HeaderTipsAreLeaves, MaxWork
<1> QED
  BY <1>1, <1>2, <1>3
     DEF Next, Calls, Steps, AddHeaderOnInvalid, Add, Attach, AddBlock, ConnectBest,
         Disconnect, DisconnectPanics, ConnectFails, WriteUndo, Connect, vars, AddHeader

------------------------------------------------------------------------------
(* The tip against the branches on disk.                                   *)

Before == {e \in Nat \X Nat : e[1] < e[2]}

\* A set of numbers that is not empty has a least one.
LEMMA Least ==
    ASSUME NEW S \in SUBSET Nat, S # {}
    PROVE  \E m \in S : \A n \in S : m <= n
<1>1. OpToRel(<, Nat) = Before
  BY DEF OpToRel, Before
<1>2. PICK m \in S : \A n \in S : ~ (<<n, m>> \in Before)
  BY <1>1, NatLessThanWellFounded, WFMin
<1>3. \A n \in S : ~ (n < m)
  <2> TAKE n \in S
  <2>1. <<n, m>> \in Nat \X Nat /\ <<n, m>>[1] = n /\ <<n, m>>[2] = m
    OBVIOUS
  <2> QED
    BY <1>2, <2>1 DEF Before
<1> QED
  BY <1>2, <1>3

\* The blocks that blocks of a set lead to from the main chain.
From(R) == {b \in R : \E S \in SUBSET R : b \in S /\ \A c \in S : Prev[c] \in S \cup Main}

\* Only the block of the call may top a branch that outweighs the main chain, and a
\* reorganisation leads to the heaviest branch there is.
BestInv ==
    /\ \A b \in downloaded \ {Genesis} : VerifyBody(b)
    /\ \E n \in Nat : \A b \in downloaded : ChainWork[b] <= n
    /\ pc \in {"idle", "add_block", "connect_best"} => deployed = tip
    /\ crashes = 0 =>
          /\ pc \in {"idle", "add_block"} => \A b \in From(Ready) : ChainWork[b] <= ChainWork[tip]
          /\ pc = "connect_best" =>
                \A b \in From(Ready \ {entry}) : ChainWork[b] <= ChainWork[tip]
          /\ pc = "reorg" =>
                \A b \in From(Ready) : \E c \in queue : ChainWork[b] <= ChainWork[c]

LEMMA WorkType == \A b \in Block : ChainWork[b] \in Nat
BY TreeAssumption

\* More blocks lead to more.
LEMMA FromMonotone == ASSUME NEW R, NEW T, R \subseteq T PROVE From(R) \subseteq From(T)
BY DEF From

\* No block of the main chain has more work than its tip.
LEMMA MainWork == ASSUME IInv PROVE \A b \in Main : ChainWork[b] <= ChainWork[tip]
<1> USE TreeFacts, WorkType
<1> DEFINE D == {d \in Nat : \E b \in Main : d = Height[tip] - Height[b]
                                             /\ ~ (ChainWork[b] <= ChainWork[tip])}
<1>1. Main \subseteq Block /\ tip \in Block /\ \A b \in Main : Height[b] <= Height[tip]
  BY MainFacts DEF IInv, TypeOK, Main
<1>2. ASSUME D # {} PROVE FALSE
  <2>1. PICK d \in D : \A n \in D : d <= n
    BY <1>2, Least
  <2>2. PICK b \in Main : d = Height[tip] - Height[b] /\ ~ (ChainWork[b] <= ChainWork[tip])
    BY <2>1
  <2>3. Height[b] # Height[tip]
    BY <1>1, <2>2, MainFacts DEF IInv
  <2>4. Height[b] + 1 \in 1 .. Height[tip] /\ hash[Height[b]] = b
    BY <1>1, <2>2, <2>3, MainFacts DEF IInv
  <2> DEFINE c == hash[Height[b] + 1]
  <2>5. c \in headers \ {Genesis} /\ Height[c] = Height[b] + 1 /\ Prev[c] = b
    BY <1>1, <2>2, <2>4 DEF IInv, MainChainLinked
  <2>6. c \in Main /\ c \in Block \ {Genesis}
    BY <2>5 DEF Main, IsMain, IInv, TypeOK
  <2> HIDE DEF c
  <2>7. ~ (ChainWork[c] <= ChainWork[tip])
    BY <1>1, <2>2, <2>5, <2>6
  <2>8. Height[tip] - Height[c] \in D
    BY <1>1, <2>6, <2>7
  <2> QED
    BY <1>1, <2>1, <2>2, <2>5, <2>6, <2>8
<1>3. ASSUME NEW b \in Main, ~ (ChainWork[b] <= ChainWork[tip]) PROVE FALSE
  <2>1. Height[tip] - Height[b] \in D
    BY <1>1, <1>3
  <2> QED
    BY <1>2, <2>1
<1> QED
  BY <1>3

\* A block that the blocks of a set lead to tops a branch of them.
LEMMA BranchTo ==
    ASSUME IInv, NEW R \in SUBSET Block, NEW b \in From(R) \ Main
    PROVE  \E Q \in SUBSET (R \ Main) : IsBranch(Q) /\ b \in Q
<1> USE TreeFacts
<1>1. PICK S \in SUBSET R : b \in S /\ \A c \in S : Prev[c] \in S \cup Main
  BY DEF From
<1> DEFINE Tops(Q, y) == Q \subseteq S \ Main /\ IsBranch(Q) /\ y \in Q
                         /\ \A c \in Q : Height[c] <= Height[y]
           D == {n \in Nat : \E y \in S \ Main : Height[y] = n /\ ~ \E Q \in SUBSET S : Tops(Q, y)}
<1>2. ASSUME NEW y \in S \ Main, Prev[y] \in Main PROVE \E Q \in SUBSET S : Tops(Q, y)
  <2>1. y \in Block /\ Height[y] \in Heights /\ Height[y] \in Nat
    BY TreeAssumption
  <2>2. {Height[c] : c \in {y}} = Height[y] .. Height[y]
    BY <2>1
  <2>3. IsBranch({y})
    BY <1>2, <2>1, <2>2 DEF IsBranch
  <2> QED
    BY <2>1, <2>3
<1>3. ASSUME NEW y \in S \ Main, Prev[y] \in S \ Main,
             NEW P \in SUBSET S, Tops(P, Prev[y])
      PROVE  \E Q \in SUBSET S : Tops(Q, y)
  <2> DEFINE Q == P \cup {y}
  <2>1. y \in Block \ {Genesis} /\ Height[y] = Height[Prev[y]] + 1 /\ Height[Prev[y]] \in Nat
    BY MainFacts DEF IInv
  <2>2. PICK root \in P : /\ Prev[root] \in Main
                          /\ \A c \in P \ {root} : Prev[c] \in P
                          /\ \A c, d \in P : Height[c] = Height[d] => c = d
                          /\ \E top \in Heights : {Height[c] : c \in P} = Height[root] .. top
    BY <1>3 DEF IsBranch
  <2>3. PICK top \in Heights : {Height[c] : c \in P} = Height[root] .. top
    BY <2>2
  <2>4. \A c \in P : c \in Block /\ Height[c] \in Nat /\ Height[c] <= Height[Prev[y]]
                     /\ Height[c] \in Height[root] .. top
    BY <1>3, <2>3
  <2>5. top = Height[Prev[y]]
    <3>1. Height[Prev[y]] \in Height[root] .. top /\ top \in Nat /\ Height[root] \in Nat
      BY <1>3, <2>4, TreeAssumption DEF Heights
    <3>2. PICK c \in P : Height[c] = top
      BY <2>3, <3>1
    <3> QED
      BY <2>1, <2>4, <3>1, <3>2
  <2>6. {Height[c] : c \in Q} = Height[root] .. Height[y]
    <3>1. {Height[c] : c \in Q} = (Height[root] .. top) \cup {Height[y]}
      BY <2>3
    <3>2. Height[root] \in Nat /\ Height[root] <= top
      BY <2>4, <2>5
    <3> HIDE DEF Q, Tops
    <3> QED
      BY <2>1, <2>5, <3>1, <3>2
  <2>7. \A c \in P : Height[c] # Height[y]
    BY <2>1, <2>4
  <2>8. \A c, d \in Q : Height[c] = Height[d] => c = d
    BY <2>2, <2>7
  <2>9. \A c \in Q \ {root} : Prev[c] \in Q
    BY <1>3, <2>2
  <2>10. Height[y] \in Heights
    BY <2>1, TreeAssumption
  <2>11. root \in Q /\ Q \cap Main = {} /\ Q \subseteq S \ Main
    BY <1>3, <2>2
  <2>12. IsBranch(Q)
    BY <2>2, <2>6, <2>8, <2>9, <2>10, <2>11 DEF IsBranch
  <2>13. \A c \in Q : Height[c] <= Height[y]
    BY <2>1, <2>4
  <2> QED
    BY <2>11, <2>12, <2>13
<1>4. ASSUME D # {} PROVE FALSE
  <2>1. PICK n \in D : \A k \in D : n <= k
    BY <1>4, Least
  <2>2. PICK y \in S \ Main : Height[y] = n /\ ~ \E Q \in SUBSET S : Tops(Q, y)
    BY <2>1
  <2>3. Prev[y] \in S \ Main
    BY <1>1, <1>2, <2>2
  <2>4. ~ \E Q \in SUBSET S : Tops(Q, Prev[y])
    <3> HIDE DEF Tops
    <3> QED
      BY <1>3, <2>2, <2>3
  <2>5. y \in Block \ {Genesis} /\ Prev[y] \in Block
    BY MainFacts DEF IInv
  <2>6. Height[Prev[y]] \in D
    <3> HIDE DEF Tops
    <3> QED
      BY <2>3, <2>4, <2>5
  <2> QED
    BY <2>1, <2>2, <2>5, <2>6
<1>5. \E Q \in SUBSET S : Tops(Q, b)
  <2> HIDE DEF Tops
  <2>1. b \in S \ Main /\ Height[b] \in Nat
    BY <1>1
  <2> QED
    BY <1>4, <2>1
<1> QED
  BY <1>5

\* Of the branches through a block one leads to the most work.
LEMMA BestBranch ==
    ASSUME IInv, BestInv, NEW b, NEW R \in BranchesThrough(b)
    PROVE  \E Q \in BestBranches(b) : TRUE
<1> DEFINE All == UNION BranchesThrough(b)
<1>1. PICK n \in Nat : \A c \in downloaded : ChainWork[c] <= n
  BY DEF BestInv
<1>2. All \subseteq downloaded /\ All \subseteq Block /\ b \in All
  BY DEF BranchesThrough, Ready, IInv, TypeOK
<1>3. \A c \in All : ChainWork[c] \in Nat /\ ChainWork[c] <= n
  BY <1>1, <1>2, WorkType
<1> DEFINE D == {k \in Nat : \E c \in All : k = n - ChainWork[c]}
<1>4. n - ChainWork[b] \in D
  BY <1>1, <1>2, <1>3
<1>5. PICK k \in D : \A l \in D : k <= l
  BY <1>4, Least
<1>6. PICK c \in All : k = n - ChainWork[c]
  BY <1>5
<1>7. \A e \in All : ChainWork[e] <= ChainWork[c]
  BY <1>3, <1>5, <1>6
<1>8. PICK Q \in BranchesThrough(b) : c \in Q
  BY <1>6
<1>9. Q \in BestBranches(b)
  BY <1>7, <1>8 DEF BestBranches
<1> QED
  BY <1>9

\* When a call is about to reorganise, every heavier block is on a branch through its entry.
LEMMA ThroughEntry ==
    ASSUME IInv, BestInv, pc = "connect_best", crashes = 0,
           NEW b \in From(Ready), ~ (ChainWork[b] <= ChainWork[tip])
    PROVE  \E Q \in BranchesThrough(entry) : b \in Q
<1>1. Ready \in SUBSET Block
  BY DEF Ready, IInv, TypeOK
<1>2. b \notin Main
  BY MainWork
<1>3. PICK Q \in SUBSET (Ready \ Main) : IsBranch(Q) /\ b \in Q
  BY <1>1, <1>2, BranchTo
<1>4. \A c \in Q : Prev[c] \in Q \cup Main
  BY <1>3 DEF IsBranch
<1>5. ASSUME entry \notin Q PROVE FALSE
  <2>1. b \in From(Ready \ {entry})
    BY <1>3, <1>4, <1>5 DEF From
  <2> QED
    BY <2>1 DEF BestInv
<1> QED
  BY <1>3, <1>5 DEF BranchesThrough

LEMMA InitBest == Init => BestInv
<1> SUFFICES ASSUME Init PROVE BestInv
  OBVIOUS
<1>1. From(Ready) \subseteq {Genesis} /\ tip = Genesis
  BY DEF Init, From, Ready
<1>2. ChainWork[Genesis] \in Nat
  BY TreeAssumption
<1>3. \E n \in Nat : \A b \in downloaded : ChainWork[b] <= n
  BY <1>2 DEF Init
<1> QED
  BY <1>1, <1>2, <1>3 DEF BestInv, Init

\* A step that neither downloads a block nor touches the main chain leads to no block.
LEMMA FromFrame ==
    ASSUME IInv, hash' = hash, headers \subseteq headers', headers' \subseteq Block,
           UNCHANGED <<nextHash, dbTip, coins, tip>>, downloaded' = downloaded,
           invalid \subseteq invalid', invalid' \cap Main \subseteq invalid
    PROVE  From(Ready)' \subseteq From(Ready)
<1>1. Main' = Main
  BY MainFrame
<1> QED
  BY <1>1 DEF From, Ready

\* ... nor do the first steps of a call.
LEMMA AddBlockBest == ASSUME IInv, BestInv, AddBlock PROVE BestInv'
<1>1. entry \in Block /\ entry \notin Main /\ Main' = Main /\ crashes' = crashes
      /\ deployed' = deployed /\ tip' = tip /\ pc = "add_block"
  <2>1. entry \in Block \ {Genesis} /\ entry \notin Main
    BY DEF AddBlock, IInv, CallInv, HeadersClosed, MainChainVerified, TypeOK
  <2>2. Main' = Main
    BY <2>1, MainFrame DEF AddBlock, mainVars, headerVars, storeVars, IInv, TypeOK
  <2> QED
    BY <2>1, <2>2 DEF AddBlock, mainVars
<1>2. CASE ~ VerifyBody(entry)
  <2>1. pc' = "idle" /\ Ready' \subseteq Ready /\ downloaded' = downloaded
    BY <1>2 DEF AddBlock, EndCall, Ready, storeVars
  <2>2. From(Ready)' \subseteq From(Ready)
    BY <1>1, <2>1 DEF From
  <2> QED
    BY <1>1, <2>1, <2>2 DEF BestInv, VerifyBody
<1>3. CASE VerifyBody(entry)
  <2>1. /\ pc' = "connect_best" /\ entry' = entry /\ downloaded' = downloaded \cup {entry}
        /\ Ready' \ {entry} \subseteq Ready
    BY <1>3 DEF AddBlock, Ready
  <2>2. From(Ready \ {entry})' \subseteq From(Ready)
    BY <1>1, <2>1 DEF From
  <2>3. \A b \in downloaded' \ {Genesis} : VerifyBody(b)
    BY <1>3, <2>1 DEF BestInv
  <2>4. \E n \in Nat : \A b \in downloaded' : ChainWork[b] <= n
    <3>1. PICK n \in Nat : \A b \in downloaded : ChainWork[b] <= n
      BY DEF BestInv
    <3>2. ChainWork[entry] \in Nat /\ \A b \in downloaded : ChainWork[b] \in Nat
      BY <1>1, WorkType DEF IInv, TypeOK
    <3>3. n + ChainWork[entry] \in Nat
      BY <3>2
    <3>4. \A b \in downloaded' : ChainWork[b] <= n + ChainWork[entry]
      BY <2>1, <3>1, <3>2
    <3> QED
      BY <3>3, <3>4
  <2>5. crashes' = 0 => \A b \in From(Ready \ {entry})' : ChainWork[b] <= ChainWork[tip']
    BY <1>1, <2>2 DEF BestInv
  <2> QED
    BY <1>1, <2>1, <2>3, <2>4, <2>5 DEF BestInv, VerifyBody
<1> QED
  BY <1>2, <1>3

LEMMA ConnectBestBest == ASSUME IInv, BestInv, ConnectBest PROVE BestInv'
<1> USE WorkType
<1>1. pc = "connect_best" /\ crashes' = crashes /\ deployed' = deployed /\ tip' = tip
      /\ downloaded' = downloaded /\ From(Ready)' = From(Ready) /\ BestInv!1' /\ BestInv!2'
  BY DEF ConnectBest, mainVars, headerVars, storeVars, From, Ready, Main, IsMain, BestInv,
         VerifyBody
<1>2. From(Ready) \subseteq Block /\ tip \in Block
  BY DEF From, Ready, IInv, TypeOK
<1>3. ASSUME crashes = 0, NEW b \in From(Ready), ~ (ChainWork[b] <= ChainWork[tip])
      PROVE  \A Q \in BestBranches(entry) : \E c \in Q : ChainWork[b] <= ChainWork[c]
  BY <1>1, <1>3, ThroughEntry DEF BestBranches
<1>4. CASE pc' = "idle" /\ \A Q \in BestBranches(entry) : ~ MoreWork(Q)
  <2>1. ASSUME crashes = 0, NEW b \in From(Ready), ~ (ChainWork[b] <= ChainWork[tip])
        PROVE  FALSE
    <3>1. PICK Q \in BestBranches(entry) : TRUE
      BY <1>1, <2>1, ThroughEntry, BestBranch
    <3>2. PICK c \in Q : ChainWork[b] <= ChainWork[c]
      BY <1>3, <2>1
    <3>3. c \in Block
      BY <3>2 DEF BestBranches, BranchesThrough, Ready, IInv, TypeOK
    <3>4. ChainWork[c] > ChainWork[tip]
      BY <1>2, <2>1, <3>2, <3>3
    <3> QED
      BY <1>4, <3>2, <3>4 DEF MoreWork
  <2> QED
    BY <1>1, <1>4, <2>1 DEF BestInv
<1>5. CASE pc' = "reorg" /\ queue' \in BestBranches(entry) /\ MoreWork(queue')
  <2>1. ASSUME crashes = 0, NEW b \in From(Ready)
        PROVE  \E c \in queue' : ChainWork[b] <= ChainWork[c]
    <3>1. CASE ChainWork[b] <= ChainWork[tip]
      <4>1. PICK c \in queue' : ChainWork[c] > ChainWork[tip]
        BY <1>5 DEF MoreWork
      <4>2. c \in Block
        BY <1>5, <4>1 DEF BestBranches, BranchesThrough, Ready, IInv, TypeOK
      <4> QED
        BY <1>2, <3>1, <4>1, <4>2
    <3> QED
      BY <1>3, <1>5, <2>1, <3>1
  <2> QED
    BY <1>1, <1>5, <2>1 DEF BestInv
<1> QED
  BY <1>4, <1>5 DEF ConnectBest, EndCall

\* What a block taken off the main chain leads to, it led to before.
LEMMA DisconnectBest == ASSUME IInv, BestInv, Disconnect PROVE BestInv'
<1>1. pc' = "reorg" /\ UNCHANGED <<queue, crashes, downloaded, headers>> /\ Ready' = Ready
  BY DEF Disconnect, callVars, storeVars, headerVars, Ready
<1>2. tip # Genesis /\ hash' = HashWithout(tip)
  BY DEF Disconnect, IInv, HeadersClosed
<1>3. Main' \subseteq Main
  BY <1>1, <1>2, MainAfterDisconnect DEF IInv
<1>4. From(Ready)' \subseteq From(Ready)
  BY <1>1, <1>3 DEF From
<1>5. pc = "reorg"
  BY DEF Disconnect
<1> QED
  BY <1>1, <1>4, <1>5 DEF BestInv, VerifyBody

\* Where no block fails connect_best does not stop half-way.
LEMMA NoFailure == ASSUME IInv, BestInv, NoBlockFails, NEW b, ConnectFails(b) PROVE FALSE
<1>1. b \in queue /\ queue \subseteq Ready /\ IsBranch(queue) /\ Prev[b] = tip /\ ~ VerifyContext(b)
  BY DEF ConnectFails, IInv, CallInv
<1>2. b \in downloaded /\ b \in Block /\ b \notin Main /\ b # Genesis
  BY <1>1, MainFacts DEF IInv, TypeOK, IsBranch, Ready
<1>3. Acceptable(b, Utxo[Prev[b]])
  BY <1>2 DEF NoBlockFails, BestInv
<1> QED
  BY <1>1, <1>3 DEF VerifyContext, IInv, CoinsAreReplay

\* The block that is connected leads to nothing new, and the queue ends with its heaviest.
LEMMA ConnectBlockBest == ASSUME IInv, BestInv, NEW b, Connect(b) PROVE BestInv'
<1> USE WorkType
<1>1. /\ pc = "reorg" /\ UNCHANGED <<crashes, downloaded, headers>> /\ Ready' = Ready
      /\ tip' = b /\ deployed' = b /\ Prev[b] = tip
      /\ b \in queue /\ queue \subseteq Ready /\ IsBranch(queue)
      /\ hash' = [hash EXCEPT ![Height[b]] = b]
  BY DEF Connect, storeVars, headerVars, Ready, DeployedBy, IInv, CallInv
<1>2. b \in headers \ Main /\ b \in Block /\ queue \subseteq Block /\ tip \in Main /\ queue \subseteq headers
  BY <1>1, MainFacts DEF IInv, TypeOK, HeadersClosed, IsBranch, Ready
<1>3. Main' = Main \cup {b}
  BY <1>1, <1>2, MainAfterConnect DEF IInv
<1>4. ASSUME NEW x \in From(Ready)' PROVE x \in From(Ready)
  <2>1. PICK S \in SUBSET Ready : x \in S /\ \A c \in S : Prev[c] \in S \cup Main \cup {b}
    BY <1>1, <1>3 DEF From
  <2>2. S \cup {b} \in SUBSET Ready /\ x \in S \cup {b}
    BY <1>1, <2>1
  <2>3. \A c \in S \cup {b} : Prev[c] \in (S \cup {b}) \cup Main
    BY <1>1, <1>2, <2>1
  <2> QED
    BY <2>2, <2>3 DEF From
<1>5. From(Ready) \subseteq Block
  BY DEF From, Ready, IInv, TypeOK
<1>6. BestInv!1' /\ BestInv!2' /\ deployed' = tip'
  BY <1>1 DEF BestInv, VerifyBody
<1>7. CASE queue \ {b} = {}
  <2>1. pc' = "idle"
    BY <1>7 DEF Connect, QueueWithout, EndCall
  <2>2. crashes = 0 => \A x \in From(Ready)' : ChainWork[x] <= ChainWork[b]
    BY <1>1, <1>4, <1>7 DEF BestInv
  <2> QED
    BY <1>1, <1>6, <2>1, <2>2 DEF BestInv
<1>8. CASE queue \ {b} # {}
  <2>1. pc' = "reorg" /\ queue' = queue \ {b}
    BY <1>1, <1>8 DEF Connect, QueueWithout
  <2>2. PICK n \in queue \ {b} : Prev[n] = b
    BY <1>1, <1>2, <1>8, BranchStep DEF IInv
  <2>3. ChainWork[b] < ChainWork[n] /\ n \in Block
    BY <1>1, <1>2, <2>2, TreeFacts, MainFacts DEF IsBranch, IInv
  <2>4. ASSUME crashes = 0, NEW x \in From(Ready)'
        PROVE  \E c \in queue \ {b} : ChainWork[x] <= ChainWork[c]
    <3>1. PICK c \in queue : ChainWork[x] <= ChainWork[c]
      BY <1>1, <1>4, <2>4 DEF BestInv
    <3>2. x \in Block /\ c \in Block
      BY <1>2, <1>4, <1>5
    <3> QED
      BY <1>2, <2>2, <2>3, <3>1, <3>2
  <2> QED
    BY <1>1, <1>6, <2>1, <2>4 DEF BestInv
<1> QED
  BY <1>7, <1>8

LEMMA BestStep == NoBlockFails => (IInv /\ BestInv /\ [Next]_vars => BestInv')
<1> SUFFICES ASSUME NoBlockFails, IInv, BestInv, [Next]_vars PROVE BestInv'
  OBVIOUS
<1>1. CASE \E b \in Block : AddHeader(b) \/ AddHeaderOnInvalid(b) \/ Add(b)
  <2>1. From(Ready)' \subseteq From(Ready)
    <3>1. \A b \in Main : b \in headers
      BY DEF Main
    <3>2. headers \subseteq headers' /\ headers' \subseteq Block
      BY <1>1 DEF AddHeader, AddHeaderOnInvalid, Add, SaveEntry, headerVars, IInv, TypeOK
    <3>3. invalid \subseteq invalid' /\ invalid' \cap Main \subseteq invalid
      BY <1>1, <3>1 DEF AddHeader, AddHeaderOnInvalid, Add
    <3> QED
      BY <1>1, <3>2, <3>3, FromFrame
         DEF AddHeader, AddHeaderOnInvalid, Add, mainVars, storeVars
  <2>2. /\ pc \in {"idle", "down"} /\ pc' \in {"idle", "down", "add_block"}
        /\ pc' # "down" => pc = "idle"
        /\ UNCHANGED <<downloaded, tip, deployed, crashes>>
    BY <1>1 DEF AddHeader, AddHeaderOnInvalid, Add, Idle, mainVars, storeVars, callVars
  <2> QED
    BY <2>1, <2>2 DEF BestInv, VerifyBody
<1>2. ASSUME NEW b \in Block, Attach(b) PROVE BestInv'
  <2>1. pc = "idle" /\ pc' = "connect_best" /\ UNCHANGED <<downloaded, tip, deployed, crashes>>
    BY <1>2 DEF Attach, Idle, mainVars, storeVars
  <2>2. From(Ready \ {entry})' \subseteq From(Ready)
    BY <1>2 DEF Attach, From, Ready, Main, IsMain, mainVars, storeVars, headerVars
  <2> QED
    BY <2>1, <2>2 DEF BestInv, VerifyBody
<1>3. CASE AddBlock
  BY <1>3, AddBlockBest
<1>4. CASE ConnectBest
  BY <1>4, ConnectBestBest
<1>5. CASE Disconnect
  BY <1>5, DisconnectBest
<1>6. CASE DisconnectPanics
  BY <1>6 DEF DisconnectPanics, storeVars, BestInv, VerifyBody
<1>7. CASE \E b \in Block : ConnectFails(b)
  BY <1>7, NoFailure
<1>8. ASSUME NEW b \in Block, WriteUndo(b) PROVE BestInv'
  <2>1. /\ pc = "reorg" /\ pc' = "reorg" /\ UNCHANGED <<downloaded, queue, crashes>>
        /\ From(Ready)' = From(Ready)
    BY <1>8 DEF WriteUndo, mainVars, headerVars, callVars, From, Ready, Main, IsMain
  <2> QED
    BY <2>1 DEF BestInv, VerifyBody
<1>9. ASSUME NEW b \in Block, Connect(b) PROVE BestInv'
  BY <1>9, ConnectBlockBest
<1>10. CASE Restart
  <2>1. downloaded' = downloaded /\ crashes' # 0 /\ deployed' = tip'
    BY <1>10 DEF Restart, storeVars, IInv, TypeOK
  <2> QED
    BY <2>1 DEF BestInv, VerifyBody
<1>11. CASE UNCHANGED vars
  <2>1. UNCHANGED <<downloaded, tip, deployed, crashes, pc, queue, entry>>
        /\ From(Ready)' = From(Ready) /\ From(Ready \ {entry})' = From(Ready \ {entry})
    BY <1>11 DEF vars, mainVars, storeVars, headerVars, callVars, From, Ready, Main, IsMain
  <2> QED
    BY <2>1 DEF BestInv, VerifyBody
<1> QED
  BY <1>1, <1>2, <1>3, <1>4, <1>5, <1>6, <1>7, <1>8, <1>9, <1>10, <1>11 DEF Next, Calls, Steps

------------------------------------------------------------------------------
(* The theorems.                                                           *)

\* IInv holds in every reachable state.
THEOREM Invariance == Spec => []IInv
BY InitInv, NextInv, PTL DEF Spec

\* Every variable keeps its type: heights stay below u32::MAX, undo records are
\* coin maps, a queue holds entries.
THEOREM TypeCorrect == Spec => []TypeOK
<1>1. IInv => TypeOK
  BY DEF IInv
<1> QED
  BY <1>1, Invariance, PTL

\* The height index and the successor index of ChainDB describe one unbroken
\* chain from genesis to the tip, through reorganisations and crashes.
THEOREM MainChainCorrect == Spec => []MainChainIndexed
<1>1. IInv => MainChainIndexed
  BY DEF IInv, MainChainIndexed
<1> QED
  BY <1>1, Invariance, PTL

\* The coin database is the replay of the main chain: ChainDB::disconnect_block
\* undoes exactly what ChainDB::connect_block did, also with an undo record that
\* was written before a crash or kept from an earlier connection.
THEOREM CoinsCorrect == Spec => []CoinsAreReplay
<1>1. IInv => CoinsAreReplay
  BY DEF IInv
<1> QED
  BY <1>1, Invariance, PTL

\* Whatever the main chain holds passed Chain::verify_context on its parent's coins.
THEOREM MainChainIsVerified == Spec => []MainChainVerified
<1>1. IInv => MainChainVerified
  BY DEF IInv
<1> QED
  BY <1>1, Invariance, PTL

\* COL_CHAIN_WORK holds exactly the leaves of the header tree and most_work is a
\* heaviest header, also when it is read back from that index after a crash.
THEOREM HeaderTipsCorrect == Spec => []HeaderTipsAreLeaves
<1>1. Init => TipsInv
  BY TreeAssumption DEF Init, TipsInv, HeaderTipsAreLeaves, MaxWork
<1>2. TipsInv => HeaderTipsAreLeaves
  BY DEF TipsInv
<1> QED
  BY <1>1, <1>2, TipsStep, Invariance, PTL DEF Spec

\* connect_best disconnects blocks only for a branch with more work than the
\* chain it leaves, and still so for the last block it disconnects.
THEOREM ReorganisesForWork == Spec => DisconnectOnlyForMoreWork
<1> DEFINE ForWork == dbTip' # dbTip /\ dbTip' = Prev[dbTip] =>
                        \E b \in queue : ChainWork[b] > ChainWork[dbTip]
<1>1. IInv /\ [Next]_vars => [ForWork]_vars
  <2> SUFFICES ASSUME IInv, Next, dbTip' # dbTip, dbTip' = Prev[dbTip]
               PROVE  \E b \in queue : ChainWork[b] > ChainWork[dbTip]
    OBVIOUS
  <2>1. tip = dbTip /\ tip \in Block
    BY DEF IInv, TypeOK, MainChainLinked
  <2>2. CASE Disconnect
    BY <2>1, <2>2 DEF Disconnect, IInv, CallInv, MoreWork
  <2>3. ASSUME NEW b \in Block, Connect(b) PROVE FALSE
    <3>1. dbTip' = b /\ Prev[b] = tip /\ b # tip
      BY <2>1, <2>3 DEF Connect
    <3>2. b # Genesis /\ tip # Genesis
      BY <3>1, <2>1, TreeAssumption
    <3>3. Height[b] = Height[tip] + 1 /\ Height[tip] = Height[b] + 1
      BY <3>1, <3>2, <2>1, TreeFacts
    <3> QED
      BY <3>3, TreeFacts
  <2>4. CASE \/ Calls \/ AddBlock \/ ConnectBest \/ DisconnectPanics
             \/ \E b \in Block : ConnectFails(b) \/ WriteUndo(b)
             \/ Restart
    BY <2>4 DEF Calls, AddHeader, AddHeaderOnInvalid, Add, Attach, AddBlock, ConnectBest,
                DisconnectPanics, ConnectFails, WriteUndo, Restart, mainVars
  <2> QED
    BY <2>2, <2>3, <2>4 DEF Next, Steps
<1> QED
  BY <1>1, Invariance, PTL DEF Spec, DisconnectOnlyForMoreWork

\* Chain implements Ledger: Connect is Extend, Disconnect is Retract, and every
\* other step, a crash included, leaves the durable tip and coins alone.
THEOREM Refinement == Spec => ImplementsLedger
<1>1. Init => L!LedgerInit
  BY DEF Init, L!LedgerInit, NoCoins, L!NoCoins, Absent, L!Absent
<1>2. IInv /\ IInv' /\ [Next]_vars => [L!LedgerNext]_(L!ledgerVars)
  <2> SUFFICES ASSUME IInv, IInv', [Next]_vars, ~UNCHANGED <<dbTip, coins>>
               PROVE  L!LedgerNext
    BY DEF L!ledgerVars
  <2>1. tip = dbTip /\ coins = Utxo[tip] /\ tip \in Block
    BY DEF IInv, TypeOK, MainChainLinked, CoinsAreReplay
  <2>2. CASE Disconnect
    <3>1. dbTip' = Prev[dbTip] /\ dbTip # Genesis
      BY <2>1, <2>2 DEF Disconnect, IInv, HeadersClosed
    <3>2. coins' = Utxo[dbTip']
      BY DEF IInv, MainChainLinked, CoinsAreReplay
    <3> QED
      BY <3>1, <3>2 DEF L!LedgerNext, L!Retract
  <2>3. ASSUME NEW b \in Block, Connect(b) PROVE L!Extend(b)
    <3>1. Prev[b] = dbTip /\ dbTip' = b /\ coins' = ConnectCoins(b, coins) /\ Acceptable(b, coins)
      BY <2>1, <2>3 DEF Connect, VerifyContext
    <3>2. b # Genesis
      BY <2>3, MainFacts DEF Connect, IInv, CallInv, IsBranch
    <3> QED
      BY <3>1, <3>2
         DEF L!Extend, ConnectCoins, L!ConnectCoins, Acceptable, L!Acceptable,
             VerifyBody, L!VerifyBody, NoDuplicates, L!NoDuplicates,
             InputsUnspent, L!InputsUnspent, CoinbaseMature, L!CoinbaseMature, Absent, L!Absent
  <2>4. CASE \/ Calls \/ AddBlock \/ ConnectBest \/ DisconnectPanics
             \/ \E b \in Block : ConnectFails(b) \/ WriteUndo(b)
             \/ Restart \/ UNCHANGED vars
    BY <2>4 DEF Calls, AddHeader, AddHeaderOnInvalid, Add, Attach, AddBlock, ConnectBest,
                DisconnectPanics, ConnectFails, WriteUndo, Restart, mainVars, vars
  <2> QED
    BY <2>2, <2>3, <2>4 DEF Next, Steps, L!LedgerNext
<1> QED
  BY <1>1, <1>2, Invariance, PTL DEF Spec, ImplementsLedger, L!LedgerSpec

\* Where no block fails, no branch that is completely on disk has more work than the active
\* chain between two calls, in whatever order its blocks and headers arrived, as long as the
\* process has not stopped.
THEOREM TipIsBest == NoBlockFails => (Spec => []TipHasMostWork)
<1> SUFFICES ASSUME NoBlockFails PROVE Spec => []TipHasMostWork
  OBVIOUS
<1>1. IInv /\ BestInv /\ [Next]_vars => BestInv'
  BY BestStep
<1>2. IInv /\ BestInv => TipHasMostWork
  BY DEF BestInv, TipHasMostWork, Connectable, From, Idle
<1> QED
  BY <1>1, <1>2, InitInv, NextInv, InitBest, PTL DEF Spec

\* Where no block fails, the deployments the node verifies with between two calls are those
\* of its tip, also after a crash in the middle of a reorganisation.
THEOREM DeploymentsFollowTip == NoBlockFails => (Spec => []DeploymentsOfTip)
<1> SUFFICES ASSUME NoBlockFails PROVE Spec => []DeploymentsOfTip
  OBVIOUS
<1>1. IInv /\ BestInv /\ [Next]_vars => BestInv'
  BY BestStep
<1>2. IInv /\ BestInv => DeploymentsOfTip
  BY DEF BestInv, DeploymentsOfTip, Idle
<1> QED
  BY <1>1, <1>2, InitInv, NextInv, InitBest, PTL DEF Spec
==============================================================================
