---------------------------- MODULE MemPoolProofs ----------------------------
(***************************************************************************)
(* What holds of MemPool for any transactions, any chain and any number of *)
(* reorganisations: the pool never holds two transactions that spend the   *)
(* same output, and a transaction leaves it only for cause.  It has no     *)
(* orphans and takes back what a disconnected block had, as long as        *)
(* spents names transactions of the pool only, which ends exactly when a   *)
(* double spend is removed that had an input nobody frees.                 *)
(***************************************************************************)
EXTENDS MemPool, NaturalsInduction, WellFoundedInduction, TLAPS

Inv == TypeOK /\ InputsInSpents

USE MemPoolAssumption

------------------------------------------------------------------------------
(* Types.                                                                  *)

Connected == [txs : Seq(Tx), coins : CoinMaps]

\* The block on top of the chain.
LEMMA TopType ==
    ASSUME TypeOK, chain # <<>>
    PROVE  /\ chain[Len(chain)].txs \in Seq(Tx)
           /\ chain[Len(chain)].coins \in CoinMaps
           /\ SubSeq(chain, 1, Len(chain) - 1) \in Seq(Connected)
<1>1. chain \in Seq(Connected)
    BY DEF TypeOK, Connected
<1>2. chain[Len(chain)] \in Connected /\ SubSeq(chain, 1, Len(chain) - 1) \in Seq(Connected)
    <2>1. Len(chain) \in 1 .. Len(chain)
        BY <1>1
    <2>2. chain[Len(chain)] \in Connected
        BY <1>1, <2>1
    <2>3. SubSeq(chain, 1, Len(chain) - 1) \in Seq(Connected)
        BY <1>1, <2>1
    <2> QED
        BY <2>2, <2>3
<1> QED
    BY <1>2 DEF Connected

LEMMA CoinsType ==
    ASSUME TypeOK
    PROVE  Coins \in CoinMaps
<1>1. BaseCoins \in CoinMaps
    BY DEF BaseCoins, CoinMaps, Absent
<1>2. ASSUME chain # <<>> PROVE chain[Len(chain)].coins \in CoinMaps
    BY <1>2, TopType
<1> QED
    BY <1>1, <1>2 DEF Coins

LEMMA ConnectCoinsType ==
    ASSUME TypeOK, Len(chain) < MaxHeight, NEW txs
    PROVE  ConnectCoins(txs) \in CoinMaps
<1>1. Coins \in CoinMaps
    BY CoinsType
<1>2. NextHeight \in 0 .. MaxHeight
    BY DEF NextHeight, TypeOK
<1> QED
    BY <1>1, <1>2 DEF ConnectCoins, CoinMaps, Absent

------------------------------------------------------------------------------
(* The steps.                                                              *)

LEMMA InitInv == Init => Inv
    BY DEF Init, Inv, TypeOK, InputsInSpents

\* An accepted transaction spends nothing the pool spends.
LEMMA InsertInv ==
    ASSUME Inv, NEW t \in Tx, Accepts(t), Insert(t)
    PROVE  pool' \subseteq Tx /\ spents' \in [Out -> Tx \cup {NoTx}] /\ InputsInSpents'
<1>1. pool' \subseteq Tx /\ spents' \in [Out -> Tx \cup {NoTx}]
    BY DEF Insert, Inv, TypeOK
<1>2. ASSUME NEW s \in pool', NEW o \in Ins[s] PROVE spents'[o] = s
    <2>1. s \in Tx /\ o \in Out
        BY <1>1, <1>2
    <2>2. CASE s = t
        BY <2>1, <2>2 DEF Insert
    <2>3. CASE s # t
        <3>1. s \in pool /\ spents[o] = s
            BY <2>3 DEF Insert, Inv, InputsInSpents
        <3>2. o \notin Ins[t]
            BY <3>1, <2>1 DEF Accepts, IsDoubleSpend
        <3> QED
            BY <3>1, <3>2, <2>1 DEF Insert
    <2> QED
        BY <2>2, <2>3
<1> QED
    BY <1>1, <1>2 DEF InputsInSpents

LEMMA AddTxInv ==
    ASSUME Inv, NEW t \in Tx, AddTx(t)
    PROVE  Inv'
    BY InsertInv DEF AddTx, Inv, TypeOK, CoinMaps

LEMMA ConnectInv ==
    ASSUME Inv, NEW txs \in Bodies, Connect(txs)
    PROVE  Inv'
<1>1. txs \in Seq(Tx)
    BY DEF Bodies
<1>2. ConnectCoins(txs) \in CoinMaps
    BY ConnectCoinsType DEF Inv, Connect
<1>3. chain' \in Seq([txs : Seq(Tx), coins : CoinMaps])
    BY <1>1, <1>2 DEF Connect, Inv, TypeOK
<1> QED
    BY <1>1, <1>3 DEF Connect, Inv, TypeOK, InputsInSpents, CoinMaps

\* What is removed with a double spend is closed: no transaction that stays spends
\* an output whose entry goes.
LEMMA KeptInputs ==
    ASSUME Inv, NEW t \in Tx, NEW s \in pool \ DoubleSpends(t), NEW o \in Ins[s]
    PROVE  o \notin Freed(t, DoubleSpends(t))
<1> DEFINE Closed(S) ==
        Spenders(Ins[t]) \subseteq S /\ \A r \in S : Spenders(Outs[r]) \subseteq S
<1>1. spents[o] = s
    BY DEF Inv, InputsInSpents
<1>2. PICK S \in SUBSET pool : Closed(S) /\ s \notin S
    BY DEF DoubleSpends
<1>3. o \notin Ins[t]
    <2>1. SUFFICES ASSUME o \in Ins[t] PROVE FALSE
        OBVIOUS
    <2>2. s \in Spenders(Ins[t])
        BY <1>1, <2>1 DEF Spenders
    <2> QED
        BY <1>2, <2>2
<1>4. ASSUME NEW g \in DoubleSpends(t) PROVE o \notin Outs[g]
    <2>1. SUFFICES ASSUME o \in Outs[g] PROVE FALSE
        OBVIOUS
    <2>2. g \in S
        BY <1>2, <1>4 DEF DoubleSpends
    <2>3. s \in Spenders(Outs[g])
        BY <1>1, <2>1 DEF Spenders
    <2> QED
        BY <1>2, <2>2, <2>3
<1> QED
    BY <1>3, <1>4 DEF Freed

LEMMA AddBlockTxInv ==
    ASSUME Inv, AddBlockTx
    PROVE  Inv'
<1> DEFINE t == Head(left)
           gone == IF InPool(t) THEN {} ELSE DoubleSpends(t)
<1>1. t \in Tx /\ left' \in Seq(Tx)
    BY DEF AddBlockTx, Inv, TypeOK
<1>2. /\ pool' = IF InPool(t) THEN DropConfirmed(t) ELSE pool \ gone
      /\ spents' = [o \in Out |-> IF o \in Freed(t, gone) THEN NoTx ELSE spents[o]]
    BY DEF AddBlockTx
<1>3. TypeOK'
    <2>1. pool' \subseteq pool
        BY <1>2 DEF DropConfirmed
    <2>2. spents' \in [Out -> Tx \cup {NoTx}]
        BY <1>2 DEF Inv, TypeOK
    <2> QED
        BY <1>1, <2>1, <2>2 DEF AddBlockTx, Inv, TypeOK, CoinMaps
<1>4. ASSUME NEW s \in pool', NEW o \in Ins[s] PROVE spents'[o] = s
    <2>1. s \in pool /\ spents[o] = s /\ o \in Out
        BY <1>2 DEF DropConfirmed, Inv, TypeOK, InputsInSpents
    <2>2. o \notin Freed(t, gone)
        <3>1. CASE InPool(t)
            <4>1. s # t /\ t \in pool
                BY <1>2, <3>1 DEF InPool, DropConfirmed
            <4>2. o \notin Ins[t]
                BY <2>1, <4>1 DEF Inv, InputsInSpents
            <4> QED
                BY <3>1, <4>2 DEF Freed
        <3>2. CASE ~InPool(t)
            <4>1. s \in pool \ DoubleSpends(t)
                BY <1>2, <3>2
            <4>2. o \notin Freed(t, DoubleSpends(t))
                BY <1>1, <4>1, KeptInputs
            <4> QED
                BY <3>2, <4>2
        <3> QED
            BY <3>1, <3>2
    <2> QED
        BY <1>2, <2>1, <2>2
<1> QED
    BY <1>3, <1>4 DEF Inv, InputsInSpents

LEMMA DisconnectInv ==
    ASSUME Inv, Disconnect
    PROVE  Inv'
<1>1. /\ chain' \in Seq([txs : Seq(Tx), coins : CoinMaps])
      /\ chain[Len(chain)].txs \in Seq(Tx)
    BY TopType DEF Disconnect, Inv, Connected
<1> QED
    BY <1>1 DEF Disconnect, Inv, TypeOK, InputsInSpents, CoinMaps

LEMMA RemoveBlockTxInv ==
    ASSUME Inv, RemoveBlockTx
    PROVE  Inv'
<1>1. Head(left) \in Tx /\ left' \in Seq(Tx)
    BY DEF RemoveBlockTx, Inv, TypeOK
<1>2. CASE Accepts(Head(left))
    <2>1. Insert(Head(left))
        BY <1>2 DEF RemoveBlockTx
    <2> QED
        BY <1>1, <1>2, <2>1, InsertInv DEF RemoveBlockTx, Inv, TypeOK, CoinMaps
<1>3. CASE ~Accepts(Head(left))
    BY <1>1, <1>3 DEF RemoveBlockTx, Inv, TypeOK, InputsInSpents, CoinMaps
<1> QED
    BY <1>2, <1>3

LEMMA HandledInv ==
    ASSUME Inv, Handled
    PROVE  Inv'
    BY DEF Handled, Inv, TypeOK, InputsInSpents, CoinMaps

LEMMA StepInv == Inv /\ [Next]_vars => Inv'
<1> SUFFICES ASSUME Inv, [Next]_vars PROVE Inv'
    OBVIOUS
<1>1. CASE Next
    BY <1>1, AddTxInv, ConnectInv, AddBlockTxInv, DisconnectInv, RemoveBlockTxInv, HandledInv DEF Next
<1>2. CASE UNCHANGED vars
    BY <1>2 DEF vars, Inv, TypeOK, InputsInSpents, CoinMaps
<1> QED
    BY <1>1, <1>2

------------------------------------------------------------------------------
(* Why transactions leave.                                                 *)

\* An entry of spents is a transaction's that spends the outpoint, although the
\* transaction may have left the pool.
EntriesSpend == \A o \in Out : spents[o] # NoTx => o \in Ins[spents[o]]

\* What the handler of a connected block has still to go through is in the main chain.
LeftConfirmed == event = "connect" => \A i \in 1 .. Len(left) : left[i] \in Confirmed

Causes == Inv /\ EntriesSpend /\ LeftConfirmed

LEMMA InitCauses == Init => Causes
    BY InitInv DEF Causes, EntriesSpend, LeftConfirmed, Init

LEMMA InsertEntries ==
    ASSUME Causes, NEW t \in Tx, Insert(t)
    PROVE  EntriesSpend'
<1>1. spents' = [o \in Out |-> IF o \in Ins[t] THEN t ELSE spents[o]]
    BY DEF Insert
<1>2. ASSUME NEW o \in Out, spents'[o] # NoTx PROVE o \in Ins[spents'[o]]
    BY <1>1, <1>2 DEF Causes, EntriesSpend
<1> QED
    BY <1>2 DEF EntriesSpend

\* The handler of a connected block is told what the block on top contains.
LEMMA ConnectLeft ==
    ASSUME Causes, NEW txs \in Bodies, Connect(txs)
    PROVE  LeftConfirmed'
<1>1. SUFFICES ASSUME event' = "connect", NEW i \in 1 .. Len(left') PROVE left'[i] \in Confirmed'
    BY DEF LeftConfirmed
<1>2. txs \in Seq(Tx) /\ left' = txs
    <2>1. txs \in Seq(Tx)
        BY DEF Bodies
    <2>2. left' = txs
        BY <1>1 DEF Connect
    <2> QED
        BY <2>1, <2>2
<1>3. chain \in Seq(Connected)
    BY DEF Causes, Inv, TypeOK, Connected
<1>4. chain' = Append(chain, [txs |-> txs, coins |-> ConnectCoins(txs)])
    BY DEF Connect
<1> DEFINE n == Len(chain) + 1
<1>5. n \in DOMAIN chain' /\ chain'[n] = [txs |-> txs, coins |-> ConnectCoins(txs)]
    BY <1>3, <1>4
<1>6. i \in DOMAIN chain'[n].txs /\ chain'[n].txs[i] = left'[i]
    BY <1>1, <1>2, <1>5
<1> QED
    BY <1>5, <1>6 DEF Confirmed

LEMMA StepCauses == Causes /\ [Next]_vars => Causes'
<1> SUFFICES ASSUME Causes, [Next]_vars PROVE Causes'
    OBVIOUS
<1>1. Inv'
    BY StepInv DEF Causes
<1>2. ASSUME NEW t \in Tx, AddTx(t) PROVE EntriesSpend' /\ LeftConfirmed'
    <2>1. EntriesSpend'
        BY <1>2, InsertEntries DEF AddTx
    <2>2. LeftConfirmed'
        BY <1>2 DEF AddTx, LeftConfirmed
    <2> QED
        BY <2>1, <2>2
<1>3. ASSUME NEW txs \in Bodies, Connect(txs) PROVE EntriesSpend' /\ LeftConfirmed'
    <2>1. EntriesSpend'
        BY <1>3 DEF Connect, Causes, EntriesSpend
    <2> QED
        BY <1>3, <2>1, ConnectLeft
<1>4. ASSUME AddBlockTx PROVE EntriesSpend' /\ LeftConfirmed'
    <2>1. EntriesSpend'
        <3>1. PICK freed : spents' = [o \in Out |-> IF o \in freed THEN NoTx ELSE spents[o]]
            BY <1>4 DEF AddBlockTx
        <3> QED
            BY <3>1 DEF Causes, EntriesSpend
    <2>2. LeftConfirmed'
        <3>1. left \in Seq(Tx) /\ left # <<>> /\ left' = Tail(left) /\ event = "connect"
            BY <1>4 DEF AddBlockTx, Causes, Inv, TypeOK
        <3>2. Confirmed' = Confirmed
            BY <1>4 DEF AddBlockTx, Confirmed
        <3>3. ASSUME NEW i \in 1 .. Len(left') PROVE left'[i] \in Confirmed
            <4>1. i + 1 \in 1 .. Len(left) /\ left'[i] = left[i + 1]
                BY <3>1, <3>3
            <4> QED
                BY <3>1, <4>1 DEF Causes, LeftConfirmed
        <3> QED
            BY <3>2, <3>3 DEF LeftConfirmed
    <2> QED
        BY <2>1, <2>2
<1>5. CASE Disconnect
    BY <1>1, <1>5 DEF Disconnect, Causes, EntriesSpend, LeftConfirmed
<1>6. CASE RemoveBlockTx
    <2>1. Head(left) \in Tx
        BY <1>6 DEF RemoveBlockTx, Causes, Inv, TypeOK
    <2>2. EntriesSpend'
        BY <1>6, <2>1, InsertEntries DEF RemoveBlockTx, Causes, EntriesSpend
    <2> QED
        BY <1>1, <1>6, <2>2 DEF RemoveBlockTx, Causes, LeftConfirmed
<1>7. CASE Handled
    BY <1>1, <1>7 DEF Handled, Causes, EntriesSpend, LeftConfirmed
<1>8. CASE UNCHANGED vars
    BY <1>1, <1>8 DEF vars, Causes, EntriesSpend, LeftConfirmed, Confirmed
<1> QED
    BY <1>1, <1>2, <1>3, <1>4, <1>5, <1>6, <1>7, <1>8 DEF Next, Causes

\* What goes with a double spend depends on a transaction that conflicts with it.
LEMMA DoubleSpendsDepend ==
    ASSUME Causes, NEW t \in Confirmed, t \notin pool, t \in Tx,
           NEW s \in DoubleSpends(t),
           NEW D \in SUBSET pool, Conflicting \subseteq D, WithSpenders(D)
    PROVE  s \in D
<1> DEFINE Closed(S) ==
        Spenders(Ins[t]) \subseteq S /\ \A r \in S : Spenders(Outs[r]) \subseteq S
<1>1. ASSUME NEW outs \in SUBSET Out, NEW u \in Spenders(outs)
      PROVE  u \in pool /\ Ins[u] \cap outs # {}
    <2>1. PICK o \in outs : u = spents[o] /\ u \in pool
        BY DEF Spenders
    <2>2. u # NoTx
        BY <2>1 DEF Causes, Inv, TypeOK
    <2> QED
        BY <2>1, <2>2 DEF Causes, EntriesSpend
<1>2. Spenders(Ins[t]) \subseteq D
    <2>1. SUFFICES ASSUME NEW u \in Spenders(Ins[t]) PROVE u \in D
        OBVIOUS
    <2>2. Ins[t] \in SUBSET Out
        OBVIOUS
    <2>3. u \in pool /\ Ins[u] \cap Ins[t] # {}
        BY <1>1, <2>2
    <2> QED
        BY <2>3 DEF Conflicting
<1>3. ASSUME NEW r \in D PROVE Spenders(Outs[r]) \subseteq D
    <2>1. r \in Tx
        BY DEF Causes, Inv, TypeOK
    <2>2. SUFFICES ASSUME NEW u \in Spenders(Outs[r]) PROVE u \in D
        OBVIOUS
    <2>3. Outs[r] \in SUBSET Out
        BY <2>1
    <2>4. u \in pool /\ Ins[u] \cap Outs[r] # {}
        BY <1>1, <2>3
    <2> QED
        BY <2>4 DEF WithSpenders
<1>4. Closed(D)
    BY <1>2, <1>3
<1> QED
    BY <1>4 DEF DoubleSpends

------------------------------------------------------------------------------
(* When entries of spents go stale.                                        *)

\* The next turn of add_block removes a double spend with an input that is neither one of
\* the block's transaction nor an output of what is removed with it.
InputsLeft ==
    /\ event = "connect" /\ left # <<>>
    /\ ~InPool(Head(left))
    /\ \E s \in DoubleSpends(Head(left)) :
          ~(Ins[s] \subseteq Freed(Head(left), DoubleSpends(Head(left))))

LEMMA StepMatch ==
    ASSUME Causes, SpentsMatch, ~InputsLeft, [Next]_vars
    PROVE  SpentsMatch'
<1>1. ASSUME NEW t \in Tx, Insert(t) PROVE SpentsMatch'
    <2>1. spents' = [o \in Out |-> IF o \in Ins[t] THEN t ELSE spents[o]] /\ pool' = pool \cup {t}
        BY <1>1 DEF Insert
    <2> QED
        BY <2>1 DEF SpentsMatch
<1>2. CASE AddBlockTx
    <2> DEFINE t == Head(left)
               gone == IF InPool(t) THEN {} ELSE DoubleSpends(t)
    <2>1. t \in Tx
        BY <1>2 DEF AddBlockTx, Causes, Inv, TypeOK
    <2>2. /\ pool' = IF InPool(t) THEN DropConfirmed(t) ELSE pool \ gone
          /\ spents' = [o \in Out |-> IF o \in Freed(t, gone) THEN NoTx ELSE spents[o]]
        BY <1>2 DEF AddBlockTx
    <2>3. SUFFICES ASSUME NEW o \in Out, spents'[o] # NoTx
                   PROVE  spents'[o] \in pool' /\ o \in Ins[spents'[o]]
        BY DEF SpentsMatch
    <2> DEFINE s == spents[o]
    <2>4. spents'[o] = s /\ o \notin Freed(t, gone) /\ s \in pool /\ o \in Ins[s]
        BY <2>2, <2>3 DEF SpentsMatch
    <2>5. CASE InPool(t)
        <3>1. s # t
            BY <2>4 DEF Freed
        <3> QED
            BY <2>2, <2>4, <2>5, <3>1 DEF DropConfirmed
    <2>6. CASE ~InPool(t)
        <3>1. gone = DoubleSpends(t) /\ t \notin pool
            BY <2>6 DEF InPool
        <3>2. s \notin DoubleSpends(t)
            BY <1>2, <2>4, <2>6, <3>1 DEF InputsLeft, AddBlockTx
        <3> QED
            BY <2>2, <2>4, <2>6, <3>1, <3>2
    <2> QED
        BY <2>5, <2>6
<1>3. CASE UNCHANGED <<pool, spents>>
    BY <1>3 DEF SpentsMatch
<1>4. CASE RemoveBlockTx
    <2>1. Head(left) \in Tx
        BY <1>4 DEF RemoveBlockTx, Causes, Inv, TypeOK
    <2> QED
        BY <1>1, <1>3, <1>4, <2>1 DEF RemoveBlockTx
<1> QED
    BY <1>1, <1>2, <1>3, <1>4 DEF Next, AddTx, Connect, Disconnect, Handled, vars

\* The entry of an input that is left names a transaction that is gone.
LEMMA StepStale ==
    ASSUME Causes, InputsLeft, Next
    PROVE  ~SpentsMatch'
<1>1. AddBlockTx
    BY DEF InputsLeft, Next, AddTx, Connect, Disconnect, RemoveBlockTx, Handled
<1> DEFINE t == Head(left)
<1>2. PICK s \in DoubleSpends(t) : ~(Ins[s] \subseteq Freed(t, DoubleSpends(t)))
    BY DEF InputsLeft
<1>3. PICK o \in Ins[s] : o \notin Freed(t, DoubleSpends(t))
    BY <1>2
<1>4. /\ pool' = pool \ DoubleSpends(t)
      /\ spents' = [u \in Out |-> IF u \in Freed(t, DoubleSpends(t)) THEN NoTx ELSE spents[u]]
    BY <1>1 DEF AddBlockTx, InputsLeft
<1>5. s \in pool /\ s \in Tx
    BY DEF DoubleSpends, Causes, Inv, TypeOK
<1>6. o \in Out /\ spents[o] = s
    BY <1>3, <1>5 DEF Causes, Inv, InputsInSpents
<1>7. spents'[o] = s /\ s # NoTx /\ s \notin pool'
    BY <1>3, <1>4, <1>5, <1>6
<1> QED
    BY <1>6, <1>7 DEF SpentsMatch

------------------------------------------------------------------------------
(* The coins of a chain.                                                   *)

HIDE MemPoolAssumption

LEMMA TxFacts ==
    /\ NoTx \notin Tx
    /\ \A t \in Tx : Ins[t] \subseteq Out /\ Outs[t] \subseteq Out /\ Ins[t] # {}
    /\ \A t \in Tx : \A o \in Outs[t] : o \notin Base /\ o \notin Ins[t]
    /\ \A s, t \in Tx : \A o \in Outs[s] : o \in Outs[t] => s = t
BY MemPoolAssumption

Smaller == {ij \in Nat \X Nat : ij[1] < ij[2]}

\* A set of numbers that is not empty has a least one.
LEMMA Least ==
    ASSUME NEW S \in SUBSET Nat, S # {}
    PROVE  \E m \in S : \A n \in S : m <= n
<1>1. OpToRel(<, Nat) = Smaller
    BY DEF OpToRel, Smaller
<1>2. PICK m \in S : \A n \in S : ~ (<<n, m>> \in Smaller)
    BY <1>1, NatLessThanWellFounded, WFMin
<1>3. \A n \in S : ~ (n < m)
    <2> TAKE n \in S
    <2>1. <<n, m>> \in Nat \X Nat /\ <<n, m>>[1] = n /\ <<n, m>>[2] = m
        OBVIOUS
    <2> QED
        BY <1>2, <2>1 DEF Smaller
<1> QED
    BY <1>3

SetOf(txs) == {txs[i] : i \in DOMAIN txs}

\* ValidBlock and ConnectCoins with the coins and the height of a block.
Fits(coins, height, txs) ==
    \A i \in DOMAIN txs :
        /\ txs[i] \notin Bad /\ LockTime[txs[i]] < height
        /\ \A o \in Ins[txs[i]] \cap Coinbase :
              coins[o] # Absent => height - coins[o] >= Maturity
        /\ \A o \in Outs[txs[i]] : coins[o] = Absent
        /\ \A k \in 1 .. i - 1 : txs[k] # txs[i] /\ \A o \in Ins[txs[i]] : o \notin Ins[txs[k]]
        /\ \A o \in Ins[txs[i]] : coins[o] # Absent \/ \E k \in 1 .. i - 1 : o \in Outs[txs[k]]

After(coins, height, txs) ==
    [o \in Out |-> IF \E t \in SetOf(txs) : o \in Ins[t] THEN Absent
                   ELSE IF \E t \in SetOf(txs) : o \in Outs[t] THEN height
                   ELSE coins[o]]

\* The unspent coins are those that transactions of a set, or the base, have created and
\* none of the set has spent, and none spends anything else.
Coherent(coins, txs) ==
    /\ \A o \in Out : coins[o] # Absent <=> /\ o \in Base \/ \E s \in txs : o \in Outs[s]
                                            /\ ~ \E s \in txs : o \in Ins[s]
    /\ \A s \in txs : \A o \in Ins[s] : o \in Base \/ \E r \in txs : o \in Outs[r]

\* No transaction is confirmed twice: the first of a block to be would spend a spent coin.
LEMMA BlockFresh ==
    ASSUME NEW coins, NEW height, NEW S \in SUBSET Tx, Coherent(coins, S),
           NEW txs \in Seq(Tx), Fits(coins, height, txs)
    PROVE  SetOf(txs) \cap S = {}
<1> DEFINE Again == {i \in DOMAIN txs : txs[i] \in S}
<1> SUFFICES ASSUME Again # {} PROVE FALSE
    BY DEF SetOf
<1>1. Again \in SUBSET Nat /\ DOMAIN txs = 1 .. Len(txs) /\ Len(txs) \in Nat
    OBVIOUS
<1>2. PICK i \in Again : \A k \in Again : i <= k
    BY <1>1, Least
<1>3. i \in DOMAIN txs /\ i \in Nat /\ txs[i] \in S /\ txs[i] \in Tx
    BY <1>1, <1>2
<1>4. PICK o \in Ins[txs[i]] : o \in Out
    BY <1>3, TxFacts
<1>5. coins[o] = Absent /\ (o \in Base \/ \E r \in S : o \in Outs[r])
    BY <1>3, <1>4 DEF Coherent
<1>6. PICK k \in 1 .. i - 1 : o \in Outs[txs[k]]
    BY <1>3, <1>5 DEF Fits
<1>7. k \in DOMAIN txs /\ k < i /\ txs[k] \in Tx
    BY <1>1, <1>3
<1>8. txs[k] \in S
    BY <1>5, <1>6, <1>7, TxFacts
<1> QED
    BY <1>1, <1>2, <1>3, <1>7, <1>8

\* A block keeps the coins coherent.
LEMMA BlockCoherent ==
    ASSUME NEW coins, NEW height, height # Absent, NEW S \in SUBSET Tx, Coherent(coins, S),
           NEW txs \in Seq(Tx), Fits(coins, height, txs)
    PROVE  Coherent(After(coins, height, txs), S \cup SetOf(txs))
<1> DEFINE new == After(coins, height, txs)
           all == S \cup SetOf(txs)
<1>1. SetOf(txs) \subseteq Tx /\ SetOf(txs) \cap S = {}
    BY BlockFresh DEF SetOf
<1>2. \A t \in SetOf(txs) : /\ \A o \in Outs[t] : coins[o] = Absent
                            /\ \A o \in Ins[t] : coins[o] # Absent \/ \E s \in SetOf(txs) : o \in Outs[s]
    <2> TAKE t \in SetOf(txs)
    <2>1. PICK i \in DOMAIN txs : t = txs[i]
        BY DEF SetOf
    <2>2. \A k \in 1 .. i - 1 : txs[k] \in SetOf(txs)
        BY DEF SetOf
    <2> QED
        BY <2>1, <2>2 DEF Fits
<1>3. ASSUME NEW o \in Out
      PROVE  new[o] # Absent <=> /\ o \in Base \/ \E s \in all : o \in Outs[s]
                                 /\ ~ \E s \in all : o \in Ins[s]
    <2>1. CASE \E t \in SetOf(txs) : o \in Ins[t]
        BY <2>1 DEF After
    <2>2. CASE ~ (\E t \in SetOf(txs) : o \in Ins[t]) /\ \E t \in SetOf(txs) : o \in Outs[t]
        <3>1. new[o] # Absent
            BY <2>2 DEF After
        <3>2. PICK t \in SetOf(txs) : o \in Outs[t]
            BY <2>2
        <3>3. ASSUME NEW s \in S, o \in Ins[s] PROVE FALSE
            <4>1. o \in Base \/ \E r \in S : o \in Outs[r]
                BY <3>3 DEF Coherent
            <4> QED
                BY <1>1, <3>2, <4>1, TxFacts
        <3> QED
            BY <2>2, <3>1, <3>2, <3>3
    <2>3. CASE ~ (\E t \in SetOf(txs) : o \in Ins[t]) /\ ~ \E t \in SetOf(txs) : o \in Outs[t]
        <3>1. new[o] = coins[o]
            BY <2>3 DEF After
        <3> QED
            BY <2>3, <3>1 DEF Coherent
    <2> QED
        BY <2>1, <2>2, <2>3
<1>4. ASSUME NEW s \in all, NEW o \in Ins[s] PROVE o \in Base \/ \E r \in all : o \in Outs[r]
    <2>1. CASE s \in S
        BY <2>1 DEF Coherent
    <2>2. CASE s \in SetOf(txs)
        <3>1. s \in Tx /\ o \in Out
            BY <1>1, <2>2, TxFacts
        <3> QED
            BY <1>2, <2>2, <3>1 DEF Coherent
    <2> QED
        BY <2>1, <2>2
<1> QED
    BY <1>3, <1>4 DEF Coherent

\* The coins after the first blocks of a chain, and their transactions.
CoinsOf(ch, n) == IF n = 0 THEN BaseCoins ELSE ch[n].coins

TxsOf(ch, n) == {t \in Tx : \E i \in 1 .. n : t \in SetOf(ch[i].txs)}

\* Every block was valid on the coins before it and has changed them.
Sound(ch) ==
    \A n \in 1 .. Len(ch) :
        /\ Fits(CoinsOf(ch, n - 1), n, ch[n].txs)
        /\ ch[n].coins = After(CoinsOf(ch, n - 1), n, ch[n].txs)

LEMMA LevelsCoherent ==
    ASSUME NEW ch \in Seq(Connected), Sound(ch), NEW n \in 0 .. Len(ch)
    PROVE  Coherent(CoinsOf(ch, n), TxsOf(ch, n))
<1> DEFINE Wrong == {k \in Nat : k <= Len(ch) /\ ~ Coherent(CoinsOf(ch, k), TxsOf(ch, k))}
<1>1. Len(ch) \in Nat /\ \A k \in 1 .. Len(ch) : ch[k] \in Connected
    OBVIOUS
<1>2. Coherent(CoinsOf(ch, 0), TxsOf(ch, 0))
    <2>1. TxsOf(ch, 0) = {}
        BY DEF TxsOf
    <2>2. \A o \in Out : CoinsOf(ch, 0)[o] # Absent <=> o \in Base
        BY DEF CoinsOf, BaseCoins, Absent
    <2> QED
        BY <2>1, <2>2 DEF Coherent
<1>3. Wrong = {}
    <2> SUFFICES ASSUME Wrong # {} PROVE FALSE
        OBVIOUS
    <2>1. PICK k \in Wrong : \A l \in Wrong : k <= l
        BY Least
    <2>2. k \in Nat /\ k <= Len(ch) /\ k # 0
        BY <1>2, <2>1
    <2>3. k - 1 \in Nat /\ k - 1 \notin Wrong /\ k \in 1 .. Len(ch)
        BY <1>1, <2>1, <2>2
    <2>4. Coherent(CoinsOf(ch, k - 1), TxsOf(ch, k - 1))
        BY <1>1, <2>2, <2>3
    <2>5. ch[k].txs \in Seq(Tx) /\ Fits(CoinsOf(ch, k - 1), k, ch[k].txs)
          /\ ch[k].coins = After(CoinsOf(ch, k - 1), k, ch[k].txs)
        BY <1>1, <2>3 DEF Sound, Connected
    <2>6. k # Absent /\ TxsOf(ch, k - 1) \in SUBSET Tx
        BY <2>2 DEF Absent, TxsOf
    <2>7. Coherent(ch[k].coins, TxsOf(ch, k - 1) \cup SetOf(ch[k].txs))
        BY <2>4, <2>5, <2>6, BlockCoherent
    <2>8. TxsOf(ch, k) = TxsOf(ch, k - 1) \cup SetOf(ch[k].txs)
        <3>1. SetOf(ch[k].txs) \subseteq Tx
            BY <2>5 DEF SetOf
        <3>2. \A i \in Int : i \in 1 .. k <=> i \in 1 .. k - 1 \/ i = k
            BY <2>2
        <3> QED
            BY <3>1, <3>2 DEF TxsOf
    <2>9. CoinsOf(ch, k) = ch[k].coins
        BY <2>2 DEF CoinsOf
    <2> QED
        BY <2>1, <2>7, <2>8, <2>9
<1> QED
    BY <1>1, <1>3

\* What a connected block adds, and what is left without it.
LEMMA Extended ==
    ASSUME NEW ch \in Seq(Connected), Sound(ch), NEW txs \in Seq(Tx), NEW coins,
           Fits(CoinsOf(ch, Len(ch)), Len(ch) + 1, txs),
           coins = After(CoinsOf(ch, Len(ch)), Len(ch) + 1, txs),
           NEW more, more = Append(ch, [txs |-> txs, coins |-> coins])
    PROVE  Sound(more)
<1>1. Len(ch) \in Nat /\ Len(more) = Len(ch) + 1
      /\ \A n \in 1 .. Len(ch) : more[n] = ch[n]
      /\ more[Len(ch) + 1] = [txs |-> txs, coins |-> coins]
    OBVIOUS
<1>2. \A n \in 0 .. Len(ch) : CoinsOf(more, n) = CoinsOf(ch, n)
    BY <1>1 DEF CoinsOf
<1>3. ASSUME NEW n \in 1 .. Len(ch)
      PROVE  /\ Fits(CoinsOf(more, n - 1), n, more[n].txs)
             /\ more[n].coins = After(CoinsOf(more, n - 1), n, more[n].txs)
    <2>1. n - 1 \in 0 .. Len(ch)
        BY <1>1
    <2> QED
        BY <1>1, <1>2, <2>1 DEF Sound
<1>4. ASSUME NEW n, n = Len(ch) + 1
      PROVE  /\ Fits(CoinsOf(more, n - 1), n, more[n].txs)
             /\ more[n].coins = After(CoinsOf(more, n - 1), n, more[n].txs)
    <2>1. n - 1 = Len(ch) /\ Len(ch) \in 0 .. Len(ch)
        BY <1>1, <1>4
    <2> QED
        BY <1>1, <1>2, <1>4, <2>1
<1>5. ASSUME NEW n \in 1 .. Len(more)
      PROVE  /\ Fits(CoinsOf(more, n - 1), n, more[n].txs)
             /\ more[n].coins = After(CoinsOf(more, n - 1), n, more[n].txs)
    <2>1. n \in 1 .. Len(ch) \/ n = Len(ch) + 1
        BY <1>1
    <2> QED
        BY <1>3, <1>4, <2>1
<1> QED
    BY <1>5 DEF Sound

LEMMA Shortened ==
    ASSUME NEW ch \in Seq(Connected), Sound(ch), ch # <<>>,
           NEW less, less = SubSeq(ch, 1, Len(ch) - 1)
    PROVE  /\ less \in Seq(Connected) /\ Len(less) = Len(ch) - 1 /\ Sound(less)
           /\ CoinsOf(less, Len(less)) = CoinsOf(ch, Len(ch) - 1)
           /\ TxsOf(less, Len(less)) = TxsOf(ch, Len(ch) - 1)
<1>1. Len(ch) \in Nat \ {0}
    OBVIOUS
<1>2. /\ less \in Seq(Connected) /\ Len(less) = Len(ch) - 1
      /\ \A n \in 1 .. Len(ch) - 1 : less[n] = ch[n]
    <2>1. PICK l \in Nat : l = Len(ch) - 1 /\ l <= Len(ch)
        BY <1>1
    <2>2. less = SubSeq(ch, 1, l)
        BY <2>1
    <2>3. less \in Seq(Connected)
        BY <2>1, <2>2
    <2>4. Len(less) = l
        BY <2>1, <2>2
    <2>5. \A n \in 1 .. l : less[n] = ch[n]
        BY <2>1, <2>2
    <2> QED
        BY <2>1, <2>3, <2>4, <2>5
<1>3. \A n \in 0 .. Len(ch) - 1 : CoinsOf(less, n) = CoinsOf(ch, n)
    BY <1>1, <1>2 DEF CoinsOf
<1>4. TxsOf(less, Len(less)) = TxsOf(ch, Len(ch) - 1)
    BY <1>2 DEF TxsOf
<1>5. ASSUME NEW n \in 1 .. Len(less)
      PROVE  /\ Fits(CoinsOf(less, n - 1), n, less[n].txs)
             /\ less[n].coins = After(CoinsOf(less, n - 1), n, less[n].txs)
    <2>1. n \in 1 .. Len(ch) /\ n - 1 \in 0 .. Len(ch) - 1 /\ less[n] = ch[n]
        BY <1>1, <1>2
    <2> QED
        BY <1>3, <2>1 DEF Sound
<1>6. Len(less) \in 0 .. Len(ch) - 1
    BY <1>1, <1>2
<1> QED
    BY <1>2, <1>3, <1>4, <1>5, <1>6 DEF Sound

\* The coins and transactions of the main chain are those of its last block.
LEMMA ChainFacts ==
    ASSUME TypeOK, Sound(chain)
    PROVE  /\ chain \in Seq(Connected) /\ Len(chain) \in Nat
           /\ Coins = CoinsOf(chain, Len(chain)) /\ Confirmed = TxsOf(chain, Len(chain))
           /\ NextHeight = Len(chain) + 1
           /\ Coherent(Coins, Confirmed) /\ Confirmed \subseteq Tx
<1>1. chain \in Seq(Connected) /\ Len(chain) \in Nat
      /\ (chain = <<>> <=> Len(chain) = 0) /\ DOMAIN chain = 1 .. Len(chain)
    BY DEF TypeOK, Connected
<1>2. Coins = CoinsOf(chain, Len(chain))
    BY <1>1 DEF Coins, CoinsOf
<1>3. Confirmed = TxsOf(chain, Len(chain))
    <2>1. \A i \in 1 .. Len(chain) : SetOf(chain[i].txs) \subseteq Tx
        <3> TAKE i \in 1 .. Len(chain)
        <3>1. chain[i] \in Connected
            BY <1>1
        <3>2. chain[i].txs \in Seq(Tx)
            BY <3>1 DEF Connected
        <3> QED
            BY <3>2 DEF SetOf
    <2>2. Confirmed = UNION {SetOf(chain[i].txs) : i \in 1 .. Len(chain)}
        BY <1>1 DEF Confirmed, SetOf
    <2> QED
        BY <2>1, <2>2 DEF TxsOf
<1>4. Coherent(CoinsOf(chain, Len(chain)), TxsOf(chain, Len(chain)))
    BY <1>1, LevelsCoherent
<1> QED
    BY <1>1, <1>2, <1>3, <1>4 DEF TxsOf, NextHeight

LEMMA ValidFits == ASSUME NEW txs \in Seq(Tx), ValidBlock(txs) PROVE Fits(Coins, NextHeight, txs)
BY DEF ValidBlock, Fits, FinalAt, MatureAt

LEMMA ConnectAfter == ASSUME NEW txs PROVE ConnectCoins(txs) = After(Coins, NextHeight, txs)
BY DEF ConnectCoins, After, SetOf

\* The block on top, on the coins below it.
LEMMA TopFacts ==
    ASSUME TypeOK, Sound(chain), chain # <<>>,
           NEW txs, txs = chain[Len(chain)].txs,
           NEW below, below = CoinsOf(chain, Len(chain) - 1),
           NEW S, S = TxsOf(chain, Len(chain) - 1)
    PROVE  /\ txs \in Seq(Tx) /\ S \in SUBSET Tx
           /\ Fits(below, Len(chain), txs) /\ Coins = After(below, Len(chain), txs)
           /\ Coherent(below, S) /\ Confirmed = S \cup SetOf(txs) /\ SetOf(txs) \cap S = {}
<1>1. chain \in Seq(Connected) /\ Len(chain) \in Nat \ {0} /\ Len(chain) \in 1 .. Len(chain)
      /\ Len(chain) - 1 \in 0 .. Len(chain)
    BY DEF TypeOK, Connected
<1>2. txs \in Seq(Tx) /\ S \in SUBSET Tx
    BY TopType DEF TxsOf
<1>3. Fits(below, Len(chain), txs) /\ Coins = After(below, Len(chain), txs)
    BY <1>1 DEF Sound, Coins
<1>4. Coherent(below, S)
    BY <1>1, LevelsCoherent
<1>5. Confirmed = S \cup SetOf(txs)
    <2>1. SetOf(txs) \subseteq Tx
        BY <1>2 DEF SetOf
    <2>2. \A i \in Int : i \in 1 .. Len(chain) <=> i \in 1 .. Len(chain) - 1 \/ i = Len(chain)
        BY <1>1
    <2>3. Confirmed = TxsOf(chain, Len(chain))
        BY ChainFacts
    <2> QED
        BY <2>1, <2>2, <2>3 DEF TxsOf
<1> QED
    BY <1>2, <1>3, <1>4, <1>5, BlockFresh

------------------------------------------------------------------------------
(* What a handler has still to go through.                                 *)

IsRest(rest, txs) ==
    /\ Len(rest) <= Len(txs)
    /\ \A i \in 1 .. Len(rest) : rest[i] = txs[Len(txs) - Len(rest) + i]

Done(rest, txs) == {txs[i] : i \in 1 .. Len(txs) - Len(rest)}

LEMMA RestTurn ==
    ASSUME NEW txs \in Seq(Tx), NEW rest \in Seq(Tx), rest # <<>>, IsRest(rest, txs)
    PROVE  /\ IsRest(Tail(rest), txs) /\ Tail(rest) \in Seq(Tx)
           /\ SetOf(rest) = {Head(rest)} \cup SetOf(Tail(rest))
           /\ Done(Tail(rest), txs) = Done(rest, txs) \cup {Head(rest)}
           /\ \E i \in DOMAIN txs :
                 /\ Head(rest) = txs[i]
                 /\ Done(rest, txs) = {txs[k] : k \in 1 .. i - 1}
                 /\ SetOf(Tail(rest)) = {txs[k] : k \in i + 1 .. Len(txs)}
<1>1. PICK n \in Nat, m \in Nat : n = Len(rest) /\ m = Len(txs)
    OBVIOUS
<1>2. /\ n > 0 /\ n <= m /\ \A i \in 1 .. n : rest[i] = txs[m - n + i]
      /\ DOMAIN txs = 1 .. m /\ DOMAIN rest = 1 .. n
    BY <1>1 DEF IsRest
<1>3. /\ Tail(rest) \in Seq(Tx) /\ Len(Tail(rest)) = n - 1 /\ DOMAIN Tail(rest) = 1 .. n - 1
      /\ \A i \in 1 .. n - 1 : Tail(rest)[i] = rest[i + 1]
      /\ Head(rest) = rest[1]
    BY <1>1, <1>2
<1>4. IsRest(Tail(rest), txs)
    <2>1. ASSUME NEW i \in 1 .. n - 1 PROVE Tail(rest)[i] = txs[m - (n - 1) + i]
        <3>1. i + 1 \in 1 .. n /\ m - n + (i + 1) = m - (n - 1) + i
            BY <1>2
        <3> QED
            BY <1>2, <1>3, <3>1
    <2> QED
        BY <1>1, <1>2, <1>3, <2>1 DEF IsRest
<1>5. PICK i \in Nat : i = m - n + 1
    BY <1>2
<1>6. i \in 1 .. m /\ Head(rest) = txs[i]
    BY <1>2, <1>3, <1>5
<1>7. Done(rest, txs) = {txs[k] : k \in 1 .. i - 1}
    BY <1>1, <1>5 DEF Done
<1>8. SetOf(Tail(rest)) = {txs[k] : k \in i + 1 .. m}
    <2>1. ASSUME NEW k \in 1 .. n - 1 PROVE i + k \in i + 1 .. m /\ Tail(rest)[k] = txs[i + k]
        <3>1. k + 1 \in 1 .. n /\ m - n + (k + 1) = i + k
            BY <1>2, <1>5
        <3> QED
            BY <1>2, <1>3, <1>5, <3>1
    <2>2. ASSUME NEW k \in i + 1 .. m PROVE \E l \in 1 .. n - 1 : Tail(rest)[l] = txs[k]
        <3>1. k - i \in 1 .. n - 1 /\ i + (k - i) = k
            BY <1>5
        <3> QED
            BY <2>1, <3>1
    <2>3. SetOf(Tail(rest)) = {Tail(rest)[k] : k \in 1 .. n - 1}
        BY <1>3 DEF SetOf
    <2>4. ASSUME NEW x \in SetOf(Tail(rest)) PROVE x \in {txs[k] : k \in i + 1 .. m}
        <3>1. PICK k \in 1 .. n - 1 : x = Tail(rest)[k]
            BY <2>3
        <3> QED
            BY <2>1, <3>1
    <2>5. ASSUME NEW x \in {txs[k] : k \in i + 1 .. m} PROVE x \in SetOf(Tail(rest))
        <3>1. PICK k \in i + 1 .. m : x = txs[k]
            OBVIOUS
        <3> QED
            BY <2>2, <2>3, <3>1
    <2> QED
        BY <2>4, <2>5
<1>9. Done(Tail(rest), txs) = Done(rest, txs) \cup {Head(rest)}
    <2>1. \A k \in Int : k \in 1 .. m - (n - 1) <=> k \in 1 .. m - n \/ k = i
        BY <1>2, <1>5
    <2>2. Done(Tail(rest), txs) = {txs[k] : k \in 1 .. m - (n - 1)}
        BY <1>1, <1>3 DEF Done
    <2>3. Done(rest, txs) = {txs[k] : k \in 1 .. m - n}
        BY <1>1 DEF Done
    <2>4. i \in 1 .. m - (n - 1)
        BY <1>2, <1>5
    <2>5. ASSUME NEW x \in Done(Tail(rest), txs) PROVE x \in Done(rest, txs) \cup {Head(rest)}
        <3>1. PICK k \in 1 .. m - (n - 1) : x = txs[k]
            BY <2>2
        <3>2. k \in 1 .. m - n \/ k = i
            BY <1>2, <1>5
        <3> QED
            BY <1>6, <2>3, <3>1, <3>2
    <2>6. \A x \in Done(rest, txs) \cup {Head(rest)} : x \in Done(Tail(rest), txs)
        BY <1>6, <2>1, <2>2, <2>3, <2>4
    <2> QED
        BY <2>5, <2>6
<1>10. SetOf(rest) = {Head(rest)} \cup SetOf(Tail(rest))
    <2>1. ASSUME NEW k \in 1 .. n PROVE k = 1 \/ (k - 1 \in 1 .. n - 1 /\ Tail(rest)[k - 1] = rest[k])
        <3>1. CASE k = 1
            BY <3>1
        <3>2. CASE k # 1
            <4>1. k - 1 \in 1 .. n - 1 /\ (k - 1) + 1 = k
                BY <3>2
            <4> QED
                BY <1>3, <4>1
        <3> QED
            BY <3>1, <3>2
    <2>2. ASSUME NEW k \in 1 .. n - 1 PROVE k + 1 \in 1 .. n /\ Tail(rest)[k] = rest[k + 1]
        BY <1>3
    <2>3. 1 \in 1 .. n
        BY <1>2
    <2>4. SetOf(rest) = {rest[k] : k \in 1 .. n} /\ SetOf(Tail(rest)) = {Tail(rest)[k] : k \in 1 .. n - 1}
        BY <1>2, <1>3 DEF SetOf
    <2>5. ASSUME NEW x \in SetOf(rest) PROVE x \in {Head(rest)} \cup SetOf(Tail(rest))
        <3>1. PICK k \in 1 .. n : x = rest[k]
            BY <2>4
        <3> QED
            BY <1>3, <2>1, <2>4, <3>1
    <2>6. ASSUME NEW x \in {Head(rest)} \cup SetOf(Tail(rest)) PROVE x \in SetOf(rest)
        BY <1>3, <2>2, <2>3, <2>4
    <2> QED
        BY <2>5, <2>6
<1> QED
    BY <1>1, <1>2, <1>3, <1>4, <1>6, <1>7, <1>8, <1>9, <1>10

\* The turns of a handler begin with the whole block and end with none of it.
LEMMA WholeRest ==
    ASSUME NEW txs \in Seq(Tx)
    PROVE  IsRest(txs, txs) /\ Done(txs, txs) = {} /\ SetOf(<<>>) = {}
<1>1. Len(txs) \in Nat /\ \A i \in 1 .. Len(txs) : Len(txs) - Len(txs) + i = i
    OBVIOUS
<1> QED
    BY <1>1 DEF IsRest, Done, SetOf

------------------------------------------------------------------------------
(* The pool and the chain.                                                 *)

\* Every input of the pool exists, or is an output of others.
Joined(others) ==
    \A t \in pool : \A o \in Ins[t] : Coins[o] # Absent \/ \E s \in pool \cup others : o \in Outs[s]

Quiet == event = "none" => pool \cap Confirmed = {} /\ Joined({})

\* What the handler of a connected block has not come to may be in the pool, or spend what
\* the pool spends.
Connecting ==
    event = "connect" =>
        /\ chain # <<>> /\ IsRest(left, chain[Len(chain)].txs)
        /\ pool \cap Confirmed \subseteq SetOf(left)
        /\ \A t \in pool : \A o \in Ins[t] :
              \/ Coins[o] # Absent
              \/ \E s \in pool : o \in Outs[s]
              \/ \E u \in SetOf(left) : o \in Ins[u]

\* What the handler of a disconnected block has not come to would fit the chain with what it
\* has taken back, and nothing in the pool is in its way.
Disconnecting ==
    event = "disconnect" =>
        \E txs \in Seq(Tx) :
            /\ Fits(Coins, NextHeight, txs) /\ IsRest(left, txs) /\ Done(left, txs) \subseteq pool
            /\ pool \cap (Confirmed \cup SetOf(left)) = {} /\ Joined(SetOf(left))
            /\ \A t \in pool, u \in SetOf(left) : Ins[t] \cap Ins[u] = {}

IInv == Inv /\ Sound(chain) /\ Quiet /\ Connecting /\ Disconnecting

LEMMA IInvFacts ==
    ASSUME IInv
    PROVE  /\ TypeOK /\ InputsInSpents /\ Sound(chain) /\ pool \subseteq Tx
           /\ \A t \in Tx : Ins[t] \subseteq Out
           /\ Coherent(Coins, Confirmed) /\ Confirmed \subseteq Tx
BY ChainFacts, TxFacts DEF IInv, Inv, TypeOK

LEMMA InitRight == ASSUME Init PROVE IInv
<1>1. Inv /\ Sound(chain)
    BY InitInv DEF Init, Sound
<1> QED
    BY <1>1 DEF Init, IInv, Quiet, Connecting, Disconnecting, Joined

\* What is disconnected is taken back, as long as spents has nothing but what the pool spends.
LEMMA TakenBack == ASSUME IInv, SpentsMatch PROVE TakesBack
<1> SUFFICES ASSUME event = "disconnect", left # <<>> PROVE Accepts(Head(left))
    BY DEF TakesBack
<1>1. PICK txs \in Seq(Tx) :
        /\ Fits(Coins, NextHeight, txs) /\ IsRest(left, txs) /\ Done(left, txs) \subseteq pool
        /\ pool \cap (Confirmed \cup SetOf(left)) = {}
        /\ \A t \in pool, u \in SetOf(left) : Ins[t] \cap Ins[u] = {}
    BY DEF IInv, Disconnecting
<1>2. left \in Seq(Tx) /\ pool \subseteq Tx
    BY DEF IInv, Inv, TypeOK
<1>3. PICK i \in DOMAIN txs :
        Head(left) = txs[i] /\ Done(left, txs) = {txs[k] : k \in 1 .. i - 1}
    BY <1>1, <1>2, RestTurn
<1>4. PICK t \in Tx : t = Head(left)
    BY <1>2
<1>5. t \in SetOf(left)
    BY <1>1, <1>2, <1>4, RestTurn
<1>6. t \notin pool /\ \A o \in Ins[t] : \A s \in pool : o \notin Ins[s]
    BY <1>1, <1>5
<1>7. \A o \in Ins[t] : spents[o] = NoTx
    BY <1>4, <1>6, TxFacts DEF SpentsMatch
<1>8. \A o \in Ins[t] : Available(o)
    <2> TAKE o \in Ins[t]
    <2>1. Coins[o] # Absent \/ \E k \in 1 .. i - 1 : o \in Outs[txs[k]]
        BY <1>1, <1>3, <1>4 DEF Fits
    <2>2. Coins[o] # Absent \/ \E s \in pool : o \in Outs[s]
        BY <1>1, <1>3, <2>1
    <2> QED
        BY <1>7, <2>2 DEF Available
<1>9. /\ t \notin Bad /\ LockTime[t] < NextHeight
      /\ \A o \in Ins[t] \cap Coinbase : Coins[o] # Absent => NextHeight - Coins[o] >= Maturity
      /\ \A o \in Outs[t] : Coins[o] = Absent
    BY <1>1, <1>3, <1>4 DEF Fits
<1> QED
    BY <1>4, <1>6, <1>7, <1>8, <1>9 DEF Accepts, FinalAt, VerifyAt, MatureAt, IsDoubleSpend

\* A transaction that is accepted is not in the main chain: what it spends would be spent.
LEMMA AcceptedIsNew ==
    ASSUME IInv, event = "none", NEW t \in Tx, Accepts(t)
    PROVE  t \notin Confirmed
<1> SUFFICES ASSUME t \in Confirmed PROVE FALSE
    OBVIOUS
<1>1. Coherent(Coins, Confirmed) /\ Confirmed \subseteq Tx /\ pool \subseteq Tx /\ pool \cap Confirmed = {}
    BY IInvFacts DEF IInv, Quiet
<1>2. PICK o \in Ins[t] : o \in Out
    BY TxFacts
<1>3. Coins[o] = Absent /\ (o \in Base \/ \E r \in Confirmed : o \in Outs[r])
    BY <1>1, <1>2 DEF Coherent
<1>4. PICK s \in pool : o \in Outs[s]
    BY <1>2, <1>3 DEF Accepts, Available
<1> QED
    BY <1>1, <1>3, <1>4, TxFacts

LEMMA AddTxRight ==
    ASSUME IInv, NEW t \in Tx, AddTx(t)
    PROVE  Sound(chain') /\ Quiet' /\ Connecting' /\ Disconnecting'
<1>1. event = "none" /\ event' = "none" /\ chain' = chain /\ Accepts(t) /\ pool' = pool \cup {t}
    BY DEF AddTx, Insert
<1>2. Coins' = Coins /\ Confirmed' = Confirmed
    BY <1>1 DEF Coins, Confirmed
<1>3. pool \cap Confirmed = {} /\ Joined({})
    BY <1>1 DEF IInv, Quiet
<1>4. pool' \cap Confirmed = {}
    BY <1>1, <1>3, AcceptedIsNew
<1>5. \A o \in Ins[t] : Coins[o] # Absent \/ \E s \in pool : o \in Outs[s]
    BY <1>1 DEF Accepts, Available
<1>6. \A s \in pool' : \A o \in Ins[s] : Coins[o] # Absent \/ \E r \in pool' : o \in Outs[r]
    BY <1>1, <1>3, <1>5 DEF Joined
<1>7. Quiet'
    BY <1>2, <1>4, <1>6 DEF Quiet, Joined
<1> QED
    BY <1>1, <1>7 DEF IInv, Connecting, Disconnecting

LEMMA ConnectRight ==
    ASSUME IInv, NEW txs \in Bodies, Connect(txs)
    PROVE  Sound(chain') /\ Quiet' /\ Connecting' /\ Disconnecting'
<1>0. txs \in Seq(Tx) /\ TypeOK /\ Sound(chain) /\ IInv
    BY IInvFacts DEF Bodies
<1>1. /\ event = "none" /\ pool' = pool /\ ValidBlock(txs)
      /\ chain' = Append(chain, [txs |-> txs, coins |-> ConnectCoins(txs)])
      /\ event' = IF pool = {} THEN "none" ELSE "connect"
      /\ pool # {} => left' = txs
    BY DEF Connect
<1>2. /\ chain \in Seq(Connected) /\ Len(chain) \in Nat
      /\ Coins = CoinsOf(chain, Len(chain)) /\ NextHeight = Len(chain) + 1
    BY <1>0, ChainFacts
<1>3. Fits(Coins, NextHeight, txs) /\ ConnectCoins(txs) = After(Coins, NextHeight, txs)
    BY <1>0, <1>1, ValidFits, ConnectAfter
<1>4. Sound(chain')
    BY <1>0, <1>1, <1>2, <1>3, Extended
<1>5. Coins' = After(Coins, NextHeight, txs)
    <2>1. chain' # <<>> /\ chain'[Len(chain')].coins = ConnectCoins(txs)
        BY <1>1, <1>2
    <2> QED
        BY <1>3, <2>1 DEF Coins
<1>6. chain' # <<>> /\ chain'[Len(chain')].txs = txs
    BY <1>1, <1>2
<1>7. Confirmed' = Confirmed \cup SetOf(txs)
    <2>1. PICK n \in Nat : n = Len(chain)
        BY <1>2
    <2>2. /\ DOMAIN chain = 1 .. n /\ DOMAIN chain' = 1 .. n + 1
          /\ \A i \in 1 .. n : chain'[i] = chain[i]
          /\ chain'[n + 1].txs = txs
        BY <1>1, <1>2, <2>1
    <2>3. Confirmed = UNION {SetOf(chain[i].txs) : i \in 1 .. n}
        BY <2>2 DEF Confirmed, SetOf
    <2>4. Confirmed' = UNION {SetOf(chain'[i].txs) : i \in 1 .. n + 1}
        BY <2>2 DEF Confirmed, SetOf
    <2>5. \A i \in Int : i \in 1 .. n + 1 <=> i \in 1 .. n \/ i = n + 1
        OBVIOUS
    <2> QED
        BY <2>2, <2>3, <2>4, <2>5
<1>8. CASE pool = {}
    BY <1>1, <1>4, <1>8 DEF Quiet, Connecting, Disconnecting, Joined
<1>9. CASE pool # {}
    <2>1. event' = "connect" /\ left' = txs
        BY <1>1, <1>9
    <2>2. pool' \cap Confirmed' \subseteq SetOf(txs)
        BY <1>1, <1>7 DEF IInv, Quiet
    <2>3. ASSUME NEW t \in pool, NEW o \in Ins[t]
          PROVE  \/ Coins'[o] # Absent
                 \/ \E s \in pool : o \in Outs[s]
                 \/ \E u \in SetOf(txs) : o \in Ins[u]
        <3>1. Coins[o] # Absent \/ \E s \in pool : o \in Outs[s]
            BY <1>1 DEF IInv, Quiet, Joined
        <3>2. o \in Out
            BY <1>0, IInvFacts
        <3>3. NextHeight # Absent
            BY <1>2 DEF Absent
        <3> QED
            BY <1>5, <3>1, <3>2, <3>3 DEF After
    <2>4. Connecting'
        BY <1>0, <1>1, <1>6, <2>1, <2>2, <2>3, WholeRest DEF Connecting
    <2> QED
        BY <1>4, <2>1, <2>4 DEF Quiet, Disconnecting
<1> QED
    BY <1>8, <1>9

\* An output of a transaction of the block on top that is spent is spent by a later one.
LEMMA SpentLater ==
    ASSUME IInv, event = "connect", left # <<>>,
           NEW t, t = Head(left), NEW o \in Outs[t], Coins[o] = Absent
    PROVE  \E u \in SetOf(Tail(left)) : o \in Ins[u]
<1>1. TypeOK /\ Sound(chain) /\ chain # <<>> /\ left \in Seq(Tx)
      /\ Coherent(Coins, Confirmed) /\ Confirmed \subseteq Tx
    BY IInvFacts DEF IInv, Connecting, TypeOK
<1>2. PICK txs, below, S :
        /\ txs = chain[Len(chain)].txs
        /\ below = CoinsOf(chain, Len(chain) - 1)
        /\ S = TxsOf(chain, Len(chain) - 1)
    OBVIOUS
<1>3. /\ txs \in Seq(Tx) /\ S \in SUBSET Tx /\ Fits(below, Len(chain), txs) /\ Coherent(below, S)
      /\ Confirmed = S \cup SetOf(txs) /\ SetOf(txs) \cap S = {}
    BY <1>1, <1>2, TopFacts
<1>4. PICK i \in DOMAIN txs : t = txs[i] /\ SetOf(Tail(left)) = {txs[k] : k \in i + 1 .. Len(txs)}
    BY <1>1, <1>2, <1>3, RestTurn DEF IInv, Connecting
<1>5. t \in SetOf(txs) /\ t \in Tx /\ o \in Out /\ DOMAIN txs = 1 .. Len(txs) /\ Len(txs) \in Nat
    BY <1>3, <1>4, TxFacts DEF SetOf
<1>6. PICK u \in Confirmed : o \in Ins[u]
    BY <1>1, <1>3, <1>5 DEF Coherent
<1>7. u \notin S
    <2> SUFFICES ASSUME u \in S PROVE FALSE
        OBVIOUS
    <2>1. o \in Base \/ \E r \in S : o \in Outs[r]
        BY <1>3, <1>6 DEF Coherent
    <2> QED
        BY <1>3, <1>5, <2>1, TxFacts
<1>8. PICK m \in DOMAIN txs : u = txs[m]
    BY <1>3, <1>6, <1>7 DEF SetOf
<1>9. below[o] = Absent
    BY <1>3, <1>4 DEF Fits
<1>10. PICK k \in 1 .. m - 1 : o \in Outs[txs[k]]
    BY <1>3, <1>6, <1>8, <1>9 DEF Fits
<1>11. k \in DOMAIN txs /\ txs[k] \in Tx
    BY <1>3, <1>5, <1>8, <1>10
<1>12. txs[k] = txs[i]
    BY <1>4, <1>5, <1>10, <1>11, TxFacts
<1>13. k = i
    <2>1. ~ (k < i)
        BY <1>3, <1>4, <1>5, <1>11, <1>12 DEF Fits
    <2>2. ~ (i < k)
        BY <1>3, <1>4, <1>5, <1>11, <1>12 DEF Fits
    <2> QED
        BY <1>4, <1>5, <1>11, <2>1, <2>2
<1>14. m \in i + 1 .. Len(txs)
    BY <1>5, <1>8, <1>10, <1>13
<1> QED
    BY <1>4, <1>6, <1>8, <1>14

LEMMA AddBlockTxRight ==
    ASSUME IInv, AddBlockTx
    PROVE  Sound(chain') /\ Quiet' /\ Connecting' /\ Disconnecting'
<1>1. event = "connect" /\ event' = "connect" /\ left # <<>> /\ left' = Tail(left) /\ chain' = chain
    BY DEF AddBlockTx
<1>2. PICK t, gone :
        /\ t = Head(left) /\ gone = (IF InPool(t) THEN {} ELSE DoubleSpends(t))
        /\ pool' = IF InPool(t) THEN DropConfirmed(t) ELSE pool \ gone
    BY DEF AddBlockTx
<1>3. /\ TypeOK /\ InputsInSpents /\ Sound(chain) /\ pool \subseteq Tx /\ left \in Seq(Tx) /\ t \in Tx
      /\ chain # <<>> /\ IsRest(left, chain[Len(chain)].txs) /\ chain[Len(chain)].txs \in Seq(Tx)
    BY <1>1, <1>2, IInvFacts, TopType DEF IInv, Connecting, TypeOK
<1>4. SetOf(left) = {t} \cup SetOf(Tail(left)) /\ IsRest(Tail(left), chain[Len(chain)].txs)
    BY <1>1, <1>2, <1>3, RestTurn
<1>5. Coins' = Coins /\ Confirmed' = Confirmed
    BY <1>1 DEF Coins, Confirmed
<1>6. t \notin pool' /\ pool' \subseteq pool
    BY <1>2 DEF InPool, DropConfirmed
<1>7. pool' \cap Confirmed \subseteq SetOf(Tail(left))
    BY <1>1, <1>4, <1>6 DEF IInv, Connecting
<1>8. ASSUME NEW r \in pool', NEW o \in Ins[r]
      PROVE  \/ Coins[o] # Absent
             \/ \E s \in pool' : o \in Outs[s]
             \/ \E u \in SetOf(Tail(left)) : o \in Ins[u]
    <2>1. \/ Coins[o] # Absent
          \/ \E s \in pool : o \in Outs[s]
          \/ \E u \in SetOf(left) : o \in Ins[u]
        BY <1>1, <1>6 DEF IInv, Connecting
    <2>2. r \in pool /\ spents[o] = r
        BY <1>3, <1>6 DEF InputsInSpents
    <2>3. CASE InPool(t)
        <3>1. pool' = pool \ {t} /\ t \in pool
            BY <1>2, <2>3 DEF InPool, DropConfirmed
        <3>2. o \notin Ins[t]
            BY <1>3, <1>6, <2>2, <3>1 DEF InputsInSpents
        <3>3. ASSUME o \in Outs[t], Coins[o] = Absent
              PROVE  \E u \in SetOf(Tail(left)) : o \in Ins[u]
            BY <1>1, <1>2, <3>3, SpentLater
        <3> QED
            BY <1>4, <2>1, <3>1, <3>2, <3>3
    <2>4. CASE ~ InPool(t)
        <3>1. gone = DoubleSpends(t) /\ pool' = pool \ gone /\ r \in pool \ DoubleSpends(t)
            BY <1>2, <2>4
        <3>2. o \notin Freed(t, DoubleSpends(t))
            BY <1>3, <3>1, KeptInputs DEF Inv
        <3>3. o \notin Ins[t] /\ \A s \in gone : o \notin Outs[s]
            BY <3>1, <3>2 DEF Freed
        <3> QED
            BY <1>4, <2>1, <3>1, <3>3
    <2> QED
        BY <2>3, <2>4
<1>9. Connecting'
    BY <1>1, <1>3, <1>4, <1>5, <1>7, <1>8 DEF Connecting
<1> QED
    BY <1>1, <1>3, <1>9 DEF Quiet, Disconnecting

LEMMA DisconnectRight ==
    ASSUME IInv, Disconnect
    PROVE  Sound(chain') /\ Quiet' /\ Connecting' /\ Disconnecting'
<1>1. /\ event = "none" /\ chain # <<>> /\ chain' = SubSeq(chain, 1, Len(chain) - 1) /\ pool' = pool
      /\ event' = IF pool = {} THEN "none" ELSE "disconnect"
      /\ pool # {} => left' = chain[Len(chain)].txs
    BY DEF Disconnect
<1>2. /\ TypeOK /\ Sound(chain) /\ pool \subseteq Tx /\ pool \cap Confirmed = {} /\ Joined({})
      /\ Coherent(Coins, Confirmed) /\ TypeOK'
    BY <1>1, IInvFacts, DisconnectInv DEF IInv, Inv, Quiet
<1>3. PICK txs, below, S :
        /\ txs = chain[Len(chain)].txs
        /\ below = CoinsOf(chain, Len(chain) - 1)
        /\ S = TxsOf(chain, Len(chain) - 1)
    OBVIOUS
<1>4. /\ txs \in Seq(Tx) /\ Fits(below, Len(chain), txs) /\ Coins = After(below, Len(chain), txs)
      /\ Confirmed = S \cup SetOf(txs) /\ SetOf(txs) \cap S = {} /\ SetOf(txs) \subseteq Tx
    BY <1>1, <1>2, <1>3, TopFacts DEF SetOf
<1>5. chain \in Seq(Connected) /\ Len(chain) \in Nat
    BY <1>2 DEF TypeOK, Connected
<1>6. /\ chain' \in Seq(Connected) /\ Len(chain') = Len(chain) - 1 /\ Sound(chain')
      /\ CoinsOf(chain', Len(chain')) = below /\ TxsOf(chain', Len(chain')) = S
    BY <1>1, <1>2, <1>3, <1>5, Shortened
<1>7. Coins' = below /\ NextHeight' = Len(chain)
    <2>1. Len(chain') \in Nat /\ (chain' = <<>> <=> Len(chain') = 0)
        BY <1>6
    <2> QED
        BY <1>5, <1>6, <2>1 DEF Coins, CoinsOf, NextHeight
<1>8. Confirmed' = S
    <2>1. DOMAIN chain' = 1 .. Len(chain')
        BY <1>6
    <2>2. Confirmed' = UNION {SetOf(chain'[i].txs) : i \in 1 .. Len(chain')}
        BY <2>1 DEF Confirmed, SetOf
    <2>3. \A i \in 1 .. Len(chain') : SetOf(chain'[i].txs) \subseteq Tx
        <3> TAKE i \in 1 .. Len(chain')
        <3>1. chain'[i] \in Connected
            BY <1>6
        <3>2. chain'[i].txs \in Seq(Tx)
            BY <3>1 DEF Connected
        <3> QED
            BY <3>2 DEF SetOf
    <2> QED
        BY <1>6, <2>2, <2>3 DEF TxsOf
<1>9. CASE pool = {}
    BY <1>1, <1>6, <1>9 DEF Quiet, Connecting, Disconnecting, Joined
<1>10. CASE pool # {}
    <2>1. event' = "disconnect" /\ left' = txs
        BY <1>1, <1>3, <1>10
    <2>2. IsRest(txs, txs) /\ Done(txs, txs) \subseteq pool
        BY <1>4, WholeRest
    <2>3. pool \cap (S \cup SetOf(txs)) = {}
        BY <1>2, <1>4
    <2>4. ASSUME NEW t \in pool, NEW o \in Ins[t]
          PROVE  below[o] # Absent \/ \E s \in pool \cup SetOf(txs) : o \in Outs[s]
        <3>1. Coins[o] # Absent \/ \E s \in pool : o \in Outs[s]
            BY <1>2 DEF Joined
        <3>2. o \in Out
            BY <1>2, IInvFacts
        <3> QED
            BY <1>4, <3>1, <3>2 DEF After
    <2>5. ASSUME NEW t \in pool, NEW u \in SetOf(txs) PROVE Ins[t] \cap Ins[u] = {}
        <3> SUFFICES ASSUME NEW o \in Ins[t], o \in Ins[u] PROVE FALSE
            OBVIOUS
        <3>1. o \in Out /\ u \in Confirmed /\ Confirmed \subseteq Tx
            BY <1>2, <1>4, IInvFacts
        <3>2. Coins[o] = Absent /\ (o \in Base \/ \E r \in Confirmed : o \in Outs[r])
            BY <1>2, <3>1 DEF Coherent
        <3>3. PICK s \in pool : o \in Outs[s]
            BY <1>2, <3>2 DEF Joined
        <3> QED
            BY <1>2, <3>1, <3>2, <3>3, TxFacts
    <2>6. \E b \in Seq(Tx) :
            /\ Fits(Coins', NextHeight', b) /\ IsRest(left', b) /\ Done(left', b) \subseteq pool'
            /\ pool' \cap (Confirmed' \cup SetOf(left')) = {}
            /\ \A t \in pool' : \A o \in Ins[t] :
                  Coins'[o] # Absent \/ \E s \in pool' \cup SetOf(left') : o \in Outs[s]
            /\ \A t \in pool', u \in SetOf(left') : Ins[t] \cap Ins[u] = {}
        BY <1>1, <1>4, <1>7, <1>8, <2>1, <2>2, <2>3, <2>4, <2>5
    <2>7. Disconnecting'
        BY <2>6 DEF Disconnecting, Joined
    <2> QED
        BY <1>6, <2>1, <2>7 DEF Quiet, Connecting
<1> QED
    BY <1>9, <1>10

LEMMA RemoveBlockTxRight ==
    ASSUME IInv, SpentsMatch, RemoveBlockTx
    PROVE  Sound(chain') /\ Quiet' /\ Connecting' /\ Disconnecting'
<1>1. /\ event = "disconnect" /\ event' = "disconnect" /\ left # <<>> /\ left' = Tail(left)
      /\ chain' = chain
    BY DEF RemoveBlockTx
<1>2. TypeOK /\ Sound(chain) /\ pool \subseteq Tx /\ left \in Seq(Tx)
    BY IInvFacts DEF TypeOK
<1>3. PICK txs \in Seq(Tx) :
        /\ Fits(Coins, NextHeight, txs) /\ IsRest(left, txs) /\ Done(left, txs) \subseteq pool
        /\ pool \cap (Confirmed \cup SetOf(left)) = {} /\ Joined(SetOf(left))
        /\ \A s \in pool, u \in SetOf(left) : Ins[s] \cap Ins[u] = {}
    BY <1>1 DEF IInv, Disconnecting
<1>4. PICK t \in Tx : t = Head(left)
    BY <1>1, <1>2
<1>5. /\ IsRest(Tail(left), txs) /\ SetOf(left) = {t} \cup SetOf(Tail(left))
      /\ Done(Tail(left), txs) = Done(left, txs) \cup {t}
    BY <1>1, <1>2, <1>3, <1>4, RestTurn
<1>6. PICK i \in DOMAIN txs : t = txs[i] /\ SetOf(Tail(left)) = {txs[k] : k \in i + 1 .. Len(txs)}
    BY <1>1, <1>2, <1>3, <1>4, RestTurn
<1>7. ASSUME NEW u \in SetOf(Tail(left)) PROVE u # t /\ Ins[t] \cap Ins[u] = {}
    <2>1. PICK k \in i + 1 .. Len(txs) : u = txs[k]
        BY <1>6
    <2>2. k \in DOMAIN txs /\ i \in 1 .. k - 1
        BY <1>6, <2>1
    <2> QED
        BY <1>3, <1>6, <2>1, <2>2 DEF Fits
<1>8. Accepts(t) /\ pool' = pool \cup {t}
    <2>1. Accepts(t)
        BY <1>1, <1>3, <1>4, <1>5, TakenBack DEF TakesBack
    <2> QED
        BY <1>4, <2>1 DEF RemoveBlockTx, Insert
<1>9. Coins' = Coins /\ Confirmed' = Confirmed /\ NextHeight' = NextHeight
    BY <1>1 DEF Coins, Confirmed, NextHeight
<1>10. t \notin Confirmed
    <2>1. Coherent(Coins, Confirmed) /\ Confirmed \in SUBSET Tx
        BY IInvFacts
    <2>2. SetOf(txs) \cap Confirmed = {}
        BY <1>3, <2>1, BlockFresh
    <2> QED
        BY <1>6, <2>2 DEF SetOf
<1>11. pool' \cap (Confirmed \cup SetOf(Tail(left))) = {}
    BY <1>3, <1>5, <1>7, <1>8, <1>10
<1>12. ASSUME NEW s \in pool', NEW o \in Ins[s]
       PROVE  Coins[o] # Absent \/ \E r \in pool' \cup SetOf(Tail(left)) : o \in Outs[r]
    <2>1. CASE s = t
        BY <1>8, <2>1 DEF Accepts, Available
    <2>2. CASE s \in pool
        BY <1>3, <1>5, <1>8, <2>2 DEF Joined
    <2> QED
        BY <1>8, <2>1, <2>2
<1>13. \A s \in pool', u \in SetOf(Tail(left)) : Ins[s] \cap Ins[u] = {}
    BY <1>3, <1>5, <1>7, <1>8
<1>14. Disconnecting'
    BY <1>1, <1>3, <1>5, <1>8, <1>9, <1>11, <1>12, <1>13 DEF Disconnecting, Joined
<1> QED
    BY <1>1, <1>2, <1>14 DEF Quiet, Connecting

LEMMA HandledRight ==
    ASSUME IInv, Handled
    PROVE  Sound(chain') /\ Quiet' /\ Connecting' /\ Disconnecting'
<1>1. event # "none" /\ left = <<>> /\ event' = "none" /\ chain' = chain /\ pool' = pool
    BY DEF Handled
<1>2. event \in {"connect", "disconnect"} /\ Sound(chain) /\ SetOf(left) = {}
    BY <1>1 DEF IInv, Inv, TypeOK, SetOf
<1>3. pool \cap Confirmed = {}
    BY <1>2 DEF IInv, Connecting, Disconnecting
<1>4. Joined({})
    <2>1. CASE event = "connect"
        BY <1>2, <2>1 DEF IInv, Connecting, Joined
    <2>2. CASE event = "disconnect"
        BY <1>2, <2>2 DEF IInv, Disconnecting, Joined
    <2> QED
        BY <1>2, <2>1, <2>2
<1>5. Coins' = Coins /\ Confirmed' = Confirmed
    BY <1>1 DEF Coins, Confirmed
<1>6. Quiet'
    BY <1>1, <1>3, <1>4, <1>5 DEF Quiet, Joined
<1> QED
    BY <1>1, <1>2, <1>6 DEF Connecting, Disconnecting

LEMMA StepRight == ASSUME IInv, SpentsMatch, [Next]_vars PROVE IInv'
<1>1. Inv'
    BY StepInv DEF IInv
<1>2. CASE UNCHANGED vars
    <2>1. chain' = chain /\ pool' = pool /\ event' = event /\ left' = left
        BY <1>2 DEF vars
    <2>2. Coins' = Coins /\ Confirmed' = Confirmed /\ NextHeight' = NextHeight
        BY <2>1 DEF Coins, Confirmed, NextHeight
    <2> QED
        BY <1>1, <2>1, <2>2 DEF IInv, Quiet, Connecting, Disconnecting, Joined
<1>3. CASE Next
    <2>1. Sound(chain') /\ Quiet' /\ Connecting' /\ Disconnecting'
        BY <1>3, AddTxRight, ConnectRight, AddBlockTxRight, DisconnectRight, RemoveBlockTxRight,
           HandledRight DEF Next
    <2> QED
        BY <1>1, <2>1 DEF IInv
<1> QED
    BY <1>2, <1>3

------------------------------------------------------------------------------
(* Theorems.                                                               *)

\* Types, and every input of the pool is in spents under the transaction that
\* spends it, after any sequence of relayed transactions and blocks.
THEOREM PoolInvariance == Spec => []Inv
<1>1. Init => Inv
    BY InitInv
<1>2. Inv /\ [Next]_vars => Inv'
    BY StepInv
<1> QED
    BY <1>1, <1>2, PTL DEF Spec

\* Type correctness of the pool.
THEOREM PoolTypeCorrect == Spec => []TypeOK
<1>1. Inv => TypeOK
    BY DEF Inv
<1> QED
    BY <1>1, PoolInvariance, PTL

\* is_double_spend sees every output that the pool spends.
THEOREM SpentsComplete == Spec => []InputsInSpents
<1>1. Inv => InputsInSpents
    BY DEF Inv
<1> QED
    BY <1>1, PoolInvariance, PTL

\* No two transactions of the pool spend the same output.
NoConflicts == \A s, t \in pool : s # t => Ins[s] \cap Ins[t] = {}

\* The pool never conflicts with itself, whatever blocks come and go.
THEOREM PoolWithoutConflicts == Spec => []NoConflicts
<1>1. Inv => NoConflicts
    BY DEF Inv, InputsInSpents, NoConflicts
<1> QED
    BY <1>1, PoolInvariance, PTL

\* A transaction leaves the pool only with a block that has it, or with one that spends
\* otherwise what it, or one it depends on, spends.
THEOREM LeavesOnlyForCause == Spec => LeavesForCause
<1> DEFINE Step ==
        \A t \in pool \ pool' :
            \/ t \in Confirmed
            \/ \A D \in SUBSET pool : Conflicting \subseteq D /\ WithSpenders(D) => t \in D
<1>1. Causes /\ [Next]_vars => [Step]_vars
    <2>1. SUFFICES ASSUME Causes, Next, NEW s \in pool \ pool'
                   PROVE  \/ s \in Confirmed
                          \/ \A D \in SUBSET pool :
                                Conflicting \subseteq D /\ WithSpenders(D) => s \in D
        OBVIOUS
    <2>2. AddBlockTx
        BY <2>1 DEF Next, AddTx, Insert, Connect, Disconnect, RemoveBlockTx, Handled
    <2> DEFINE t == Head(left)
    <2>3. t \in Tx /\ t \in Confirmed
        <3>1. left \in Seq(Tx) /\ left # <<>> /\ event = "connect"
            BY <2>1, <2>2 DEF AddBlockTx, Causes, Inv, TypeOK
        <3>2. 1 \in 1 .. Len(left) /\ t = left[1]
            BY <3>1
        <3> QED
            BY <2>1, <3>1, <3>2 DEF Causes, LeftConfirmed
    <2>4. CASE InPool(t)
        <3>1. pool' = pool \ {t}
            BY <2>2, <2>4 DEF AddBlockTx, DropConfirmed
        <3> QED
            BY <2>1, <2>3, <3>1
    <2>5. CASE ~InPool(t)
        <3>1. pool' = pool \ DoubleSpends(t) /\ t \notin pool
            BY <2>2, <2>5 DEF AddBlockTx, InPool
        <3>2. s \in DoubleSpends(t)
            BY <2>1, <3>1
        <3> QED
            BY <2>1, <2>3, <3>1, <3>2, DoubleSpendsDepend
    <2> QED
        BY <2>4, <2>5
<1>2. Spec => []Causes
    BY InitCauses, StepCauses, PTL DEF Spec
<1>3. Spec => [][Step]_vars
    BY <1>1, <1>2, PTL DEF Spec
<1> QED
    BY <1>3 DEF LeavesForCause

\* As long as spents names nothing but transactions of the pool, which ends with the first
\* double spend that is removed and had another input, the pool is in order: between two
\* calls nothing in it is confirmed and everything it spends exists, through any
\* reorganisation.
THEOREM OrphansNeedStaleEntries == Spec /\ []SpentsMatch => []NoOrphans
<1>1. Init => IInv
    BY InitRight
<1>2. IInv /\ SpentsMatch /\ [Next]_vars => IInv'
    BY StepRight
<1>3. IInv => NoOrphans
    BY DEF IInv, Quiet, Joined, NoOrphans
<1> QED
    BY <1>1, <1>2, <1>3, PTL DEF Spec

\* So long remove_block also takes back every transaction of the block, in its order, if it
\* takes back any.
THEOREM LossesNeedStaleEntries == Spec /\ []SpentsMatch => []TakesBack
<1>1. Init => IInv
    BY InitRight
<1>2. IInv /\ SpentsMatch /\ [Next]_vars => IInv'
    BY StepRight
<1>3. IInv /\ SpentsMatch => TakesBack
    BY TakenBack
<1> QED
    BY <1>1, <1>2, <1>3, PTL DEF Spec

\* remove_double_spends (mod.rs:318) is the only place where an entry of spents goes stale:
\* a step breaks the match of the two maps if and only if it removes a double spend with an
\* input that is left, for any transactions, blocks and reorganisations.
THEOREM EntriesGoStale ==
    Spec => [][SpentsMatch => (SpentsMatch' <=> ~InputsLeft)]_vars
<1> DEFINE Step == SpentsMatch => (SpentsMatch' <=> ~InputsLeft)
<1>1. Causes /\ [Next]_vars => [Step]_vars
    BY StepMatch, StepStale
<1>2. Spec => []Causes
    BY InitCauses, StepCauses, PTL DEF Spec
<1> QED
    BY <1>1, <1>2, PTL DEF Spec
=============================================================================
