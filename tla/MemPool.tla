------------------------------- MODULE MemPool -------------------------------
(***************************************************************************)
(* The MemPool of src/src/mempool/mod.rs, a listener of the chain: it      *)
(* takes relayed transactions, gives up those a connected block confirms   *)
(* or conflicts with, and takes back those of a disconnected block.        *)
(*                                                                         *)
(* The chain is what Ledger promises: one valid block is connected or the  *)
(* last one disconnected at a time.  A relayed transaction can come after  *)
(* any of these steps, also in the middle of a reorganisation, because a   *)
(* reorganisation that fails releases the locks where it stands.  While a  *)
(* block is handled both locks are held; the handler is one step for each  *)
(* transaction of its loop.                                                *)
(***************************************************************************)
EXTENDS Integers, Sequences, FiniteSets

CONSTANTS
    Tx,         \* transactions, coinbases left out
    NoTx,       \* None
    Out,        \* outpoints
    Ins,        \* the outpoints a transaction spends
    Outs,       \* the outpoints it creates
    Base,       \* outpoints that are unspent below the first block
    Coinbase,   \* those of them that a coinbase created
    Maturity,   \* consensus::COINBASE_MATURITY
    LockTime,   \* the last height at which a transaction is not final
    Bad,        \* transactions with a bad script or amount
    MaxHeight,  \* bound: blocks above the base
    MaxTxs      \* bound: transactions in a block

ASSUME MemPoolAssumption ==
    /\ NoTx \notin Tx
    /\ Ins \in [Tx -> SUBSET Out]
    /\ Outs \in [Tx -> SUBSET Out]
    /\ \A t \in Tx : Ins[t] # {} /\ Outs[t] \cap (Base \cup Ins[t]) = {}
    /\ \A s, t \in Tx : s # t => Outs[s] \cap Outs[t] = {}
    /\ Base \subseteq Out
    /\ Coinbase \subseteq Base
    /\ Maturity \in Nat
    /\ LockTime \in [Tx -> Nat]
    /\ Bad \subseteq Tx
    /\ {MaxHeight, MaxTxs} \subseteq Nat

VARIABLES
    chain,   \* the blocks above the base: their transactions, and the coins after each
    pool,    \* MemPool.transactions
    spents,  \* MemPool.spents, NoTx for an outpoint without an entry
    event,   \* the block the chain notifies the pool of
    left     \* transactions of that block the handler has not come to

vars == <<chain, pool, spents, event, left>>

Absent == -1

CoinMaps == [Out -> {Absent} \cup 0 .. MaxHeight]

TypeOK ==
    /\ chain \in Seq([txs : Seq(Tx), coins : CoinMaps])
    /\ pool \subseteq Tx
    /\ spents \in [Out -> Tx \cup {NoTx}]
    /\ event \in {"none", "connect", "disconnect"}
    /\ left \in Seq(Tx)

------------------------------------------------------------------------------
(* The chain.                                                              *)

BaseCoins == [o \in Out |-> IF o \in Base THEN 0 ELSE Absent]

\* COL_COIN: where each outpoint was created, if it is unspent.
Coins == IF chain = <<>> THEN BaseCoins ELSE chain[Len(chain)].coins

\* Broken variant: one block too far.
AfterNextHeight == Len(chain) + 2

\* The height of the next block.
NextHeight == Len(chain) + 1

\* What Chain::verify_context and verify_final ask of a transaction whose inputs
\* are the unspent coins.
MatureAt(t, height) ==
    \A o \in Ins[t] \cap Coinbase : Coins[o] # Absent => height - Coins[o] >= Maturity

FinalAt(t, height) == LockTime[t] < height

\* Blocks that can be connected: their transactions spend coins, or outputs of
\* earlier ones, once.
ValidBlock(txs) ==
    \A i \in DOMAIN txs :
        LET t       == txs[i]
            earlier == {txs[j] : j \in 1 .. i - 1}
        IN /\ t \notin earlier \cup Bad
           /\ FinalAt(t, NextHeight)
           /\ MatureAt(t, NextHeight)
           /\ \A o \in Outs[t] : Coins[o] = Absent
           /\ \A o \in Ins[t] :
                 /\ Coins[o] # Absent \/ \E s \in earlier : o \in Outs[s]
                 /\ \A s \in earlier : o \notin Ins[s]

\* The coins after a block is connected.
ConnectCoins(txs) ==
    LET spent   == UNION {Ins[txs[i]] : i \in DOMAIN txs}
        created == UNION {Outs[txs[i]] : i \in DOMAIN txs}
    IN [o \in Out |-> IF o \in spent THEN Absent
                      ELSE IF o \in created THEN NextHeight
                      ELSE Coins[o]]

\* The transactions of the main chain.
Confirmed == UNION {{chain[i].txs[j] : j \in DOMAIN chain[i].txs} : i \in DOMAIN chain}

------------------------------------------------------------------------------
(* Taking a transaction in.                                                *)

\* is_double_spend.
IsDoubleSpend(t) == \E o \in Ins[t] : spents[o] # NoTx

\* get_coin_view finds an input in the pool if its transaction is there, and
\* otherwise among the coins.
Available(o) ==
    IF \E s \in pool : o \in Outs[s] THEN spents[o] = NoTx ELSE Coins[o] # Absent

\* Broken variant: the transaction is verified for the block that is there.
VerifyAtTip == Len(chain)

\* MemPool::verify and verify_final judge it for the next block.
VerifyAt == NextHeight

\* add_tx: the conditions under which a transaction is taken.
Accepts(t) ==
    /\ FinalAt(t, VerifyAt)
    /\ t \notin pool
    /\ \A o \in Outs[t] : Coins[o] = Absent
    /\ ~IsDoubleSpend(t)
    /\ \A o \in Ins[t] : Available(o)
    /\ MatureAt(t, VerifyAt)
    /\ t \notin Bad

\* ... and its effect.
Insert(t) ==
    /\ pool' = pool \cup {t}
    /\ spents' = [o \in Out |-> IF o \in Ins[t] THEN t ELSE spents[o]]

\* A relayed transaction: AddEvent::AddTransaction.
AddTx(t) ==
    /\ event = "none"
    /\ Accepts(t)
    /\ Insert(t)
    /\ UNCHANGED <<chain, event, left>>

------------------------------------------------------------------------------
(* A block is connected.                                                   *)

\* Chain::connect notifies the pool, which has nothing to do if it is empty.
Connect(txs) ==
    /\ event = "none"
    /\ Len(chain) < MaxHeight
    /\ ValidBlock(txs)
    /\ chain' = Append(chain, [txs |-> txs, coins |-> ConnectCoins(txs)])
    /\ IF pool = {} THEN UNCHANGED <<event, left>>
       ELSE event' = "connect" /\ left' = txs
    /\ UNCHANGED <<pool, spents>>

\* The transactions of the pool that spents names for some outpoints.
Spenders(outs) == {spents[o] : o \in outs} \cap pool

\* Broken variant: the spenders of their outputs stay.
DirectConflicts(t) == Spenders(Ins[t])

\* remove_double_spends and remove_spenders: the spenders of the inputs of t, the
\* spenders of their outputs, and so on.
DoubleSpends(t) ==
    LET Closed(S) == Spenders(Ins[t]) \subseteq S /\ \A s \in S : Spenders(Outs[s]) \subseteq S
    IN {d \in pool : \A S \in SUBSET pool : Closed(S) => d \in S}

\* Broken variant: only the inputs of the transaction itself are freed.
FreedInputs(t, gone) == Ins[t]

\* Broken variant: its outputs are freed too, although they may be spent in the pool.
FreedWithOutputs(t, gone) == Ins[t] \cup Outs[t] \cup UNION {Outs[s] : s \in gone}

\* The outpoints whose entries in spents go with them.
Freed(t, gone) == Ins[t] \cup UNION {Outs[s] : s \in gone}

\* Broken variant: a confirmed transaction conflicts with itself.
NeverInPool(t) == FALSE

InPool(t) == t \in pool

\* The pool without a transaction that has been confirmed.
DropConfirmed(t) == pool \ {t}

\* One turn of the loop of add_block.
AddBlockTx ==
    /\ event = "connect"
    /\ left # <<>>
    /\ LET t    == Head(left)
           gone == IF InPool(t) THEN {} ELSE DoubleSpends(t)
       IN /\ pool' = IF InPool(t) THEN DropConfirmed(t) ELSE pool \ gone
          /\ spents' = [o \in Out |-> IF o \in Freed(t, gone) THEN NoTx ELSE spents[o]]
    /\ left' = Tail(left)
    /\ UNCHANGED <<chain, event>>

------------------------------------------------------------------------------
(* A block is disconnected.                                                *)

\* Chain::disconnect notifies the pool, which takes nothing back if it is empty.
Disconnect ==
    /\ event = "none"
    /\ chain # <<>>
    /\ chain' = SubSeq(chain, 1, Len(chain) - 1)
    /\ IF pool = {} THEN UNCHANGED <<event, left>>
       ELSE event' = "disconnect" /\ left' = chain[Len(chain)].txs
    /\ UNCHANGED <<pool, spents>>

\* One turn of the loop of remove_block.
RemoveBlockTx ==
    /\ event = "disconnect"
    /\ left # <<>>
    /\ IF Accepts(Head(left)) THEN Insert(Head(left)) ELSE UNCHANGED <<pool, spents>>
    /\ left' = Tail(left)
    /\ UNCHANGED <<chain, event>>

\* The handler returns and the locks are released.
Handled ==
    /\ event # "none"
    /\ left = <<>>
    /\ event' = "none"
    /\ UNCHANGED <<chain, pool, spents, left>>

------------------------------------------------------------------------------

Init ==
    /\ chain = <<>>
    /\ pool = {}
    /\ spents = [o \in Out |-> NoTx]
    /\ event = "none"
    /\ left = <<>>

\* The contents of blocks.
Bodies == UNION {[1 .. n -> Tx] : n \in 0 .. MaxTxs}

Next ==
    \/ \E t \in Tx : AddTx(t)
    \/ \E txs \in Bodies : Connect(txs)
    \/ AddBlockTx
    \/ Disconnect
    \/ RemoveBlockTx
    \/ Handled

Spec == Init /\ [][Next]_vars

------------------------------------------------------------------------------
(* Properties.                                                             *)

\* What add_tx relies on to refuse conflicts: the pool's own inputs are all in
\* spents, under the transaction that spends them.  So no two transactions of the
\* pool spend the same output.
InputsInSpents == \A t \in pool : \A o \in Ins[t] : spents[o] = t

\* "map of outpoint to the txid of the transaction that spent that output"
\* (mempool/mod.rs:67): an entry names a transaction of the pool which spends
\* the outpoint.  Any other entry makes add_tx refuse good transactions as
\* double spends.
SpentsMatch == \A o \in Out : spents[o] # NoTx => spents[o] \in pool /\ o \in Ins[spents[o]]

\* Between two calls, no transaction of the pool is in the main chain, and every input
\* of one exists: on the chain, unspent, or as the output of another in the pool.
NoOrphans ==
    event = "none" =>
        /\ pool \cap Confirmed = {}
        /\ \A t \in pool : \A o \in Ins[t] :
              Coins[o] # Absent \/ \E s \in pool : o \in Outs[s]

\* A block that is disconnected gives back what it took: each of its transactions,
\* in order, is acceptable to a pool that holds anything at all.
TakesBack ==
    event = "disconnect" /\ left # <<>> => Head(left) \in pool \/ Accepts(Head(left))

\* With its transactions the set has all of the pool that spend their outputs.
WithSpenders(D) == \A s \in D : \A u \in pool : Ins[u] \cap Outs[s] # {} => u \in D

\* The transactions of the pool that spend an output the main chain has spent otherwise.
Conflicting == {s \in pool : \E c \in Confirmed \ {s} : Ins[s] \cap Ins[c] # {}}

\* A transaction leaves the pool only if the main chain has it, or if it, or one it
\* depends on, spends an output that the main chain has spent otherwise.
LeavesForCause ==
    [][\A t \in pool \ pool' :
          \/ t \in Confirmed
          \/ \A D \in SUBSET pool : Conflicting \subseteq D /\ WithSpenders(D) => t \in D]_vars
==============================================================================
