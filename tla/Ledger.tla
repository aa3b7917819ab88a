------------------------------- MODULE Ledger -------------------------------
(***************************************************************************)
(* What the chain promises to whoever reads it (the mempool, the indexers, *)
(* the wallet behind them): at every moment, across crashes and in the     *)
(* middle of a reorganisation, the durable tip and the durable coins agree, *)
(* and they move by one verified block at a time, forwards or backwards.   *)
(***************************************************************************)
EXTENDS BlockTree

VARIABLES
    active,   \* the block the durable state stands on
    ledger    \* the durable coins

ledgerVars == <<active, ledger>>

LedgerInit ==
    /\ active = Genesis
    /\ ledger = NoCoins

\* A verified child of the active block is connected.
Extend(b) ==
    /\ b # Genesis
    /\ Prev[b] = active
    /\ Acceptable(b, ledger)
    /\ active' = b
    /\ ledger' = ConnectCoins(b, ledger)

\* The active block is undone: the coins are those its parent had left.
Retract ==
    /\ active # Genesis
    /\ active' = Prev[active]
    /\ ledger' = Utxo[Prev[active]]

LedgerNext == Retract \/ \E b \in Block : Extend(b)

LedgerSpec == LedgerInit /\ [][LedgerNext]_ledgerVars
==============================================================================
