----------------------------- MODULE MCMemPool -----------------------------
(***************************************************************************)
(* An instance of MemPool.  a and x spend the same output, d and j outputs *)
(* of a, j one of d as well, and y one of x; m spends a coinbase.          *)
(* Whatever conflicts with the chain first spends one output only.         *)
(***************************************************************************)
EXTENDS MemPool

CONSTANTS a, x, d, j, y, m, none

Outpoints == {"o", "p", "r", "a1", "a2", "x1", "d1"}

MCTx == {a, x, d, j, y, m}

MCIns ==
    [t \in MCTx |->
        CASE t \in {a, x} -> {"o"}
          [] t = d -> {"a1"}
          [] t = j -> {"a2", "d1"}
          [] t = y -> {"x1"}
          [] t = m -> {"r"}]

MCOuts ==
    [t \in MCTx |->
        CASE t = a -> {"a1", "a2"}
          [] t = x -> {"x1"}
          [] t = d -> {"d1"}
          [] OTHER -> {}]

\* d may not be in the first block.
MCLocks == [t \in MCTx |-> IF t = d THEN 1 ELSE 0]
=============================================================================
