------------------------------- MODULE MCChain -------------------------------
(***************************************************************************)
(* Instances of Chain.  The tree:                                          *)
(*                                                                         *)
(*   g -- p -- a1 -- a2                                                    *)
(*         |-- b1 -- b2 -- b3                                              *)
(*         \-- e1 -- e2                                                    *)
(*                                                                         *)
(* p pays out c and d, a1 and b2 contain the same transaction (c is spent, *)
(* x created) at different heights, and b1 spends d.  b3 spends w, the     *)
(* coinbase of b2, so a run with Maturity = 2 has it fail.  The e branch   *)
(* carries no transactions: a run may declare its blocks bad.              *)
(***************************************************************************)
EXTENDS Chain

CONSTANTS g, p, a1, a2, b1, b2, b3, e1, e2, none, c, d, x, y, cb, w

MCBlock == {g, p, a1, a2, b1, b2, b3, e1, e2}

MCPrev ==
    [b \in MCBlock |->
        CASE b \in {g, p} -> g
          [] b \in {a1, b1, e1} -> p
          [] b = a2 -> a1
          [] b = b2 -> b1
          [] b = b3 -> b2
          [] b = e2 -> e1]

\* Every block carries the same proof of work.
Depth[b \in MCBlock] == IF b = g THEN 0 ELSE Depth[MCPrev[b]] + 1

MCCoin == {c, d, x, y, cb, w}

MCCreates ==
    [b \in MCBlock |->
        CASE b = p -> {c, d}
          [] b = a1 -> {x}
          [] b = b2 -> {x, w}
          [] b = b1 -> {y}
          [] b = a2 -> {cb}
          [] OTHER -> {}]

\* The top of the first branch spends nothing: it is a coinbase and no more.
MCSpends ==
    [b \in MCBlock |->
        CASE b \in {a1, b2} -> {c}
          [] b = b1 -> {d}
          [] b = b3 -> {x, w}
          [] OTHER -> {}]

\* As MCSpends, but every block above p spends something.
MCSpendsAll == [MCSpends EXCEPT ![a2] = {x}]

\* The replay of a chain, from the definition of ConnectCoins.
MCUtxo[b \in MCBlock] ==
    IF b = g THEN NoCoins ELSE ConnectCoins(b, MCUtxo[MCPrev[b]])
==============================================================================
