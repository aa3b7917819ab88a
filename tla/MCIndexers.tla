------------------------------ MODULE MCIndexers ------------------------------
(***************************************************************************)
(* The tree of MCChain with transactions and addresses: a1 and b2 contain  *)
(* the same transaction at different heights and places, the branches have *)
(* transactions of their own for the same address, and one transaction has *)
(* no address at all.                                                      *)
(***************************************************************************)
EXTENDS MCChain, Indexers

CONSTANTS tp, shared, ta, tb, tw, t3, none1, addr1, addr2

MCTxs ==
    [blk \in MCBlock |->
        CASE blk = p -> <<tp>>
          [] blk = a1 -> <<shared>>
          [] blk = a2 -> <<ta>>
          [] blk = b1 -> <<none1, tb>>
          [] blk = b2 -> <<tw, shared>>
          [] blk = b3 -> <<t3>>
          [] OTHER -> <<>>]

MCAddress == {addr1, addr2}

MCAddressesOf ==
    [t \in {tp, shared, ta, tb, tw, t3, none1} |->
        CASE t = shared -> {addr1, addr2}
          [] t \in {tp, ta, tb} -> {addr1}
          [] t \in {tw, t3} -> {addr2}
          [] OTHER -> {}]

\* The bad block fails by its body, the others pass.
ASSUME NothingFails == NoBlockFails
==============================================================================
