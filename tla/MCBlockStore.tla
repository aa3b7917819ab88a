----------------------------- MODULE MCBlockStore -----------------------------
(***************************************************************************)
(* An instance of BlockStore: three blocks, of which two fit in a file     *)
(* with a cell to spare and one more needs a file of its own.              *)
(***************************************************************************)
EXTENDS BlockStore

CONSTANTS short, middle, long

MCHash == {short, middle, long}

MCSize == [h \in MCHash |-> CASE h = short -> 3 [] h = middle -> 4 [] h = long -> 5]
==============================================================================
