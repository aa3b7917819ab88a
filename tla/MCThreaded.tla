----------------------------- MODULE MCThreaded -----------------------------
(***************************************************************************)
(* Two connections and a chain of two blocks.  Windows of one block, full  *)
(* messages of two headers and one incomplete compact block a peer.        *)
(***************************************************************************)
EXTENDS Threaded, TLC

CONSTANTS p1, p2, m, t

Symmetry == Permutations(Peer)

==============================================================================
