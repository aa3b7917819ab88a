--------------------------- MODULE MCPeerManager ---------------------------
(***************************************************************************)
(* Instances of PeerManager.                                               *)
(***************************************************************************)
EXTENDS PeerManager

CONSTANTS p1, p2, nobody

\* Nothing is wrong with any block.
Flawless == {[b \in Blocks |-> "none"]}

\* Only the block at one height has the flaw.
OneBad(height, f) == [b \in Blocks |-> IF b = height THEN f ELSE "none"]

\* One of three blocks is bad, each in its own way; the first is on disk already, the
\* second has to be fetched.
OneFlaw ==
    {OneBad(1, "inputs"), OneBad(2, "inputs"), OneBad(2, "body"), OneBad(3, "panic")}
=============================================================================
