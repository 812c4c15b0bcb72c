------------------------------- MODULE MCPeer -------------------------------
(* Constants for LWPeer: two transactions, one of them the wallet's own, and two blocks that list *)
(* both of them, or one.                                                                          *)
EXTENDS LWPeer, TLC

CONSTANTS own, their, full, half

MCTx == {own, their}
MCBlock == {full, half}
MCMatched == full :> {own, their} @@ half :> {their}
=============================================================================
