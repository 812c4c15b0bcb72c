------------------------------- MODULE MCSync -------------------------------
(* Constants for LWSync: two addresses. *)
EXTENDS LWSync, TLC
CONSTANTS a, b
MCPeer == {a, b}
MCReported == a :> {1} @@ b :> {2}
=============================================================================
