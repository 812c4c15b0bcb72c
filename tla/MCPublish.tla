----------------------------- MODULE MCPublish -----------------------------
(* Constants for LWPublish: a payment, and one that spends its change. *)
EXTENDS LWPublish, TLC
CONSTANTS pay, child, a, x, y
MCTx == {pay, child}
MCPeer == {a}
MCCall == {x, y}
OnePayment == {pay}
MCParents == [t \in Tx |-> IF t = child THEN {pay} ELSE {}]
MCSubject == x :> pay @@ y :> child
MCCopies == pay :> 2 @@ child :> 1
=============================================================================
