------------------------------ MODULE MCFilter ------------------------------
(* Constants for LWFilter: payments to the first addresses, two of them in one block, and one   *)
(* that spends an output and pays nothing to the wallet.                                        *)
EXTENDS LWFilter, TLC

CONSTANTS first, second, third, fourth, sweep

MCTx == {first, second, third, fourth, sweep}
MCPays == first :> {0} @@ second :> {1} @@ third :> {2} @@ fourth :> {3} @@ sweep :> {}
MCSpends == [t \in MCTx |-> IF t = sweep THEN {second} ELSE {}]
MCChain == << <<first, second>>, <<third>>, <<>>, <<sweep, fourth>>, <<>> >>
MCTipChain == << <<first>>, <<>>, <<second, third>>, <<fourth>>, <<sweep>> >>

\* The chains are such as the theorem on PaymentsKept takes.
ASSUME ChainsOrdinary == GapKept /\ Ordinary /\ KeepsAnnounced
=============================================================================
