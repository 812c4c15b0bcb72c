------------------------------ MODULE MCWallet ------------------------------
(***************************************************************************)
(* Transactions for LWWallet.  In each of the sets every one differs in    *)
(* what the runs are about:                                                *)
(*   rcv    pays 4, and 1, to the first receive address                    *)
(*   spend  spends the 4, with 3 to the first change address               *)
(*   again  spends the same output, all of it to somebody else             *)
(*   child  spends the change and the 1, with 2 to the next address        *)
(*   other  pays 1 to the second receive address                           *)
(*   alien  spends an output of nobody the wallet knows and pays to nobody *)
(*   bump   pays 3 to the first change address, and can be replaced        *)
(*   late   is as child, of bump and of coin                               *)
(***************************************************************************)
EXTENDS LWWallet, TLC

CONSTANTS rcv, spend, again, child, other, alien, bump, late, coin

Pays(chain, i, amount) == [addr |-> <<chain, i>>, amount |-> amount]
PaysAway(amount) == [addr |-> Elsewhere, amount |-> amount]
Out(t, n) == [hash |-> t, n |-> n]

AllOutputs ==
  rcv :> <<Pays(External, 0, 4), Pays(External, 0, 1)>> @@
  spend :> <<Pays(Internal, 0, 3), PaysAway(1)>> @@
  again :> <<PaysAway(4)>> @@
  child :> <<Pays(External, 1, 2)>> @@
  other :> <<Pays(External, 1, 1)>> @@
  alien :> <<PaysAway(1)>> @@
  bump :> <<Pays(Internal, 0, 3), PaysAway(1)>> @@
  late :> <<Pays(External, 1, 2)>>

AllInputs ==
  rcv :> {Out(coin, 1)} @@ spend :> {Out(rcv, 1)} @@ again :> {Out(rcv, 1)} @@
  child :> {Out(spend, 1), Out(rcv, 2)} @@ other :> {Out(coin, 2)} @@ alien :> {Out(coin, 3)} @@
  bump :> {Out(coin, 4)} @@ late :> {Out(bump, 1), Out(coin, 5)}

DoubleSpend == {rcv, spend, again, child}
ReceivedAndSpent == {rcv, spend}
ReceivedAndGone == {rcv, again}
Replaceable == {bump, late, alien}
Either == DoubleSpend \cup Replaceable

MCOutputs == [t \in Tx |-> AllOutputs[t]]
MCInputs == [t \in Tx |-> AllInputs[t]]
MCChains == {Internal, External}
MCGapLimit == Internal :> 1 @@ External :> 2
SpendLocked == [t \in Tx |-> IF t = spend THEN 50 ELSE 0]
NoLocks == [t \in Tx |-> 0]

\* the network knows the transactions of one of the two sets
Apart == \E S \in {DoubleSpend, Replaceable} : allTx \cup Mined \subseteq S
SpecApart == Init /\ [][Next /\ Apart']_vars
=============================================================================
