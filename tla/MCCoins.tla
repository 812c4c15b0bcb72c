------------------------------ MODULE MCCoins ------------------------------
(* Coins of 300.07: what remains of them is never a multiple of 100.       *)
EXTENDS LWCoins

MCAsked == {<<[amount |-> 80000, scriptLen |-> 25]>>}
MCFilters == {<<34000, 60000>>, <<60000, 34000, 60000>>}
=============================================================================
