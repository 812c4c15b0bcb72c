---------------------------- MODULE LWBestChain ----------------------------
(***************************************************************************)
(* What the wallet is promised about the block chain: there is one tip at  *)
(* a time, it is only ever given up for a higher block, and a transaction  *)
(* has a height exactly when the tip's chain has the block it is in.       *)
(***************************************************************************)
EXTENDS LWBlockTree

CONSTANTS Tx, TxIn, Unconfirmed, Start

VARIABLES tip, txHeight

\* the heights a chain that ends in b gives to the transactions
Confirmations(b) ==
  [t \in Tx |->
     IF \E a \in Chain[b] : Height[a] > Height[Start] /\ t \in TxIn[a]
     THEN Height[CHOOSE a \in Chain[b] : Height[a] > Height[Start] /\ t \in TxIn[a]]
     ELSE Unconfirmed]

Init == tip = Start /\ txHeight = Confirmations(Start)

\* A block whose chain contains Start becomes the tip.
Adopt(b) ==
  /\ Height[b] > Height[tip]
  /\ Start \in Chain[b]
  /\ tip' = b
  /\ txHeight' = Confirmations(b)

Next == \E b \in Block : Adopt(b)

Spec == Init /\ [][Next]_<<tip, txHeight>>
=============================================================================
