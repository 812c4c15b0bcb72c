---------------------------- MODULE MCBlockChain ----------------------------
(***************************************************************************)
(* Trees for LWBlockChain.  With an interval of 3 the long one has a trunk *)
(* of nine blocks and a branch off the third that is ahead for a while: a  *)
(* thread that holds b5 back finds the trunk freed at its height.          *)
(*                                                                         *)
(*   g - a1 - a2 - a3 - a4 - a5 - a6 - a7 - a8 - a9                        *)
(*                  \                                                      *)
(*                   b4 - b5                                               *)
(*                                                                         *)
(* In the others b5 - b6 is a branch off a4 and c2 - c3 one off a1.        *)
(***************************************************************************)
EXTENDS LWBlockChain, TLC

CONSTANTS g, a1, a2, a3, a4, a5, a6, a7, a8, a9, b4, b5, b6, c2, c3, t1, t2, t3

AllParents ==
  a1 :> g @@ a2 :> a1 @@ a3 :> a2 @@ a4 :> a3 @@ a5 :> a4 @@ a6 :> a5 @@ a7 :> a6 @@
  a8 :> a7 @@ a9 :> a8 @@ b4 :> a3 @@ b5 :> (IF b4 \in Block THEN b4 ELSE a4) @@
  b6 :> b5 @@ c2 :> a1 @@ c3 :> c2

AllHeights ==
  g :> 0 @@ a1 :> 1 @@ a2 :> 2 @@ a3 :> 3 @@ a4 :> 4 @@ a5 :> 5 @@ a6 :> 6 @@ a7 :> 7 @@
  a8 :> 8 @@ a9 :> 9 @@ b4 :> 4 @@ b5 :> 5 @@ b6 :> 6 @@ c2 :> 2 @@ c3 :> 3

\* the long tree; shorter trunks with one fork or two
LongTree == {g, a1, a2, a3, a4, a5, a6, a7, a8, a9, b4, b5}
EarlyFork == {g, a1, a2, a3, a4, c2, c3}
BothForks == {g, a1, a2, a3, a4, a5, b5, b6, c2, c3}

MCParent == [b \in Block \ {g} |-> AllParents[b]]
MCHeight == [b \in Block |-> AllHeights[b]]

\* t1 is below the forks, t2 on one branch only, t3 on both at different heights
MCTx == {t1, t2, t3}
MCTxIn ==
  [b \in Block |->
     CASE b = a1 -> {t1}
       [] b = a2 /\ a5 \notin Block -> {t2, t3}
       [] b = a5 -> IF b4 \in Block THEN {t3} ELSE {t2, t3}
       [] b = b5 /\ b4 \in Block -> {t2}
       [] b \in {b4, b6, c3} -> {t3}
       [] OTHER -> {}]
=============================================================================
