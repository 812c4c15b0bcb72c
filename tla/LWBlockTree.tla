---------------------------- MODULE LWBlockTree ----------------------------
(***************************************************************************)
(* The block headers the network has ever produced, as the tree they form. *)
(* A header names its parent (prevBlock), so nothing about the tree        *)
(* changes while the wallet runs: it is a constant, and the modules about  *)
(* the chain manager only decide which part of it the wallet holds.        *)
(***************************************************************************)
EXTENDS Integers

CONSTANTS
  Block,       \* the blocks, each one standing for its blockHash
  Genesis,     \* the block at height 0
  Parent,      \* [Block \ {Genesis} -> Block], the prevBlock of each block
  Height,      \* [Block -> Nat], the distance from the genesis block
  Interval     \* BLOCK_DIFFICULTY_INTERVAL

ASSUME TreeAssumption ==
  /\ Genesis \in Block
  /\ Parent \in [Block \ {Genesis} -> Block]
  /\ Height \in [Block -> Nat]
  /\ Height[Genesis] = 0
  /\ \A b \in Block \ {Genesis} : Height[b] = Height[Parent[b]] + 1

\* With an interval of one block every block is a transition, the walk back to
\* the previous transition is one step and nothing is ever pruned.
ASSUME IntervalAssumption == Interval \in Nat /\ Interval >= 2

-----------------------------------------------------------------------------
ParentClosed(S) == \A b \in S \ {Genesis} : Parent[b] \in S

\* Chain[b]: b and all its ancestors, the least set that holds b and is closed
\* under prevBlock.  Stated as an intersection so that facts about the walks
\* along prevBlock follow from set theory alone.
Chain == [b \in Block |->
            {a \in Block : \A S \in SUBSET Block :
                              (b \in S /\ ParentClosed(S)) => a \in S}]

\* (height % BLOCK_DIFFICULTY_INTERVAL) == 0
Transition(h) == h % Interval = 0

\* The last common block of two chains, and the height it has.
JoinHeight(b, c) ==
  CHOOSE h \in {Height[a] : a \in Chain[b] \cap Chain[c]} :
    \A a \in Chain[b] \cap Chain[c] : Height[a] <= h
=============================================================================
