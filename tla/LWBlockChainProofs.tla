------------------------- MODULE LWBlockChainProofs -------------------------
(***************************************************************************)
(* Safety of the chain manager over any number of restarts, for every      *)
(* tree, interval, set of checkpoints and set of peers, as long as the     *)
(* user asks for no rescan (which breaks it: see the README).              *)
(***************************************************************************)
EXTENDS LWBlockChain, LWIntegers, FiniteSetTheorems

-----------------------------------------------------------------------------
(* Facts about chains and about heights that are difficulty transitions, for *)
(* any tree and any interval.                                                *)

\* A chain holds its end, lies in the tree and is closed under prevBlock.
LEMMA ChainClosed ==
  ASSUME NEW b \in Block
  PROVE  b \in Chain[b] /\ Chain[b] \subseteq Block /\ ParentClosed(Chain[b])
<1>1. b \in Chain[b] /\ Chain[b] \subseteq Block
  BY DEF Chain
<1>2. ASSUME NEW a \in Chain[b] \ {Genesis}
      PROVE  Parent[a] \in Chain[b]
  <2>1. a \in Block \ {Genesis} /\ Parent[a] \in Block
    BY <1>1, TreeAssumption
  <2>2. ASSUME NEW S \in SUBSET Block, b \in S, ParentClosed(S)
        PROVE  Parent[a] \in S
    <3>1. a \in S
      BY <2>2 DEF Chain
    <3> QED BY <3>1, <2>1, <2>2 DEF ParentClosed
  <2> QED BY <2>1, <2>2 DEF Chain
<1> QED BY <1>1, <1>2 DEF ParentClosed

\* It is the least such set.
LEMMA ChainLeast ==
  ASSUME NEW b \in Block, NEW S \in SUBSET Block, b \in S, ParentClosed(S)
  PROVE  Chain[b] \subseteq S
BY DEF Chain

\* Whatever else is on a chain is on the chain of its parent.
LEMMA ChainStep ==
  ASSUME NEW b \in Block \ {Genesis}, NEW a \in Chain[b], a # b
  PROVE  a \in Chain[Parent[b]]
<1>1. Parent[b] \in Block
  BY TreeAssumption
<1> DEFINE S == {b} \cup Chain[Parent[b]]
<1>2. S \subseteq Block /\ b \in S
  BY <1>1, ChainClosed
<1>3. ParentClosed(S)
  <2>1. Parent[b] \in S
    BY <1>1, ChainClosed
  <2>2. ASSUME NEW c \in Chain[Parent[b]] \ {Genesis}
        PROVE  Parent[c] \in S
    BY <1>1, ChainClosed DEF ParentClosed
  <2> QED BY <2>1, <2>2 DEF ParentClosed
<1>4. Chain[b] \subseteq S
  BY <1>2, <1>3, ChainLeast
<1> QED BY <1>4

\* A block is higher than every other block of its chain.
LEMMA ChainHeight ==
  ASSUME NEW b \in Block, NEW a \in Chain[b]
  PROVE  Height[a] <= Height[b] /\ (a # b => Height[a] < Height[b])
<1> DEFINE S == {c \in Block : Height[c] <= Height[b] /\ (c # b => Height[c] < Height[b])}
<1>1. b \in S
  BY TreeAssumption
<1>2. ParentClosed(S)
  <2>1. ASSUME NEW c \in S \ {Genesis}
        PROVE  Parent[c] \in S
    <3>1. /\ Parent[c] \in Block
          /\ Height[c] = Height[Parent[c]] + 1
          /\ Height[c] \in Nat /\ Height[Parent[c]] \in Nat /\ Height[b] \in Nat
      BY TreeAssumption
    <3>2. Height[Parent[c]] < Height[b]
      BY <3>1, <2>1
    <3> QED BY <3>1, <3>2
  <2> QED BY <2>1 DEF ParentClosed
<1>3. Chain[b] \subseteq S
  BY <1>1, <1>2, ChainLeast
<1> QED BY <1>3

\* Between a transition and the one before it there is no other.
LEMMA TransitionsApart ==
  ASSUME NEW h \in Nat, NEW k \in Nat, Transition(h), Transition(k), k < h
  PROVE  k <= h - Interval
<1> DEFINE q == h \div Interval
           r == k \div Interval
<1>1. Interval \in Nat /\ Interval >= 2
  BY IntervalAssumption
<1>2. h = Interval * q /\ q \in Nat
  BY <1>1, DivisionFacts, SMT DEF Transition
<1>3. k = Interval * r /\ r \in Nat
  BY <1>1, DivisionFacts, SMT DEF Transition
<1> HIDE DEF q, r
<1>4. r < q
  <2>1. CASE q = r
    BY <2>1, <1>2, <1>3, SMT
  <2>2. CASE q < r
    <3>1. Interval * q + Interval <= Interval * r
      BY <2>2, <1>1, <1>2, <1>3, MultiplesApart
    <3> QED BY <3>1, <1>1, <1>2, <1>3, SMT
  <2> QED BY <2>1, <2>2, <1>2, <1>3, SMT
<1>5. Interval * r + Interval <= Interval * q
  BY <1>1, <1>2, <1>3, <1>4, MultiplesApart
<1> QED BY <1>1, <1>2, <1>3, <1>5, SMT

\* One interval below a transition there is another.
LEMMA PreviousTransition ==
  ASSUME NEW h \in Nat, h >= Interval, Transition(h)
  PROVE  h - Interval \in Nat /\ Transition(h - Interval)
<1> DEFINE q == h \div Interval
           m == h - Interval
           r == m \div Interval
           rest == m % Interval
<1>1. Interval \in Nat /\ Interval >= 2
  BY IntervalAssumption
<1>2. h = Interval * q /\ q \in Nat
  BY <1>1, DivisionFacts, SMT DEF Transition
<1>3. m \in Nat /\ m = Interval * q - Interval
  BY <1>1, <1>2, SMT
<1> HIDE DEF m
<1>4. m = Interval * r + rest /\ r \in Nat /\ rest \in 0 .. (Interval - 1)
  BY <1>1, <1>3, DivisionFacts
<1> HIDE DEF q, r
<1>5. Interval * (q - 1) = Interval * q - Interval
  BY <1>1, <1>2, SMT
<1>6. rest = 0
  <2>1. CASE r < q - 1
    <3>1. Interval * r + Interval <= Interval * (q - 1)
      BY <2>1, <1>1, <1>2, <1>4, MultiplesApart
    <3> HIDE DEF rest
    <3> QED BY <3>1, <1>1, <1>2, <1>3, <1>4, <1>5, SMT
  <2>2. CASE q - 1 < r
    <3>1. Interval * (q - 1) + Interval <= Interval * r
      BY <2>2, <1>1, <1>2, <1>4, MultiplesApart
    <3> HIDE DEF rest
    <3> QED BY <3>1, <1>1, <1>2, <1>3, <1>4, <1>5, SMT
  <2>3. CASE r = q - 1
    <3> HIDE DEF rest
    <3> QED BY <2>3, <1>1, <1>2, <1>3, <1>4, <1>5, SMT
  <2> QED BY <2>1, <2>2, <2>3, <1>2, <1>4, SMT
<1> QED BY <1>3, <1>6 DEF Transition, m

-----------------------------------------------------------------------------
\* The heights of a block and of its parent.
LEMMA HeightFacts ==
  ASSUME NEW b \in Block
  PROVE  /\ Height[b] \in Nat
         /\ b # Genesis => /\ Parent[b] \in Block /\ Height[Parent[b]] \in Nat
                           /\ Height[b] = Height[Parent[b]] + 1
BY TreeAssumption

\* A block whose parent is held is at most one above the tip when it is at a
\* transition: only checkpoints are higher, and no two transitions follow each
\* other.
LEMMA LinkedHeight ==
  ASSUME TypeOK, TallestIsLast, NEW b \in Block \ {Genesis}, Parent[b] \in blocks,
         Transition(Height[b])
  PROVE  Height[b] <= Height[lastBlock] + 1
<1>1. CASE Parent[b] \in Checkpoint
  <2>1. Transition(Height[Parent[b]])
    BY <1>1, CheckpointAssumption
  <2>2. Height[Parent[b]] <= Height[b] - Interval
    BY <2>1, HeightFacts, TransitionsApart
  <2> QED BY <2>2, HeightFacts, IntervalAssumption
<1>2. CASE Parent[b] \notin Checkpoint
  BY <1>2, HeightFacts DEF TallestIsLast, TypeOK
<1> QED BY <1>1, <1>2

\* What verification frees is more than an interval below the block verified.
LEMMA PrunedFacts ==
  ASSUME NEW b \in Block \ {Genesis}, NEW a \in Pruned(b)
  PROVE  /\ Transition(Height[b])
         /\ Height[a] < Height[b] - Interval
         /\ a \in Block
<1> QED BY ChainClosed DEF Pruned

\* Neither the tip nor the parent of the block verified is freed.
LEMMA KeptFacts ==
  ASSUME IInv, NEW b \in Block \ {Genesis}, Parent[b] \in blocks
  PROVE  lastBlock \in Kept(b) /\ Parent[b] \in Kept(b) /\ Kept(b) \subseteq blocks
<1>1. ASSUME lastBlock \in Pruned(b) PROVE FALSE
  <2>1. Transition(Height[b]) /\ Height[lastBlock] < Height[b] - Interval
    BY <1>1, PrunedFacts
  <2>2. Height[b] <= Height[lastBlock] + 1
    BY <2>1, LinkedHeight DEF IInv
  <2> QED BY <2>1, <2>2, HeightFacts, IntervalAssumption DEF IInv, TypeOK
<1>2. ASSUME Parent[b] \in Pruned(b) PROVE FALSE
  <2>1. Height[Parent[b]] < Height[b] - Interval
    BY <1>2, PrunedFacts
  <2> QED BY <2>1, HeightFacts, IntervalAssumption
<1> QED BY <1>1, <1>2 DEF Kept, IInv, LastBlockHeld

\* Freeing headers does not cut the part of the chain RecentLinked is about.
LEMMA KeptLinked ==
  ASSUME IInv, NEW b \in Block \ {Genesis}, Parent[b] \in blocks,
         NEW c \in Kept(b) \ {Genesis}, Height[c] <= Height[lastBlock], SinceTransition(c)
  PROVE  Parent[c] \in Kept(b)
<1>1. c \in blocks /\ c \in Block /\ lastBlock \in Block
  BY DEF Kept, IInv, TypeOK
<1>2. Parent[c] \in blocks
  BY <1>1 DEF IInv, RecentLinked
<1>3. ASSUME Parent[c] \in Pruned(b) PROVE FALSE
  <2> DEFINE h == Height[b] - Interval
  <2>1. Transition(Height[b]) /\ Height[Parent[c]] < h
    BY <1>3, PrunedFacts
  <2>2. Height[b] <= Height[lastBlock] + 1
    BY <2>1, LinkedHeight DEF IInv
  <2>3. Height[b] >= Interval
    BY <1>1, <2>1, HeightFacts, IntervalAssumption
  <2>4. h \in Nat /\ Transition(h)
    BY <2>1, <2>3, HeightFacts, PreviousTransition
  <2>5. h \in Height[c] .. Height[lastBlock]
    BY <1>1, <2>1, <2>2, <2>4, HeightFacts, IntervalAssumption
  <2> QED BY <2>4, <2>5 DEF SinceTransition
<1> QED BY <1>2, <1>3 DEF Kept
-----------------------------------------------------------------------------
(* Types.                                                                    *)

\* A block that joins the chain gives its transactions its height.
LEMMA ConfirmType ==
  ASSUME NEW heights \in [Tx -> Nat], NEW S \in SUBSET Block
  PROVE  Confirm(heights, S) \in [Tx -> Nat]
<1>1. ASSUME NEW t \in Tx, \E b \in S : t \in TxIn[b]
      PROVE  Height[CHOOSE b \in S : t \in TxIn[b]] \in Nat
  BY <1>1, HeightFacts
<1> QED BY <1>1 DEF Confirm

\* A reorganization takes heights back.
LEMMA UnconfirmType ==
  ASSUME NEW heights \in [Tx -> Nat], NEW h
  PROVE  UnconfirmAfter(heights, h) \in [Tx -> Nat]
BY DataAssumption DEF UnconfirmAfter

\* After a block was placed its orphan, if there is one, is next.
LEMMA PlacedType ==
  ASSUME TypeOK, NEW p \in Peer, NEW b \in Block, NEW left \in SUBSET Block,
         Placed(p, b, left)
  PROVE  /\ estimatedHeight' \in Nat
         /\ next' \in [Peer -> Block \cup {NoBlock}]
         /\ orphans' \in SUBSET Block
<1> DEFINE fit == {o \in left : PrevBlock(o) = b}
           o == IF fit = {} THEN NoBlock ELSE CHOOSE x \in fit : TRUE
<1>1. o \in Block \cup {NoBlock}
  OBVIOUS
<1>2. next' = [next EXCEPT ![p] = o]
  BY DEF Placed
<1>3. next' \in [Peer -> Block \cup {NoBlock}]
  <2> HIDE DEF o
  <2> QED BY <1>1, <1>2 DEF TypeOK
<1> QED BY <1>3, HeightFacts DEF Placed, TypeOK

\* A segment of the chain, and what is saved of it, are blocks.
LEMMA SetTypes ==
  ASSUME NEW b \in Block
  PROVE  /\ \A lo, hi : Segment(b, lo, hi) \subseteq Block
         /\ \A count, held : SaveSet(b, count, held) \subseteq Block
BY ChainClosed DEF Segment, SaveSet

\* Orphans forgotten and added leave a set of blocks.
LEMMA LeftTypes ==
  ASSUME TypeOK
  PROVE  /\ \A left \in OrphansAfterSync(orphans) : left \in SUBSET Block
         /\ \A b \in Block : AddOrphan(b) \in SUBSET Block
BY DEF OrphansAfterSync, AddOrphan, TypeOK

\* The blocks held after pruning are blocks.
LEMMA KeptType ==
  ASSUME TypeOK, NEW b \in Block
  PROVE  Kept(b) \subseteq Block
BY DEF Kept, TypeOK

\* What a thread is about to store.
LEMMA SavingType ==
  ASSUME TypeOK, NEW p \in Peer, NEW S \in SUBSET Block
  PROVE  [saving EXCEPT ![p] = S] \in [Peer -> SUBSET Block]
BY DEF TypeOK

\* The loop of a relayed block ends.
LEMMA DoneType ==
  ASSUME TypeOK, NEW p \in Peer, Done(p)
  PROVE  next' \in [Peer -> Block \cup {NoBlock}]
BY DEF TypeOK, Done

\* _peerRelayedBlock keeps the types, in each of its cases.
LEMMA RelayType ==
  ASSUME TypeOK, NEW p \in Peer, NEW b \in Block, RelayBlock(p, b)
  PROVE  TypeOK'
<1>1. CASE IgnoreBlock(p, b)
  BY <1>1, DoneType DEF IgnoreBlock, TypeOK, peerVars
<1>2. CASE RelayedOrphan(p, b)
  BY <1>2, DoneType, LeftTypes DEF RelayedOrphan, TypeOK, peerVars
<1>3. CASE RejectInvalid(p, b)
  BY <1>3, DoneType, KeptType DEF RejectInvalid, TypeOK, peerVars
<1>4. CASE ExtendMainChain(p, b)
  <2> DEFINE S == IF Height[b] = estimatedHeight
                  THEN SaveSet(b, FullSaveCount(Height[b]), Kept(b) \cup {b})
                  ELSE IF Transition(Height[b]) THEN {b} ELSE {}
  <2>1. S \in SUBSET Block
    BY SetTypes
  <2>2. saving' = [saving EXCEPT ![p] = S]
    BY <1>4 DEF ExtendMainChain
  <2>3. saving' \in [Peer -> SUBSET Block]
    <3> HIDE DEF S
    <3> QED BY <2>1, <2>2, SavingType
  <2>4. PICK left \in SUBSET Block : Placed(p, b, left)
    BY <1>4, LeftTypes DEF ExtendMainChain, TypeOK
  <2>5. /\ estimatedHeight' \in Nat
        /\ next' \in [Peer -> Block \cup {NoBlock}]
        /\ orphans' \in SUBSET Block
    BY <2>4, PlacedType
  <2>6. txHeight' \in [Tx -> Nat]
    BY <1>4, ConfirmType DEF ExtendMainChain, TypeOK
  <2>7. blocks' \subseteq Block /\ lastBlock' \in Block
    BY <1>4, KeptType DEF ExtendMainChain
  <2> QED BY <1>4, <2>3, <2>5, <2>6, <2>7 DEF ExtendMainChain, TypeOK, peerVars
<1>5. CASE RelayedExisting(p, b)
  <2>1. CASE GapAbove(Height[b], Kept(b))
    BY <1>5, <2>1 DEF RelayedExisting, TypeOK, peerVars
  <2>2. CASE ~ GapAbove(Height[b], Kept(b))
    <3>1. /\ Placed(p, b, orphans)
          /\ blocks' = Kept(b)
          /\ txHeight' = IF b \in Chain[lastBlock] THEN Confirm(txHeight, {b}) ELSE txHeight
          /\ UNCHANGED <<lastBlock, bloomFilter, peerVars, saving, saved, crashed>>
      BY <1>5, <2>2 DEF RelayedExisting
    <3>2. /\ estimatedHeight' \in Nat
          /\ next' \in [Peer -> Block \cup {NoBlock}]
          /\ orphans' \in SUBSET Block
      BY <3>1, PlacedType DEF TypeOK
    <3>3. txHeight' \in [Tx -> Nat]
      BY <3>1, ConfirmType DEF TypeOK
    <3> QED BY <3>1, <3>2, <3>3, KeptType DEF TypeOK, peerVars
  <2> QED BY <2>1, <2>2
<1>6. CASE MarkNewAsOrphan(p, b)
  <2>1. /\ estimatedHeight' \in Nat
        /\ next' \in [Peer -> Block \cup {NoBlock}]
        /\ orphans' \in SUBSET Block
    BY <1>6, PlacedType, LeftTypes DEF MarkNewAsOrphan
  <2> QED BY <1>6, <2>1, KeptType DEF MarkNewAsOrphan, TypeOK, peerVars
<1>7. CASE IgnoreOldFork(p, b)
  BY <1>7, DoneType, KeptType DEF IgnoreOldFork, TypeOK, peerVars
<1>8. CASE AddFork(p, b)
  <2>1. /\ estimatedHeight' \in Nat
        /\ next' \in [Peer -> Block \cup {NoBlock}]
        /\ orphans' \in SUBSET Block
    BY <1>8, PlacedType DEF AddFork, TypeOK
  <2> QED BY <1>8, <2>1, KeptType DEF AddFork, TypeOK, peerVars
<1>9. CASE Reorganize(p, b)
  <2> DEFINE held == Kept(b) \cup {b}
             join == JoinHeight(b, lastBlock)
             gap == HighestGap(b, held)
             mainGap == HighestGap(lastBlock, held \cup {lastBlock})
             stop == IF mainGap >= join THEN mainGap ELSE join
             unconfirmed == UnconfirmAfter(txHeight, stop)
             S == IF Height[b] = estimatedHeight
                  THEN SaveSet(b, FullSaveCount(Height[b]), held) ELSE {}
  <2>1. CASE gap >= join /\ gap >= mainGap
    <3>1. UNCHANGED vars \/ (crashed' = TRUE /\ UNCHANGED
            <<blocks, orphans, lastBlock, estimatedHeight, next, saving, txHeight,
              bloomFilter, peerVars, saved>>)
      BY <1>9, <2>1 DEF Reorganize
    <3> QED BY <3>1 DEF TypeOK, peerVars, vars
  <2>2. CASE ~ (gap >= join /\ gap >= mainGap)
    <3>1. /\ blocks' = held
          /\ lastBlock' = b
          /\ txHeight' = IF stop = join
                         THEN Confirm(unconfirmed, Segment(b, join + 1, Height[b]))
                         ELSE unconfirmed
          /\ saving' = [saving EXCEPT ![p] = S]
          /\ \E left \in (IF Height[b] = estimatedHeight
                          THEN OrphansAfterSync(orphans) ELSE {orphans}) :
               Placed(p, b, left)
          /\ UNCHANGED <<crashed, bloomFilter, peerVars, saved>>
      BY <1>9, <2>2 DEF Reorganize
    <3> HIDE DEF join, gap, mainGap, stop
    <3>2. S \in SUBSET Block
      BY SetTypes
    <3>3. saving' \in [Peer -> SUBSET Block]
      <4> HIDE DEF S
      <4> QED BY <3>1, <3>2, SavingType
    <3>4. PICK left \in SUBSET Block : Placed(p, b, left)
      BY <3>1, LeftTypes DEF TypeOK
    <3>5. /\ estimatedHeight' \in Nat
          /\ next' \in [Peer -> Block \cup {NoBlock}]
          /\ orphans' \in SUBSET Block
      BY <3>4, PlacedType
    <3>6. unconfirmed \in [Tx -> Nat]
      BY UnconfirmType DEF TypeOK
    <3>7. Segment(b, join + 1, Height[b]) \in SUBSET Block
      BY SetTypes
    <3>8. txHeight' \in [Tx -> Nat]
      <4> HIDE DEF unconfirmed
      <4> QED BY <3>1, <3>6, <3>7, ConfirmType
    <3> QED BY <3>1, <3>3, <3>5, <3>8, KeptType DEF TypeOK, peerVars
  <2> QED BY <2>1, <2>2
<1> QED BY <1>1, <1>2, <1>3, <1>4, <1>5, <1>6, <1>7, <1>8, <1>9 DEF RelayBlock

\* _peerConnected keeps the types.
LEMMA ConnectedType ==
  ASSUME TypeOK, NEW p \in Peer, NEW h \in ReportedHeight, PeerConnected(p, h)
  PROVE  TypeOK'
<1> DEFINE reported == [lastblock EXCEPT ![p] = h]
<1>1. h \in Nat /\ reported \in [Peer -> ReportedHeight \cup {-1}]
  BY DataAssumption DEF TypeOK
<1>2. lastblock' = reported
  BY DEF PeerConnected
<1>3. bloomFilter' \in BOOLEAN /\ orphans' \subseteq Block
  BY DEF PeerConnected, LoadBloomFilter, TypeOK
<1>4. downloadPeer' \in Peer \cup {NoPeer} /\ estimatedHeight' \in Nat
  <2>1. ASSUME NEW q \in Peer, \A r \in Peer : reported[r] <= reported[q]
        PROVE  reported[q] \in Nat
    <3>1. reported[p] = h /\ reported[p] <= reported[q]
      BY <2>1 DEF TypeOK
    <3>2. reported[q] \in ReportedHeight \cup {-1}
      BY <1>1
    <3>3. h \in Int /\ h >= 0
      BY <1>1
    <3>4. ASSUME reported[q] = -1 PROVE FALSE
      <4> HIDE DEF reported
      <4> QED BY <3>1, <3>3, <3>4
    <3> HIDE DEF reported
    <3> QED BY <3>2, <3>4, DataAssumption
  <2> QED BY <2>1 DEF PeerConnected, TypeOK
<1> QED BY <1>1, <1>2, <1>3, <1>4 DEF PeerConnected, TypeOK

\* LWPeerManagerNew makes the types again from the blocks that were saved.
LEMMA RestartType ==
  ASSUME TypeOK, Restart
  PROVE  TypeOK'
<1>1. ASSUME NEW O \in OrphansFrom(saved), NEW t \in LastTransitions(saved)
      PROVE  O \subseteq Block /\ Following(t, O) \subseteq Block
  BY <1>1 DEF OrphansFrom, LastTransitions, Following, TypeOK
<1>2. blocks' \subseteq Block /\ orphans' \subseteq Block /\ lastBlock' \in Block
  BY <1>1, CheckpointAssumption DEF Restart, NewManager, Loaded, Tallest, OrphansFrom, TypeOK
<1> QED BY <1>2, DataAssumption DEF Restart, TypeOK

\* So does every step.
LEMMA NextType ==
  ASSUME TypeOK, [NextAll]_vars
  PROVE  TypeOK'
<1>1. ASSUME NEW p \in Peer, SaveBlocks(p) PROVE TypeOK'
  <2>1. saved' \subseteq Block /\ saving' \in [Peer -> SUBSET Block]
    BY <1>1, SavingType DEF SaveBlocks, TypeOK
  <2> QED BY <1>1, <2>1 DEF SaveBlocks, TypeOK, peerVars
<1>2. ASSUME NEW p \in Peer, PeerDisconnected(p) PROVE TypeOK'
  BY <1>2 DEF PeerDisconnected, TypeOK
<1>3. CASE FilterOutdated
  BY <1>3 DEF FilterOutdated, TypeOK, peerVars
<1>4. CASE UpdateFilter
  BY <1>4 DEF UpdateFilter, LoadBloomFilter, TypeOK, peerVars
<1>5. CASE Rescan
  BY <1>5, CheckpointAssumption DEF Rescan, TypeOK, peerVars
<1>6. CASE UNCHANGED vars
  BY <1>6 DEF vars, TypeOK
<1> QED BY <1>1, <1>2, <1>3, <1>4, <1>5, <1>6, RelayType, ConnectedType, RestartType
        DEF NextAll, NextR, Next, PeerStep

\* LWPeerManagerNew with no blocks saved.
LEMMA InitType == Init => TypeOK
<1> SUFFICES ASSUME Init PROVE TypeOK
  OBVIOUS
<1>1. lastblock \in [Peer -> ReportedHeight \cup {-1}]
  BY DEF Init
<1>2. next \in [Peer -> Block \cup {NoBlock}] /\ saving \in [Peer -> SUBSET Block]
  BY DEF Init
<1>3. txHeight \in [Tx -> Nat]
  BY DataAssumption DEF Init
<1>4. blocks \subseteq Block /\ lastBlock \in Block
  BY CheckpointAssumption DEF Init
<1> QED BY <1>1, <1>2, <1>3, <1>4 DEF Init, TypeOK

\* Every variable keeps its type, in every run, over every restart and rescan.
THEOREM TypeCorrect == SpecAll => []TypeOK
<1>1. Init => TypeOK
  BY InitType
<1>2. TypeOK /\ [NextAll]_vars => TypeOK'
  BY NextType
<1> QED BY <1>1, <1>2, PTL DEF SpecAll

-----------------------------------------------------------------------------
(* The chain held.                                                           *)

ChainInv == LastBlockHeld /\ TallestIsLast /\ RecentLinked

\* The headers verification leaves are as good a chain as before.
LEMMA KeepsChain ==
  ASSUME IInv, NEW b \in Block \ {Genesis}, Parent[b] \in blocks,
         blocks' = Kept(b), lastBlock' = lastBlock
  PROVE  ChainInv'
<1>1. lastBlock \in Kept(b) /\ Kept(b) \subseteq blocks
  BY KeptFacts
<1>2. LastBlockHeld'
  BY <1>1 DEF LastBlockHeld
<1>3. TallestIsLast'
  BY <1>1 DEF TallestIsLast, IInv
<1>4. RecentLinked'
  BY KeptLinked DEF RecentLinked, SinceTransition
<1> QED BY <1>2, <1>3, <1>4 DEF ChainInv

\* So is the chain with one more block that is not above the tip.
LEMMA ForkChain ==
  ASSUME IInv, NEW b \in Block \ {Genesis}, Parent[b] \in blocks,
         Height[b] <= Height[lastBlock],
         blocks' = Kept(b) \cup {b}, lastBlock' = lastBlock
  PROVE  ChainInv'
<1>1. /\ lastBlock \in Kept(b) /\ Parent[b] \in Kept(b)
      /\ Kept(b) \subseteq blocks
  BY KeptFacts
<1>2. LastBlockHeld'
  BY <1>1 DEF LastBlockHeld
<1>3. TallestIsLast'
  BY <1>1 DEF TallestIsLast, IInv
<1>4. RecentLinked'
  <2>1. ASSUME NEW c \in Kept(b) \ {Genesis}, Height[c] <= Height[lastBlock],
               SinceTransition(c)
        PROVE  Parent[c] \in Kept(b)
    BY <2>1, KeptLinked
  <2> QED BY <1>1, <2>1 DEF RecentLinked, SinceTransition
<1> QED BY <1>2, <1>3, <1>4 DEF ChainInv

\* And the chain whose tip is a new block above the old one.
LEMMA NewTip ==
  ASSUME IInv, NEW b \in Block \ {Genesis}, Parent[b] \in blocks,
         Height[b] > Height[lastBlock],
         blocks' = Kept(b) \cup {b}, lastBlock' = b
  PROVE  ChainInv'
<1> DEFINE L == Height[lastBlock]
<1>1. Parent[b] \in Kept(b) /\ Kept(b) \subseteq blocks
  BY KeptFacts
<1>2. L \in Nat /\ Height[b] \in Nat /\ blocks \subseteq Block
  BY HeightFacts DEF IInv, TypeOK
<1>3. LastBlockHeld'
  BY DEF LastBlockHeld
<1>4. TallestIsLast'
  <2>1. ASSUME NEW c \in Kept(b) \ Checkpoint PROVE Height[c] <= Height[b]
    <3>1. Height[c] <= L /\ Height[c] \in Nat
      BY <1>1, <1>2, HeightFacts DEF TallestIsLast, IInv
    <3> QED BY <1>2, <3>1
  <2> QED BY <1>2, <2>1 DEF TallestIsLast
<1>5. RecentLinked'
  <2>1. ASSUME NEW c \in Kept(b) \ {Genesis}, Height[c] <= Height[b],
               \A h \in Height[c] .. Height[b] : ~ Transition(h)
        PROVE  Parent[c] \in Kept(b)
    <3>1. Height[c] \in Nat
      BY <1>1, <1>2, HeightFacts
    <3>2. ~ Transition(Height[c])
      BY <1>2, <2>1, <3>1
    <3>3. Height[c] <= L
      BY <1>1, <3>2, CheckpointAssumption DEF TallestIsLast, IInv
    <3>4. SinceTransition(c)
      <4>1. ASSUME NEW h \in Height[c] .. L PROVE h \in Height[c] .. Height[b]
        BY <1>2, <3>1
      <4> QED BY <2>1, <4>1 DEF SinceTransition
    <3> QED BY <3>3, <3>4, KeptLinked
  <2> QED BY <1>1, <2>1 DEF RecentLinked, SinceTransition
<1> QED BY <1>3, <1>4, <1>5 DEF ChainInv

\* No branch of _peerRelayedBlock breaks the chain.
LEMMA RelayChain ==
  ASSUME IInv, NEW p \in Peer, NEW b \in Block, RelayBlock(p, b)
  PROVE  ChainInv'
<1>1. CASE UNCHANGED <<blocks, lastBlock>>
  BY <1>1 DEF ChainInv, IInv, LastBlockHeld, TallestIsLast, RecentLinked, SinceTransition
<1>2. CASE IgnoreBlock(p, b)
  BY <1>1, <1>2 DEF IgnoreBlock
<1>3. CASE RelayedOrphan(p, b)
  BY <1>1, <1>3 DEF RelayedOrphan
<1>4. CASE RejectInvalid(p, b)
  BY <1>4, KeepsChain DEF RejectInvalid, Linked, Receives
<1>5. CASE ExtendMainChain(p, b)
  <2>1. Height[b] > Height[lastBlock] /\ Parent[b] \in blocks /\ b # Genesis
    BY <1>5, HeightFacts DEF ExtendMainChain, FollowsTip, Linked, Receives
  <2> QED BY <1>5, <2>1, NewTip DEF ExtendMainChain
<1>6. CASE RelayedExisting(p, b)
  BY <1>1, <1>6, KeepsChain DEF RelayedExisting, Linked, Receives
<1>7. CASE MarkNewAsOrphan(p, b)
  BY <1>7, KeepsChain DEF MarkNewAsOrphan, Unknown, Linked, Receives
<1>8. CASE IgnoreOldFork(p, b)
  BY <1>8, KeepsChain DEF IgnoreOldFork, Unknown, Linked, Receives
<1>9. CASE AddFork(p, b)
  BY <1>9, ForkChain DEF AddFork, NewOnFork, Unknown, Linked, Receives
<1>10. CASE Reorganize(p, b)
  <2>1. Height[b] > Height[lastBlock] /\ Parent[b] \in blocks /\ b # Genesis
    BY <1>10 DEF Reorganize, NewOnFork, Unknown, Linked, Receives
  <2>2. \/ UNCHANGED <<blocks, lastBlock>>
        \/ blocks' = Kept(b) \cup {b} /\ lastBlock' = b
    BY <1>10 DEF Reorganize
  <2> QED BY <1>1, <2>1, <2>2, NewTip
<1> QED BY <1>2, <1>3, <1>4, <1>5, <1>6, <1>7, <1>8, <1>9, <1>10 DEF RelayBlock

\* The blocks of the store that follow one transition are linked down to it.
LEMMA FollowingLinked ==
  ASSUME NEW t \in Block, NEW O \in SUBSET Block,
         NEW c \in Following(t, O), c # t
  PROVE  c # Genesis /\ Parent[c] \in Following(t, O)
<1>1. /\ c \in O /\ c \in Block /\ t \in Chain[c]
      /\ Segment(c, Height[t] + 1, Height[c]) \subseteq O
  BY DEF Following
<1>2. c # Genesis
  BY <1>1, ChainHeight, HeightFacts, TreeAssumption
<1> DEFINE d == Parent[c]
<1>3. d \in Block /\ Height[c] = Height[d] + 1 /\ Height[d] \in Nat /\ Height[t] \in Nat
  BY <1>1, <1>2, HeightFacts
<1>4. t \in Chain[d] /\ Chain[d] \subseteq Chain[c] /\ d \in Chain[d]
  <2>1. c \in Chain[c] /\ Chain[c] \subseteq Block /\ ParentClosed(Chain[c])
    BY <1>1, ChainClosed
  <2>2. d \in Chain[c]
    BY <1>2, <2>1 DEF ParentClosed
  <2>3. Chain[d] \subseteq Chain[c]
    BY <1>3, <2>1, <2>2, ChainLeast
  <2> QED BY <1>1, <1>2, <1>3, <2>3, ChainStep, ChainClosed
<1>5. CASE d = t
  BY <1>2, <1>5 DEF Following
<1>6. CASE d # t
  <2>1. Height[t] < Height[d]
    BY <1>3, <1>4, <1>6, ChainHeight
  <2>2. ASSUME NEW a \in Segment(d, Height[t] + 1, Height[d])
        PROVE  a \in O
    <3>1. a \in Chain[c] /\ Height[t] + 1 <= Height[a] /\ Height[a] <= Height[d]
      BY <2>2, <1>4 DEF Segment
    <3>2. Height[a] \in Nat
      BY <1>1, <3>1, ChainClosed, HeightFacts
    <3>3. Height[a] <= Height[c]
      BY <1>3, <3>1, <3>2
    <3> QED BY <1>1, <3>1, <3>3 DEF Segment
  <2>3. d \in Segment(d, Height[t] + 1, Height[d])
    BY <1>3, <1>4, <2>1 DEF Segment
  <2> HIDE DEF d
  <2>4. d \in Following(t, O)
    BY <1>4, <2>2, <2>3 DEF Following
  <2> QED BY <1>2, <2>4 DEF d
<1> QED BY <1>5, <1>6

\* LWPeerManagerNew makes a sound chain of whatever the store holds.
LEMMA RestartChain ==
  ASSUME IInv, Restart
  PROVE  ChainInv'
<1>1. CASE blocks' = Checkpoint /\ lastBlock' = Start
  <2>1. ASSUME NEW c \in Checkpoint, Height[c] <= Height[Start]
        PROVE  Height[c] \in Height[c] .. Height[Start] /\ Transition(Height[c])
    BY <2>1, CheckpointAssumption, HeightFacts
  <2>2. LastBlockHeld' /\ TallestIsLast'
    BY <1>1, CheckpointAssumption DEF LastBlockHeld, TallestIsLast
  <2>3. RecentLinked'
    BY <1>1, <2>1 DEF RecentLinked, SinceTransition
  <2> QED BY <2>2, <2>3 DEF ChainInv
<1>2. ASSUME NEW O \in OrphansFrom(saved), NEW t \in LastTransitions(saved),
             blocks' = Checkpoint \cup Following(t, O),
             lastBlock' \in Tallest(Following(t, O))
      PROVE  ChainInv'
  <2> DEFINE F == Following(t, O)
  <2>1. /\ t \in Block /\ O \in SUBSET Block /\ Transition(Height[t])
        /\ F \subseteq Block
    BY DEF OrphansFrom, LastTransitions, Following, IInv, TypeOK
  <2>2. lastBlock' \in F /\ \A a \in F : Height[a] <= Height[lastBlock']
    BY <1>2 DEF Tallest
  <2>3. LastBlockHeld' /\ TallestIsLast'
    BY <1>2, <2>2 DEF LastBlockHeld, TallestIsLast
  <2>4. ASSUME NEW c \in Checkpoint \cup F, c # Genesis,
               Height[c] <= Height[lastBlock'],
               \A h \in Height[c] .. Height[lastBlock'] : ~ Transition(h)
        PROVE  Parent[c] \in Checkpoint \cup F
    <3>1. c \in Block /\ lastBlock' \in Block
      BY <2>1, <2>2, CheckpointAssumption
    <3>2. ~ Transition(Height[c])
      BY <2>4, <3>1, HeightFacts
    <3>3. c \in F /\ c # t
      BY <2>1, <3>2, CheckpointAssumption
    <3> QED BY <2>1, <3>3, FollowingLinked
  <2>5. RecentLinked'
    <3> HIDE DEF F
    <3>1. blocks' = Checkpoint \cup F
      BY <1>2 DEF F
    <3> QED BY <3>1, <2>4 DEF RecentLinked, SinceTransition
  <2> QED BY <2>3, <2>5 DEF ChainInv
<1> QED BY <1>1, <1>2 DEF Restart, NewManager, Loaded

\* The start of a wallet, from a checkpoint.
LEMMA InitInv == Init => IInv
<1> SUFFICES ASSUME Init PROVE IInv
  OBVIOUS
<1>1. ASSUME NEW c \in Checkpoint, Height[c] <= Height[Start]
      PROVE  Height[c] \in Height[c] .. Height[Start] /\ Transition(Height[c])
  BY <1>1, CheckpointAssumption, HeightFacts
<1>2. LastBlockHeld /\ TallestIsLast
  BY CheckpointAssumption DEF Init, LastBlockHeld, TallestIsLast
<1>3. RecentLinked
  BY <1>1 DEF Init, RecentLinked, SinceTransition
<1> QED BY <1>2, <1>3, InitType DEF IInv

\* The invariant is inductive.
LEMMA NextInv ==
  ASSUME IInv, [NextR]_vars
  PROVE  IInv'
<1>1. TypeOK'
  BY NextType DEF IInv, NextAll
<1>2. ChainInv'
  <2>1. CASE UNCHANGED <<blocks, lastBlock>>
    BY <2>1 DEF ChainInv, IInv, LastBlockHeld, TallestIsLast, RecentLinked, SinceTransition
  <2>2. CASE FilterOutdated \/ UpdateFilter \/ UNCHANGED vars
    BY <2>1, <2>2 DEF FilterOutdated, UpdateFilter, vars
  <2>3. ASSUME NEW p \in Peer,
               SaveBlocks(p) \/ PeerDisconnected(p) \/ \E h \in ReportedHeight : PeerConnected(p, h)
        PROVE  ChainInv'
    BY <2>1, <2>3 DEF SaveBlocks, PeerDisconnected, PeerConnected
  <2> QED BY <2>2, <2>3, RelayChain, RestartChain DEF NextR, Next, PeerStep
<1> QED BY <1>1, <1>2 DEF ChainInv, IInv

\* The invariant the four theorems below follow from.
THEOREM ChainInvariant == SpecR => []IInv
<1>1. Init => IInv
  BY InitInv
<1>2. IInv /\ [NextR]_vars => IInv'
  BY NextInv
<1> QED BY <1>1, <1>2, PTL DEF SpecR

\* The tip is always one of the headers held: no pruning and no reload frees
\* the block manager->lastBlock points to.
THEOREM TipHeld == SpecR => []LastBlockHeld
<1>1. IInv => LastBlockHeld
  BY DEF IInv
<1> QED BY <1>1, ChainInvariant, PTL

\* _peerRelayedBlock never leaves a longer branch it holds aside.
THEOREM TipTallest == SpecR => []TallestIsLast
<1>1. IInv => TallestIsLast
  BY DEF IInv
<1> QED BY <1>1, ChainInvariant, PTL

\* The headers the next difficulty transition needs are never missing.
LEMMA NextVerifies == IInv => NextBlockVerifies
<1> SUFFICES ASSUME IInv, NEW b \in Block \ {Genesis}, Parent[b] = lastBlock,
                    ~ ContradictsCheckpoint(b), Transition(Height[b])
             PROVE  Segment(b, Height[b] - Interval, Height[b] - 1) \subseteq blocks
  BY DEF NextBlockVerifies, VerifyBlock, MissingTransition
<1> DEFINE lo == Height[b] - Interval
           S == {a \in Block : /\ Height[a] <= Height[lastBlock]
                               /\ Height[a] >= lo => a \in blocks}
<1>1. /\ lastBlock \in Block /\ Height[lastBlock] \in Nat
      /\ Height[b] = Height[lastBlock] + 1 /\ Height[b] \in Nat
      /\ Interval \in Nat
  BY HeightFacts, IntervalAssumption DEF IInv, TypeOK
<1>2. lastBlock \in S /\ S \in SUBSET Block
  BY <1>1 DEF IInv, LastBlockHeld
<1>3. ParentClosed(S)
  <2>1. ASSUME NEW a \in S \ {Genesis} PROVE Parent[a] \in S
    <3>1. /\ a \in Block /\ Parent[a] \in Block /\ Height[a] \in Nat
          /\ Height[Parent[a]] \in Nat /\ Height[a] = Height[Parent[a]] + 1
          /\ Height[a] <= Height[lastBlock]
      BY HeightFacts
    <3>2. ASSUME Height[Parent[a]] >= lo PROVE Parent[a] \in blocks
      <4>1. Height[a] > lo
        BY <1>1, <3>1, <3>2
      <4>2. a \in blocks
        BY <1>1, <3>1, <4>1
      <4>3. ASSUME NEW h \in Height[a] .. Height[lastBlock], Transition(h) PROVE FALSE
        <5>1. h \in Nat /\ h < Height[b] /\ h > lo
          BY <1>1, <3>1, <4>1
        <5>2. h <= Height[b] - Interval
          BY <1>1, <4>3, <5>1, TransitionsApart
        <5> QED BY <1>1, <5>1, <5>2
      <4> QED BY <3>1, <4>2, <4>3 DEF IInv, RecentLinked, SinceTransition
    <3> QED BY <1>1, <3>1, <3>2
  <2> QED BY <2>1 DEF ParentClosed
<1>4. Chain[lastBlock] \subseteq S
  BY <1>1, <1>2, <1>3, ChainLeast
<1>5. ASSUME NEW a \in Chain[b], lo <= Height[a], Height[a] <= Height[b] - 1
      PROVE  a \in blocks
  <2>1. a # b
    BY <1>1, <1>5
  <2>2. a \in Chain[lastBlock]
    BY <2>1, ChainStep
  <2> QED BY <1>4, <1>5, <2>2
<1> QED BY <1>5 DEF Segment

\* An honest peer is never dropped for the block that follows the tip.
THEOREM TipExtends == SpecR => []NextBlockVerifies
BY NextVerifies, ChainInvariant, PTL

-----------------------------------------------------------------------------
(* Checkpoints.  Here rescans are allowed too.                               *)

CheckpointInv ==
  /\ TypeOK
  /\ \A b \in blocks \cup saved \cup {lastBlock} : ThroughCheckpoints(b)
  /\ \A p \in Peer : \A b \in saving[p] : ThroughCheckpoints(b)

\* The checkpoints are on one chain.
LEMMA CheckpointThrough ==
  ASSUME NEW c \in Checkpoint
  PROVE  c \in Block /\ ThroughCheckpoints(c)
BY CheckpointAssumption DEF ThroughCheckpoints

\* A block that passes verification on a parent that went through the
\* checkpoints has gone through them too.
LEMMA VerifiedThrough ==
  ASSUME NEW b \in Block \ {Genesis}, ThroughCheckpoints(Parent[b]), VerifyBlock(b)
  PROVE  ThroughCheckpoints(b)
<1> SUFFICES ASSUME NEW c \in Checkpoint, Height[c] <= Height[b]
             PROVE  c \in Chain[b]
  BY DEF ThroughCheckpoints
<1>1. /\ Parent[b] \in Block /\ Height[b] = Height[Parent[b]] + 1
      /\ Height[Parent[b]] \in Nat /\ c \in Block /\ Height[c] \in Nat
  BY HeightFacts, CheckpointAssumption
<1>2. b \in Chain[b] /\ ParentClosed(Chain[b]) /\ Chain[b] \subseteq Block
  BY ChainClosed
<1>3. CASE Height[c] = Height[b]
  BY <1>2, <1>3 DEF VerifyBlock, ContradictsCheckpoint
<1>4. CASE Height[c] <= Height[Parent[b]]
  <2>1. c \in Chain[Parent[b]]
    BY <1>4 DEF ThroughCheckpoints
  <2>2. Chain[Parent[b]] \subseteq Chain[b]
    BY <1>1, <1>2, ChainLeast DEF ParentClosed
  <2> QED BY <2>1, <2>2
<1> QED BY <1>1, <1>3, <1>4

\* What a walk down from b through headers held saves is held.
LEMMA SavedHeld ==
  ASSUME NEW b \in Block, NEW count \in Nat, NEW held \in SUBSET Block
  PROVE  SaveSet(b, count, held) \subseteq held
<1> SUFFICES ASSUME NEW a \in SaveSet(b, count, held)
             PROVE  a \in held
  OBVIOUS
<1>1. a \in Chain[b] /\ Segment(b, Height[a], Height[b]) \subseteq held
  BY DEF SaveSet
<1>2. a \in Segment(b, Height[a], Height[b])
  BY <1>1, ChainClosed, ChainHeight, HeightFacts DEF Segment
<1> QED BY <1>1, <1>2

\* FullSaveCount is a number of blocks.
LEMMA CountType ==
  ASSUME NEW h \in Nat
  PROVE  FullSaveCount(h) \in Nat
BY DivisionFacts, IntervalAssumption DEF FullSaveCount

\* No branch of _peerRelayedBlock takes in a block that missed a checkpoint.
LEMMA RelayThrough ==
  ASSUME CheckpointInv, NEW p \in Peer, NEW b \in Block, RelayBlock(p, b), TypeOK'
  PROVE  CheckpointInv'
<1> DEFINE held == Kept(b) \cup {b}
<1>1. /\ \A a \in blocks \cup saved \cup {lastBlock} : ThroughCheckpoints(a)
      /\ \A q \in Peer : \A a \in saving[q] : ThroughCheckpoints(a)
      /\ saving \in [Peer -> SUBSET Block] /\ Kept(b) \subseteq blocks
      /\ held \subseteq Block
  BY DEF CheckpointInv, TypeOK, Kept
<1>2. ASSUME blocks' \subseteq blocks, lastBlock' = lastBlock, UNCHANGED <<saved, saving>>
      PROVE  CheckpointInv'
  BY <1>1, <1>2 DEF CheckpointInv, ThroughCheckpoints
<1>3. ASSUME Linked(p, b), VerifyBlock(b) PROVE ThroughCheckpoints(b)
  BY <1>1, <1>3, VerifiedThrough DEF Linked, Receives
<1>4. CASE IgnoreBlock(p, b)
  BY <1>2, <1>4 DEF IgnoreBlock
<1>5. CASE RelayedOrphan(p, b)
  BY <1>2, <1>5 DEF RelayedOrphan
<1>6. CASE RejectInvalid(p, b)
  BY <1>1, <1>2, <1>6 DEF RejectInvalid
<1>7. ASSUME NEW S \in SUBSET held, ThroughCheckpoints(b),
             blocks' = held, lastBlock' = b, saved' = saved,
             saving' = [saving EXCEPT ![p] = S]
      PROVE  CheckpointInv'
  <2>1. \A a \in held : ThroughCheckpoints(a)
    BY <1>1, <1>7
  <2>2. \A q \in Peer : \A a \in saving'[q] : ThroughCheckpoints(a)
    BY <1>1, <1>7, <2>1
  <2> HIDE DEF held
  <2> QED BY <1>1, <1>7, <2>1, <2>2 DEF CheckpointInv, ThroughCheckpoints
<1>8. SaveSet(b, FullSaveCount(Height[b]), held) \subseteq held
  <2> HIDE DEF held
  <2> QED BY <1>1, SavedHeld, CountType, HeightFacts
<1>9. CASE ExtendMainChain(p, b)
  <2>1. ThroughCheckpoints(b)
    BY <1>3, <1>9 DEF ExtendMainChain
  <2> DEFINE S == IF Height[b] = estimatedHeight
                  THEN SaveSet(b, FullSaveCount(Height[b]), held)
                  ELSE IF Transition(Height[b]) THEN {b} ELSE {}
  <2>2. S \subseteq held
    BY <1>8
  <2>3. /\ blocks' = held /\ lastBlock' = b /\ saved' = saved
        /\ saving' = [saving EXCEPT ![p] = S]
    BY <1>9 DEF ExtendMainChain
  <2> HIDE DEF S, held
  <2> QED BY <1>7, <2>1, <2>2, <2>3
<1>10. CASE RelayedExisting(p, b)
  BY <1>1, <1>2, <1>10 DEF RelayedExisting
<1>11. CASE MarkNewAsOrphan(p, b)
  BY <1>1, <1>2, <1>11 DEF MarkNewAsOrphan
<1>12. CASE IgnoreOldFork(p, b)
  BY <1>1, <1>2, <1>12 DEF IgnoreOldFork
<1>13. CASE AddFork(p, b)
  <2>1. ThroughCheckpoints(b)
    BY <1>3, <1>13 DEF AddFork, NewOnFork, Unknown
  <2>2. \A a \in held : ThroughCheckpoints(a)
    BY <1>1, <2>1
  <2>3. blocks' = held /\ UNCHANGED <<lastBlock, saved, saving>>
    BY <1>13 DEF AddFork
  <2> HIDE DEF held
  <2> QED BY <1>1, <2>2, <2>3 DEF CheckpointInv, ThroughCheckpoints
<1>14. CASE Reorganize(p, b)
  <2>1. ThroughCheckpoints(b)
    BY <1>3, <1>14 DEF Reorganize, NewOnFork, Unknown
  <2> DEFINE S == IF Height[b] = estimatedHeight
                  THEN SaveSet(b, FullSaveCount(Height[b]), held) ELSE {}
  <2>2. S \subseteq held
    BY <1>8
  <2>3. \/ UNCHANGED <<blocks, lastBlock, saving, saved>>
        \/ /\ blocks' = held /\ lastBlock' = b /\ saved' = saved
           /\ saving' = [saving EXCEPT ![p] = S]
    BY <1>14 DEF Reorganize
  <2> HIDE DEF S, held
  <2> QED BY <1>2, <1>7, <2>1, <2>2, <2>3
<1> QED BY <1>4, <1>5, <1>6, <1>9, <1>10, <1>11, <1>12, <1>13, <1>14 DEF RelayBlock

\* The other steps bring in no header but checkpoints and what was saved.
LEMMA OtherThrough ==
  ASSUME CheckpointInv, TypeOK', Restart \/ Rescan \/ \E p \in Peer : SaveBlocks(p)
  PROVE  CheckpointInv'
<1>1. /\ \A a \in blocks \cup saved \cup {lastBlock} : ThroughCheckpoints(a)
      /\ \A q \in Peer : \A a \in saving[q] : ThroughCheckpoints(a)
      /\ saving \in [Peer -> SUBSET Block]
  BY DEF CheckpointInv, TypeOK
<1>2. \A c \in Checkpoint : ThroughCheckpoints(c)
  BY CheckpointThrough
<1>3. CASE Restart
  <2>1. ASSUME NEW O \in OrphansFrom(saved), NEW t \in LastTransitions(saved)
        PROVE  Following(t, O) \subseteq saved
    BY DEF OrphansFrom, LastTransitions, Following
  <2>2. blocks' \subseteq Checkpoint \cup saved /\ lastBlock' \in Checkpoint \cup saved
    BY <1>3, <2>1, CheckpointAssumption DEF Restart, NewManager, Loaded, Tallest
  <2>3. saved' = saved /\ saving' = [p \in Peer |-> {}]
    BY <1>3 DEF Restart
  <2> QED BY <1>1, <1>2, <2>2, <2>3 DEF CheckpointInv, ThroughCheckpoints
<1>4. CASE Rescan
  BY <1>1, <1>2, <1>4, CheckpointAssumption DEF Rescan, CheckpointInv, ThroughCheckpoints
<1>5. ASSUME NEW p \in Peer, SaveBlocks(p) PROVE CheckpointInv'
  <2>1. /\ saved' \subseteq saved \cup saving[p] /\ UNCHANGED <<blocks, lastBlock>>
        /\ saving' = [saving EXCEPT ![p] = {}]
    BY <1>5 DEF SaveBlocks
  <2>2. \A q \in Peer : saving'[q] \subseteq saving[q]
    BY <1>1, <2>1
  <2> QED BY <1>1, <2>1, <2>2 DEF CheckpointInv, ThroughCheckpoints
<1> QED BY <1>3, <1>4, <1>5

\* And so every step keeps to the checkpoints.
LEMMA NextThrough ==
  ASSUME CheckpointInv, [NextAll]_vars
  PROVE  CheckpointInv'
<1>1. TypeOK'
  BY NextType DEF CheckpointInv
<1>2. CASE UNCHANGED <<blocks, lastBlock, saving, saved>>
  BY <1>1, <1>2 DEF CheckpointInv, ThroughCheckpoints
<1>3. CASE FilterOutdated \/ UpdateFilter \/ UNCHANGED vars
  BY <1>2, <1>3 DEF FilterOutdated, UpdateFilter, vars
<1>4. ASSUME NEW p \in Peer,
             PeerDisconnected(p) \/ \E h \in ReportedHeight : PeerConnected(p, h)
      PROVE  CheckpointInv'
  BY <1>2, <1>4 DEF PeerDisconnected, PeerConnected
<1> QED BY <1>1, <1>3, <1>4, RelayThrough, OtherThrough
        DEF NextAll, NextR, Next, PeerStep

\* Whatever the peers relay, and however often the user restarts or rescans,
\* the tip's chain goes through every checkpoint it is as high as.
THEOREM CheckpointsHold == SpecAll => []OnCheckpoints
<1>1. Init => CheckpointInv
  <2>1. ASSUME Init PROVE CheckpointInv
    <3>1. \A c \in Checkpoint : ThroughCheckpoints(c)
      BY CheckpointThrough
    <3> QED BY <2>1, <3>1, InitType, CheckpointAssumption DEF Init, CheckpointInv
  <2> QED BY <2>1
<1>2. CheckpointInv /\ [NextAll]_vars => CheckpointInv'
  BY NextThrough
<1>3. CheckpointInv => OnCheckpoints
  BY DEF CheckpointInv, OnCheckpoints
<1> QED BY <1>1, <1>2, <1>3, PTL DEF SpecAll

-----------------------------------------------------------------------------
(* The best chain.  What follows needs two assumptions about the network.    *)

\* Of two branches that pass the checkpoints the longer one outgrows the other within an interval
\* (2016 blocks): headers are freed further down than that.
ShortBranches ==
  \A b, c \in Block :
    ThroughCheckpoints(b) /\ ThroughCheckpoints(c) /\ Height[b] = Height[c] + 1 =>
      \E a \in Chain[b] \cap Chain[c] : Height[a] + Interval >= Height[b]

\* A peer that connects has a chain as high as the checkpoints.
SyncedPeers == \A h \in ReportedHeight, c \in Checkpoint : Height[c] <= h

\* A block of b's chain that is no higher than another one is on that one's chain.
LEMMA ChainLinear ==
  ASSUME NEW b \in Block, NEW j \in Chain[b], NEW a \in Chain[b], Height[a] <= Height[j]
  PROVE  a \in Chain[j]
<1> DEFINE S == {x \in Chain[b] : x \in Chain[j] \/ j \in Chain[x]}
<1>1. Chain[b] \subseteq Block /\ b \in Chain[b] /\ ParentClosed(Chain[b]) /\ a \in Block /\ j \in Block
  BY ChainClosed
<1>2. j \in Chain[j] /\ ParentClosed(Chain[j]) /\ Chain[j] \subseteq Block
  BY <1>1, ChainClosed
<1>3. S \subseteq Block /\ b \in S
  BY <1>1
<1>4. ASSUME NEW x \in S \ {Genesis} PROVE Parent[x] \in S
  <2>1. Parent[x] \in Chain[b] /\ x \in Block \ {Genesis}
    BY <1>1 DEF ParentClosed
  <2>2. CASE x \in Chain[j]
    BY <1>2, <2>1, <2>2 DEF ParentClosed
  <2>3. CASE j \in Chain[x] /\ x \notin Chain[j]
    <3>1. j # x
      BY <1>2, <2>3
    <3>2. j \in Chain[Parent[x]]
      BY <2>1, <2>3, <3>1, ChainStep
    <3> QED BY <2>1, <3>2
  <2> QED BY <2>2, <2>3
<1>5. Chain[b] \subseteq S
  BY <1>3, <1>4, ChainLeast DEF ParentClosed
<1>6. CASE j \in Chain[a]
  <2>1. j # a => Height[j] < Height[a]
    BY <1>1, <1>6, ChainHeight
  <2>2. Height[j] \in Nat /\ Height[a] \in Nat
    BY <1>1, HeightFacts
  <2> QED BY <1>2, <2>1, <2>2
<1> QED BY <1>5, <1>6

\* Chains lie in one another.
LEMMA ChainWithin ==
  ASSUME NEW b \in Block, NEW j \in Chain[b]
  PROVE  j \in Block /\ Chain[j] \subseteq Chain[b]
BY ChainClosed, ChainLeast

\* One block more.
LEMMA ChainNext ==
  ASSUME NEW b \in Block \ {Genesis}
  PROVE  Parent[b] \in Block /\ Chain[b] = {b} \cup Chain[Parent[b]]
<1>1. Parent[b] \in Block /\ b \in Chain[b] /\ Parent[b] \in Chain[b]
  BY ChainClosed, HeightFacts DEF ParentClosed
<1> QED BY <1>1, ChainWithin, ChainStep

\* Two chains that meet have a last common block.
LEMMA JoinFacts ==
  ASSUME NEW b \in Block, NEW c \in Block, Chain[b] \cap Chain[c] # {}
  PROVE  \E j \in Chain[b] \cap Chain[c] :
           /\ JoinHeight(b, c) = Height[j]
           /\ \A a \in Chain[b] \cap Chain[c] : Height[a] <= Height[j]
<1> DEFINE H == {Height[a] : a \in Chain[b] \cap Chain[c]}
<1>1. /\ H \in SUBSET Int /\ H # {} /\ Height[b] \in Int
      /\ \A h \in H : h <= Height[b]
  BY ChainClosed, ChainHeight, HeightFacts
<1>2. \E m \in H : \A h \in H : h <= m
  <2> HIDE DEF H
  <2> QED BY <1>1, Greatest
<1>3. \E h \in H : \A a \in Chain[b] \cap Chain[c] : Height[a] <= h
  BY <1>2
<1> DEFINE m == JoinHeight(b, c)
<1>4. m \in H /\ \A a \in Chain[b] \cap Chain[c] : Height[a] <= m
  BY <1>3, Zenon DEF JoinHeight
<1> QED BY <1>4

\* The highest gap is one, or there is none.
LEMMA GapFacts ==
  ASSUME NEW c \in Block, NEW held
  PROVE  HighestGap(c, held) = -1 \/ \E a \in Chain[c] \ held : HighestGap(c, held) = Height[a]
<1> DEFINE G == {Height[a] : a \in Chain[c] \ held} \cup {-1}
<1>1. /\ G \in SUBSET Int /\ G # {} /\ Height[c] \in Int
      /\ \A h \in G : h <= Height[c]
  BY ChainClosed, ChainHeight, HeightFacts
<1>2. \E m \in G : \A g \in G : g <= m
  <2> HIDE DEF G
  <2> QED BY <1>1, Greatest
<1>3. HighestGap(c, held) \in G
  BY <1>2, Zenon DEF HighestGap
<1> QED BY <1>3

\* A header this far down, or below the block the download started from, is not walked over.
Low(a, tip) == Height[a] < Height[Start] \/ Height[a] + Interval <= Height[tip]

AboveStart ==
  /\ \A b \in blocks \ Checkpoint : Height[b] > Height[Start]
  /\ Height[lastBlock] >= Height[Start]

\* Only such headers are missing on the chains of the headers held.
GapsLow ==
  \A b \in (blocks \ Checkpoint) \cup {lastBlock} : \A a \in Chain[b] \ blocks : Low(a, lastBlock)

\* A thread has an orphan in hand while it is connected.
HandsConnected == \A p \in Peer : next[p] # NoBlock => Connected(p)

BestInv ==
  /\ IInv /\ CheckpointInv
  /\ AboveStart /\ GapsLow /\ HandsConnected
  /\ txHeight = Best!Confirmations(lastBlock)

\* LWBestChain speaks of the same chains.
LEMMA SameChains == Best!Chain = Chain
BY DEF Best!Chain, Chain, Best!ParentClosed, ParentClosed

\* At first nothing but the checkpoints is held, and no transaction has a height.
LEMMA BestInit == Init => BestInv /\ Best!Init
<1> SUFFICES ASSUME Init PROVE BestInv /\ Best!Init
  OBVIOUS
<1>1. IInv
  BY InitInv
<1>2. CheckpointInv
  BY InitType, CheckpointThrough, CheckpointAssumption DEF Init, CheckpointInv
<1>3. Start \in Checkpoint /\ Start \in Block /\ Height[Start] \in Nat
  BY CheckpointAssumption, HeightFacts
<1>4. AboveStart
  BY <1>3 DEF Init, AboveStart
<1>5. ASSUME NEW a \in Chain[Start], a \notin blocks PROVE Height[a] < Height[Start]
  <2>1. a # Start
    BY <1>3, <1>5 DEF Init
  <2> QED BY <1>3, <2>1, ChainHeight
<1>6. GapsLow
  BY <1>5 DEF Init, GapsLow, Low
<1>7. HandsConnected
  BY DEF Init, HandsConnected
<1>8. Best!Confirmations(Start) = [t \in Tx |-> Unconfirmed]
  <2>1. ASSUME NEW a \in Chain[Start], Height[a] > Height[Start] PROVE FALSE
    <3>1. Height[a] <= Height[Start] /\ Height[a] \in Nat
      BY <1>3, ChainHeight, ChainClosed, HeightFacts
    <3> QED BY <1>3, <2>1, <3>1
  <2> QED BY <2>1, SameChains DEF Best!Confirmations
<1>9. lastBlock = Start /\ txHeight = Best!Confirmations(lastBlock)
  BY <1>8 DEF Init
<1>10. Best!Init
  BY <1>9 DEF Best!Init
<1> QED BY <1>1, <1>2, <1>4, <1>6, <1>7, <1>9, <1>10 DEF BestInv


\* The heights a chain gives: those of the blocks above Start, and no other.
LEMMA Confirmed ==
  ASSUME NEW b \in Block
  PROVE  /\ Best!Confirmations(b) \in [Tx -> Nat]
         /\ \A t \in Tx : \A a \in Chain[b] :
              Height[a] > Height[Start] /\ t \in TxIn[a] => Best!Confirmations(b)[t] = Height[a]
         /\ \A t \in Tx :
              (\A a \in Chain[b] : Height[a] > Height[Start] => t \notin TxIn[a])
                => Best!Confirmations(b)[t] = Unconfirmed
<1>1. ASSUME NEW t \in Tx, NEW a \in Chain[b], Height[a] > Height[Start], t \in TxIn[a]
      PROVE  Best!Confirmations(b)[t] = Height[a] /\ Height[a] \in Nat
  <2> DEFINE c == CHOOSE x \in Chain[b] : Height[x] > Height[Start] /\ t \in TxIn[x]
  <2>1. c \in Chain[b] /\ t \in TxIn[c]
    BY <1>1
  <2>2. Best!Confirmations(b)[t] = Height[c]
    BY <1>1, SameChains DEF Best!Confirmations
  <2> HIDE DEF c
  <2>3. c = a
    BY <1>1, <2>1, DataAssumption
  <2> QED BY <2>2, <2>3, ChainClosed, HeightFacts
<1>2. ASSUME NEW t \in Tx, \A a \in Chain[b] : Height[a] > Height[Start] => t \notin TxIn[a]
      PROVE  Best!Confirmations(b)[t] = Unconfirmed /\ Unconfirmed \in Nat
  BY <1>2, DataAssumption, SameChains DEF Best!Confirmations
<1>3. \A t \in Tx : Best!Confirmations(b)[t] \in Nat
  BY <1>1, <1>2
<1>4. Best!Confirmations(b) \in [Tx -> Nat]
  BY <1>3 DEF Best!Confirmations
<1> QED BY <1>1, <1>2, <1>4

\* The heights LWWalletUpdateTransactions gives for blocks of one chain.
LEMMA ConfirmFacts ==
  ASSUME NEW b \in Block, NEW S, \A a \in S : a \in Chain[b], NEW heights \in [Tx -> Nat], NEW t \in Tx
  PROVE  /\ \A a \in S : t \in TxIn[a] => Confirm(heights, S)[t] = Height[a]
         /\ (\A a \in S : t \notin TxIn[a]) => Confirm(heights, S)[t] = heights[t]
<1>1. ASSUME NEW a \in S, t \in TxIn[a] PROVE Confirm(heights, S)[t] = Height[a]
  <2> DEFINE c == CHOOSE x \in S : t \in TxIn[x]
  <2>1. c \in S /\ t \in TxIn[c]
    BY <1>1
  <2>2. Confirm(heights, S)[t] = Height[c]
    BY <1>1 DEF Confirm
  <2> HIDE DEF c
  <2>3. c = a
    BY <1>1, <2>1, DataAssumption
  <2> QED BY <2>2, <2>3
<1> QED BY <1>1 DEF Confirm

\* What verification frees is far enough down.
LEMMA KeptLow ==
  ASSUME BestInv, NEW b \in Block \ {Genesis}, Parent[b] \in blocks
  PROVE  /\ Kept(b) \subseteq blocks
         /\ \A a \in blocks \ Kept(b) : Low(a, lastBlock)
         /\ \A c \in (blocks \ Checkpoint) \cup {lastBlock} :
              \A a \in Chain[c] \ Kept(b) : Low(a, lastBlock)
<1>1. ASSUME NEW a \in Pruned(b) PROVE Low(a, lastBlock)
  <2>1. Transition(Height[b]) /\ Height[a] < Height[b] - Interval /\ a \in Block
    BY PrunedFacts
  <2>2. Height[b] <= Height[lastBlock] + 1
    BY <2>1, LinkedHeight DEF BestInv, IInv
  <2>3. lastBlock \in Block
    BY DEF BestInv, IInv, TypeOK
  <2> QED BY <2>1, <2>2, <2>3, HeightFacts, IntervalAssumption DEF Low
<1> QED BY <1>1 DEF Kept, BestInv, GapsLow

\* A block that is linked to the headers held frees only headers far enough down, and is one above
\* the tip at most.
LEMMA LinkedFacts ==
  ASSUME BestInv, SyncedPeers, NEW p \in Peer, NEW b \in Block, Linked(p, b),
         ~ AheadOfRescan(p, b)
  PROVE  /\ Height[b] <= Height[lastBlock] + 1
         /\ \A a \in Chain[lastBlock] \ Kept(b) : Low(a, lastBlock)
         /\ \A a \in Chain[Parent[b]] \ Kept(b) : Low(a, lastBlock)
<1>1. /\ b \in Block \ {Genesis} /\ Parent[b] \in blocks /\ Parent[b] \in Block
      /\ Height[b] = Height[Parent[b]] + 1 /\ Height[Parent[b]] \in Nat /\ Height[b] \in Nat
      /\ lastBlock \in Block /\ Height[lastBlock] \in Nat
  BY HeightFacts DEF Linked, Receives, BestInv, IInv, TypeOK
<1>2. Connected(p) /\ lastblock[p] \in ReportedHeight /\ lastblock[p] \in Nat
  <2>1. Connected(p)
    BY DataAssumption DEF Linked, Receives, BestInv, HandsConnected
  <2>2. lastblock[p] \in ReportedHeight \cup {-1}
    BY DEF BestInv, IInv, TypeOK
  <2>3. lastblock[p] # -1
    BY <2>1 DEF Connected
  <2>4. ReportedHeight \subseteq Nat
    BY DataAssumption
  <2> QED BY <2>1, <2>2, <2>3, <2>4
<1>3. Height[Parent[b]] <= Height[lastBlock]
  <2>1. CASE Parent[b] \in Checkpoint
    <3>1. Height[Parent[b]] <= lastblock[p]
      BY <1>2, <2>1 DEF SyncedPeers
    <3> QED BY <1>1, <1>2, <3>1 DEF AheadOfRescan
  <2>2. CASE Parent[b] \notin Checkpoint
    BY <1>1, <2>2 DEF BestInv, IInv, TallestIsLast
  <2> QED BY <2>1, <2>2
<1>4. /\ \A a \in Chain[lastBlock] \ Kept(b) : Low(a, lastBlock)
      /\ \A a \in blocks \ Kept(b) : Low(a, lastBlock)
  BY <1>1, KeptLow
<1>5. ASSUME NEW a \in Chain[Parent[b]] \ blocks PROVE Low(a, lastBlock)
  <2>1. CASE Parent[b] \in Checkpoint
    <3>1. Parent[b] \in Chain[lastBlock]
      BY <1>3, <2>1 DEF BestInv, CheckpointInv, ThroughCheckpoints
    <3>2. a \in Chain[lastBlock]
      BY <1>1, <3>1, ChainWithin
    <3> QED BY <1>5, <3>2 DEF BestInv, GapsLow
  <2>2. CASE Parent[b] \notin Checkpoint
    BY <1>1, <1>5, <2>2 DEF BestInv, GapsLow
  <2> QED BY <2>1, <2>2
<1> QED BY <1>1, <1>3, <1>4, <1>5

\* The tip stays: what is held changes only by what LinkedFacts allows, and by a block whose chain
\* is held as far.
LEMMA KeepsBest ==
  ASSUME BestInv, IInv', CheckpointInv', HandsConnected', NEW b \in Block,
         \A a \in Chain[lastBlock] \ blocks' : Low(a, lastBlock),
         blocks' \subseteq blocks \cup {b}, \A a \in blocks \ blocks' : Low(a, lastBlock),
         b \in blocks' \ blocks => /\ Height[b] > Height[Start]
                                   /\ \A a \in Chain[b] \ blocks' : Low(a, lastBlock),
         lastBlock' = lastBlock, txHeight' = txHeight
  PROVE  BestInv'
<1>1. AboveStart'
  BY DEF BestInv, AboveStart
<1>2. GapsLow'
  <2>1. ASSUME NEW c \in blocks \ Checkpoint, NEW a \in Chain[c] \ blocks'
        PROVE  Low(a, lastBlock)
    BY <2>1 DEF BestInv, GapsLow
  <2>2. \A c \in blocks' \ Checkpoint : \A a \in Chain[c] \ blocks' : Low(a, lastBlock)
    BY <2>1
  <2> QED BY <2>2 DEF GapsLow, Low
<1> QED BY <1>1, <1>2 DEF BestInv

\* The tip moves to a block one higher that passes verification.
LEMMA AdoptsBest ==
  ASSUME BestInv, SyncedPeers, IInv', CheckpointInv', HandsConnected',
         NEW p \in Peer, NEW b \in Block, Linked(p, b), ~ AheadOfRescan(p, b),
         Height[b] > Height[lastBlock],
         blocks' = Kept(b) \cup {b}, lastBlock' = b, txHeight' = Best!Confirmations(b)
  PROVE  BestInv' /\ Best!Next
<1>1. /\ b \in Block \ {Genesis} /\ Parent[b] \in Block /\ Height[b] \in Nat
      /\ lastBlock \in Block /\ Height[lastBlock] \in Nat
      /\ Start \in Checkpoint /\ Start \in Block /\ Height[Start] \in Nat
      /\ Chain[b] = {b} \cup Chain[Parent[b]]
  BY ChainNext, HeightFacts, CheckpointAssumption DEF Linked, Receives, BestInv, IInv, TypeOK
<1>2. Height[b] > Height[Start]
  BY <1>1 DEF BestInv, AboveStart
<1>3. AboveStart'
  BY <1>1, <1>2 DEF BestInv, AboveStart, Kept
<1>4. ASSUME NEW a, a \in Block, Low(a, lastBlock) PROVE Low(a, b)
  BY <1>1, <1>4, HeightFacts, IntervalAssumption DEF Low
<1>5. ASSUME NEW c \in (blocks' \ Checkpoint) \cup {b}, NEW a \in Chain[c] \ blocks'
      PROVE  Low(a, b)
  <2>1. c \in Block /\ a \in Block
    BY <1>5, ChainClosed DEF BestInv, IInv, TypeOK, Kept
  <2>2. CASE c = b
    <3>1. a \in Chain[Parent[b]] \ Kept(b)
      BY <1>1, <1>5, <2>2
    <3> QED BY <1>4, <2>1, <3>1, LinkedFacts
  <2>3. CASE c # b /\ a \notin blocks
    <3>1. c \in blocks \ Checkpoint
      BY <1>5, <2>3 DEF Kept
    <3> QED BY <1>4, <1>5, <2>1, <2>3, <3>1 DEF BestInv, GapsLow
  <2>4. CASE a \in blocks
    <3>1. a \in Pruned(b)
      BY <1>5, <2>4 DEF Kept
    <3>2. Height[a] < Height[b] - Interval
      BY <1>1, <3>1, PrunedFacts
    <3> QED BY <1>1, <2>1, <3>2, HeightFacts, IntervalAssumption DEF Low
  <2> QED BY <2>2, <2>3, <2>4
<1>6. GapsLow'
  BY <1>5 DEF GapsLow, Low
<1>7. Start \in Chain[b]
  BY <1>1, <1>2 DEF CheckpointInv, ThroughCheckpoints
<1>8. Best!Adopt(b)
  BY <1>7, SameChains DEF Best!Adopt
<1> QED BY <1>3, <1>6, <1>8 DEF BestInv, Best!Next

\* The same for one block.
LEMMA ConfirmOne ==
  ASSUME NEW b \in Block, NEW heights \in [Tx -> Nat], NEW t \in Tx
  PROVE  Confirm(heights, {b})[t] = IF t \in TxIn[b] THEN Height[b] ELSE heights[t]
<1> DEFINE S == {b}
<1>1. \A a \in S : a \in Chain[b]
  BY ChainClosed
<1>2. /\ \A a \in S : t \in TxIn[a] => Confirm(heights, S)[t] = Height[a]
      /\ (\A a \in S : t \notin TxIn[a]) => Confirm(heights, S)[t] = heights[t]
  <2> HIDE DEF S
  <2> QED BY <1>1, ConfirmFacts
<1> QED BY <1>2

\* The block b does not change the height of t.
Untouched(heights, b, t) == Confirm(heights, {b})[t] = heights[t]

\* It does not where it does not have t.
LEMMA ConfirmNone ==
  ASSUME NEW b, b \in Block, NEW heights, heights \in [Tx -> Nat], NEW t, t \in Tx, t \notin TxIn[b]
  PROVE  Untouched(heights, b, t)
<1>1. Confirm(heights, {b})[t] = heights[t]
  BY ConfirmOne
<1> QED BY <1>1, Zenon DEF Untouched

\* An extension of the tip's chain confirms what the new block has.
LEMMA ExtendsBest ==
  ASSUME BestInv, NEW b \in Block \ {Genesis}, Parent[b] = lastBlock
  PROVE  Confirm(txHeight, {b}) = Best!Confirmations(b)
<1>1. /\ lastBlock \in Block /\ Chain[b] = {b} \cup Chain[lastBlock] /\ Start \in Block
      /\ Height[b] \in Nat /\ Height[Start] \in Nat /\ Height[b] = Height[lastBlock] + 1
      /\ Height[lastBlock] \in Nat /\ txHeight \in [Tx -> Nat]
  BY ChainNext, HeightFacts, CheckpointAssumption DEF BestInv, IInv, TypeOK
<1>2. Height[b] > Height[Start] /\ b \in Chain[b] /\ b \in Block
  BY <1>1 DEF BestInv, AboveStart
<1>3. ASSUME NEW t \in Tx
      PROVE  Confirm(txHeight, {b})[t] = Best!Confirmations(b)[t]
  <2>1. Confirm(txHeight, {b})[t] = IF t \in TxIn[b] THEN Height[b] ELSE txHeight[t]
    BY <1>1, <1>2, ConfirmOne
  <2>2. CASE t \in TxIn[b]
    <3>1. Best!Confirmations(b)[t] = Height[b]
      BY <1>2, <2>2, Confirmed
    <3> QED BY <2>1, <2>2, <3>1
  <2>3. ASSUME t \notin TxIn[b], NEW a \in Chain[lastBlock], Height[a] > Height[Start], t \in TxIn[a]
        PROVE  Confirm(txHeight, {b})[t] = Best!Confirmations(b)[t]
    <3>1. Confirm(txHeight, {b})[t] = txHeight[t]
      BY <2>3, <2>1
    <3>2. txHeight[t] = Height[a]
      BY <1>1, <2>3, Confirmed DEF BestInv
    <3>3. Best!Confirmations(b)[t] = Height[a]
      BY <1>1, <2>3, Confirmed
    <3> QED BY <3>1, <3>2, <3>3
  <2>4. ASSUME t \notin TxIn[b], \A a \in Chain[lastBlock] : Height[a] > Height[Start] => t \notin TxIn[a]
        PROVE  Confirm(txHeight, {b})[t] = Best!Confirmations(b)[t]
    <3>1. Confirm(txHeight, {b})[t] = txHeight[t]
      BY <2>4, <2>1
    <3>2. txHeight[t] = Unconfirmed
      BY <1>1, <2>4, Confirmed DEF BestInv
    <3>3. Best!Confirmations(b)[t] = Unconfirmed
      BY <1>1, <2>4, Confirmed
    <3> QED BY <3>1, <3>2, <3>3
  <2> QED BY <2>2, <2>3, <2>4
<1>4. Confirm(txHeight, {b}) \in [Tx -> Nat] /\ Best!Confirmations(b) \in [Tx -> Nat]
  BY <1>1, ConfirmType, Confirmed
<1> QED BY <1>3, <1>4

\* A block that is held and on the tip's chain confirms nothing new.
LEMMA ConfirmsAgain ==
  ASSUME BestInv, NEW b \in Chain[lastBlock], Height[b] > Height[Start]
  PROVE  Confirm(txHeight, {b}) = txHeight
<1>1. lastBlock \in Block /\ txHeight \in [Tx -> Nat] /\ {b} \subseteq Chain[lastBlock]
      /\ b \in Block
  BY ChainClosed DEF BestInv, IInv, TypeOK
<1>2. ASSUME NEW t \in Tx PROVE Confirm(txHeight, {b})[t] = txHeight[t]
  <2>1. CASE t \in TxIn[b]
    <3>1. Confirm(txHeight, {b})[t] = Height[b]
      BY <1>1, <2>1, ConfirmOne
    <3>2. txHeight[t] = Height[b]
      BY <1>1, <2>1, Confirmed DEF BestInv
    <3> QED BY <3>1, <3>2
  <2>2. CASE t \notin TxIn[b]
    <3>1. b \in Block /\ txHeight \in [Tx -> Nat]
      BY <1>1
    <3>2. Untouched(txHeight, b, t)
      BY <2>2, <3>1, ConfirmNone, Zenon
    <3> QED BY <3>2, Zenon DEF Untouched
  <2> QED BY <2>1, <2>2
<1>3. Confirm(txHeight, {b}) \in [Tx -> Nat]
  BY <1>1, ConfirmType
<1> QED BY <1>1, <1>2, <1>3

\* Of two chains that join where the walk stops, the other one keeps its heights up to there.
LEMMA ReorganizesBest ==
  ASSUME BestInv, NEW b \in Block, ThroughCheckpoints(b), Height[b] >= Height[Start],
         NEW j \in Chain[b] \cap Chain[lastBlock], Height[j] >= Height[Start],
         \A a \in Chain[b] \cap Chain[lastBlock] : Height[a] <= Height[j]
  PROVE  Confirm(UnconfirmAfter(txHeight, Height[j]), Segment(b, Height[j] + 1, Height[b]))
           = Best!Confirmations(b)
<1> DEFINE left == UnconfirmAfter(txHeight, Height[j])
           S == Segment(b, Height[j] + 1, Height[b])
<1>1. /\ lastBlock \in Block /\ txHeight \in [Tx -> Nat] /\ j \in Block /\ Height[j] \in Nat
      /\ Chain[b] \subseteq Block /\ Chain[lastBlock] \subseteq Block
      /\ Start \in Block /\ Height[Start] \in Nat /\ left \in [Tx -> Nat] /\ S \in SUBSET Chain[b]
      /\ \A a \in Block : Height[a] \in Nat
  BY ChainClosed, HeightFacts, CheckpointAssumption, UnconfirmType
     DEF BestInv, IInv, TypeOK, Segment
<1>2. ASSUME NEW a \in Chain[b] PROVE a \in S <=> Height[a] > Height[j]
  <2>1. Height[a] \in Nat /\ Height[a] <= Height[b]
    BY <1>1, ChainHeight
  <2> QED BY <1>1, <2>1 DEF Segment
<1>3. \A a \in Chain[b] : Height[a] <= Height[j] => a \in Chain[lastBlock]
  BY <1>1, ChainLinear, ChainWithin
<1>4. \A a \in Chain[lastBlock] : Height[a] <= Height[j] => a \in Chain[b]
  BY <1>1, ChainLinear, ChainWithin
<1>5. \A t \in Tx : left[t] = IF txHeight[t] > Height[j] THEN Unconfirmed ELSE txHeight[t]
  BY DEF UnconfirmAfter
<1> HIDE DEF left, S
<1>6. ASSUME NEW t \in Tx
      PROVE  /\ \A a \in S : t \in TxIn[a] => Confirm(left, S)[t] = Height[a]
             /\ (\A a \in S : t \notin TxIn[a]) => Confirm(left, S)[t] = left[t]
  <2>1. left \in [Tx -> Nat] /\ \A a \in S : a \in Chain[b]
    BY <1>1
  <2> QED BY <2>1, ConfirmFacts
<1>7. ASSUME NEW t \in Tx PROVE Confirm(left, S)[t] = Best!Confirmations(b)[t]
  <2>1. ASSUME NEW a \in Chain[b], Height[a] > Height[j], t \in TxIn[a]
        PROVE  Confirm(left, S)[t] = Best!Confirmations(b)[t]
    <3>1. Confirm(left, S)[t] = Height[a]
      BY <1>2, <1>6, <2>1
    <3>2. Height[a] > Height[Start]
      BY <1>1, <2>1
    <3>3. Best!Confirmations(b)[t] = Height[a]
      BY <2>1, <3>2, Confirmed
    <3> QED BY <3>1, <3>3
  <2>2. ASSUME \A a \in Chain[b] : Height[a] > Height[j] => t \notin TxIn[a]
        PROVE  Confirm(left, S)[t] = Best!Confirmations(b)[t]
    <3>1. Confirm(left, S)[t] = left[t]
      BY <1>1, <1>2, <1>6, <2>2
    <3>2. ASSUME NEW a \in Chain[b], Height[a] <= Height[j], Height[a] > Height[Start], t \in TxIn[a]
          PROVE  left[t] = Best!Confirmations(b)[t]
      <4>1. txHeight[t] = Height[a]
        BY <1>1, <1>3, <3>2, Confirmed DEF BestInv
      <4>2. Best!Confirmations(b)[t] = Height[a]
        BY <3>2, Confirmed
      <4> QED BY <1>1, <1>5, <3>2, <4>1, <4>2
    <3>3. ASSUME \A a \in Chain[b] : Height[a] <= Height[j] /\ Height[a] > Height[Start] => t \notin TxIn[a]
          PROVE  left[t] = Best!Confirmations(b)[t]
      <4>1. \A a \in Chain[b] : Height[a] > Height[Start] => t \notin TxIn[a]
        BY <1>1, <2>2, <3>3
      <4>2. Best!Confirmations(b)[t] = Unconfirmed
        BY <4>1, Confirmed
      <4>3. ASSUME NEW a \in Chain[lastBlock], Height[a] > Height[Start], t \in TxIn[a]
            PROVE  left[t] = Unconfirmed
        <5>1. txHeight[t] = Height[a]
          BY <1>1, <4>3, Confirmed DEF BestInv
        <5>2. ~ (Height[a] <= Height[j])
          BY <1>4, <4>1, <4>3
        <5> QED BY <1>1, <1>5, <5>1, <5>2
      <4>4. ASSUME \A a \in Chain[lastBlock] : Height[a] > Height[Start] => t \notin TxIn[a]
            PROVE  left[t] = Unconfirmed
        <5>1. txHeight[t] = Unconfirmed
          BY <1>1, <4>4, Confirmed DEF BestInv
        <5> QED BY <1>5, <5>1
      <4> QED BY <4>2, <4>3, <4>4
    <3> QED BY <1>1, <3>1, <3>2, <3>3
  <2> QED BY <2>1, <2>2
<1>8. Confirm(left, S) \in [Tx -> Nat] /\ Best!Confirmations(b) \in [Tx -> Nat]
  <2>1. S \in SUBSET Block
    BY <1>1
  <2> QED BY <1>1, <2>1, ConfirmType, Confirmed
<1>9. Confirm(left, S) = Best!Confirmations(b)
  BY <1>7, <1>8
<1> QED BY <1>9 DEF left, S

\* The walks of a reorganization end at the last common block: no header is missing above it.
LEMMA WalksMeet ==
  ASSUME BestInv, SyncedPeers, ShortBranches, NEW p \in Peer, NEW b \in Block,
         NewOnFork(p, b), Height[b] > Height[lastBlock]
  PROVE  \E j \in Chain[b] \cap Chain[lastBlock] :
           /\ JoinHeight(b, lastBlock) = Height[j]
           /\ Height[j] >= Height[Start]
           /\ \A a \in Chain[b] \cap Chain[lastBlock] : Height[a] <= Height[j]
           /\ HighestGap(b, Kept(b) \cup {b}) < Height[j]
           /\ HighestGap(lastBlock, Kept(b) \cup {b} \cup {lastBlock}) < Height[j]
<1>1. Linked(p, b) /\ VerifyBlock(b) /\ ~ AheadOfRescan(p, b)
  BY DEF NewOnFork, Unknown
<1>2. /\ b \in Block \ {Genesis} /\ Parent[b] \in Block /\ lastBlock \in Block
      /\ Height[b] \in Nat /\ Height[lastBlock] \in Nat /\ Interval \in Nat
      /\ Start \in Checkpoint /\ Start \in Block /\ Height[Start] \in Nat
      /\ Chain[b] = {b} \cup Chain[Parent[b]]
      /\ Chain[b] \subseteq Block /\ Chain[lastBlock] \subseteq Block
  BY <1>1, ChainNext, ChainClosed, HeightFacts, CheckpointAssumption, IntervalAssumption
     DEF Linked, Receives, BestInv, IInv, TypeOK
<1>3. /\ Height[b] = Height[lastBlock] + 1
      /\ \A a \in Chain[lastBlock] \ Kept(b) : Low(a, lastBlock)
      /\ \A a \in Chain[Parent[b]] \ Kept(b) : Low(a, lastBlock)
  BY <1>1, <1>2, LinkedFacts
<1>4. ThroughCheckpoints(b) /\ ThroughCheckpoints(lastBlock)
  <2>1. ThroughCheckpoints(Parent[b])
    BY <1>1 DEF BestInv, CheckpointInv, Linked
  <2> QED BY <1>1, <1>2, <2>1, VerifiedThrough DEF BestInv, CheckpointInv
<1>5. PICK m \in Chain[b] \cap Chain[lastBlock] : Height[m] + Interval >= Height[b]
  BY <1>2, <1>3, <1>4 DEF ShortBranches
<1>6. PICK j \in Chain[b] \cap Chain[lastBlock] :
         /\ JoinHeight(b, lastBlock) = Height[j]
         /\ \A a \in Chain[b] \cap Chain[lastBlock] : Height[a] <= Height[j]
  BY <1>2, <1>5, JoinFacts
<1>7. Start \in Chain[b] \cap Chain[lastBlock]
  BY <1>2, <1>3, <1>4 DEF ThroughCheckpoints, BestInv, AboveStart
<1>8. /\ Height[j] >= Height[Start] /\ Height[j] + Interval > Height[lastBlock]
      /\ Height[j] \in Nat
  <2>1. Height[m] \in Nat /\ Height[j] \in Nat /\ Height[m] <= Height[j]
    BY <1>2, <1>5, <1>6, HeightFacts
  <2> QED BY <1>2, <1>3, <1>5, <1>6, <1>7, <2>1
<1>9. ASSUME NEW a \in Block, Low(a, lastBlock) PROVE Height[a] < Height[j]
  BY <1>2, <1>8, <1>9, HeightFacts DEF Low
<1>10. HighestGap(b, Kept(b) \cup {b}) < Height[j]
  <2> DEFINE held == Kept(b) \cup {b}
  <2>1. ASSUME NEW a \in Chain[b] \ held PROVE Height[a] < Height[j]
    BY <1>2, <1>3, <1>9, <2>1
  <2>2. HighestGap(b, held) = -1 \/ \E a \in Chain[b] \ held : HighestGap(b, held) = Height[a]
    <3> HIDE DEF held
    <3> QED BY <1>2, GapFacts
  <2> HIDE DEF held
  <2>3. HighestGap(b, held) < Height[j]
    BY <1>8, <2>1, <2>2
  <2> QED BY <2>3 DEF held
<1>11. HighestGap(lastBlock, Kept(b) \cup {b} \cup {lastBlock}) < Height[j]
  <2> DEFINE held == Kept(b) \cup {b} \cup {lastBlock}
  <2>1. ASSUME NEW a \in Chain[lastBlock] \ held PROVE Height[a] < Height[j]
    BY <1>2, <1>3, <1>9, <2>1
  <2>2. HighestGap(lastBlock, held) = -1
          \/ \E a \in Chain[lastBlock] \ held : HighestGap(lastBlock, held) = Height[a]
    <3> HIDE DEF held
    <3> QED BY <1>2, GapFacts
  <2> HIDE DEF held
  <2>3. HighestGap(lastBlock, held) < Height[j]
    BY <1>8, <2>1, <2>2
  <2> QED BY <2>3 DEF held
<1> QED BY <1>6, <1>8, <1>10, <1>11

\* A thread that has an orphan in hand is in a callback, and its peer stays connected.
LEMMA NextHands ==
  ASSUME TypeOK, HandsConnected, [Next]_vars
  PROVE  HandsConnected'
<1>1. NoBlock \notin Block /\ lastblock \in [Peer -> ReportedHeight \cup {-1}]
      /\ next \in [Peer -> Block \cup {NoBlock}] /\ ReportedHeight \subseteq Nat
  BY DataAssumption DEF TypeOK
<1>2. CASE UNCHANGED <<lastblock, next>>
  BY <1>2 DEF HandsConnected, Connected
<1>3. ASSUME NEW p \in Peer, NEW b \in Block, RelayBlock(p, b) PROVE HandsConnected'
  <2>1. Receives(p, b) /\ lastblock' = lastblock
    BY <1>3 DEF RelayBlock, IgnoreBlock, RelayedOrphan, RejectInvalid, ExtendMainChain,
                RelayedExisting, MarkNewAsOrphan, IgnoreOldFork, AddFork, Reorganize,
                Linked, Unknown, NewOnFork, peerVars
  <2>2. Connected(p)
    BY <1>1, <2>1 DEF Receives, HandsConnected
  <2>3. next' = next \/ \E o : next' = [next EXCEPT ![p] = o]
    BY <1>3 DEF RelayBlock, IgnoreBlock, RelayedOrphan, RejectInvalid, ExtendMainChain,
                RelayedExisting, MarkNewAsOrphan, IgnoreOldFork, AddFork, Reorganize,
                Done, Placed
  <2> QED BY <1>1, <2>1, <2>2, <2>3 DEF HandsConnected, Connected
<1>4. ASSUME NEW p \in Peer, NEW h \in ReportedHeight, PeerConnected(p, h) PROVE HandsConnected'
  <2>1. lastblock' = [lastblock EXCEPT ![p] = h] /\ next' = next /\ h >= 0
    BY <1>1, <1>4 DEF PeerConnected
  <2> QED BY <1>1, <2>1 DEF HandsConnected, Connected
<1>5. ASSUME NEW p \in Peer, PeerDisconnected(p) PROVE HandsConnected'
  BY <1>1, <1>5 DEF PeerDisconnected, HandsConnected, Connected
<1>6. ASSUME NEW p \in Peer, SaveBlocks(p) PROVE HandsConnected'
  BY <1>2, <1>6 DEF SaveBlocks, peerVars
<1>7. CASE FilterOutdated \/ UpdateFilter \/ UNCHANGED vars
  BY <1>2, <1>7 DEF FilterOutdated, UpdateFilter, vars, peerVars
<1> QED BY <1>3, <1>4, <1>5, <1>6, <1>7 DEF Next, PeerStep

\* A block that is held already and linked is above the block the download started from.
LEMMA ExistingAbove ==
  ASSUME BestInv, NEW b \in blocks \ {Genesis}, Parent[b] \in blocks
  PROVE  Height[b] > Height[Start]
<1>1. /\ b \in Block /\ Parent[b] \in Block /\ Height[b] = Height[Parent[b]] + 1
      /\ Height[b] \in Nat /\ Height[Parent[b]] \in Nat
      /\ Start \in Block /\ Height[Start] \in Nat
  BY HeightFacts, CheckpointAssumption DEF BestInv, IInv, TypeOK
<1>2. CASE Parent[b] \notin Checkpoint
  BY <1>1, <1>2 DEF BestInv, AboveStart
<1>3. CASE Parent[b] \in Checkpoint
  <2>1. b \notin Checkpoint
    <3>1. ASSUME b \in Checkpoint PROVE FALSE
      <4>1. Transition(Height[b]) /\ Transition(Height[Parent[b]])
        BY <1>3, <3>1, CheckpointAssumption
      <4>2. Height[Parent[b]] <= Height[b] - Interval
        BY <1>1, <4>1, TransitionsApart
      <4> QED BY <1>1, <4>2, IntervalAssumption
    <3> QED BY <3>1
  <2> QED BY <2>1 DEF BestInv, AboveStart
<1> QED BY <1>2, <1>3

\* Every branch of _peerRelayedBlock keeps what the wallet is shown, or moves on to a longer chain.
LEMMA RelayBest ==
  ASSUME BestInv, ShortBranches, SyncedPeers, NEW p \in Peer, NEW b \in Block, RelayBlock(p, b),
         IInv', CheckpointInv', HandsConnected'
  PROVE  BestInv' /\ (Best!Next \/ UNCHANGED <<lastBlock, txHeight>>)
<1>1. ASSUME Linked(p, b)
      PROVE  /\ b \in Block \ {Genesis} /\ Parent[b] \in blocks
             /\ Kept(b) \subseteq blocks
             /\ \A a \in blocks \ Kept(b) : Low(a, lastBlock)
             /\ \A a \in Chain[lastBlock] \ Kept(b) : Low(a, lastBlock)
  <2>1. b \in Block \ {Genesis} /\ Parent[b] \in blocks
    BY <1>1 DEF Linked, Receives
  <2> QED BY <2>1, KeptLow
<1>2. ASSUME UNCHANGED <<blocks, lastBlock, txHeight>> PROVE BestInv'
  BY <1>2, KeepsBest DEF BestInv, GapsLow
<1>3. ASSUME Linked(p, b), blocks' = Kept(b), UNCHANGED <<lastBlock, txHeight>>
      PROVE  BestInv'
  BY <1>1, <1>3, KeepsBest
<1>4. CASE IgnoreBlock(p, b) \/ RelayedOrphan(p, b)
  BY <1>2, <1>4 DEF IgnoreBlock, RelayedOrphan
<1>5. CASE RejectInvalid(p, b) \/ MarkNewAsOrphan(p, b) \/ IgnoreOldFork(p, b)
  BY <1>3, <1>5 DEF RejectInvalid, MarkNewAsOrphan, IgnoreOldFork, Unknown
<1>6. CASE ExtendMainChain(p, b)
  <2>1. /\ Linked(p, b) /\ Parent[b] = lastBlock
        /\ blocks' = Kept(b) \cup {b} /\ lastBlock' = b
        /\ txHeight' = Confirm(txHeight, {b})
    BY <1>6 DEF ExtendMainChain, FollowsTip
  <2>2. txHeight' = Best!Confirmations(b)
    BY <1>1, <2>1, ExtendsBest
  <2>3. Height[b] = Height[lastBlock] + 1 /\ Height[lastBlock] \in Nat
    BY <1>1, <2>1, HeightFacts
  <2>4. ~ AheadOfRescan(p, b) /\ Height[b] > Height[lastBlock]
    BY <2>3 DEF AheadOfRescan
  <2> QED BY <2>1, <2>2, <2>4, AdoptsBest
<1>7. CASE RelayedExisting(p, b)
  <2>1. Linked(p, b) /\ b \in blocks /\ lastBlock' = lastBlock
    BY <1>7 DEF RelayedExisting
  <2>2. CASE GapAbove(Height[b], Kept(b))
    BY <1>2, <1>7, <2>1, <2>2 DEF RelayedExisting
  <2>3. CASE ~ GapAbove(Height[b], Kept(b))
    <3>1. /\ blocks' = Kept(b)
          /\ txHeight' = IF b \in Chain[lastBlock] THEN Confirm(txHeight, {b}) ELSE txHeight
      BY <1>7, <2>3 DEF RelayedExisting
    <3>2. Height[b] > Height[Start]
      BY <1>1, <2>1, ExistingAbove
    <3>3. b \in Chain[lastBlock] => Confirm(txHeight, {b}) = txHeight
      BY <3>2, ConfirmsAgain
    <3> QED BY <1>3, <2>1, <3>1, <3>3
  <2> QED BY <2>2, <2>3
<1>8. CASE AddFork(p, b)
  <2>1. /\ NewOnFork(p, b) /\ Linked(p, b) /\ ~ AheadOfRescan(p, b) /\ ~ OldFork(b)
        /\ blocks' = Kept(b) \cup {b} /\ UNCHANGED <<lastBlock, txHeight>>
    BY <1>8 DEF AddFork, NewOnFork, Unknown
  <2>2. Height[b] > Height[Start]
    BY <2>1, CheckpointAssumption, HeightFacts DEF OldFork
  <2>3. \A a \in Chain[b] \ blocks' : Low(a, lastBlock)
    <3>1. Chain[b] = {b} \cup Chain[Parent[b]]
      BY <1>1, <2>1, ChainNext
    <3>2. \A a \in Chain[Parent[b]] \ Kept(b) : Low(a, lastBlock)
      BY <2>1, LinkedFacts
    <3> QED BY <2>1, <3>1, <3>2
  <2>4. /\ blocks' \subseteq blocks \cup {b}
        /\ \A a \in blocks \ blocks' : Low(a, lastBlock)
        /\ \A a \in Chain[lastBlock] \ blocks' : Low(a, lastBlock)
    BY <1>1, <2>1
  <2> QED BY <2>1, <2>2, <2>3, <2>4, KeepsBest
<1>9. CASE Reorganize(p, b)
  <2>1. NewOnFork(p, b) /\ Linked(p, b) /\ ~ AheadOfRescan(p, b) /\ VerifyBlock(b)
        /\ Height[b] > Height[lastBlock]
    BY <1>9 DEF Reorganize, NewOnFork, Unknown
  <2> DEFINE held == Kept(b) \cup {b}
             join == JoinHeight(b, lastBlock)
             gap == HighestGap(b, held)
             mainGap == HighestGap(lastBlock, held \cup {lastBlock})
             stop == IF mainGap >= join THEN mainGap ELSE join
  <2>2. PICK j \in Chain[b] \cap Chain[lastBlock] :
           /\ join = Height[j]
           /\ Height[j] >= Height[Start]
           /\ \A a \in Chain[b] \cap Chain[lastBlock] : Height[a] <= Height[j]
           /\ gap < Height[j] /\ mainGap < Height[j]
    BY <2>1, WalksMeet
  <2>3. (gap >= join /\ gap >= mainGap) \/
        /\ blocks' = held
        /\ lastBlock' = b
        /\ txHeight' = IF stop = join
                       THEN Confirm(UnconfirmAfter(txHeight, stop), Segment(b, join + 1, Height[b]))
                       ELSE UnconfirmAfter(txHeight, stop)
    BY <1>9 DEF Reorganize
  <2>4. /\ Height[j] \in Nat /\ gap \in Int /\ mainGap \in Int
        /\ b \in Block \ {Genesis} /\ Height[b] \in Nat
        /\ lastBlock \in Block /\ Height[lastBlock] \in Nat
        /\ Start \in Block /\ Height[Start] \in Nat
    <3>1. b \in Block \ {Genesis} /\ lastBlock \in Block /\ j \in Block /\ Start \in Block
      BY <1>1, <2>1, ChainClosed, CheckpointAssumption DEF BestInv, IInv, TypeOK
    <3>2. gap = -1 \/ \E a \in Chain[b] \ held : gap = Height[a]
      <4> HIDE DEF held
      <4> QED BY <3>1, GapFacts
    <3>3. mainGap = -1 \/ \E a \in Chain[lastBlock] \ (held \cup {lastBlock}) : mainGap = Height[a]
      <4> HIDE DEF held
      <4> QED BY <3>1, GapFacts
    <3>4. Chain[b] \subseteq Block /\ Chain[lastBlock] \subseteq Block
      BY <3>1, ChainClosed
    <3> HIDE DEF held, gap, mainGap
    <3> QED BY <3>1, <3>2, <3>3, <3>4, HeightFacts
  <2>5. ThroughCheckpoints(b)
    <3>1. ThroughCheckpoints(Parent[b])
      BY <1>1, <2>1 DEF BestInv, CheckpointInv
    <3> QED BY <1>1, <2>1, <3>1, VerifiedThrough
  <2>6. Height[b] >= Height[Start]
    BY <2>1, <2>4 DEF BestInv, AboveStart
  <2> HIDE DEF held, join, gap, mainGap
  <2>7. /\ blocks' = held
        /\ lastBlock' = b
        /\ txHeight' = Confirm(UnconfirmAfter(txHeight, Height[j]), Segment(b, Height[j] + 1, Height[b]))
    BY <2>2, <2>3, <2>4
  <2>8. txHeight' = Best!Confirmations(b)
    BY <2>2, <2>4, <2>5, <2>6, <2>7, ReorganizesBest
  <2> QED BY <2>1, <2>7, <2>8, AdoptsBest DEF held
<1> QED BY <1>4, <1>5, <1>6, <1>7, <1>8, <1>9
        DEF RelayBlock, IgnoreBlock, RelayedOrphan, RejectInvalid, MarkNewAsOrphan, IgnoreOldFork,
            RelayedExisting, AddFork

\* The inductive step.
LEMMA NextBest ==
  ASSUME BestInv, ShortBranches, SyncedPeers, [Next]_vars
  PROVE  BestInv' /\ (Best!Next \/ UNCHANGED <<lastBlock, txHeight>>)
<1>1. IInv' /\ CheckpointInv' /\ HandsConnected'
  BY NextInv, NextThrough, NextHands DEF BestInv, IInv, NextR, NextAll
<1>2. CASE UNCHANGED <<blocks, lastBlock, txHeight>>
  BY <1>1, <1>2 DEF BestInv, AboveStart, GapsLow
<1>3. ASSUME NEW p \in Peer, NEW b \in Block, RelayBlock(p, b)
      PROVE  BestInv' /\ (Best!Next \/ UNCHANGED <<lastBlock, txHeight>>)
  BY <1>1, <1>3, RelayBest
<1>4. CASE FilterOutdated \/ UpdateFilter \/ UNCHANGED vars
  BY <1>2, <1>4 DEF FilterOutdated, UpdateFilter, vars
<1>5. ASSUME NEW p \in Peer,
             SaveBlocks(p) \/ PeerDisconnected(p) \/ \E h \in ReportedHeight : PeerConnected(p, h)
      PROVE  BestInv' /\ UNCHANGED <<lastBlock, txHeight>>
  BY <1>2, <1>5 DEF SaveBlocks, PeerDisconnected, PeerConnected
<1> QED BY <1>3, <1>4, <1>5, <1>2 DEF Next, PeerStep

\* The manager shows the wallet one best chain: the tip is only given up for a higher block, and a
\* transaction has the height of the block of the tip's chain that it is in, whatever forks there
\* are and however the threads of the peers take turns.
THEOREM BestChainFollowed ==
  ASSUME ShortBranches, SyncedPeers
  PROVE  Spec => FollowsBestChain
<1>1. Init => BestInv /\ Best!Init
  BY BestInit
<1>2. BestInv /\ [Next]_vars => BestInv' /\ [Best!Next]_<<lastBlock, txHeight>>
  BY NextBest
<1> QED BY <1>1, <1>2, PTL DEF Spec, FollowsBestChain, Best!Spec

\* No walk along prevBlock runs off the headers held, unless a thread is late.
THEOREM NoNullWalk ==
  ASSUME ShortBranches, SyncedPeers, RelayDepth < Interval
  PROVE  Spec => NoNullBlock
<1>1. Init => BestInv
  BY BestInit
<1>2. BestInv /\ [Next]_vars => BestInv'
  BY NextBest
<1>3. BestInv /\ [Next]_vars => [crashed' => crashed \/ Late]_vars
  <2> SUFFICES ASSUME BestInv, Next, crashed', ~ crashed, ~ Late PROVE FALSE
    OBVIOUS
  <2>1. PICK p \in Peer, b \in Block : RelayBlock(p, b) /\ crashed' # crashed
    BY DEF Next, PeerStep, SaveBlocks, PeerConnected, PeerDisconnected, FilterOutdated, UpdateFilter
  <2>2. Linked(p, b) /\ (RelayedExisting(p, b) \/ Reorganize(p, b))
    BY <2>1 DEF RelayBlock, IgnoreBlock, RelayedOrphan, RejectInvalid, ExtendMainChain,
                RelayedExisting, MarkNewAsOrphan, IgnoreOldFork, AddFork, Reorganize,
                Unknown, NewOnFork
  <2>3. /\ b \in Block \ {Genesis} /\ Parent[b] \in blocks /\ Height[b] \in Nat
        /\ lastBlock \in Block /\ Height[lastBlock] \in Nat
        /\ Start \in Block /\ Height[Start] \in Nat
    BY <2>2, HeightFacts, CheckpointAssumption DEF Linked, Receives, BestInv, IInv, TypeOK
  <2>4. CASE RelayedExisting(p, b)
    <3>1. b \in blocks /\ GapAbove(Height[b], Kept(b))
      BY <2>1, <2>4 DEF RelayedExisting
    <3>2. PICK a \in Chain[lastBlock] : Height[a] >= Height[b] /\ a \notin Kept(b)
      BY <3>1 DEF GapAbove
    <3>3. Low(a, lastBlock) /\ Height[a] \in Nat
      BY <2>3, <3>2, KeptLow, ChainClosed, HeightFacts
    <3>4. Height[b] > Height[Start]
      BY <2>3, <3>1, ExistingAbove
    <3>5. Height[b] + RelayDepth < Height[lastBlock]
      BY <2>3, <3>2, <3>3, <3>4, DataAssumption, IntervalAssumption DEF Low
    <3>6. next[p] # NoBlock /\ next[p] = b
      BY <2>2, <2>3, <3>5, DataAssumption DEF Linked, Receives
    <3> QED BY <3>5, <3>6 DEF Late
  <2>5. CASE Reorganize(p, b)
    <3>1. /\ NewOnFork(p, b) /\ Height[b] > Height[lastBlock]
          /\ HighestGap(b, Kept(b) \cup {b}) >= JoinHeight(b, lastBlock)
      BY <2>1, <2>5 DEF Reorganize
    <3>2. PICK j \in Chain[b] : /\ JoinHeight(b, lastBlock) = Height[j]
                                /\ HighestGap(b, Kept(b) \cup {b}) < Height[j]
      BY <3>1, WalksMeet
    <3>3. Height[j] \in Nat /\ HighestGap(b, Kept(b) \cup {b}) \in Int
      <4>1. Chain[b] \subseteq Block
        BY ChainClosed
      <4>2. \A held : HighestGap(b, held) = -1 \/ \E a \in Chain[b] \ held : HighestGap(b, held) = Height[a]
        BY GapFacts
      <4> QED BY <4>1, <4>2, HeightFacts
    <3> QED BY <3>1, <3>2, <3>3
  <2> QED BY <2>2, <2>4, <2>5
<1> QED BY <1>1, <1>2, <1>3, PTL DEF Spec, NoNullBlock

-----------------------------------------------------------------------------
(* What is stored.  saveBlocks is called after the unlock, and what follows  *)
(* needs that no other thread relays a block before it was called: always so *)
(* with one thread, and for the rest a premise.                              *)

\* Blocks of one branch from a transition up, that a restart can link again.
Storable(S) ==
  /\ \A a, c \in S : Height[a] = Height[c] => a = c
  /\ \A a \in S : Transition(Height[a]) \/ (a # Genesis /\ Parent[a] \in S)

UpToTip(S) == \A a \in S : Height[a] <= Height[lastBlock]

\* Only one thread is about to store: blocks that end with the tip, higher than what is stored.
AboutToStore(p) ==
  /\ saving[p] # {}
  /\ lastBlock \in saving[p]
  /\ saving[p] \subseteq blocks
  /\ Storable(saving[p]) /\ UpToTip(saving[p]) /\ IsFiniteSet(saving[p])
  /\ \A a \in saved : Height[a] < Height[lastBlock]
  /\ \A q \in Peer \ {p} : saving[q] = {}

StoreInv ==
  /\ TypeOK
  /\ Storable(saved) /\ UpToTip(saved)
  /\ (\A p \in Peer : saving[p] = {}) \/ (\E p \in Peer : AboutToStore(p))

\* While a thread is on its way from the unlock to saveBlocks, no other one
\* changes the chain.
StoresFirst ==
  \/ \A p \in Peer : saving[p] = {}
  \/ Restart
  \/ \E p \in Peer : SaveBlocks(p)
  \/ UNCHANGED <<blocks, lastBlock, saving, saved>>

\* At the genesis block there is a transition.
LEMMA GenesisTransition ==
  Genesis \in Block /\ Height[Genesis] = 0 /\ Transition(Height[Genesis])
BY TreeAssumption, CheckpointAssumption

\* No two blocks of a chain have the same height.
LEMMA ChainHeightsDiffer ==
  ASSUME NEW b \in Block, NEW a \in Chain[b], NEW c \in Chain[b], Height[a] = Height[c]
  PROVE  a = c
<1>1. a \in Block /\ c \in Block /\ Height[a] \in Nat /\ Height[c] \in Nat
  BY ChainClosed, HeightFacts
<1>2. a \in Chain[c]
  BY <1>1, ChainLinear
<1> QED BY <1>1, <1>2, ChainHeight

\* A chain goes down to the genesis block in so many steps.
LEMMA ChainFinite ==
  ASSUME NEW b \in Block
  PROVE  IsFiniteSet(Chain[b])
<1> DEFINE P == {n \in Nat : \A c \in Block : Height[c] = n => IsFiniteSet(Chain[c])}
<1>1. ASSUME NEW c \in Block, c = Genesis PROVE IsFiniteSet(Chain[c])
  <2>1. Chain[c] \subseteq {c}
    <3>1. ParentClosed({c})
      BY <1>1 DEF ParentClosed
    <3> QED BY <1>1, <3>1, ChainLeast
  <2>2. IsFiniteSet({c})
    BY FS_Singleton
  <2> QED BY <2>1, <2>2, FS_Subset
<1>2. 0 \in P
  <2>1. ASSUME NEW c \in Block, Height[c] = 0 PROVE c = Genesis
    BY <2>1, HeightFacts
  <2> QED BY <1>1, <2>1
<1>3. ASSUME NEW k \in 0 .. Height[b] - 1, k \in P PROVE k + 1 \in P
  <2>1. k + 1 \in Nat
    BY HeightFacts
  <2>2. ASSUME NEW c \in Block, Height[c] = k + 1 PROVE IsFiniteSet(Chain[c])
    <3>1. CASE c = Genesis
      BY <1>1, <3>1
    <3>2. CASE c # Genesis
      <4>1. Parent[c] \in Block /\ Height[Parent[c]] = k /\ Chain[c] = Chain[Parent[c]] \cup {c}
        BY <2>1, <2>2, <3>2, HeightFacts, ChainNext
      <4>2. IsFiniteSet(Chain[Parent[c]])
        BY <1>3, <4>1
      <4> QED BY <4>1, <4>2, FS_AddElement
    <3> QED BY <3>1, <3>2
  <2> QED BY <2>1, <2>2
<1>4. Height[b] \in Nat /\ Height[b] \in 0 .. Height[b]
  BY HeightFacts
<1> HIDE DEF P
<1>5. Height[b] \in P
  BY <1>2, <1>3, <1>4, Induct
<1> QED BY <1>5 DEF P

\* What saveBlocks is given for a new tip: blocks of one branch, from a transition up to the tip.
LEMMA SaveSetFacts ==
  ASSUME NEW b \in Block, NEW count \in Nat, NEW held \in SUBSET Block,
         SaveSet(b, count, held) # {}
  PROVE  /\ b \in SaveSet(b, count, held)
         /\ SaveSet(b, count, held) \subseteq held
         /\ Storable(SaveSet(b, count, held))
         /\ IsFiniteSet(SaveSet(b, count, held))
         /\ \A a \in SaveSet(b, count, held) : Height[a] <= Height[b]
<1> DEFINE S == SaveSet(b, count, held)
           walk == {a \in Chain[b] : /\ Height[a] > Height[b] - count
                                     /\ Segment(b, Height[a], Height[b]) \subseteq held}
<1>1. S = {a \in walk : \E t \in walk : Transition(Height[t]) /\ Height[t] <= Height[a]}
  BY DEF SaveSet
<1>2. /\ Chain[b] \subseteq Block /\ b \in Chain[b] /\ ParentClosed(Chain[b])
      /\ Height[b] \in Nat /\ walk \subseteq Chain[b] /\ S \subseteq walk
      /\ \A a \in Chain[b] : Height[a] \in Nat /\ Height[a] <= Height[b]
  BY <1>1, ChainClosed, ChainHeight, HeightFacts
<1>3. ASSUME NEW t \in walk, NEW a \in Chain[b], Height[t] <= Height[a]
      PROVE  a \in walk
  <2>1. Height[t] > Height[b] - count /\ Segment(b, Height[t], Height[b]) \subseteq held
    OBVIOUS
  <2>2. Height[t] \in Nat /\ Height[a] \in Nat
    BY <1>2
  <2>3. Segment(b, Height[a], Height[b]) \subseteq Segment(b, Height[t], Height[b])
    <3> SUFFICES ASSUME NEW d \in Chain[b], Height[a] <= Height[d]
                 PROVE  Height[t] <= Height[d]
      BY DEF Segment
    <3> HIDE DEF walk
    <3> QED BY <1>2, <1>3, <2>2
  <2>4. Height[a] > Height[b] - count
    BY <1>2, <1>3, <2>1, <2>2
  <2> QED BY <2>1, <2>3, <2>4
<1> HIDE DEF walk, S
<1>4. b \in S
  <2>1. PICK a \in S : TRUE
    BY DEF S
  <2>2. PICK t \in walk : Transition(Height[t]) /\ Height[t] <= Height[a]
    BY <1>1, <2>1
  <2>3. Height[t] <= Height[b]
    BY <1>2, <2>2
  <2> QED BY <1>1, <1>2, <1>3, <2>2, <2>3
<1>5. Storable(S)
  <2>1. \A a, c \in S : Height[a] = Height[c] => a = c
    BY <1>2, ChainHeightsDiffer
  <2>2. ASSUME NEW a \in S, ~ Transition(Height[a]) PROVE a # Genesis /\ Parent[a] \in S
    <3>1. PICK t \in walk : Transition(Height[t]) /\ Height[t] <= Height[a]
      BY <1>1
    <3>2. a # Genesis /\ a \in Block /\ a # t
      BY <1>2, <2>2, <3>1, GenesisTransition
    <3>3. t \in Chain[a]
      BY <1>2, <3>1, ChainLinear
    <3>4. Parent[a] \in Chain[b] /\ Parent[a] \in Block /\ t \in Chain[Parent[a]]
      BY <1>2, <3>2, <3>3, ChainStep DEF ParentClosed
    <3>5. Height[t] <= Height[Parent[a]]
      BY <3>4, ChainHeight
    <3> QED BY <1>1, <1>3, <3>1, <3>2, <3>4, <3>5
  <2> QED BY <2>1, <2>2 DEF Storable
<1>6. S \subseteq held
  BY SavedHeld DEF S
<1>7. IsFiniteSet(S)
  BY <1>2, ChainFinite, FS_Subset
<1> QED BY <1>2, <1>4, <1>5, <1>6, <1>7 DEF S

\* However the store orders what can be linked again, the manager made of it has the highest of it
\* for its tip.
LEMMA Reloads ==
  ASSUME NEW S \in SUBSET Block, Storable(S), S # {}, NEW n \in Nat,
         \A a \in S : Height[a] <= n
  PROVE  /\ LastTransitions(S) # {}
         /\ \A O \in OrphansFrom(S), t \in LastTransitions(S) :
              \A tip \in Tallest(Following(t, O)), b \in S : Height[b] <= Height[tip]
<1>1. \A a \in S : Height[a] \in Nat
  BY HeightFacts
<1>2. \E a \in S : Transition(Height[a])
  <2> DEFINE H == {Height[a] : a \in S}
  <2>1. H \in SUBSET Nat /\ H # {}
    BY <1>1
  <2>2. PICK m \in H : \A k \in H : m <= k
    BY <2>1, Least
  <2>3. PICK a \in S : m = Height[a]
    OBVIOUS
  <2>4. ASSUME a # Genesis, Parent[a] \in S PROVE FALSE
    <3>1. Height[Parent[a]] \in H
      BY <2>4
    <3>2. m <= Height[Parent[a]]
      BY <2>2, <3>1
    <3> HIDE DEF H
    <3> QED BY <2>3, <2>4, <3>2, HeightFacts
  <2> QED BY <2>3, <2>4 DEF Storable
<1>3. LastTransitions(S) # {}
  <2> DEFINE H == {Height[a] : a \in {c \in S : Transition(Height[c])}}
  <2>1. H \in SUBSET Int /\ H # {} /\ n \in Int /\ \A k \in H : k <= n
    BY <1>1, <1>2
  <2>2. PICK m \in H : \A k \in H : k <= m
    <3> HIDE DEF H
    <3> QED BY <2>1, Greatest
  <2>3. PICK a \in S : m = Height[a] /\ Transition(Height[a])
    OBVIOUS
  <2>4. \A u \in S : Transition(Height[u]) => Height[u] <= Height[a]
    BY <2>2, <2>3
  <2> QED BY <2>3, <2>4 DEF LastTransitions
<1>4. ASSUME NEW O \in OrphansFrom(S) PROVE O = S
  <2>1. O \subseteq S /\ \A a \in S : \E b \in O : PrevBlock(a) = PrevBlock(b)
    BY DEF OrphansFrom
  <2>2. ASSUME NEW a \in S, NEW b \in O, PrevBlock(a) = PrevBlock(b) PROVE a = b
    <3>1. a \in Block /\ b \in S /\ b \in Block
      BY <2>1
    <3>2. CASE a = Genesis \/ b = Genesis
      BY <2>2, <3>1, <3>2, HeightFacts, DataAssumption DEF PrevBlock
    <3>3. CASE a # Genesis /\ b # Genesis
      <4>1. Height[a] = Height[b]
        BY <2>2, <3>1, <3>3, HeightFacts DEF PrevBlock
      <4> QED BY <3>1, <4>1 DEF Storable
    <3> QED BY <3>2, <3>3
  <2> QED BY <2>1, <2>2
<1>5. ASSUME NEW t \in LastTransitions(S), NEW tip \in Tallest(Following(t, S)), NEW b \in S
      PROVE  Height[b] <= Height[tip]
  <2>1. /\ t \in S /\ t \in Block /\ Height[t] \in Nat /\ Height[b] \in Nat
        /\ \A u \in S : Transition(Height[u]) => Height[u] <= Height[t]
        /\ t \in Following(t, S)
    BY <1>1 DEF LastTransitions, Following
  <2>2. tip \in Block /\ Height[tip] \in Nat
    BY <2>1, HeightFacts DEF Tallest, Following
  <2>3. \A a \in Following(t, S) : Height[a] <= Height[tip]
    BY DEF Tallest
  <2> DEFINE P == {k \in Nat : \A c \in S : Height[c] = Height[t] + k => c \in Following(t, S)}
  <2>4. 0 \in P
    <3>1. ASSUME NEW c \in S, Height[c] = Height[t] + 0 PROVE c = t
      BY <2>1, <3>1 DEF Storable
    <3> QED BY <2>1, <3>1
  <2>5. ASSUME NEW k \in 0 .. n - 1, k \in P PROVE k + 1 \in P
    <3>1. k \in Nat /\ k + 1 \in Nat
      OBVIOUS
    <3>2. ASSUME NEW c \in S, Height[c] = Height[t] + (k + 1) PROVE c \in Following(t, S)
      <4>1. Height[c] \in Nat /\ Height[c] > Height[t]
        BY <1>1, <2>1, <3>1, <3>2
      <4>2. c # Genesis /\ Parent[c] \in S
        BY <2>1, <4>1 DEF Storable
      <4> DEFINE d == Parent[c]
      <4>3. d \in Block /\ Height[d] = Height[t] + k /\ Height[d] \in Nat
            /\ Height[c] = Height[d] + 1
        BY <2>1, <3>1, <3>2, <4>2, HeightFacts
      <4>4. d \in Following(t, S)
        BY <2>5, <4>2, <4>3
      <4>5. t \in Chain[d] /\ Segment(d, Height[t] + 1, Height[d]) \subseteq S
        <5>1. CASE d = t
          <6>1. \A a \in Chain[t] : Height[a] <= Height[t] /\ Height[a] \in Nat
            BY <2>1, ChainClosed, ChainHeight, HeightFacts
          <6> QED BY <2>1, <5>1, <6>1, ChainClosed DEF Segment
        <5>2. CASE d # t
          BY <4>4, <5>2 DEF Following
        <5> QED BY <5>1, <5>2
      <4>6. Chain[c] = {c} \cup Chain[d]
        BY <4>2, ChainNext
      <4>7. ASSUME NEW a \in Segment(c, Height[t] + 1, Height[c]) PROVE a \in S
        <5>1. a \in Chain[c] /\ Height[t] + 1 <= Height[a]
          BY DEF Segment
        <5>2. CASE a = c
          BY <5>2
        <5>3. CASE a # c
          <6>1. a \in Chain[d]
            BY <4>6, <5>1, <5>3
          <6>2. Height[a] <= Height[d]
            BY <4>3, <6>1, ChainHeight
          <6> HIDE DEF d
          <6> QED BY <4>5, <5>1, <6>1, <6>2 DEF Segment
        <5> QED BY <5>2, <5>3
      <4>8. t \in Chain[c]
        BY <4>5, <4>6
      <4> QED BY <4>7, <4>8 DEF Following
    <3> QED BY <3>1, <3>2
  <2>6. CASE Height[b] < Height[t]
    BY <2>1, <2>2, <2>3, <2>6
  <2>7. CASE Height[b] >= Height[t]
    <3> DEFINE k == Height[b] - Height[t]
    <3>1. k \in 0 .. n /\ Height[b] = Height[t] + k
      BY <2>1, <2>7
    <3> HIDE DEF P, k
    <3>2. k \in P
      BY <2>4, <2>5, <3>1, Induct
    <3>3. b \in Following(t, S)
      BY <3>1, <3>2 DEF P
    <3> QED BY <2>3, <3>3
  <2> QED BY <2>1, <2>6, <2>7
<1> QED BY <1>3, <1>4, <1>5

\* What can be linked again is reloaded.
LEMMA StoredReloads == StoreInv => StoreReloads
<1> SUFFICES ASSUME StoreInv, saved # {} PROVE StoreReloads
  BY DEF StoreReloads
<1>1. /\ saved \in SUBSET Block /\ Storable(saved) /\ lastBlock \in Block
      /\ Height[lastBlock] \in Nat /\ \A a \in saved : Height[a] <= Height[lastBlock]
  BY HeightFacts DEF StoreInv, TypeOK, UpToTip
<1> QED BY <1>1, Reloads DEF StoreReloads

\* A new tip, with the blocks its thread is about to store.
LEMMA TipStores ==
  ASSUME StoreInv, TypeOK', NEW p \in Peer, NEW b \in Block, NEW S \in SUBSET Block,
         \A q \in Peer : saving[q] = {},
         Height[b] > Height[lastBlock], lastBlock' = b, saved' = saved,
         saving' = [saving EXCEPT ![p] = S],
         S # {} => /\ b \in S /\ S \subseteq blocks' /\ Storable(S) /\ IsFiniteSet(S)
                   /\ \A a \in S : Height[a] <= Height[b]
  PROVE  StoreInv'
<1>1. /\ saved \in SUBSET Block /\ Storable(saved) /\ saving \in [Peer -> SUBSET Block]
      /\ lastBlock \in Block /\ Height[lastBlock] \in Nat /\ Height[b] \in Nat
      /\ \A a \in saved : Height[a] \in Nat /\ Height[a] <= Height[lastBlock]
  BY HeightFacts DEF StoreInv, TypeOK, UpToTip
<1>2. \A a \in saved : Height[a] < Height[b]
  BY <1>1
<1>3. saving'[p] = S /\ \A q \in Peer \ {p} : saving'[q] = {}
  BY <1>1
<1>4. UpToTip(saved)'
  BY <1>1, <1>2 DEF UpToTip
<1>5. Storable(saved)'
  BY <1>1 DEF Storable
<1>6. (\A q \in Peer : saving'[q] = {}) \/ AboutToStore(p)'
  <2>1. CASE S = {}
    BY <1>3, <2>1
  <2>2. CASE S # {}
    BY <1>2, <1>3, <2>2 DEF AboutToStore, UpToTip, Storable
  <2> QED BY <2>1, <2>2
<1> QED BY <1>4, <1>5, <1>6 DEF StoreInv

\* Nothing about the store changes.
LEMMA KeepsStore ==
  ASSUME StoreInv, TypeOK', UNCHANGED <<lastBlock, saving, saved>>,
         (\A q \in Peer : saving[q] = {}) \/ blocks' = blocks
  PROVE  StoreInv'
BY DEF StoreInv, Storable, UpToTip, AboutToStore

\* A block relayed while no thread is about to store.
LEMMA RelayStores ==
  ASSUME StoreInv, TypeOK', \A q \in Peer : saving[q] = {},
         NEW p \in Peer, NEW b \in Block, RelayBlock(p, b)
  PROVE  StoreInv'
<1> DEFINE held == Kept(b) \cup {b}
           full == SaveSet(b, FullSaveCount(Height[b]), held)
<1>1. /\ held \in SUBSET Block /\ b \in held /\ lastBlock \in Block
      /\ Height[b] \in Nat /\ Height[lastBlock] \in Nat /\ FullSaveCount(Height[b]) \in Nat
  BY KeptType, HeightFacts, CountType DEF StoreInv, TypeOK
<1>2. /\ full \in SUBSET Block
      /\ full # {} => /\ b \in full /\ full \subseteq held /\ Storable(full) /\ IsFiniteSet(full)
                      /\ \A a \in full : Height[a] <= Height[b]
  <2> HIDE DEF held
  <2> QED BY <1>1, SaveSetFacts, SetTypes
<1>3. Transition(Height[b]) =>
        /\ b \in {b} /\ {b} \subseteq held /\ Storable({b}) /\ IsFiniteSet({b})
        /\ \A a \in {b} : Height[a] <= Height[b]
  BY <1>1, FS_Singleton DEF Storable
<1>4. CASE UNCHANGED <<lastBlock, saving, saved>>
  BY <1>4, KeepsStore
<1>5. CASE ExtendMainChain(p, b)
  <2> DEFINE S == IF Height[b] = estimatedHeight THEN full
                  ELSE IF Transition(Height[b]) THEN {b} ELSE {}
  <2>1. /\ blocks' = held /\ lastBlock' = b /\ saved' = saved
        /\ saving' = [saving EXCEPT ![p] = S]
        /\ b \in Block \ {Genesis} /\ Parent[b] = lastBlock
    BY <1>5 DEF ExtendMainChain, FollowsTip, Linked, Receives
  <2>2. Height[b] > Height[lastBlock]
    BY <1>1, <2>1, HeightFacts
  <2>3. /\ S \in SUBSET Block
        /\ S # {} => /\ b \in S /\ S \subseteq held /\ Storable(S) /\ IsFiniteSet(S)
                     /\ \A a \in S : Height[a] <= Height[b]
    <3> HIDE DEF full, held
    <3> QED BY <1>2, <1>3
  <2> HIDE DEF S, full, held
  <2> QED BY <2>1, <2>2, <2>3, TipStores
<1>6. CASE Reorganize(p, b)
  <2> DEFINE S == IF Height[b] = estimatedHeight THEN full ELSE {}
  <2>1. /\ Height[b] > Height[lastBlock]
        /\ \/ UNCHANGED <<blocks, lastBlock, saving, saved>>
           \/ /\ blocks' = held /\ lastBlock' = b /\ saved' = saved
              /\ saving' = [saving EXCEPT ![p] = S]
    BY <1>6 DEF Reorganize
  <2>2. /\ S \in SUBSET Block
        /\ S # {} => /\ b \in S /\ S \subseteq held /\ Storable(S) /\ IsFiniteSet(S)
                     /\ \A a \in S : Height[a] <= Height[b]
    <3> HIDE DEF full, held
    <3> QED BY <1>2
  <2> HIDE DEF S, full, held
  <2> QED BY <1>4, <2>1, <2>2, TipStores
<1> QED BY <1>4, <1>5, <1>6
        DEF RelayBlock, IgnoreBlock, RelayedOrphan, RejectInvalid, RelayedExisting,
            MarkNewAsOrphan, IgnoreOldFork, AddFork

\* saveBlocks replaces what is stored, or adds a transition above it.
LEMMA SaveStores ==
  ASSUME StoreInv, TypeOK', NEW p \in Peer, SaveBlocks(p)
  PROVE  StoreInv'
<1>1. AboutToStore(p)
  BY DEF StoreInv, AboutToStore, SaveBlocks
<1> DEFINE S == saving[p]
<1>2. /\ S # {} /\ lastBlock \in S /\ S \subseteq blocks /\ Storable(S) /\ IsFiniteSet(S)
      /\ \A a \in S : Height[a] <= Height[lastBlock]
      /\ \A a \in saved : Height[a] < Height[lastBlock]
      /\ \A q \in Peer \ {p} : saving[q] = {}
      /\ saving \in [Peer -> SUBSET Block] /\ saved \in SUBSET Block
      /\ lastBlock \in Block /\ Height[lastBlock] \in Nat /\ Storable(saved)
  BY <1>1, HeightFacts DEF AboutToStore, UpToTip, StoreInv, TypeOK
<1>3. saved' = (IF Cardinality(S) > 1 THEN {} ELSE saved) \cup S /\ lastBlock' = lastBlock
  <2>1. PICK garbled \in SUBSET (S \ blocks) :
           saved' = (IF Cardinality(S) > 1 THEN {} ELSE saved) \cup (S \ garbled)
    BY DEF SaveBlocks
  <2>2. garbled = {}
    BY <1>2, <2>1
  <2> QED BY <2>1, <2>2 DEF SaveBlocks
<1>4. \A q \in Peer : saving'[q] = {}
  BY <1>2 DEF SaveBlocks
<1>5. CASE Cardinality(S) > 1
  <2>1. saved' = S
    BY <1>3, <1>5
  <2> HIDE DEF S
  <2> QED BY <1>2, <1>3, <1>4, <2>1 DEF StoreInv, Storable, UpToTip
<1>6. CASE ~ (Cardinality(S) > 1)
  <2>1. saved' = saved \cup S
    BY <1>3, <1>6
  <2>2. S = {lastBlock}
    <3> HIDE DEF S
    <3>1. Cardinality(S) \in Nat /\ Cardinality(S) # 0
      BY <1>2, FS_CardinalityType, FS_EmptySet
    <3>2. Cardinality(S) = 1
      BY <1>6, <3>1
    <3> QED BY <1>2, <3>2, FS_Singleton
  <2> HIDE DEF S
  <2>3. saved' = saved \cup {lastBlock}
    BY <2>1, <2>2
  <2>4. Transition(Height[lastBlock])
    <3>1. ASSUME lastBlock # Genesis, Parent[lastBlock] = lastBlock PROVE FALSE
      BY <1>2, <3>1, HeightFacts
    <3> QED BY <1>2, <2>2, <3>1 DEF Storable
  <2>5. \A a \in saved : Height[a] \in Nat /\ Height[a] < Height[lastBlock]
    BY <1>2, HeightFacts
  <2>6. \A a, c \in saved' : Height[a] = Height[c] => a = c
    <3> SUFFICES ASSUME NEW a \in saved \cup {lastBlock}, NEW c \in saved \cup {lastBlock},
                        Height[a] = Height[c]
                 PROVE  a = c
      BY <2>3
    <3>1. CASE a \in saved /\ c \in saved
      BY <1>2, <3>1 DEF Storable
    <3>2. CASE a = lastBlock \/ c = lastBlock
      BY <1>2, <2>5, <3>2
    <3> QED BY <3>1, <3>2
  <2>7. \A a \in saved' : Transition(Height[a]) \/ (a # Genesis /\ Parent[a] \in saved')
    BY <1>2, <2>3, <2>4 DEF Storable
  <2>8. UpToTip(saved)'
    BY <1>2, <1>3, <2>3, <2>5 DEF UpToTip
  <2> QED BY <1>4, <2>6, <2>7, <2>8 DEF StoreInv, Storable
<1> QED BY <1>5, <1>6

\* The tip after a restart is as high as anything stored.
LEMMA RestartStores ==
  ASSUME StoreInv, TypeOK', Restart
  PROVE  StoreInv'
<1>1. saved' = saved /\ \A q \in Peer : saving'[q] = {}
  BY DEF Restart
<1>2. UpToTip(saved)'
  <2>1. CASE saved = {}
    BY <1>1, <2>1 DEF UpToTip
  <2>2. CASE saved # {}
    <3>1. StoreReloads
      BY StoredReloads
    <3>2. LastTransitions(saved) # {}
      BY <2>2, <3>1 DEF StoreReloads
    <3>3. PICK O \in OrphansFrom(saved), t \in LastTransitions(saved) :
             lastBlock' \in Tallest(Following(t, O))
      BY <3>2 DEF Restart, NewManager
    <3> QED BY <1>1, <2>2, <3>1, <3>3 DEF StoreReloads, UpToTip
  <2> QED BY <2>1, <2>2
<1> QED BY <1>1, <1>2 DEF StoreInv, Storable

\* The inductive step.
LEMMA NextStores ==
  ASSUME StoreInv, [NextR]_vars, [StoresFirst]_vars
  PROVE  StoreInv'
<1>1. TypeOK'
  BY NextType DEF StoreInv, NextAll
<1>2. CASE UNCHANGED <<blocks, lastBlock, saving, saved>>
  BY <1>1, <1>2, KeepsStore
<1>3. CASE Restart
  BY <1>1, <1>3, RestartStores
<1>4. ASSUME NEW p \in Peer, SaveBlocks(p) PROVE StoreInv'
  BY <1>1, <1>4, SaveStores
<1>5. CASE Next /\ \A q \in Peer : saving[q] = {}
  <2>1. ASSUME NEW p \in Peer, NEW b \in Block, RelayBlock(p, b) PROVE StoreInv'
    BY <1>1, <1>5, <2>1, RelayStores
  <2>2. ASSUME NEW p \in Peer,
               PeerDisconnected(p) \/ \E h \in ReportedHeight : PeerConnected(p, h)
        PROVE  StoreInv'
    BY <1>2, <2>2 DEF PeerDisconnected, PeerConnected
  <2>3. CASE FilterOutdated \/ UpdateFilter
    BY <1>2, <2>3 DEF FilterOutdated, UpdateFilter
  <2> QED BY <1>4, <1>5, <2>1, <2>2, <2>3 DEF Next, PeerStep
<1> QED BY <1>2, <1>3, <1>4, <1>5 DEF NextR, StoresFirst, vars

\* Nothing is stored at first.
LEMMA InitStores == Init => StoreInv
BY InitType DEF Init, StoreInv, Storable, UpToTip

\* What is stored can be loaded, at every restart and in whatever order the store returns it, if no
\* other thread changes the chain between a thread's unlock and its call of saveBlocks.
THEOREM StoreCorrect == SpecR /\ [][StoresFirst]_vars => []StoreReloads
<1>1. Init => StoreInv
  BY InitStores
<1>2. StoreInv /\ [NextR]_vars /\ [StoresFirst]_vars => StoreInv'
  BY NextStores
<1>3. StoreInv => StoreReloads
  BY StoredReloads
<1> QED BY <1>1, <1>2, <1>3, PTL DEF SpecR

\* With one peer at a time there is no other thread, and what is stored can always be loaded.
THEOREM OnePeerStores ==
  ASSUME NEW p, Peer = {p}
  PROVE  SpecR => []StoreReloads
<1>1. [NextR]_vars => [StoresFirst]_vars
  <2> SUFFICES ASSUME NextR PROVE StoresFirst \/ UNCHANGED vars
    OBVIOUS
  <2>1. ASSUME NEW q \in Peer, NEW b \in Block, RelayBlock(q, b) PROVE StoresFirst
    <3>1. saving[q] = {}
      BY <2>1 DEF RelayBlock, IgnoreBlock, RelayedOrphan, RejectInvalid, ExtendMainChain,
                  RelayedExisting, MarkNewAsOrphan, IgnoreOldFork, AddFork, Reorganize,
                  Unknown, NewOnFork, Linked, Receives
    <3> QED BY <3>1 DEF StoresFirst
  <2>2. ASSUME NEW q \in Peer,
               PeerDisconnected(q) \/ \E h \in ReportedHeight : PeerConnected(q, h)
        PROVE  StoresFirst
    BY <2>2 DEF PeerDisconnected, PeerConnected, StoresFirst
  <2>3. CASE FilterOutdated \/ UpdateFilter
    BY <2>3 DEF FilterOutdated, UpdateFilter, StoresFirst
  <2> QED BY <2>1, <2>2, <2>3 DEF NextR, Next, PeerStep, StoresFirst
<1> QED BY <1>1, StoreCorrect, PTL DEF SpecR
=============================================================================
