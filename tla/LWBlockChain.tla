---------------------------- MODULE LWBlockChain ----------------------------
(***************************************************************************)
(* The chain kept by the peer manager of an SPV wallet (LWPeerManager.c):  *)
(* which headers it holds, which one it takes for the tip of the best      *)
(* chain, and what it tells the wallet about the block each transaction    *)
(* is in.  Every peer has a thread of its own; a thread delivers a block   *)
(* to _peerRelayedBlock, which runs under manager->lock, then unlocks,     *)
(* calls saveBlocks, and calls itself again for an orphan that fits.       *)
(*                                                                         *)
(* A peer may relay any block of the tree, in any order and any number of  *)
(* times, that is not more than RelayDepth below the tip: a reply to       *)
(* getblocks starts at the first locator the peer knows, and the locators  *)
(* go down from the tip along the headers held.                            *)
(***************************************************************************)
EXTENDS LWBlockTree, FiniteSets

CONSTANTS
  Checkpoint,      \* the blocks of params->checkpoints
  Start,           \* the checkpoint a chain download starts from
  Old,             \* the blocks whose timestamp is over one week ago
  Tx,              \* the transactions registered in the wallet
  TxIn,            \* [Block -> SUBSET Tx], what a merkleblock matches
  Unconfirmed,     \* TX_UNCONFIRMED, above every height
  Peer,            \* the peers, each with its thread
  ReportedHeight,  \* the values a version message gives for lastblock
  RelayDepth,      \* how far below the tip the blocks peers relay may be
  NoPeer, NoBlock  \* NULL

ASSUME CheckpointAssumption ==
  /\ Checkpoint \subseteq Block
  /\ Genesis \in Checkpoint
  /\ Start \in Checkpoint
  \* LWChainParams.h: "they must be at difficulty transition boundaries"
  /\ \A c \in Checkpoint : Transition(Height[c])
  \* and they are blocks of one chain
  /\ \A c, d \in Checkpoint : Height[c] <= Height[d] => c \in Chain[d]

ASSUME DataAssumption ==
  /\ Old \subseteq Block
  /\ TxIn \in [Block -> SUBSET Tx]
  /\ \A b \in Block : \A a, c \in Chain[b] : TxIn[a] \cap TxIn[c] # {} => a = c
  /\ Unconfirmed \in Nat /\ \A b \in Block : Height[b] < Unconfirmed
  /\ ReportedHeight \subseteq Nat
  /\ RelayDepth \in Nat
  /\ NoPeer \notin Peer /\ NoBlock \notin Block

VARIABLES
  blocks,           \* manager->blocks, the headers linked to a checkpoint
  orphans,          \* manager->orphans, at most one for each prevBlock
  lastBlock,        \* manager->lastBlock, the tip of the main chain
  estimatedHeight,  \* manager->estimatedHeight
  bloomFilter,      \* manager->bloomFilter != NULL
  downloadPeer,     \* manager->downloadPeer
  lastblock,        \* lastblock[p] as reported by p, -1 while p is not connected
  next,             \* the orphan a thread took out and is about to relay again
  saving,           \* the blocks a thread is about to give to saveBlocks
  saved,            \* the blocks in the application's persistent store
  txHeight,         \* the blockHeight of each wallet transaction
  crashed           \* a null pointer was dereferenced, and the process is gone

peerVars == <<downloadPeer, lastblock>>
vars == <<blocks, orphans, lastBlock, estimatedHeight, bloomFilter,
          downloadPeer, lastblock, next, saving, saved, txHeight, crashed>>

TypeOK ==
  /\ blocks \subseteq Block
  /\ orphans \subseteq Block
  /\ lastBlock \in Block
  /\ estimatedHeight \in Nat
  /\ bloomFilter \in BOOLEAN
  /\ downloadPeer \in Peer \cup {NoPeer}
  /\ lastblock \in [Peer -> ReportedHeight \cup {-1}]
  /\ next \in [Peer -> Block \cup {NoBlock}]
  /\ saving \in [Peer -> SUBSET Block]
  /\ saved \subseteq Block
  /\ txHeight \in [Tx -> Nat]
  /\ crashed \in BOOLEAN

-----------------------------------------------------------------------------
(* Verification.  The code walks BLOCK_DIFFICULTY_INTERVAL links back from a *)
(* block at a transition, and drops what it no longer needs below that.      *)

Connected(p) == lastblock[p] >= 0

\* the blocks of b's chain at heights lo .. hi
Segment(b, lo, hi) == {a \in Chain[b] : lo <= Height[a] /\ Height[a] <= hi}

MissingTransition(b) ==
  /\ Transition(Height[b])
  /\ ~ (Segment(b, Height[b] - Interval, Height[b] - 1) \subseteq blocks)

\* MUTANT: the hash is not compared with the checkpoint's
ContradictsNothing(b) == FALSE

ContradictsCheckpoint(b) ==
  \E c \in Checkpoint : Height[c] = Height[b] /\ c # b

VerifyBlock(b) == ~ MissingTransition(b) /\ ~ ContradictsCheckpoint(b)

\* MUTANT: the memory of this interval is freed as well
PrunedRecent(b) ==
  IF Transition(Height[b]) /\ ~ MissingTransition(b)
  THEN {a \in Chain[b] : Height[a] < Height[b] /\ ~ Transition(Height[a])}
  ELSE {}

\* "free up some memory": from below the previous transition down to the first
\* block that is not held, all but the transitions
Pruned(b) ==
  IF Transition(Height[b]) /\ ~ MissingTransition(b)
  THEN {a \in Chain[b] :
          /\ Height[a] < Height[b] - Interval
          /\ ~ Transition(Height[a])
          /\ Segment(b, Height[a], Height[b] - Interval - 1) \subseteq blocks}
  ELSE {}

\* manager->blocks as _LWPeerManagerVerifyBlock leaves it
Kept(b) == blocks \ Pruned(b)

\* The blocks saved for a tip b: count of them back from b, fewer when the
\* chain is not held that far, less those before the first transition.
SaveSet(b, count, held) ==
  LET walk == {a \in Chain[b] :
                 /\ Height[a] > Height[b] - count
                 /\ Segment(b, Height[a], Height[b]) \subseteq held}
  IN  {a \in walk : \E t \in walk : Transition(Height[t]) /\ Height[t] <= Height[a]}

\* enough blocks to restart from the transition before the previous one
FullSaveCount(h) == (h % Interval) + Interval + 1

PrevBlock(b) == IF b = Genesis THEN NoBlock ELSE Parent[b]

\* LWSetAdd(manager->orphans, b): orphans are indexed by prevBlock
AddOrphan(b) == {o \in orphans : PrevBlock(o) # PrevBlock(b)} \cup {b}

\* LWWalletUpdateTransactions for one block, or for all the blocks of a set
Confirm(heights, S) ==
  [t \in Tx |-> IF \E b \in S : t \in TxIn[b]
                THEN Height[CHOOSE b \in S : t \in TxIn[b]]
                ELSE heights[t]]

\* MUTANT: no transaction is marked
UnconfirmNone(heights, h) == heights

\* LWWalletSetTxUnconfirmedAfter
UnconfirmAfter(heights, h) ==
  [t \in Tx |-> IF heights[t] > h THEN Unconfirmed ELSE heights[t]]

-----------------------------------------------------------------------------
(* _peerRelayedBlock.  Its branches are tried in the order below; each one   *)
(* names the branches that come before it through its guard.                 *)

\* Thread p has b in hand: the orphan it took out, or a block just received.
Receives(p, b) ==
  /\ ~ crashed
  /\ saving[p] = {}
  /\ b # Genesis
  /\ \/ next[p] = b
     \/ /\ next[p] = NoBlock
        /\ Connected(p)
        /\ Height[b] + RelayDepth >= Height[lastBlock]

\* the block was freed, or linked to nothing
Done(p) == next' = [next EXCEPT ![p] = NoBlock]

\* The block has a height: raise the estimate, and take out the orphan that
\* follows it, which p relays next.
Placed(p, b, left) ==
  LET fit == {o \in left : PrevBlock(o) = b} IN
  /\ estimatedHeight' = IF Height[b] > estimatedHeight THEN Height[b] ELSE estimatedHeight
  /\ next' = [next EXCEPT ![p] = IF fit = {} THEN NoBlock ELSE CHOOSE o \in fit : TRUE]
  /\ orphans' = left \ fit

\* _LWPeerManagerLoadMempools loads a new filter into every connected peer but
\* the download peer, and into that one too when its false positive rate is
\* high; loading one frees all orphans.
ReloadsFilter ==
  IF \E q \in Peer : Connected(q) /\ q # downloadPeer THEN {TRUE}
  ELSE IF downloadPeer # NoPeer THEN BOOLEAN ELSE {FALSE}

OrphansAfterSync(left) == {IF reload THEN {} ELSE left : reload \in ReloadsFilter}

\* a filter update is pending
IgnoreBlock(p, b) ==
  /\ Receives(p, b)
  /\ ~ bloomFilter
  /\ Done(p)
  /\ UNCHANGED <<blocks, orphans, lastBlock, estimatedHeight, bloomFilter, peerVars,
                 saving, saved, txHeight, crashed>>

RelayedOrphan(p, b) ==
  /\ Receives(p, b)
  /\ bloomFilter
  /\ Parent[b] \notin blocks
  /\ orphans' = IF b \in Old THEN orphans ELSE AddOrphan(b)
  /\ Done(p)
  /\ UNCHANGED <<blocks, lastBlock, estimatedHeight, bloomFilter, peerVars,
                 saving, saved, txHeight, crashed>>

Linked(p, b) == Receives(p, b) /\ bloomFilter /\ Parent[b] \in blocks

\* "relayed invalid block": the peer that sent it is disconnected
RejectInvalid(p, b) ==
  /\ Linked(p, b)
  /\ ~ VerifyBlock(b)
  /\ blocks' = Kept(b)
  /\ Done(p)
  /\ UNCHANGED <<orphans, lastBlock, estimatedHeight, bloomFilter, peerVars,
                 saving, saved, txHeight, crashed>>

\* UInt256Eq(block->prevBlock, manager->lastBlock->blockHash)
FollowsTip(p, b) == Parent[b] = lastBlock

ExtendMainChain(p, b) ==
  LET held == Kept(b) \cup {b}
      synced == Height[b] = estimatedHeight IN
  /\ Linked(p, b)
  /\ VerifyBlock(b)
  /\ FollowsTip(p, b)
  /\ blocks' = held
  /\ lastBlock' = b
  /\ txHeight' = Confirm(txHeight, {b})
  /\ saving' = [saving EXCEPT ![p] =
                  IF synced THEN SaveSet(b, FullSaveCount(Height[b]), held)
                  ELSE IF Transition(Height[b]) THEN {b} ELSE {}]
  /\ \E left \in (IF synced THEN OrphansAfterSync(orphans) ELSE {orphans}) :
       Placed(p, b, left)
  /\ UNCHANGED <<bloomFilter, peerVars, saved, crashed>>

\* the walk back from lastBlock to the height of b meets a header not held
GapAbove(h, held) ==
  \E a \in Chain[lastBlock] \ {lastBlock} : Height[a] >= h /\ a \notin held

RelayedExisting(p, b) ==
  /\ Linked(p, b)
  /\ VerifyBlock(b)
  /\ ~ FollowsTip(p, b)
  /\ b \in blocks
  /\ IF GapAbove(Height[b], Kept(b))
     THEN /\ crashed' = TRUE    \* LWMerkleBlockEq(NULL, block)
          /\ UNCHANGED <<blocks, orphans, estimatedHeight, next, txHeight>>
     ELSE /\ blocks' = Kept(b)
          /\ txHeight' = IF b \in Chain[lastBlock] THEN Confirm(txHeight, {b}) ELSE txHeight
          /\ Placed(p, b, orphans)
          /\ UNCHANGED crashed
  /\ UNCHANGED <<lastBlock, bloomFilter, peerVars, saving, saved>>

Unknown(p, b) ==
  Linked(p, b) /\ VerifyBlock(b) /\ ~ FollowsTip(p, b) /\ b \notin blocks

\* "special case, new block mined durring rescan"
AheadOfRescan(p, b) ==
  Height[lastBlock] < lastblock[p] /\ Height[b] > Height[lastBlock] + 1

MarkNewAsOrphan(p, b) ==
  /\ Unknown(p, b)
  /\ AheadOfRescan(p, b)
  /\ blocks' = Kept(b)
  /\ Placed(p, b, AddOrphan(b))
  /\ UNCHANGED <<lastBlock, bloomFilter, peerVars, saving, saved, txHeight, crashed>>

\* at or below checkpoints[checkpointsCount - 1].height
OldFork(b) == \E c \in Checkpoint : Height[b] <= Height[c]

IgnoreOldFork(p, b) ==
  /\ Unknown(p, b)
  /\ ~ AheadOfRescan(p, b)
  /\ OldFork(b)
  /\ blocks' = Kept(b)
  /\ Done(p)
  /\ UNCHANGED <<orphans, lastBlock, estimatedHeight, bloomFilter, peerVars,
                 saving, saved, txHeight, crashed>>

NewOnFork(p, b) == Unknown(p, b) /\ ~ AheadOfRescan(p, b) /\ ~ OldFork(b)

\* MUTANT: the height is not compared with the tip's
AddForkAnyHeight(p, b) ==
  /\ NewOnFork(p, b)
  /\ blocks' = Kept(b) \cup {b}
  /\ Placed(p, b, orphans)
  /\ UNCHANGED <<lastBlock, bloomFilter, peerVars, saving, saved, txHeight, crashed>>

AddFork(p, b) ==
  /\ NewOnFork(p, b)
  /\ Height[b] <= Height[lastBlock]
  /\ blocks' = Kept(b) \cup {b}
  /\ Placed(p, b, orphans)
  /\ UNCHANGED <<lastBlock, bloomFilter, peerVars, saving, saved, txHeight, crashed>>

\* The two walks back from b and lastBlock go down in step.  The first header
\* that is not held, above the join, ends them: on b's side the null pointer is
\* dereferenced, on lastBlock's side the walk stops short of the join.
HighestGap(c, held) ==
  LET gaps == {Height[a] : a \in Chain[c] \ held} \cup {-1}
  IN  CHOOSE h \in gaps : \A g \in gaps : g <= h

Reorganize(p, b) ==
  LET held == Kept(b) \cup {b}
      join == JoinHeight(b, lastBlock)
      gap == HighestGap(b, held)
      mainGap == HighestGap(lastBlock, held \cup {lastBlock})
      stop == IF mainGap >= join THEN mainGap ELSE join
      unconfirmed == UnconfirmAfter(txHeight, stop) IN
  /\ NewOnFork(p, b)
  /\ Height[b] > Height[lastBlock]
  /\ IF gap >= join /\ gap >= mainGap
     THEN /\ crashed' = TRUE    \* b->height in peer_log
          /\ UNCHANGED <<blocks, orphans, lastBlock, estimatedHeight, next, saving, txHeight>>
     ELSE /\ blocks' = held
          /\ lastBlock' = b
          /\ txHeight' = IF stop = join
                         THEN Confirm(unconfirmed, Segment(b, join + 1, Height[b]))
                         ELSE unconfirmed
          /\ saving' = [saving EXCEPT ![p] =
                          IF Height[b] = estimatedHeight
                          THEN SaveSet(b, FullSaveCount(Height[b]), held) ELSE {}]
          /\ \E left \in (IF Height[b] = estimatedHeight
                          THEN OrphansAfterSync(orphans) ELSE {orphans}) :
               Placed(p, b, left)
          /\ UNCHANGED crashed
  /\ UNCHANGED <<bloomFilter, peerVars, saved>>

RelayBlock(p, b) ==
  \/ IgnoreBlock(p, b)
  \/ RelayedOrphan(p, b)
  \/ RejectInvalid(p, b)
  \/ ExtendMainChain(p, b)
  \/ RelayedExisting(p, b)
  \/ MarkNewAsOrphan(p, b)
  \/ IgnoreOldFork(p, b)
  \/ AddFork(p, b)
  \/ Reorganize(p, b)

\* The saveBlocks callback, called after the lock was released with pointers to
\* the headers: one that another thread freed meanwhile is not what was meant.
SaveBlocks(p) ==
  /\ ~ crashed
  /\ saving[p] # {}
  /\ \E garbled \in SUBSET (saving[p] \ blocks) :
       saved' = (IF Cardinality(saving[p]) > 1 THEN {} ELSE saved) \cup (saving[p] \ garbled)
  /\ saving' = [saving EXCEPT ![p] = {}]
  /\ UNCHANGED <<blocks, orphans, lastBlock, estimatedHeight, bloomFilter, peerVars,
                 next, txHeight, crashed>>
-----------------------------------------------------------------------------
(* Connections and the filter.                                               *)

LoadBloomFilter == bloomFilter' = TRUE /\ orphans' = {}

PeerConnected(p, h) ==
  LET reported == [lastblock EXCEPT ![p] = h]
      keeps == /\ downloadPeer # NoPeer
               /\ h <= lastblock[downloadPeer] \/ h <= Height[lastBlock] IN
  /\ ~ crashed
  /\ ~ Connected(p)
  /\ Height[lastBlock] <= h + 10     \* else "node isn't synced"
  /\ lastblock' = reported
  /\ \/ /\ keeps
        /\ IF h <= Height[lastBlock] THEN LoadBloomFilter ELSE UNCHANGED <<bloomFilter, orphans>>
        /\ UNCHANGED <<downloadPeer, estimatedHeight>>
     \/ /\ ~ keeps
        /\ \E q \in Peer :        \* the one with the lowest ping time
             /\ \A r \in Peer : reported[r] <= reported[q]
             /\ downloadPeer' = q
             /\ estimatedHeight' = reported[q]
        /\ LoadBloomFilter
  /\ UNCHANGED <<blocks, lastBlock, next, saving, saved, txHeight, crashed>>

PeerDisconnected(p) ==
  /\ ~ crashed
  /\ Connected(p)
  /\ next[p] = NoBlock /\ saving[p] = {}    \* p's thread is not in a callback
  /\ lastblock' = [lastblock EXCEPT ![p] = -1]
  /\ downloadPeer' = IF downloadPeer = p THEN NoPeer ELSE downloadPeer
  /\ UNCHANGED <<blocks, orphans, lastBlock, estimatedHeight, bloomFilter, next,
                 saving, saved, txHeight, crashed>>

\* _peerRelayedTx, _peerHasTx: an address of the wallet is not in the filter
FilterOutdated ==
  /\ ~ crashed
  /\ bloomFilter
  /\ \E p \in Peer : Connected(p)
  /\ bloomFilter' = FALSE
  /\ UNCHANGED <<blocks, orphans, lastBlock, estimatedHeight, peerVars, next,
                 saving, saved, txHeight, crashed>>

\* _updateFilterPingDone: the peer that was the download peer answered the ping
UpdateFilter ==
  /\ ~ crashed
  /\ \E p \in Peer : Connected(p)
  /\ IF downloadPeer = NoPeer /\ Height[lastBlock] < estimatedHeight
     THEN bloomFilter' = FALSE /\ UNCHANGED orphans
     ELSE LoadBloomFilter
  /\ UNCHANGED <<blocks, lastBlock, estimatedHeight, peerVars, next, saving, saved,
                 txHeight, crashed>>

\* LWPeerManagerRescan.  The download peer it disconnects goes through
\* PeerDisconnected, when its thread gets there.
Rescan ==
  /\ ~ crashed
  /\ downloadPeer # NoPeer
  /\ lastBlock' = Start
  /\ UNCHANGED <<blocks, orphans, estimatedHeight, bloomFilter, peerVars, next,
                 saving, saved, txHeight, crashed>>

-----------------------------------------------------------------------------
(* LWPeerManagerNew with what the application's store holds.                 *)

\* The saved blocks go to manager->orphans first; of two with the same
\* prevBlock the later one stays.
OrphansFrom(stored) ==
  {O \in SUBSET stored :
     /\ \A a, b \in O : PrevBlock(a) = PrevBlock(b) => a = b
     /\ \A a \in stored : \E b \in O : PrevBlock(a) = PrevBlock(b)}

\* MUTANT: the comparison is the other way round
FirstTransitions(stored) ==
  {t \in stored : /\ Transition(Height[t])
                  /\ \A u \in stored : Transition(Height[u]) => Height[t] <= Height[u]}

LastTransitions(stored) ==
  {t \in stored : /\ Transition(Height[t])
                  /\ \A u \in stored : Transition(Height[u]) => Height[u] <= Height[t]}

\* t and the orphans that follow it one after the other
Following(t, O) ==
  {t} \cup {a \in O : t \in Chain[a] /\ Segment(a, Height[t] + 1, Height[a]) \subseteq O}

Tallest(S) == {b \in S : \A a \in S : Height[a] <= Height[b]}

\* MUTANT: the transition itself is not added
LoadedAbove(t, O) == Checkpoint \cup (Following(t, O) \ {t})

\* manager->blocks once the transition and what follows it are added
Loaded(t, O) == Checkpoint \cup Following(t, O)

\* LWPeerManagerNew: what manager->blocks, orphans and lastBlock become
NewManager(stored, held, waiting, last) ==
  \E O \in OrphansFrom(stored) :
    \/ /\ LastTransitions(stored) = {}
       /\ held = Checkpoint
       /\ waiting = O
       /\ last = Start
    \/ \E t \in LastTransitions(stored) :
         /\ held = Loaded(t, O)
         /\ waiting = {o \in O \ Following(t, O) : PrevBlock(o) # PrevBlock(t)}
         /\ last \in Tallest(Following(t, O))

Init ==
  /\ blocks = Checkpoint
  /\ orphans = {}
  /\ lastBlock = Start
  /\ estimatedHeight = 0
  /\ bloomFilter = FALSE
  /\ downloadPeer = NoPeer
  /\ lastblock = [p \in Peer |-> -1]
  /\ next = [p \in Peer |-> NoBlock]
  /\ saving = [p \in Peer |-> {}]
  /\ saved = {}
  /\ txHeight = [t \in Tx |-> Unconfirmed]
  /\ crashed = FALSE

\* The process ends at any point and starts again.  The wallet's transactions
\* were stored by txAdded and txUpdated as they changed.
Restart ==
  /\ NewManager(saved, blocks', orphans', lastBlock')
  /\ estimatedHeight' = 0
  /\ bloomFilter' = FALSE
  /\ downloadPeer' = NoPeer
  /\ lastblock' = [p \in Peer |-> -1]
  /\ next' = [p \in Peer |-> NoBlock]
  /\ saving' = [p \in Peer |-> {}]
  /\ crashed' = FALSE
  /\ UNCHANGED <<saved, txHeight>>

PeerStep(p) ==
  \/ \E b \in Block : RelayBlock(p, b)
  \/ SaveBlocks(p)
  \/ \E h \in ReportedHeight : PeerConnected(p, h)
  \/ PeerDisconnected(p)

\* one run of the application in which the user never asks for a rescan
Next == (\E p \in Peer : PeerStep(p)) \/ FilterOutdated \/ UpdateFilter

Spec == Init /\ [][Next]_vars

\* the application also ends, or is killed, and starts again
NextR == Next \/ Restart

SpecR == Init /\ [][NextR]_vars

\* the user also asks for rescans
NextRescan == Next \/ Rescan

SpecRescan == Init /\ [][NextRescan]_vars

\* both
NextAll == NextR \/ Rescan

SpecAll == Init /\ [][NextAll]_vars

-----------------------------------------------------------------------------
(* Properties.                                                               *)

\* The tip is a header the manager holds: LWPeerManagerLastBlockHeight is the
\* "current proof-of-work verified best block height", and every handler reads
\* through the pointer.
LastBlockHeld == lastBlock \in blocks

\* No header that was linked to the chain is higher than the tip, but for the
\* checkpoints that are there from the start: _peerRelayedBlock never leaves
\* the longer branch aside.
TallestIsLast ==
  \A b \in blocks \ Checkpoint : Height[b] <= Height[lastBlock]

\* No transition lies between the height of b and the tip.
SinceTransition(b) ==
  \A h \in Height[b] .. Height[lastBlock] : ~ Transition(h)

\* Above the last transition every header held has its parent held: the part
\* of the chain the next transition is verified with is never freed.
RecentLinked ==
  \A b \in blocks \ {Genesis} :
    (Height[b] <= Height[lastBlock] /\ SinceTransition(b)) => Parent[b] \in blocks

\* The block that follows the tip passes _LWPeerManagerVerifyBlock, so that an
\* honest peer is never disconnected for it: the headers freed to save memory
\* are not the ones the next difficulty transition is verified with.
NextBlockVerifies ==
  \A b \in Block \ {Genesis} :
    (Parent[b] = lastBlock /\ ~ ContradictsCheckpoint(b)) => VerifyBlock(b)

\* The tip's chain goes through every checkpoint it is as high as: a header
\* that contradicts one is refused, and so is a fork that would avoid it.
ThroughCheckpoints(b) == \A c \in Checkpoint : Height[c] <= Height[b] => c \in Chain[b]

OnCheckpoints == ThroughCheckpoints(lastBlock)

\* A thread still has the orphan it took out in hand when the tip is further above it than what
\* peers relay: the other threads went on for that long.
Late == \E p \in Peer : next[p] # NoBlock /\ Height[next[p]] + RelayDepth < Height[lastBlock]

\* No walk along prevBlock runs off the headers held, unless a thread is late.
NoNullBlock == [][crashed' => crashed \/ Late]_vars

\* What is stored can be loaded: whatever order the store returns the blocks
\* in, the manager LWPeerManagerNew makes of them has a tip as high as any.
StoreReloads ==
  saved # {} =>
    /\ LastTransitions(saved) # {}
    /\ \A O \in OrphansFrom(saved), t \in LastTransitions(saved) :
         \A tip \in Tallest(Following(t, O)), b \in saved : Height[b] <= Height[tip]

\* A transaction the wallet shows at a height the scan has reached is in the
\* block of the best chain at that height.
ConfirmedInBestChain ==
  \A t \in Tx :
    txHeight[t] <= Height[lastBlock] =>
      \E a \in Chain[lastBlock] : t \in TxIn[a] /\ Height[a] = txHeight[t]

\* The inductive invariant of LWBlockChainProofs.
IInv == TypeOK /\ LastBlockHeld /\ TallestIsLast /\ RecentLinked

\* The manager shows the wallet one best chain: see LWBestChain.
Best == INSTANCE LWBestChain WITH tip <- lastBlock
FollowsBestChain == Best!Spec
=============================================================================
