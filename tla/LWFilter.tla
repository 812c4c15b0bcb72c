------------------------------ MODULE LWFilter ------------------------------
(***************************************************************************)
(* The bloom filter and the chain download: what the node on the other end *)
(* of the connection matches, what LWPeer.c requests again, and what       *)
(* LWPeerManager.c and the wallet make of it.  The question is whether a   *)
(* transaction of the wallet can be missed.                                *)
(*                                                                         *)
(* The manager has the one connection of LWPeerManagerSetFixedPeer.  The   *)
(* node is honest, and its chain has no forks: a block is its height, and  *)
(* the blocks the manager holds are those up to lastBlock.  An address is  *)
(* its index in one chain of addresses; the outputs of a transaction to    *)
(* the wallet are one outpoint.  A filter has no false positives; that     *)
(* too many were measured is a choice (degraded).  Connection management   *)
(* is LWSync's, headers and forks are LWBlockChain's, the transactions the *)
(* wallet publishes LWPublish's: here a connection is made at once, and    *)
(* every transaction comes from others.                                    *)
(***************************************************************************)
EXTENDS Integers, Sequences, SequencesExt, FiniteSets, FiniteSetsExt

CONSTANTS
  Tx,
  Pays, Spends,         \* the addresses a transaction pays, the transactions whose outputs it spends
  Chain,                \* Chain[h]: the transactions of the block at height h, in their order
  Unmined,              \* those that may be broadcast before they are mined
  Gap,                  \* SEQUENCE_GAP_LIMIT_EXTERNAL (10)
  Spare,                \* further addresses generated for a filter (100)
  Recent,               \* blocks back for which a filter holds spent outputs (100)
  MaxInv,               \* block hashes in one inv (500)
  Far,                  \* blocks left for which a degraded filter is rebuilt (500)
  Week,                 \* blocks that come in a week: an orphan older than that is not kept
  KeepsAnnounced,       \* whether the node serves what it announced after it is mined
  DegradedAtEnd,        \* what the false positive rate may be found to be once the chain is here
  None,
  FirstMined,           \* the height of the chain at first
  MaxLosses, MaxRebuilds \* bounds: connections lost, filters found degraded

ASSUME FilterAssumption ==
  /\ Pays \in [Tx -> SUBSET Nat] /\ Spends \in [Tx -> SUBSET Tx]
  /\ Chain \in Seq(Seq(Tx)) /\ Unmined \subseteq Tx
  /\ Gap \in Nat \ {0} /\ Spare \in Nat /\ Recent \in Nat /\ MaxInv \in Nat \ {0} /\ Far \in Nat /\ Week \in Nat
  /\ KeepsAnnounced \in BOOLEAN /\ DegradedAtEnd \subseteq BOOLEAN
  /\ FirstMined \in 0..Len(Chain) /\ MaxLosses \in Nat /\ MaxRebuilds \in Nat
  /\ IsFiniteSet(Tx) /\ \A t \in Tx : IsFiniteSet(Pays[t])
  /\ None \notin Int
  /\ None \notin [height : Int, txs : SUBSET Tx] /\ None \notin [addrs : Nat, outs : SUBSET Tx]

VARIABLES
  \* the node
  mined, pool,          \* the height of its chain, the transactions not mined yet
  announced,            \* the transactions it told the wallet of
  filter, continue,     \* of the connection: the filter loaded, the block after which the tip is announced
  \* the connection, and LWPeer's context of it
  connected, toNode, fromNode,
  ctx, pongs,           \* pongs: the completions of the pings sent, in order
  \* the manager
  bloomFilter,          \* the addresses manager->bloomFilter has, or None
  lastBlock, estimatedHeight, orphans, lastOrphan, syncing,
  relayed,              \* the block being relayed, or None
  \* the wallet
  height, addrs,        \* of each transaction; how many addresses are generated
  \* history
  losses, rebuilds

node == <<mined, pool, announced>>
wire == <<filter, continue, toNode, fromNode>>
manager == <<bloomFilter, lastBlock, estimatedHeight, orphans, lastOrphan, syncing>>
wallet == <<height, addrs>>
bounds == <<losses, rebuilds>>
vars == <<node, wire, connected, ctx, pongs, manager, relayed, wallet, bounds>>

-----------------------------------------------------------------------------
(* The wallet. *)

Absent == -1            \* not in allTx
Foreign == -2           \* in allTx, and not the wallet's
Unconfirmed == -3       \* TX_UNCONFIRMED

Registered(h) == {t \in Tx : h[t] \notin {Absent, Foreign}}
Used(h) == UNION {Pays[t] : t \in Registered(h)}

\* The first of the addresses after which none is used, of n generated.
FirstUnused(h, n) == Max({0} \union {u + 1 : u \in {i \in Used(h) : i < n}})

\* LWWalletUnusedAddrs: as many addresses as are needed for gap unused ones at the end.
UnusedAddrs(h, n, gap) ==
  LET enough == {m \in n .. Max({n} \union Used(h)) + gap + 1 : FirstUnused(h, m) + gap <= m}
  IN Min(enough)

Pays2Wallet(t) == \E i \in Pays[t] : i < addrs
\* LWWalletContainsTransaction
ContainsTx(t) == Pays2Wallet(t) \/ \E p \in Spends[t] : height[p] # Absent /\ Pays2Wallet(p)

\* LWWalletUpdateTransactions: a transaction the wallet has not is not noted.
Confirmed(txs, h) ==
  [t \in Tx |-> IF t \notin txs \/ height[t] = Absent THEN height[t]
                ELSE IF height[t] # Foreign THEN h
                ELSE IF ContainsTx(t) THEN Foreign ELSE Absent]

-----------------------------------------------------------------------------
(* Messages, and what LWPeer sends. *)

GetBlocks(from) == <<[type |-> "getblocks", from |-> from]>>
GetData(txs, blocks) ==
  IF txs = {} /\ blocks = <<>> THEN <<>> ELSE <<[type |-> "getdata", txs |-> txs, blocks |-> blocks]>>
Ping == <<[type |-> "ping"]>>

\* _LWPeerManagerLoadBloomFilter generates addresses, takes the outputs to watch, and drops the orphans.
FilterAddrs == UnusedAddrs(height, addrs, Gap + Spare)
Watched(n) ==
  LET ours == {t \in Registered(height) : \E i \in Pays[t] : i < n}
      spent == UNION {Spends[t] : t \in Registered(height)}
      recent == {t \in Registered(height) : height[t] = Unconfirmed \/ height[t] >= lastBlock - Recent}
  IN (ours \ spent) \union (ours \intersect UNION {Spends[t] : t \in recent})
FilterLoad(n) == <<[type |-> "filterload", filter |-> [addrs |-> n, outs |-> Watched(n)]]>>

NoOrphans == [h \in 1..Len(Chain) |-> None]

\* MUTANT: the orphans of the old filter are kept
NewFilterOnly ==
  /\ addrs' = FilterAddrs /\ bloomFilter' = FilterAddrs
  /\ UNCHANGED <<orphans, lastOrphan>>

NewFilter ==
  /\ addrs' = FilterAddrs /\ bloomFilter' = FilterAddrs
  /\ orphans' = NoOrphans /\ lastOrphan' = None


\* LWPeerSendMempool: one request per filter, none while one waits for its answer.
Mempool(c) == IF ~c.sentMempool /\ ~c.mempoolCallback THEN <<[type |-> "mempool"]>> ELSE <<>>
SentMempool(c, callback) ==
  [c EXCEPT !.sentMempool = TRUE, !.mempoolCallback = @ \/ (callback /\ ~c.sentMempool)]

NewContext(lastblock) ==
  [lastblock |-> lastblock, lastBlockHash |-> None, known |-> <<>>, knownTx |-> {},
   needsUpdate |-> FALSE, current |-> None, left |-> {}, sentMempool |-> FALSE,
   mempoolCallback |-> FALSE, timer |-> FALSE]

Init ==
  /\ mined = FirstMined /\ pool = {} /\ announced = {}
  /\ filter = None /\ continue = None /\ connected = FALSE /\ toNode = <<>> /\ fromNode = <<>>
  /\ ctx = NewContext(0) /\ pongs = <<>>
  /\ bloomFilter = None /\ lastBlock = 0 /\ estimatedHeight = 0 /\ orphans = NoOrphans /\ lastOrphan = None
  /\ syncing = FALSE /\ relayed = None
  /\ height = [t \in Tx |-> Absent] /\ addrs = Gap
  /\ losses = 0 /\ rebuilds = 0

-----------------------------------------------------------------------------
(* The node. *)

PaysTo(f, t) == \E i \in Pays[t] : i < f.addrs
Matches(f, t) == PaysTo(f, t) \/ Spends[t] \intersect f.outs # {}
\* BLOOM_UPDATE_ALL: the outputs that match are watched from then on.
After(f, txs) == [f EXCEPT !.outs = @ \union {t \in txs : PaysTo(f, t)}]

TxMessage(t) == [type |-> "tx", tx |-> t]
BlockInv(blocks) == [type |-> "inv", txs |-> {}, blocks |-> blocks]
TxInv(txs) == [type |-> "inv", txs |-> txs, blocks |-> <<>>]

\* What a getdata for blocks is answered with: each block, and the transactions of it that match,
\* a transaction after those it spends.
TxsOf(blocks) == UNION {ToSet(Chain[h]) : h \in ToSet(blocks)}
BlockReply(f, h) ==
  LET txs == {t \in ToSet(Chain[h]) : Matches(f, t)}
      message(t) == IF t \in txs THEN <<TxMessage(t)>> ELSE <<>>
  IN <<[type |-> "merkleblock", height |-> h, txs |-> txs]>>
     \o FlattenSeq([i \in DOMAIN Chain[h] |-> message(Chain[h][i])])
BlockReplies(f, blocks) ==
  FlattenSeq([n \in DOMAIN blocks |-> BlockReply(After(f, TxsOf(SubSeq(blocks, 1, n))), blocks[n])])
Has(t) == t \in pool \/ (KeepsAnnounced /\ t \in announced)

NodeReads(type) == toNode # <<>> /\ Head(toNode).type = type /\ toNode' = Tail(toNode)
Replies(msgs) == fromNode' = fromNode \o msgs
NodeOnly == UNCHANGED <<mined, pool, connected, ctx, pongs, manager, relayed, wallet, bounds>>

NodeFilterLoad ==
  /\ NodeReads("filterload") /\ filter' = Head(toNode).filter
  /\ NodeOnly /\ UNCHANGED <<announced, continue, fromNode>>

NodeGetBlocks ==
  /\ NodeReads("getblocks")
  /\ LET from == Head(toNode).from
         last == Min({from + MaxInv, mined})
     IN IF from < mined THEN /\ Replies(<<BlockInv([i \in 1..(last - from) |-> from + i])>>)
                             /\ continue' = IF last = from + MaxInv THEN last ELSE None
                        ELSE UNCHANGED <<fromNode, continue>>
  /\ NodeOnly /\ UNCHANGED <<announced, filter>>

NodeGetData ==
  /\ NodeReads("getdata")
  /\ LET m == Head(toNode)
         ends == continue \in ToSet(m.blocks)
         txs == SetToSeq({t \in m.txs : Has(t)})
     IN /\ Replies([i \in DOMAIN txs |-> TxMessage(txs[i])]
                   \o BlockReplies(filter, m.blocks)
                   \o IF ends THEN <<BlockInv(<<mined>>)>> ELSE <<>>)
        /\ filter' = After(filter, TxsOf(m.blocks))
        /\ continue' = IF ends THEN None ELSE continue
  /\ NodeOnly /\ UNCHANGED announced

NodeMempool ==
  /\ NodeReads("mempool")
  /\ LET found == {t \in pool : Matches(After(filter, pool), t)}
     IN /\ Replies(IF found = {} THEN <<>> ELSE <<TxInv(found)>>)
        /\ announced' = announced \union found
  /\ filter' = After(filter, pool)
  /\ NodeOnly /\ UNCHANGED continue

NodePing ==
  /\ NodeReads("ping") /\ Replies(<<[type |-> "pong"]>>)
  /\ NodeOnly /\ UNCHANGED <<announced, filter, continue>>

NodeNext == NodeFilterLoad \/ NodeGetBlocks \/ NodeGetData \/ NodeMempool \/ NodePing

\* The node's chain grows by a block, which it announces.
Mine ==
  /\ mined < Len(Chain)
  /\ mined' = mined + 1 /\ pool' = pool \ ToSet(Chain[mined + 1])
  /\ IF connected THEN Replies(<<BlockInv(<<mined + 1>>)>>) ELSE UNCHANGED fromNode
  /\ UNCHANGED <<announced, filter, continue, toNode, connected, ctx, pongs, manager, relayed, wallet, bounds>>

\* A transaction comes to the node's pool, and is announced if it matches.
Mined == UNION {ToSet(Chain[h]) : h \in 1..mined}
Broadcast(t) ==
  /\ t \notin pool \union Mined /\ Spends[t] \subseteq pool \union Mined
  /\ pool' = pool \union {t}
  /\ IF filter # None /\ Matches(filter, t)
     THEN /\ Replies(<<TxInv({t})>>) /\ filter' = After(filter, {t}) /\ announced' = announced \union {t}
     ELSE UNCHANGED <<fromNode, filter, announced>>
  /\ UNCHANGED <<mined, continue, toNode, connected, ctx, pongs, manager, relayed, wallet, bounds>>

-----------------------------------------------------------------------------
(* LWPeer.c: what the wallet reads. *)

Reads(type) ==
  /\ relayed = None /\ fromNode # <<>> /\ Head(fromNode).type = type
  /\ fromNode' = Tail(fromNode)
Sends(msgs) == toNode' = toNode \o msgs
\* LWPeerSendPing, for each completion given.
Pings(callbacks) == pongs' = pongs \o callbacks
PingMessages(callbacks) == [i \in DOMAIN callbacks |-> Ping[1]]
NodeUnchanged == UNCHANGED <<node, filter, continue>>

\* A single block hash is taken once; block hashes are remembered for a filter update and not
\* asked for during one; 500 of them ask for the next.
AcceptInv ==
  /\ Reads("inv")
  /\ LET m == Head(fromNode)
         repeated == Len(m.blocks) = 1 /\ m.blocks[1] = ctx.lastBlockHash
         blocks == IF repeated THEN <<>> ELSE m.blocks
         wanted == IF ctx.needsUpdate THEN <<>> ELSE blocks
         answered == IF m.txs # {} /\ ctx.mempoolCallback THEN <<"mempoolDone">> ELSE <<>>
     IN /\ ctx' = [ctx EXCEPT !.lastBlockHash = IF Len(blocks) = 1 THEN blocks[1] ELSE @,
                              !.known = @ \o blocks,
                              !.knownTx = @ \union m.txs,
                              !.mempoolCallback = @ /\ m.txs = {}]
        /\ Sends(GetData(m.txs \ ctx.knownTx, wanted)
                 \o (IF Len(wanted) >= MaxInv THEN GetBlocks(wanted[Len(wanted)]) ELSE <<>>)
                 \o PingMessages(answered))
        /\ Pings(answered)
  /\ NodeUnchanged /\ UNCHANGED <<connected, manager, relayed, wallet, bounds>>

\* A block waits for the transactions it lists that were not announced before.
AcceptMerkleblock ==
  /\ Reads("merkleblock")
  /\ LET m == Head(fromNode)
         block == [height |-> m.height, txs |-> m.txs]
         left == m.txs \ ctx.knownTx
     IN IF left # {} THEN /\ ctx' = [ctx EXCEPT !.current = block, !.left = left]
                          /\ UNCHANGED relayed
                     ELSE relayed' = block /\ UNCHANGED ctx
  /\ NodeUnchanged /\ UNCHANGED <<toNode, connected, pongs, manager, wallet, bounds>>

\* _LWPeerManagerUpdateFilter: nothing while the peer waits for an update already.
UpdateNeeded(c) == ~c.needsUpdate

\* MUTANT: the gap is not counted
CoveredUsed(h, n) == FirstUnused(h, n) <= bloomFilter

Covered(h, n) == FirstUnused(h, n) + Gap <= bloomFilter

\* _peerRelayedTx, and the block that waited for this transaction last.
AcceptTx ==
  /\ Reads("tx")
  /\ LET t == Head(fromNode).tx
         registers == ~syncing \/ ContainsTx(t)
         new == registers /\ height[t] = Absent
         isWalletTx == registers /\ (height[t] # Absent \/ ContainsTx(t))
         newHeight == IF ~new THEN height
                      ELSE [height EXCEPT ![t] = IF ContainsTx(t) THEN Unconfirmed ELSE Foreign]
         newAddrs == IF isWalletTx THEN UnusedAddrs(newHeight, addrs, Gap) ELSE addrs
         resets == isWalletTx /\ bloomFilter # None /\ ~Covered(newHeight, newAddrs)
         updates == IF resets /\ UpdateNeeded(ctx) THEN <<"updateFilterPingDone">> ELSE <<>>
         left == ctx.left \ {t}
         complete == ctx.current # None /\ left = {}
     IN /\ height' = newHeight /\ addrs' = newAddrs
        /\ bloomFilter' = IF resets THEN None ELSE bloomFilter
        /\ Sends(PingMessages(updates)) /\ Pings(updates)
        /\ relayed' = IF complete THEN ctx.current ELSE None
        /\ ctx' = [ctx EXCEPT !.needsUpdate = @ \/ resets, !.left = left,
                              !.current = IF complete THEN None ELSE @,
                              !.timer = syncing /\ (@ \/ isWalletTx)]
  /\ NodeUnchanged
  /\ UNCHANGED <<connected, lastBlock, estimatedHeight, orphans, lastOrphan, syncing, bounds>>

-----------------------------------------------------------------------------
(* LWPeerManager.c: what a pong completes. *)

Pong(callback) ==
  /\ Reads("pong") /\ pongs # <<>> /\ Head(pongs) = callback
  /\ NodeUnchanged /\ UNCHANGED <<connected, relayed, height, bounds, lastBlock, estimatedHeight>>

\* What the node sent before is here: the filter is loaded anew.
UpdateFilterPingDone ==
  /\ Pong("updateFilterPingDone")
  /\ NewFilter
  /\ Sends(FilterLoad(FilterAddrs) \o Ping) /\ pongs' = Tail(pongs) \o <<"updateFilterLoadDone">>
  /\ ctx' = [ctx EXCEPT !.sentMempool = FALSE]
  /\ UNCHANGED syncing

\* LWPeerRerequestBlocks: from the last place of lastBlock among the hashes remembered.
RerequestFrom(c) == Max({0} \union {i \in DOMAIN c.known : c.known[i] = lastBlock})
UpdateFilterLoadDone ==
  /\ Pong("updateFilterLoadDone")
  /\ LET i == RerequestFrom(ctx)
         known == IF i > 0 THEN SubSeq(ctx.known, i, Len(ctx.known)) ELSE ctx.known
         updated == [ctx EXCEPT !.needsUpdate = FALSE]
     IN IF lastBlock < estimatedHeight
        THEN /\ ctx' = [updated EXCEPT !.known = known]
             /\ Sends((IF i > 0 THEN GetData({}, known) ELSE <<>>) \o Ping)
             /\ pongs' = Tail(pongs) \o <<"updateFilterRerequestDone">>
        ELSE /\ ctx' = SentMempool(updated, FALSE) /\ Sends(Mempool(ctx)) /\ pongs' = Tail(pongs)
  /\ UNCHANGED <<addrs, bloomFilter, orphans, lastOrphan, syncing>>

UpdateFilterRerequestDone ==
  /\ Pong("updateFilterRerequestDone") /\ pongs' = Tail(pongs)
  /\ Sends(IF ctx.needsUpdate THEN <<>> ELSE GetBlocks(lastBlock))
  /\ UNCHANGED <<addrs, bloomFilter, orphans, lastOrphan, syncing, ctx>>

LoadBloomFilterDone ==
  /\ Pong("loadBloomFilterDone") /\ pongs' = Tail(pongs)
  /\ Sends(Mempool(ctx)) /\ ctx' = SentMempool(ctx, TRUE)
  /\ UNCHANGED <<addrs, bloomFilter, orphans, lastOrphan, syncing>>

MempoolDone ==
  /\ Pong("mempoolDone") /\ pongs' = Tail(pongs)
  /\ syncing' = FALSE
  /\ ctx' = [ctx EXCEPT !.timer = @ /\ ~syncing]
  /\ UNCHANGED <<addrs, bloomFilter, orphans, lastOrphan, toNode>>

-----------------------------------------------------------------------------
(* _peerRelayedBlock: c and callbacks are what the check of the false positive rate made of ctx  *)
(* and pongs.                                                                                    *)

\* The orphan that follows is relayed next.
Follows(h) ==
  IF h < Len(Chain) /\ orphans[h + 1] # None
  THEN relayed' = [height |-> h + 1, txs |-> orphans[h + 1]] /\ orphans' = [orphans EXCEPT ![h + 1] = None]
  ELSE relayed' = None /\ UNCHANGED orphans

\* A block that comes while the filter is to be updated may lack transactions.
IgnoreBlock(c, callbacks) ==
  /\ bloomFilter = None
  /\ ctx' = [c EXCEPT !.timer = @ \/ lastBlock < estimatedHeight]
  /\ relayed' = None
  /\ Sends(PingMessages(callbacks)) /\ Pings(callbacks)
  /\ UNCHANGED <<manager, wallet>>

IsOrphan == bloomFilter # None /\ relayed.height > lastBlock + 1
IgnoreOrphan(c, callbacks) ==
  /\ IsOrphan /\ relayed.height + Week < mined
  /\ ctx' = c /\ relayed' = None
  /\ Sends(PingMessages(callbacks)) /\ Pings(callbacks)
  /\ UNCHANGED <<manager, wallet>>

AddOrphan(c, callbacks) ==
  /\ IsOrphan /\ relayed.height + Week >= mined
  /\ orphans' = [orphans EXCEPT ![relayed.height] = relayed.txs]
  /\ lastOrphan' = relayed.height
  /\ ctx' = c /\ relayed' = None
  /\ Sends(PingMessages(callbacks)
           \o IF lastBlock >= c.lastblock /\ lastOrphan # relayed.height - 1
              THEN GetBlocks(lastBlock) ELSE <<>>)
  /\ Pings(callbacks)
  /\ UNCHANGED <<bloomFilter, lastBlock, estimatedHeight, syncing, wallet>>

\* The block extends the chain; the last one awaited asks for the pool, with a new filter when
\* the rate is too high.
ExtendChain(c, callbacks) ==
  /\ bloomFilter # None /\ relayed.height = lastBlock + 1
  /\ lastBlock' = relayed.height
  /\ height' = Confirmed(relayed.txs, relayed.height)
  /\ estimatedHeight' = Max({estimatedHeight, relayed.height})
  /\ IF relayed.height = estimatedHeight
     THEN \E degraded \in DegradedAtEnd :
            IF degraded
            THEN /\ addrs' = UnusedAddrs(height, addrs, Gap + Spare) /\ bloomFilter' = addrs'
                 /\ orphans' = NoOrphans /\ lastOrphan' = None /\ relayed' = None
                 /\ ctx' = [c EXCEPT !.sentMempool = FALSE]
                 /\ Sends(PingMessages(callbacks) \o FilterLoad(addrs') \o Ping)
                 /\ Pings(callbacks \o <<"loadBloomFilterDone">>)
            ELSE /\ ctx' = SentMempool(c, TRUE)
                 /\ Sends(PingMessages(callbacks) \o Mempool(c)) /\ Pings(callbacks)
                 /\ Follows(relayed.height) /\ UNCHANGED <<addrs, bloomFilter, lastOrphan>>
     ELSE /\ ctx' = [c EXCEPT !.timer = @ \/ relayed.height < estimatedHeight]
          /\ Sends(PingMessages(callbacks)) /\ Pings(callbacks)
          /\ Follows(relayed.height) /\ UNCHANGED <<addrs, bloomFilter, lastOrphan>>
  /\ UNCHANGED syncing

ExistingBlock(c, callbacks) ==
  /\ bloomFilter # None /\ relayed.height <= lastBlock
  /\ height' = Confirmed(relayed.txs, relayed.height)
  /\ lastOrphan' = IF lastOrphan = relayed.height THEN None ELSE lastOrphan
  /\ ctx' = c /\ Follows(relayed.height)
  /\ Sends(PingMessages(callbacks)) /\ Pings(callbacks)
  /\ UNCHANGED <<bloomFilter, lastBlock, estimatedHeight, syncing, addrs>>

RelayedBlock ==
  /\ relayed # None
  /\ \E degraded \in BOOLEAN :
       LET callbacks == IF degraded /\ UpdateNeeded(ctx) THEN <<"updateFilterPingDone">> ELSE <<>>
           c == [ctx EXCEPT !.needsUpdate = @ \/ degraded]
       IN /\ degraded => lastBlock + Far < ctx.lastblock /\ rebuilds < MaxRebuilds
          /\ rebuilds' = IF degraded THEN rebuilds + 1 ELSE rebuilds
          /\ \/ IgnoreBlock(c, callbacks)
             \/ IgnoreOrphan(c, callbacks)
             \/ AddOrphan(c, callbacks)
             \/ ExtendChain(c, callbacks)
             \/ ExistingBlock(c, callbacks)
  /\ NodeUnchanged /\ UNCHANGED <<fromNode, connected, losses>>

-----------------------------------------------------------------------------
(* The connection. *)

\* LWPeerManagerConnect and _peerConnected, with a node that is there.
Connect ==
  /\ ~connected /\ connected' = TRUE
  /\ syncing' = TRUE
  /\ estimatedHeight' = mined
  /\ NewFilter
  /\ LET c == NewContext(mined)
     IN IF lastBlock < mined
        THEN toNode' = FilterLoad(FilterAddrs) \o GetBlocks(lastBlock) /\ ctx' = [c EXCEPT !.timer = TRUE]
        ELSE toNode' = FilterLoad(FilterAddrs) \o Mempool(c) /\ ctx' = SentMempool(c, TRUE)
  /\ UNCHANGED <<node, filter, continue, fromNode, pongs, lastBlock, relayed, height, bounds>>

\* The completions of the pings that wait fail; of them LoadBloomFilterDone ends the sync.
Disconnected ==
  /\ connected /\ relayed = None
  /\ connected' = FALSE /\ toNode' = <<>> /\ fromNode' = <<>> /\ pongs' = <<>>
  /\ filter' = None /\ continue' = None /\ ctx' = NewContext(0)
  /\ syncing' = (syncing /\ "loadBloomFilterDone" \notin ToSet(pongs))
  /\ UNCHANGED <<node, bloomFilter, lastBlock, estimatedHeight, orphans, lastOrphan, relayed, wallet, rebuilds>>

Lose == losses < MaxLosses /\ losses' = losses + 1 /\ Disconnected

\* Nothing is on its way: what the node has to say comes within PROTOCOL_TIMEOUT, and the time
\* for an answer to a mempool request is over first.
Quiet == toNode = <<>> /\ fromNode = <<>> /\ relayed = None
Timeout == ctx.timer /\ Quiet /\ ~ctx.mempoolCallback /\ UNCHANGED losses /\ Disconnected

\* MUTANT: an answer that does not come is not waited for
MempoolForgotten ==
  /\ Quiet /\ ctx.mempoolCallback
  /\ ctx' = [ctx EXCEPT !.mempoolCallback = FALSE]
  /\ NodeUnchanged /\ UNCHANGED <<fromNode, toNode, pongs, connected, manager, relayed, wallet, bounds>>

MempoolTimeout ==
  /\ Quiet /\ ctx.mempoolCallback
  /\ ctx' = [ctx EXCEPT !.mempoolCallback = FALSE]
  /\ Sends(Ping) /\ Pings(<<"mempoolDone">>)
  /\ NodeUnchanged /\ UNCHANGED <<fromNode, connected, manager, relayed, wallet, bounds>>

WalletNext ==
  \/ AcceptInv \/ AcceptMerkleblock \/ AcceptTx \/ RelayedBlock
  \/ UpdateFilterPingDone \/ UpdateFilterLoadDone \/ UpdateFilterRerequestDone
  \/ LoadBloomFilterDone \/ MempoolDone \/ MempoolTimeout

Next ==
  \/ NodeNext \/ Mine \/ (\E t \in Unmined : Broadcast(t))
  \/ WalletNext
  \/ Connect \/ Lose \/ Timeout

Spec == Init /\ [][Next]_vars

\* The node answers, the wallet's threads run, the timers go off, and a lost connection is made
\* again (_peerDisconnected and the application call LWPeerManagerConnect).
Runs == relayed # None \/ fromNode # <<>> \/ (Quiet /\ ctx.mempoolCallback)   \* WalletNext is enabled
Fairness ==
  /\ []<>~Runs \/ []<><<WalletNext>>_vars                \* WF_vars(WalletNext)
  /\ WF_vars(NodeNext) /\ WF_vars(Timeout) /\ WF_vars(Connect)
SpecLive == Spec /\ Fairness

-----------------------------------------------------------------------------
(* Properties. *)

\* Between messages the filter in use has the addresses of the gap (PM:983), there is a completion for
\* each ping on its way, and a block that waits for transactions gets one of them next: an honest node
\* is never disconnected for an incomplete block (P:795).
FilterInv ==
  /\ lastBlock \in 0..mined /\ estimatedHeight \in 0..mined
  /\ bloomFilter \in Nat \union {None} /\ addrs \in Nat
  /\ ctx.current = None <=> ctx.left = {}
  /\ ctx.current # None => /\ ctx.left \subseteq ctx.current.txs
                           /\ fromNode # <<>> /\ Head(fromNode).type = "tx"
  /\ Len(pongs) = Cardinality({i \in DOMAIN toNode : toNode[i].type = "ping"})
                  + Cardinality({i \in DOMAIN fromNode : fromNode[i].type = "pong"})
  /\ connected /\ bloomFilter # None => FirstUnused(height, addrs) + Gap <= bloomFilter
  /\ connected \/ (toNode = <<>> /\ fromNode = <<>>)

\* Every payment to the wallet in a block up to lastBlock is in the wallet with the height of that
\* block, at any time: its address was in the filter its block was matched with, or the block was
\* not taken (PM:1215), or taken back as an orphan (PM:264); and it came before its block.
PaymentsKept ==
  \A h \in 1..lastBlock : \A t \in ToSet(Chain[h]) : Pays[t] # {} => height[t] = h

\* What the theorem on PaymentsKept takes of the chain, the node and the end of a download.

Payments == {t \in Tx : Pays[t] # {}}

\* An address is paid when it is one of the first, or within the gap after one that was paid before.
GapKept ==
  \A h \in 1..Len(Chain) : \A k \in 1..Len(Chain[h]) : \A i \in Pays[Chain[h][k]] :
    \/ i < Gap
    \/ \E g \in 1..h : \E l \in 1..Len(Chain[g]) :
         (g < h \/ l < k) /\ \E u \in Pays[Chain[g][l]] : i <= u + Gap

\* Payments come from others, and each is in one block.
Ordinary ==
  /\ \A t \in Payments : Spends[t] \intersect Payments = {}
  /\ \A g, h \in 1..Len(Chain) : \A t \in Payments : t \in ToSet(Chain[g]) /\ t \in ToSet(Chain[h]) => g = h

\* The node serves what it announced, and no filter is loaded without a pause (PM:615).
Premises == GapKept /\ Ordinary /\ KeepsAnnounced /\ DegradedAtEnd \subseteq {FALSE}

\* So is a transaction that only spends what the wallet has, once the sync is over and nothing is on its way.
SpendsKept ==
  connected /\ ~syncing /\ Quiet =>
    \A h \in 1..lastBlock : \A t \in ToSet(Chain[h]) : Spends[t] # {} => height[t] = h

\* Once the connection is no longer lost, the sync that was begun ends with the chain that the node had
\* when the connection was made.
SyncCompletes == <>[](connected /\ lastBlock >= ctx.lastblock /\ ~syncing)
=============================================================================
