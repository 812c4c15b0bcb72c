----------------------------- MODULE LWPublish -----------------------------
(***************************************************************************)
(* Publishing transactions, and following which peers have them            *)
(* (LWPeerManager.c).                                                      *)
(*                                                                         *)
(* A transaction is a pointer: the wallet, the list of published ones and  *)
(* a call that goes on may each hold an object of their own, or the same.  *)
(* Each handler holds the manager's lock; LWPeerManagerPublishTx lets go   *)
(* of it when there is no download peer.  Which peer is the download peer, *)
(* whether its chain is ahead, and when the manager gives up, is decided   *)
(* by heights and counts that LWSync has: here it happens in any way.      *)
(* Every transaction is the wallet's own and spends from it.               *)
(***************************************************************************)
EXTENDS Naturals, FiniteSets

CONSTANTS
  Tx, Peer, Call, None,
  Parents,             \* Parents[t]: the transactions whose outputs t spends
  MaxConnectCount,     \* PEER_MAX_CONNECTIONS (3)
  Subject,             \* Subject[c]: the transaction that call c publishes
  Copies, Minable      \* bounds: the objects there are of a transaction, those a block may hold

\* the objects of a transaction
Objects(t) == {t} \X (1..Copies[t])
Obj == UNION {Objects(t) : t \in Tx}

ASSUME PublishAssumption ==
  /\ IsFiniteSet(Tx) /\ IsFiniteSet(Peer) /\ None \notin Tx \cup Peer \cup Call \cup Obj
  /\ None \notin [tx : Obj, call : Call \cup {None}]
  /\ Parents \in [Tx -> SUBSET Tx]
  /\ Subject \in [Call -> Tx] /\ MaxConnectCount \in Nat /\ Copies \in [Tx -> Nat] /\ Minable \subseteq Tx

VARIABLES
  wallet,              \* wallet->allTx: the object of each transaction, or None
  confirmed,           \* the transactions of the wallet with a height
  publishedTx,         \* per transaction, its object and the callback to be called, or None
  txRelays, txRequests,
  peer, downloadPeer, syncing,
  publishing,          \* the call that let go of the lock, or None
  answers,             \* of each call: "none" made, "waiting", "called", "discarded"
  freed                \* the objects that are freed and still pointed to

lists == <<txRelays, txRequests>>
peers == <<peer, downloadPeer, syncing>>
vars == <<wallet, confirmed, publishedTx, lists, peers, publishing, answers, freed>>

\* conn: "free", "connecting", "greeting" (connected, the manager was not told), "connected", "ending".
\* timer: a disconnect is scheduled.  synced: PEER_FLAG_SYNCED.  asked: the completions to be called.
\* told: the pending transactions that PublishPendingTx sent to it.  late: it ends with ETIMEDOUT.
Fresh(conn) == [conn |-> conn, timer |-> FALSE, synced |-> FALSE, asked |-> {}, told |-> {}, late |-> FALSE]

connectedPeers == {p \in Peer : peer[p].conn # "free"}
IsConnected(p) == peer[p].conn \in {"greeting", "connected"}

\* the transactions with a callback to be called
Pending(list) == {t \in Tx : list[t] # None /\ list[t].call # None}

Init ==
  /\ wallet = [t \in Tx |-> None] /\ confirmed = {} /\ publishedTx = [t \in Tx |-> None]
  /\ txRelays = [t \in Tx |-> {}] /\ txRequests = [t \in Tx |-> {}]
  /\ peer = [p \in Peer |-> Fresh("free")] /\ downloadPeer = None /\ syncing = FALSE
  /\ publishing = None /\ answers = [c \in Call |-> "none"] /\ freed = {}

-----------------------------------------------------------------------------
(* Objects.                                                                  *)

Held(w, list, call) ==
  {w[t] : t \in {u \in Tx : w[u] # None}} \cup {list[t].tx : t \in {u \in Tx : list[u] # None}}
    \cup (IF call = None THEN {} ELSE {call.tx})
\* what nobody points to can be had again; leaked or not
New(t) == CHOOSE o \in Objects(t) : o \notin Held(wallet, publishedTx, publishing)
CanNew(t) == \E o \in Objects(t) : o \notin Held(wallet, publishedTx, publishing)
Frees(S) == freed' = (freed \cup S) \cap Held(wallet', publishedTx', publishing')

\* callbacks called after the unlock, and those nobody will call
Answer(called, discarded) ==
  answers' = [c \in Call |-> CASE c \in called -> IF answers[c] = "waiting" THEN "called" ELSE "again"
                               [] c \in discarded -> "discarded"
                               [] OTHER -> answers[c]]

\* what is read of a freed object is not followed; PublishedLive has the states in which it would be
Readable(S) == \A t \in S : publishedTx[t] # None => publishedTx[t].tx \notin freed

Callback(t) == IF publishedTx[t] = None THEN {} ELSE {publishedTx[t].call} \ {None}

-----------------------------------------------------------------------------
(* _LWPeerManagerAddTxToPublishList.                                         *)

\* the unconfirmed inputs that are added with t
Inputs(t, w, list) ==
  LET missing == {q \in Tx : w[q] # None /\ q \notin confirmed /\ list[q] = None}
      added[u \in Tx] == (Parents[u] \cap missing) \cup UNION {added[q] : q \in Parents[u] \cap missing}
  IN  missing \cap added[t]

\* MUTANT: one that is there already is not looked for
AddTxAgain(o, call, w, list) ==
  [u \in Tx |-> IF u = o[1] THEN [tx |-> o, call |-> call] ELSE list[u]]

AddTxToPublishList(o, call, w, list) ==
  LET t == o[1] IN
  IF list[t] # None THEN list
  ELSE [u \in Tx |-> CASE u = t -> [tx |-> o, call |-> call]
                       [] u # t /\ u \in Inputs(t, w, list) -> [tx |-> w[u], call |-> None]
                       [] OTHER -> list[u]]

-----------------------------------------------------------------------------
(* What the handlers are made of: operators on the record r of a peer.      *)

\* MUTANT: no publish timeout
PublishPendingUntimed(r, list) == [r EXCEPT !.told = Pending(list)]

\* _LWPeerManagerPublishPendingTx
PublishPendingTx(r, list) ==
  [r EXCEPT !.timer = @ \/ Pending(list) # {}, !.told = Pending(list)]

\* told has no more than what is pending
Told(f) == [p \in Peer |-> [f[p] EXCEPT !.told = @ \cap Pending(publishedTx')]]

\* _LWPeerManagerLoadMempools; reload: too many false positives
LoadMempools(f, list, download, reload) ==
  [q \in Peer |->
     IF ~IsConnected(q) THEN f[q]
     ELSE [(IF q # download \/ reload THEN PublishPendingTx(f[q], list) ELSE f[q])
             EXCEPT !.asked = @ \cup {"mempool"}]]

\* MUTANT: a pending callback is not looked for
StopUnpublished(f, download) ==
  IF download = None THEN f ELSE [f EXCEPT ![download].timer = FALSE]

\* _LWPeerManagerSyncStopped
SyncStopped(f, download) ==
  IF download = None \/ Pending(publishedTx) # {} THEN f ELSE [f EXCEPT ![download].timer = FALSE]

\* "cancel tx publish timeout if no publish callbacks are pending, and syncing is done or this is not
\* downloadPeer", t having been seen
Seen(p, t) ==
  LET cancel == Pending(publishedTx) \subseteq {t} /\ (~syncing \/ p # downloadPeer)
  IN  [peer[p] EXCEPT !.timer = @ /\ ~cancel]

\* _LWPeerManagerRequestUnrelayedTx
Unrelayed(p) ==
  {t \in Tx : wallet[t] # None /\ t \notin confirmed /\ p \notin txRelays[t] \cup txRequests[t]}
Requested(r, p) ==
  [r EXCEPT !.asked = IF Unrelayed(p) # {} /\ ~r.synced THEN @ \cup {"unrelayed"} ELSE @,
            !.synced = @ \/ Unrelayed(p) = {}]
RequestUnrelayedTx(p) ==
  txRequests' = [t \in Tx |-> IF t \in Unrelayed(p) THEN txRequests[t] \cup {p} ELSE txRequests[t]]

-----------------------------------------------------------------------------
(* LWPeerManagerPublishTx.                                                   *)

\* from where the transaction is given its timestamp
Publishes(o, c) ==
  /\ Readable(Tx)
  /\ publishedTx' = AddTxToPublishList(o, c, wallet, publishedTx)
  /\ answers' = [answers EXCEPT ![c] = IF publishedTx[o[1]] # None THEN "discarded" ELSE "waiting"]
  /\ LET open == {p \in Peer : IsConnected(p)}
         to == IF open = {downloadPeer} THEN open ELSE open \ {downloadPeer}
     IN  peer' = [p \in Peer |->
                    IF p \in to THEN [PublishPendingTx(peer[p], publishedTx') EXCEPT !.asked = @ \cup {"inv"}]
                                ELSE peer[p]]
  /\ publishing' = None
  /\ UNCHANGED <<wallet, confirmed, lists, downloadPeer, syncing>>
  /\ Frees({})

PublishTx(c) ==
  /\ publishing = None /\ answers[c] = "none" /\ CanNew(Subject[c])
  /\ downloadPeer # None
  /\ Publishes(New(Subject[c]), c)

\* Without a download peer the lock is released, and it goes on with it again,
PublishBegins(c) ==
  /\ publishing = None /\ answers[c] = "none" /\ CanNew(Subject[c])
  /\ downloadPeer = None
  /\ publishing' = [tx |-> New(Subject[c]), call |-> c] /\ answers' = [answers EXCEPT ![c] = "waiting"]
  /\ UNCHANGED <<wallet, confirmed, publishedTx, lists, peers, freed>>
PublishGoesOn == publishing # None /\ Publishes(publishing.tx, publishing.call)

\* or there were too many failures, or there is no network.
PublishRefused ==
  /\ publishing # None /\ publishing' = None
  /\ UNCHANGED <<wallet, confirmed, publishedTx, lists, peers>>
  /\ Answer({publishing.call}, {}) /\ Frees({publishing.tx})

-----------------------------------------------------------------------------
(* What a peer relays, has, wants, does not have, or rejects.                *)

\* the entry of t in the list gives up its callback
Called(t) == IF publishedTx[t] = None THEN publishedTx ELSE [publishedTx EXCEPT ![t].call = None]

\* a transaction of the list that the wallet does not have is freed with its entry
Unowned(t) == publishedTx[t] # None /\ wallet[t] = None

\* valid: no other transaction of the wallet spends the same output
RelayedTx(p, t, valid) ==
  /\ peer[p].conn = "connected" /\ CanNew(t)
  /\ valid /\ t \notin confirmed => Readable(Tx)
  /\ wallet' = IF wallet[t] = None THEN [wallet EXCEPT ![t] = New(t)] ELSE wallet
  /\ publishedTx' = IF valid /\ t \notin confirmed
                      THEN AddTxToPublishList(wallet'[t], None, wallet', Called(t)) ELSE Called(t)
  /\ peer' = Told([peer EXCEPT ![p] = [Seen(p, t) EXCEPT !.timer = @ \/ (syncing /\ p = downloadPeer)]])
  /\ txRelays' = [txRelays EXCEPT ![t] = IF publishedTx[t] # None \/ ~syncing THEN @ \cup {p} ELSE @]
  /\ txRequests' = [txRequests EXCEPT ![t] = @ \ {p}]
  /\ Answer(Callback(t), {})
  /\ UNCHANGED <<confirmed, downloadPeer, syncing, publishing>> /\ Frees({})

HasTx(p, t) ==
  /\ peer[p].conn = "connected"
  /\ wallet[t] = None => Readable({t})
  /\ publishedTx' = Called(t)
  /\ LET known == wallet[t] # None \/ publishedTx[t] # None
         sync == known /\ syncing /\ p = downloadPeer
         relayed == publishedTx[t] # None \/ (known /\ ~syncing)
     IN  /\ wallet' = IF known /\ wallet[t] = None THEN [wallet EXCEPT ![t] = publishedTx[t].tx] ELSE wallet
         /\ peer' = Told([peer EXCEPT ![p] = [Seen(p, t) EXCEPT !.timer = @ \/ sync]])
         /\ txRelays' = [txRelays EXCEPT ![t] = IF relayed THEN @ \cup {p} ELSE @]
         /\ txRequests' = [txRequests EXCEPT ![t] = IF known THEN @ \ {p} ELSE @]
  /\ Answer(Callback(t), {})
  /\ UNCHANGED <<confirmed, downloadPeer, syncing, publishing>> /\ Frees({})

\* _peerRequestedTx; one that has become invalid is given up
RequestedTx(p, t, valid) ==
  /\ peer[p].conn = "connected" /\ Readable({t})
  /\ LET found == publishedTx[t] # None
         listed == found /\ valid
     IN  /\ publishedTx' = IF found /\ ~valid THEN [publishedTx EXCEPT ![t] = None] ELSE Called(t)
         /\ wallet' = IF listed /\ wallet[t] = None THEN [wallet EXCEPT ![t] = publishedTx[t].tx] ELSE wallet
         /\ peer' = Told([peer EXCEPT ![p] = Seen(p, t)])
         /\ txRelays' = [txRelays EXCEPT ![t] = IF listed THEN @ \cup {p} ELSE @]
         /\ UNCHANGED publishing
         /\ Frees(IF ~valid /\ Unowned(t) THEN {publishedTx[t].tx} ELSE {})
  /\ Answer(Callback(t), {})
  /\ UNCHANGED <<confirmed, txRequests, downloadPeer, syncing>>

\* a peer that misbehaves is disconnected, which may happen at any time
RejectedTx(p, t) ==
  /\ peer[p].conn = "connected"
  /\ txRequests' = [txRequests EXCEPT ![t] = @ \ {p}]
  /\ txRelays' = [txRelays EXCEPT ![t] = IF wallet[t] # None THEN @ \ {p} ELSE @]
  /\ UNCHANGED <<wallet, confirmed, publishedTx, peers, publishing, answers, freed>>

DataNotfound(p, hashes) ==
  /\ peer[p].conn = "connected"
  /\ txRelays' = [t \in Tx |-> IF t \in hashes THEN txRelays[t] \ {p} ELSE txRelays[t]]
  /\ txRequests' = [t \in Tx |-> IF t \in hashes THEN txRequests[t] \ {p} ELSE txRequests[t]]
  /\ UNCHANGED <<wallet, confirmed, publishedTx, peers, publishing, answers, freed>>

-----------------------------------------------------------------------------
(* Completions.  They are called without success when the connection ends.  *)

Answered(p, asked) == asked \in peer[p].asked /\ peer[p].conn \in {"connected", "ending"}
Without(p, asked) == [peer EXCEPT ![p].asked = @ \ {asked}]

\* _mempoolDone
MempoolDone(p) ==
  /\ "mempool" \in peer[p].asked /\ peer[p].conn = "connected"
  /\ LET f == IF syncing THEN SyncStopped(Without(p, "mempool"), downloadPeer) ELSE Without(p, "mempool")
     IN  peer' = [f EXCEPT ![p] = Requested(@, p)]
  /\ syncing' = FALSE /\ RequestUnrelayedTx(p)
  /\ UNCHANGED <<wallet, confirmed, publishedTx, txRelays, downloadPeer, publishing, answers, freed>>

\* without success, or _loadBloomFilterDone, which stops the synchronization of its peer
MempoolFailed(p, stops) ==
  /\ "mempool" \in peer[p].asked /\ peer[p].conn = "ending"
  /\ stops => p = downloadPeer
  /\ peer' = IF stops THEN SyncStopped(Without(p, "mempool"), p) ELSE Without(p, "mempool")
  /\ syncing' = (syncing /\ ~stops)
  /\ UNCHANGED <<wallet, confirmed, publishedTx, lists, downloadPeer, publishing, answers, freed>>

\* _publishTxInvDone, with success or not
PublishTxInvDone(p) ==
  /\ Answered(p, "inv")
  /\ peer' = [Without(p, "inv") EXCEPT ![p] = Requested(@, p)] /\ RequestUnrelayedTx(p)
  /\ UNCHANGED <<wallet, confirmed, publishedTx, txRelays, downloadPeer, syncing, publishing, answers, freed>>

\* what LWWalletRemoveTransaction is called for
Dropped ==
  {t \in Tx : /\ wallet[t] # None /\ t \notin confirmed
              /\ t \notin Pending(publishedTx) /\ txRelays[t] \cup txRequests[t] = {}}

\* and those that depend on them
WithDependents(S) ==
  LET above[t \in Tx] == t \in S \/ \E q \in Parents[t] : wallet[q] # None /\ above[q]
  IN  {t \in Tx : wallet[t] # None /\ t \notin confirmed /\ above[t]}

UnrelayedDone(p) ==
  /\ Answered(p, "unrelayed")
  /\ peer' = [Without(p, "unrelayed") EXCEPT ![p].synced = @ \/ peer[p].conn = "connected"]
  /\ LET all == \A q \in connectedPeers : peer'[q].synced
         removed == IF all /\ Cardinality({q \in Peer : IsConnected(q)}) >= MaxConnectCount
                      THEN WithDependents(Dropped) ELSE {}
     IN  /\ wallet' = [t \in Tx |-> IF t \in removed THEN None ELSE wallet[t]]
         /\ UNCHANGED <<publishedTx, publishing>>
         /\ Frees({wallet[t] : t \in removed})
  /\ UNCHANGED <<confirmed, lists, downloadPeer, syncing, answers>>

-----------------------------------------------------------------------------
(* The chain.                                                                *)

\* _LWPeerManagerUpdateTx, of the transactions of a block
Confirmed(S) ==
  /\ S # {} => Readable(Tx)
  /\ publishedTx' = [t \in Tx |-> IF t \in S THEN None ELSE publishedTx[t]]
  /\ confirmed' = confirmed \cup {t \in S : wallet[t] # None}
  /\ txRelays' = [t \in Tx |-> IF t \in S THEN {} ELSE txRelays[t]]
  /\ Answer({}, UNION {Callback(t) : t \in S})
  /\ UNCHANGED <<wallet, publishing>>
  /\ Frees({publishedTx[t].tx : t \in {u \in S : Unowned(u)}})

\* a block that extends the chain, behind the download peer's, at its end, or after it
RelayedBlock(p, S, at, reload) ==
  /\ peer[p].conn = "connected" /\ Confirmed(S)
  /\ LET told == Told(peer)
     IN  peer' = CASE at = "behind" /\ p = downloadPeer -> [told EXCEPT ![p].timer = TRUE]
                   [] at = "end" -> LoadMempools(told, publishedTx', downloadPeer, reload)
                   [] OTHER -> told
  /\ UNCHANGED <<txRequests, downloadPeer, syncing>>

\* LWWalletSetTxUnconfirmedAfter
Reorganized(S) ==
  /\ S \subseteq confirmed /\ S # {} /\ confirmed' = confirmed \ S
  /\ UNCHANGED <<wallet, publishedTx, lists, peers, publishing, answers, freed>>

-----------------------------------------------------------------------------
(* Connections.                                                              *)

Goes(p, r) ==
  /\ peer' = [peer EXCEPT ![p] = r]
  /\ UNCHANGED <<wallet, confirmed, publishedTx, lists, downloadPeer, syncing, publishing, answers, freed>>
Connect(p) == peer[p].conn = "free" /\ Goes(p, Fresh("connecting"))
HandshakeCompleted(p) ==
  peer[p].conn = "connecting" /\ Goes(p, [peer[p] EXCEPT !.conn = "greeting"])

\* LWPeerManagerConnect
SyncStarts ==
  /\ ~syncing /\ syncing' = TRUE
  /\ UNCHANGED <<wallet, confirmed, publishedTx, lists, peer, downloadPeer, publishing, answers, freed>>

\* _peerConnected: refused, or behind with another download peer; else the filter is loaded
PeerGreeted(p, load) ==
  /\ peer[p].conn = "greeting"
  /\ load => downloadPeer # None
  /\ LET r == [peer[p] EXCEPT !.conn = "connected"]
     IN  Goes(p, IF load THEN [PublishPendingTx(r, publishedTx) EXCEPT !.asked = @ \cup {"mempool"}] ELSE r)

PeerSelected(p, q, behind, reload) ==
  /\ peer[p].conn = "greeting" /\ IsConnected(q) /\ downloadPeer' = q
  /\ LET f == [peer EXCEPT ![p].conn = "connected"]
         g == [f EXCEPT ![q] = PublishPendingTx(@, publishedTx)]
     IN  peer' = IF behind THEN [g EXCEPT ![q].timer = TRUE] ELSE LoadMempools(g, publishedTx, q, reload)
  /\ UNCHANGED <<wallet, confirmed, publishedTx, lists, syncing, publishing, answers, freed>>

Lost(p, late) ==
  /\ peer[p].conn \in {"connecting", "connected"}
  /\ late => peer[p].timer \/ peer[p].conn = "connecting"
  /\ Goes(p, [peer[p] EXCEPT !.conn = "ending", !.timer = FALSE, !.told = {}, !.late = late])

RelaysWithout(p, t) == txRelays[t] \ {p}

\* MUTANT: the entries are kept
CancelledAndKept(S) == publishedTx

Cancelled(S) == [t \in Tx |-> IF t \in S THEN None ELSE publishedTx[t]]

\* _peerDisconnected; failed: the count of failures is at its limit
PeerDisconnected(p, failed) ==
  /\ peer[p].conn = "ending" /\ peer[p].asked = {}
  /\ downloadPeer' = IF p = downloadPeer THEN None ELSE downloadPeer
  /\ failed => downloadPeer' = None
  /\ LET timeout == peer[p].late /\ (p # downloadPeer \/ ~syncing \/ connectedPeers = {p})
         S == IF timeout \/ failed THEN Pending(publishedTx) ELSE {}
     IN  /\ publishedTx' = Cancelled(S)
         /\ Answer(UNION {Callback(t) : t \in S}, {})
         /\ UNCHANGED <<wallet, publishing>>
         /\ Frees({publishedTx[t].tx : t \in S})
  /\ syncing' = (syncing /\ ~failed)
  /\ txRelays' = [t \in Tx |-> RelaysWithout(p, t)]
  /\ peer' = Told([peer EXCEPT ![p] = Fresh("free")])
  /\ UNCHANGED <<confirmed, txRequests>>

-----------------------------------------------------------------------------
PeerStep(p) ==
  \/ \E load \in BOOLEAN : PeerGreeted(p, load)
  \/ \E q \in Peer, behind, reload \in BOOLEAN : PeerSelected(p, q, behind, reload)
  \/ MempoolDone(p) \/ (\E stops \in BOOLEAN : MempoolFailed(p, stops)) \/ PublishTxInvDone(p) \/ UnrelayedDone(p)
  \/ \E failed \in BOOLEAN : PeerDisconnected(p, failed)
RemoteStep(p) ==
  \/ Connect(p) \/ HandshakeCompleted(p) \/ \E late \in BOOLEAN : Lost(p, late)
  \/ \E t \in Tx : \/ HasTx(p, t) \/ RejectedTx(p, t)
                   \/ \E valid \in BOOLEAN : RelayedTx(p, t, valid) \/ RequestedTx(p, t, valid)
  \/ \E hashes \in (SUBSET Tx) \ {{}} : DataNotfound(p, hashes)
  \/ \E S \in SUBSET Minable, at \in {"behind", "end", "after"}, reload \in BOOLEAN : RelayedBlock(p, S, at, reload)

Next ==
  \/ \E c \in Call : PublishTx(c) \/ PublishBegins(c)
  \/ PublishGoesOn \/ PublishRefused \/ SyncStarts
  \/ \E S \in SUBSET Tx : Reorganized(S)
  \/ \E p \in Peer : PeerStep(p) \/ RemoteStep(p)

Spec == Init /\ [][Next]_vars

-----------------------------------------------------------------------------
(* What must hold.                                                           *)

TypeOK ==
  /\ wallet \in [Tx -> Obj \cup {None}] /\ confirmed \in SUBSET Tx
  /\ publishedTx \in [Tx -> [tx : Obj, call : Call \cup {None}] \cup {None}]
  /\ {txRelays, txRequests} \subseteq [Tx -> SUBSET Peer]
  /\ peer \in [Peer -> [conn : {"free", "connecting", "greeting", "connected", "ending"},
                        timer : BOOLEAN, synced : BOOLEAN, asked : SUBSET {"mempool", "inv", "unrelayed"},
                        told : SUBSET Tx, late : BOOLEAN]]
  /\ downloadPeer \in Peer \cup {None} /\ syncing \in BOOLEAN
  /\ publishing \in [tx : Obj, call : Call] \cup {None}
  /\ answers \in [Call -> {"none", "waiting", "called", "discarded"}] /\ freed \subseteq Obj

\* A callback waits to be called in exactly one place until it is called, or given up because the
\* transaction is published already or was found in a block; it is called once.
CalledOnce ==
  \A c \in Call : answers[c] = "waiting" <=>
    \/ publishing # None /\ publishing.call = c
    \/ \E t \in Pending(publishedTx) : publishedTx[t].call = c

\* The wallet has no transaction that was freed when its publication was cancelled or refused.
WalletLive == \A t \in Tx : wallet[t] \notin freed

\* No transaction is freed by the wallet while its callback is to be called.
PendingLive == \A t \in Pending(publishedTx) : publishedTx[t].tx \notin freed

\* What the count of relays is said to be: of the peers that are connected.
RelaysConnected == \A t \in Tx : \A p \in txRelays[t] : peer[p].conn \in {"connected", "ending"}

\* A peer that was sent a transaction whose callback waits is disconnected in time, whatever else it
\* relays or requests, and whatever synchronization is stopped meanwhile.
PendingWatched == \A p \in Peer : IsConnected(p) /\ peer[p].told # {} => peer[p].timer

\* The two together: a callback keeps its transaction as long as the handlers need it, through
\* timeouts, refusals, blocks and removals of what it depends on.
PointersLive == WalletLive /\ PendingLive

\* Relays, publications and callbacks are accounted for by every handler.
PublishInv == TypeOK /\ RelaysConnected /\ CalledOnce

\* What LWPeerManager.h says: a published transaction is the manager's to free.
PublishedLive == \A t \in Tx : publishedTx[t] # None => publishedTx[t].tx \notin freed

\* Every thread goes on, and a timer that is set runs out.
Fairness ==
  /\ WF_vars(PublishGoesOn \/ PublishRefused)
  /\ \A p \in Peer : WF_vars(PeerStep(p)) /\ WF_vars(Lost(p, TRUE))
SpecLive == Spec /\ Fairness

\* A callback is called in the end, unless no connected peer was sent the transaction.
Waits(c) == \E t \in Pending(publishedTx) : publishedTx[t].call = c
Unsent(c) == \A t \in Pending(publishedTx), p \in Peer :
               publishedTx[t].call = c => ~(IsConnected(p) /\ t \in peer[p].told)
Answers == \A c \in Call : Waits(c) ~> (~Waits(c) \/ Unsent(c))
=============================================================================
