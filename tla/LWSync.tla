------------------------------- MODULE LWSync -------------------------------
(***************************************************************************)
(* Connecting, choosing the download peer, and starting and stopping the   *)
(* synchronization (LWPeerManager.c).                                      *)
(*                                                                         *)
(* Each handler takes the manager's lock.  LWPeerManagerConnect lets go of *)
(* it to call syncStarted and to look for peers, and runs on the           *)
(* application's thread or on that of a peer that was freed.  What happens *)
(* on a connection is LWPeer's: here it is established, answers, is lost   *)
(* or times out, and calls the completions it was given as LWCallbacks     *)
(* says.  Any address may be found at any time, so that the list of those  *)
(* that are known is left out.  The chain is a height, and every block     *)
(* relayed extends it (LWBlockChain has the other ones).                   *)
(***************************************************************************)
EXTENDS Naturals, FiniteSets

CONSTANTS
  Peer, None,
  MaxConnectCount,              \* PEER_MAX_CONNECTIONS (3)
  MaxConnectFailures,           \* MAX_CONNECT_FAILURES (20)
  Slack,                        \* how far behind a peer may be (10)
  Reported,                     \* Reported[p]: what peer p may say its last block is
  MaxHeight, MaxCalls           \* bounds: the height, the concurrent calls of Connect

ASSUME SyncAssumption ==
  /\ IsFiniteSet(Peer) /\ None \notin Peer
  /\ {MaxConnectCount, MaxConnectFailures, MaxCalls} \subseteq Nat \ {0}
  /\ {Slack, MaxHeight} \subseteq Nat
  /\ Reported \in [Peer -> SUBSET (0..MaxHeight)]

VARIABLES
  peer,                         \* the LWPeer of each address, see Fresh
  downloadPeer, connectFailureCount,
  height, estimatedHeight,      \* of lastBlock; the highest a download peer reported
  syncing,                      \* syncStartHeight > 0
  calls,                        \* threads within LWPeerManagerConnect: about to "begin", or "unlocked"
  disconnect                    \* LWPeerManagerDisconnect: "waits", "returned", or "none" since

chain == <<height, estimatedHeight>>
vars == <<peer, downloadPeer, connectFailureCount, chain, syncing, calls, disconnect>>

\* LWPeerNew.  conn is "free" before and after; "waiting" for the network; "opening" without a socket
\* yet; "connecting"; "greeting" when the handshake is complete but the manager was not told;
\* "connected"; "ending" when the thread calls the last completions.  filter: none is loaded, it is,
\* or the mempool was requested since.  done: the completions to be called.  counted: the error with
\* which it ends counts as a failure.
\* MUTANT: the time for a connection to be made is not set.
FreshUntimed(conn) ==
  [conn |-> conn, closed |-> FALSE, timer |-> FALSE, lastblock |-> 0, filter |-> "none", done |-> {}, counted |-> FALSE]

Fresh(conn) == [conn |-> conn, closed |-> FALSE, timer |-> conn = "opening", lastblock |-> 0,
                filter |-> "none", done |-> {}, counted |-> FALSE]

connectedPeers == {p \in Peer : peer[p].conn # "free"}
\* LWPeerConnectStatus is LWPeerStatusConnected
IsConnected(p) == peer[p].conn \in {"greeting", "connected"}

Init ==
  /\ peer = [p \in Peer |-> Fresh("free")] /\ downloadPeer = None /\ connectFailureCount = 0
  /\ height = 0 /\ estimatedHeight = 0 /\ syncing = FALSE
  /\ calls = [begin |-> 0, unlocked |-> 0] /\ disconnect = "none"

-----------------------------------------------------------------------------
(* What the handlers are made of: operators on the record r of a peer. *)

\* LWPeerDisconnect; the thread finds out later.
Closing(r) == [r EXCEPT !.closed = @ \/ r.conn \in {"connecting", "greeting", "connected"}]
\* _LWPeerManagerLoadBloomFilter, and the ping with _loadBloomFilterDone.
LoadFilter(r) == [r EXCEPT !.filter = "loaded", !.done = @ \cup {"load"}]
\* What sets the count to zero: a peer that is not ahead, and progress.
FailuresForgotten == 0

\* A second request fails at once, which _mempoolDone ignores.
SendMempool(r) ==
  [r EXCEPT !.filter = "mempool", !.done = IF r.filter = "mempool" THEN @ ELSE @ \cup {"mempool"}]

\* _LWPeerManagerLoadMempools, of the peers f; reload: too many false positives.
LoadMempools(f, download, reload) ==
  [q \in Peer |-> CASE ~IsConnected(q) -> f[q]
                    [] IsConnected(q) /\ (q # download \/ reload) -> LoadFilter(f[q])
                    [] OTHER -> SendMempool(f[q])]

\* _LWPeerManagerSyncStopped, of the peers f; the callback follows when the lock is released.
Unwatched(f, download) == IF download = None THEN f ELSE [f EXCEPT ![download].timer = FALSE]
SyncStopped(f) == syncing' = FALSE /\ peer' = Unwatched(f, downloadPeer')

Room == calls.begin + calls.unlocked < MaxCalls
NoCalls == calls.begin + calls.unlocked = 0
Calls == Room /\ calls' = [calls EXCEPT !.begin = @ + 1]

-----------------------------------------------------------------------------
(* LWPeerManagerConnect. *)

AppConnect ==
  /\ disconnect # "waits" /\ disconnect' = "none" /\ Calls
  /\ UNCHANGED <<peer, downloadPeer, connectFailureCount, chain, syncing>>

\* The lock is released to call syncStarted.
ConnectBegins ==
  /\ calls.begin > 0 /\ calls' = [begin |-> calls.begin - 1, unlocked |-> calls.unlocked + 1]
  /\ connectFailureCount' = IF connectFailureCount >= MaxConnectFailures THEN 0 ELSE connectFailureCount
  /\ syncing' = (syncing \/ downloadPeer = None \/ height < estimatedHeight)
  /\ UNCHANGED <<peer, downloadPeer, chain, disconnect>>

\* LWPeerConnect, of a new peer or again: it does something only for one that waits for the network.
Starts == {Fresh("waiting"), Fresh("opening")}
Retried == {f \in [Peer -> {peer[p] : p \in Peer} \cup Starts] :
              \A p \in Peer : IF peer[p].conn = "waiting" THEN f[p] \in Starts ELSE f[p] = peer[p]}

\* With the lock again, and with what _LWPeerManagerFindPeers found, which releases it too.
ConnectGoesOn ==
  /\ calls.unlocked > 0 /\ calls' = [calls EXCEPT !.unlocked = @ - 1]
  /\ UNCHANGED <<downloadPeer, connectFailureCount, chain, disconnect>>
  /\ \E f \in Retried, new \in SUBSET (Peer \ connectedPeers) : \E start \in [new -> Starts] :
       /\ Cardinality(connectedPeers \cup new) <= MaxConnectCount
       /\ LET all == [p \in Peer |-> IF p \in new THEN start[p] ELSE f[p]]
          IN  IF connectedPeers \cup new = {}
                THEN SyncStopped(all)                                \* syncStopped(ENETUNREACH)
                ELSE peer' = all /\ UNCHANGED syncing

-----------------------------------------------------------------------------
(* The connections. *)

Step(p, r) ==
  /\ peer' = [peer EXCEPT ![p] = r]
  /\ UNCHANGED <<downloadPeer, connectFailureCount, chain, syncing, calls, disconnect>>

SocketOpened(p) == peer[p].conn = "opening" /\ Step(p, [peer[p] EXCEPT !.conn = "connecting"])

\* _LWPeerDidConnect: the status changes before the manager is told.
HandshakeCompleted(p, lastblock) ==
  /\ peer[p].conn = "connecting"
  /\ Step(p, [peer[p] EXCEPT !.conn = "greeting", !.timer = FALSE, !.lastblock = lastblock])

\* The thread leaves its loop.  EPROTO, and no error after LWPeerDisconnect, are not counted.
Lost(p, counted) ==
  /\ peer[p].conn \in {"opening", "connecting", "connected"}
  /\ peer[p].conn = "opening" => counted
  /\ Step(p, [Fresh("ending") EXCEPT !.lastblock = peer[p].lastblock, !.done = peer[p].done,
                                     !.counted = counted])

\* _peerConnected: the peer is behind, or does not have the services needed.
Refused(p) == peer[p].lastblock + Slack < height
PeerRefused(p) == peer[p].conn = "greeting" /\ Step(p, Closing([peer[p] EXCEPT !.conn = "connected"]))

\* "stick with the existing download peer"
Sticks(p) ==
  /\ downloadPeer # None
  /\ peer[downloadPeer].lastblock >= peer[p].lastblock \/ height >= peer[p].lastblock

PeerSticks(p) ==
  /\ peer[p].conn = "greeting" /\ ~Refused(p) /\ Sticks(p)
  /\ LET r == [peer[p] EXCEPT !.conn = "connected"]
         synced == height >= r.lastblock
     IN  /\ connectFailureCount' = IF synced THEN FailuresForgotten ELSE connectFailureCount
         /\ peer' = [peer EXCEPT ![p] = IF synced THEN LoadFilter(r) ELSE r]
  /\ UNCHANGED <<downloadPeer, chain, syncing, calls, disconnect>>

\* The highest reported block, and the lowest ping time.
Candidates ==
  {q \in Peer : IsConnected(q) /\ \A o \in Peer : IsConnected(o) => peer[o].lastblock <= peer[q].lastblock}

PeerSelected(p, reload) ==
  /\ peer[p].conn = "greeting" /\ ~Refused(p) /\ ~Sticks(p)
  /\ \E q \in Candidates :
       LET told == [peer EXCEPT ![p].conn = "connected"]
           left == IF downloadPeer = None THEN told ELSE [told EXCEPT ![downloadPeer] = Closing(@)]
           loaded == [left EXCEPT ![q].filter = "loaded"]
           behind == height < peer[q].lastblock
       IN  /\ downloadPeer' = q /\ estimatedHeight' = peer[q].lastblock
           /\ connectFailureCount' = IF behind THEN connectFailureCount ELSE FailuresForgotten
           /\ peer' = IF behind THEN [loaded EXCEPT ![q].timer = TRUE] ELSE LoadMempools(loaded, q, reload)
  /\ UNCHANGED <<height, syncing, calls, disconnect>>

\* _peerRelayedBlock, of a block that extends the chain.
RelayedBlock(p, reload) ==
  /\ peer[p].conn = "connected" /\ peer[p].filter # "none" /\ height < MaxHeight
  /\ height' = height + 1
  /\ estimatedHeight' = IF height' > estimatedHeight THEN height' ELSE estimatedHeight
  /\ LET progress == height' < estimatedHeight /\ p = downloadPeer
     IN  /\ connectFailureCount' = IF progress THEN FailuresForgotten ELSE connectFailureCount
         /\ peer' = CASE progress -> [peer EXCEPT ![p].timer = TRUE]
                      [] height' = estimatedHeight -> LoadMempools(peer, downloadPeer, reload)
                      [] OTHER -> peer
  /\ UNCHANGED <<downloadPeer, syncing, calls, disconnect>>

\* _loadBloomFilterDone, with success.
FilterLoaded(p) ==
  /\ peer[p].conn = "connected" /\ "load" \in peer[p].done
  /\ Step(p, SendMempool([peer[p] EXCEPT !.done = @ \ {"load"}]))

\* _mempoolDone, of whichever peer.
MempoolDone(p) ==
  /\ peer[p].conn = "connected" /\ "mempool" \in peer[p].done
  /\ UNCHANGED downloadPeer
  /\ LET called == [peer EXCEPT ![p].done = @ \ {"mempool"}]
     IN  IF syncing THEN SyncStopped(called) ELSE peer' = called /\ UNCHANGED syncing
  /\ UNCHANGED <<connectFailureCount, chain, calls, disconnect>>

\* The completions that are left are called without success.
CallbackFailed(p, done) ==
  /\ peer[p].conn = "ending" /\ done \in peer[p].done
  /\ UNCHANGED downloadPeer
  /\ LET called == [peer EXCEPT ![p].done = @ \ {done}]
     IN  IF done = "load" /\ p = downloadPeer THEN SyncStopped(called)
                                              ELSE peer' = called /\ UNCHANGED syncing
  /\ UNCHANGED <<connectFailureCount, chain, calls, disconnect>>

\* _peerDisconnected, which connects again unless there were too many failures.
\* MUTANT: the count goes past the limit.
FailuresUnbounded(p) == connectFailureCount + (IF peer[p].counted THEN 1 ELSE 0)

Failures(p) ==
  LET count == connectFailureCount + (IF peer[p].counted THEN 1 ELSE 0)
  IN  IF p = downloadPeer /\ count > MaxConnectFailures THEN MaxConnectFailures ELSE count

\* MUTANT: the download peer is kept.
DownloadPeerKept(p) == downloadPeer

DownloadPeerWithout(p) == IF p = downloadPeer THEN None ELSE downloadPeer

PeerDisconnected(p) ==
  /\ peer[p].conn = "ending" /\ peer[p].done = {}
  /\ downloadPeer' = DownloadPeerWithout(p) /\ connectFailureCount' = Failures(p)
  /\ LET freed == [peer EXCEPT ![p] = Fresh("free")]
     IN  IF downloadPeer' = None /\ Failures(p) = MaxConnectFailures
           THEN SyncStopped(freed) ELSE peer' = freed /\ UNCHANGED syncing
  /\ IF Failures(p) < MaxConnectFailures THEN Calls ELSE UNCHANGED calls
  /\ UNCHANGED <<chain, disconnect>>

-----------------------------------------------------------------------------
(* The application. *)

Rescan ==
  /\ downloadPeer # None /\ disconnect # "waits" /\ disconnect' = "none"
  /\ height' = 0 /\ syncing' = FALSE /\ Calls
  /\ peer' = [peer EXCEPT ![downloadPeer] = Closing(@)]
  /\ UNCHANGED <<downloadPeer, connectFailureCount, estimatedHeight>>

Disconnect ==
  /\ disconnect # "waits" /\ disconnect' = "waits"
  /\ connectFailureCount' = IF connectedPeers = {} THEN connectFailureCount ELSE MaxConnectFailures
  /\ peer' = [p \in Peer |-> Closing(peer[p])]
  /\ UNCHANGED <<downloadPeer, chain, syncing, calls>>

DisconnectReturns ==
  /\ disconnect = "waits" /\ connectedPeers = {} /\ disconnect' = "returned"
  /\ UNCHANGED <<peer, downloadPeer, connectFailureCount, chain, syncing, calls>>

-----------------------------------------------------------------------------
AppStep == AppConnect \/ Rescan \/ Disconnect
CallStep == ConnectBegins \/ ConnectGoesOn
PeerStep(p) ==
  \/ SocketOpened(p) \/ PeerRefused(p) \/ PeerSticks(p)
  \/ \E reload \in BOOLEAN : PeerSelected(p, reload)
  \/ \E done \in {"load", "mempool"} : CallbackFailed(p, done)
  \/ PeerDisconnected(p)
\* A timer runs out, or a socket that was closed is read.
PeerEnds(p) ==
  \/ peer[p].timer /\ Lost(p, TRUE)
  \/ peer[p].closed /\ \E counted \in BOOLEAN : Lost(p, counted)
RemoteStep(p) ==
  \/ \E lastblock \in Reported[p] : HandshakeCompleted(p, lastblock)
  \/ \E counted \in BOOLEAN : Lost(p, counted)
  \/ \E reload \in BOOLEAN : RelayedBlock(p, reload)
  \/ FilterLoaded(p) \/ MempoolDone(p)

Next ==
  \/ AppStep \/ CallStep \/ DisconnectReturns
  \/ \E p \in Peer : PeerStep(p) \/ RemoteStep(p)

Spec == Init /\ [][Next]_vars

-----------------------------------------------------------------------------
(* What must hold. *)

TypeOK ==
  /\ peer \in [Peer -> [conn : {"free", "waiting", "opening", "connecting", "greeting", "connected", "ending"},
                        closed : BOOLEAN, timer : BOOLEAN, lastblock : 0..MaxHeight,
                        filter : {"none", "loaded", "mempool"}, done : SUBSET {"load", "mempool"},
                        counted : BOOLEAN]]
  /\ downloadPeer \in Peer \cup {None}
  /\ connectFailureCount \in Nat /\ height \in 0..MaxHeight /\ estimatedHeight \in 0..MaxHeight
  /\ calls \in [begin : 0..MaxCalls, unlocked : 0..MaxCalls]
  /\ syncing \in BOOLEAN /\ disconnect \in {"none", "waits", "returned"}

\* The download peer is one that is held: none that was freed is left there, whichever peer was
\* chosen, refused or lost meanwhile.
DownloadPeerHeld == downloadPeer \in connectedPeers \cup {None}

\* When no peer is left and nobody connects, the synchronization was stopped, unless it was
\* LWPeerManagerDisconnect that ended the connections.
QuietMeansStopped == connectedPeers = {} /\ NoCalls /\ disconnect = "none" => ~syncing

\* Every thread goes on (a peer's last handler is strongly fair only for MaxCalls, which the code does
\* not have), a timer that is set runs out, and a socket that was closed is noticed.  The remote peers
\* do what they want.
Fairness ==
  /\ WF_vars(ConnectBegins) /\ WF_vars(ConnectGoesOn) /\ WF_vars(DisconnectReturns)
  /\ \A p \in Peer : WF_vars(PeerStep(p)) /\ WF_vars(PeerEnds(p)) /\ SF_vars(PeerDisconnected(p))
SpecLive == Spec /\ Fairness

\* A synchronization is stopped, or catches up, or is left to connections that nothing times out, once
\* the application lets it be, and every connection that is lost counts as a failure and is not forgotten:
\* a peer that has less than the download peer, or a late call of Connect, sets the count to zero.
Forgiven == connectFailureCount' < connectFailureCount \/ \E p \in Peer : Lost(p, FALSE)
Idle(p) == peer[p].conn = "connected" /\ ~peer[p].timer /\ ~peer[p].closed
Stalled ==
  /\ NoCalls /\ (connectedPeers = {} => disconnect # "none")
  /\ \A p \in connectedPeers : peer[p].conn = "waiting" \/ Idle(p)
SyncEnds ==
  <>[][~Forgiven /\ ~AppStep]_vars => (syncing ~> (~syncing \/ height >= estimatedHeight \/ Stalled))

\* What LWPeerManager.h says: LWPeerManagerDisconnect disconnects.
DisconnectEnds == disconnect = "waits" ~> disconnect # "waits"

\* "sync succeeded": when a synchronization is reported as stopped without error, the chain is as long
\* as the download peer said.
SuccessMeansSynced ==
  [][\A p \in Peer : (MempoolDone(p) \/ CallbackFailed(p, "load")) /\ syncing /\ ~syncing'
                       => height >= estimatedHeight]_vars
=============================================================================
