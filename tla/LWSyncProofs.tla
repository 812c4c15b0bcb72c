---------------------------- MODULE LWSyncProofs ----------------------------
(***************************************************************************)
(* The download peer is held, and a synchronization that nobody goes on    *)
(* with was stopped, for any number of peers, calls, failures and blocks.  *)
(***************************************************************************)
EXTENDS LWSync, TLAPS

Record ==
  [conn : {"free", "waiting", "opening", "connecting", "greeting", "connected", "ending"},
   closed : BOOLEAN, timer : BOOLEAN, lastblock : 0..MaxHeight,
   filter : {"none", "loaded", "mempool"}, done : SUBSET {"load", "mempool"}, counted : BOOLEAN]

Types ==
  /\ peer \in [Peer -> Record]
  /\ downloadPeer \in Peer \cup {None}
  /\ connectFailureCount \in Nat /\ height \in 0..MaxHeight /\ estimatedHeight \in 0..MaxHeight
  /\ calls \in [begin : Nat, unlocked : Nat] /\ calls.begin + calls.unlocked <= MaxCalls
  /\ syncing \in BOOLEAN /\ disconnect \in {"none", "waits", "returned"}

Held == downloadPeer # None => peer[downloadPeer].conn # "free"

\* With too many failures and no download peer, no synchronization goes on: what would go on with it is a
\* call of Connect that has still to set the count to zero, and LWPeerManagerDisconnect leaves it as it was.
GivenUp ==
  connectFailureCount >= MaxConnectFailures /\ downloadPeer = None /\ disconnect = "none" /\ calls.begin = 0
    => ~syncing

Inv == Types /\ Held /\ GivenUp /\ QuietMeansStopped

-----------------------------------------------------------------------------
(* The records of the peers.                                                 *)

\* A new LWPeer is one of the records.
LEMMA FreshRecord ==
  ASSUME NEW conn \in {"free", "waiting", "opening", "connecting", "greeting", "connected", "ending"}
  PROVE  Fresh(conn) \in Record /\ Fresh(conn).conn = conn
<1>1. 0 \in 0..MaxHeight
  BY SyncAssumption
<1> QED
  BY <1>1 DEF Fresh, Record

\* Closing a connection, loading a filter and asking for the mempool leave the connection as it is.
LEMMA SameConn ==
  ASSUME NEW r \in Record
  PROVE  /\ Closing(r) \in Record /\ Closing(r).conn = r.conn
         /\ LoadFilter(r) \in Record /\ LoadFilter(r).conn = r.conn
         /\ SendMempool(r) \in Record /\ SendMempool(r).conn = r.conn
<1>1. Closing(r) \in Record /\ Closing(r).conn = r.conn
  BY DEF Closing, Record
<1>2. LoadFilter(r) \in Record /\ LoadFilter(r).conn = r.conn
  BY DEF LoadFilter, Record
<1>3. SendMempool(r) \in Record /\ SendMempool(r).conn = r.conn
  BY DEF SendMempool, Record
<1> QED
  BY <1>1, <1>2, <1>3

\* So does a filter noted as loaded, and a timer that is set.
LEMMA SameConnLoaded ==
  ASSUME NEW r, r \in Record
  PROVE  /\ [r EXCEPT !.filter = "loaded"] \in Record /\ [r EXCEPT !.filter = "loaded"].conn = r.conn
         /\ [r EXCEPT !.timer = TRUE] \in Record /\ [r EXCEPT !.timer = TRUE].conn = r.conn
<1>1. [r EXCEPT !.filter = "loaded"] \in Record /\ [r EXCEPT !.filter = "loaded"].conn = r.conn
  BY DEF Record
<1>2. [r EXCEPT !.timer = TRUE] \in Record /\ [r EXCEPT !.timer = TRUE].conn = r.conn
  BY DEF Record
<1> QED
  BY <1>1, <1>2

\* So do the loops that load the mempools of all of them, and the end of a synchronization.
LEMMA SameConns ==
  ASSUME NEW f \in [Peer -> Record], NEW d \in Peer \cup {None}, NEW reload \in BOOLEAN
  PROVE  /\ LoadMempools(f, d, reload) \in [Peer -> Record]
         /\ Unwatched(f, d) \in [Peer -> Record]
         /\ \A q \in Peer : LoadMempools(f, d, reload)[q].conn = f[q].conn /\ Unwatched(f, d)[q].conn = f[q].conn
<1>1. LoadMempools(f, d, reload) \in [Peer -> Record]
  BY SameConn DEF LoadMempools
<1>2. \A q \in Peer : LoadMempools(f, d, reload)[q].conn = f[q].conn
  BY SameConn DEF LoadMempools
<1>3. Unwatched(f, d) \in [Peer -> Record] /\ \A q \in Peer : Unwatched(f, d)[q].conn = f[q].conn
  <2>1. CASE d = None
    BY <2>1 DEF Unwatched
  <2>2. CASE d # None
    <3>1. [f[d] EXCEPT !.timer = FALSE] \in Record /\ [f[d] EXCEPT !.timer = FALSE].conn = f[d].conn
      BY <2>2 DEF Record
    <3>2. Unwatched(f, d) = [f EXCEPT ![d] = [f[d] EXCEPT !.timer = FALSE]]
      BY <2>2 DEF Unwatched
    <3> QED
      BY <2>2, <3>1, <3>2
  <2> QED
    BY <2>1, <2>2
<1> QED
  BY <1>1, <1>2, <1>3

\* A step that frees no peer and turns no synchronization on, and keeps the rest as it is.
LEMMA Harmless ==
  ASSUME Inv, peer' \in [Peer -> Record], \A q \in Peer : peer[q].conn # "free" => peer'[q].conn # "free",
         UNCHANGED <<calls, disconnect>>, downloadPeer' = downloadPeer,
         connectFailureCount' \in {connectFailureCount, 0}, syncing' \in BOOLEAN, syncing' => syncing,
         height' \in 0..MaxHeight, estimatedHeight' \in 0..MaxHeight
  PROVE  Inv'
<1>1. Types'
  BY DEF Inv, Types
<1>2. Held'
  BY DEF Inv, Held, Types
<1>3. GivenUp'
  BY SyncAssumption DEF Inv, GivenUp, Types
<1>4. connectedPeers \subseteq connectedPeers'
  BY DEF connectedPeers
<1>5. QuietMeansStopped'
  BY <1>4 DEF Inv, QuietMeansStopped, NoCalls
<1> QED
  BY <1>1, <1>2, <1>3, <1>5 DEF Inv

\* A step of one peer.
LEMMA OnePeer ==
  ASSUME Inv, NEW p \in Peer, NEW r \in Record, Step(p, r), r.conn # "free"
  PROVE  Inv'
<1>1. peer' \in [Peer -> Record] /\ \A q \in Peer : peer[q].conn # "free" => peer'[q].conn # "free"
  BY DEF Step, Inv, Types
<1> QED
  BY <1>1, Harmless DEF Step, chain, Inv, Types

-----------------------------------------------------------------------------
(* Each step keeps the invariant.                                            *)

\* At first no peer is held and nothing goes on.
LEMMA InvInit == Init => Inv
<1> SUFFICES ASSUME Init PROVE Inv
  OBVIOUS
<1>1. peer \in [Peer -> Record]
  BY FreshRecord DEF Init
<1>2. MaxCalls \in Nat /\ 0 \in 0..MaxHeight
  BY SyncAssumption
<1>3. calls \in [begin : Nat, unlocked : Nat] /\ calls.begin + calls.unlocked <= MaxCalls
  BY <1>2 DEF Init
<1>4. Types
  BY <1>1, <1>2, <1>3 DEF Init, Types
<1> QED
  BY <1>4 DEF Init, Inv, Held, GivenUp, QuietMeansStopped

\* A call of Connect begins.
LEMMA InvCalls ==
  ASSUME Inv, Calls, peer' \in [Peer -> Record], downloadPeer' \in Peer \cup {None}, Held',
         connectFailureCount' \in Nat, height' \in 0..MaxHeight, estimatedHeight' \in 0..MaxHeight,
         syncing' \in BOOLEAN, disconnect' \in {"none", "waits", "returned"}
  PROVE  Inv'
<1>1. /\ calls.begin \in Nat /\ calls.unlocked \in Nat /\ calls.begin + calls.unlocked < MaxCalls
      /\ calls' \in [begin : Nat, unlocked : Nat]
      /\ calls'.begin = calls.begin + 1 /\ calls'.unlocked = calls.unlocked
  BY DEF Inv, Types, Calls, Room
<1>2. MaxCalls \in Nat
  BY SyncAssumption
<1>3. calls'.begin + calls'.unlocked <= MaxCalls /\ calls'.begin # 0 /\ calls'.begin + calls'.unlocked # 0
  BY <1>1, <1>2
<1>4. Types'
  BY <1>1, <1>3 DEF Types
<1> QED
  BY <1>3, <1>4 DEF Inv, GivenUp, QuietMeansStopped, NoCalls

\* The application calls Connect.
LEMMA InvAppConnect == Inv /\ AppConnect => Inv'
<1> SUFFICES ASSUME Inv, AppConnect PROVE Inv'
  OBVIOUS
<1>1. Held'
  BY DEF AppConnect, Inv, Held
<1> QED
  BY <1>1, InvCalls DEF AppConnect, chain, Inv, Types

\* Connect sets the count to zero when it was too high, before a synchronization starts.
LEMMA InvConnectBegins == Inv /\ ConnectBegins => Inv'
<1> SUFFICES ASSUME Inv, ConnectBegins PROVE Inv'
  OBVIOUS
<1>1. /\ calls.begin \in Nat /\ calls.unlocked \in Nat /\ calls.begin > 0 /\ calls.begin + calls.unlocked <= MaxCalls
      /\ calls' = [begin |-> calls.begin - 1, unlocked |-> calls.unlocked + 1]
  BY DEF ConnectBegins, Inv, Types
<1>2. /\ calls' \in [begin : Nat, unlocked : Nat] /\ calls'.begin + calls'.unlocked <= MaxCalls
      /\ calls'.begin + calls'.unlocked # 0
  <2>1. MaxCalls \in Nat
    BY SyncAssumption
  <2> QED
    BY <1>1, <2>1
<1>3. connectFailureCount' \in Nat /\ connectFailureCount' < MaxConnectFailures
  BY SyncAssumption DEF ConnectBegins, Inv, Types
<1>4. Types'
  BY <1>2, <1>3 DEF ConnectBegins, chain, Inv, Types
<1>5. Held'
  BY DEF ConnectBegins, Inv, Held
<1>6. GivenUp'
  BY <1>3, SyncAssumption DEF GivenUp
<1> QED
  BY <1>2, <1>4, <1>5, <1>6 DEF Inv, QuietMeansStopped, NoCalls

\* Connect that goes on and finds nobody stops the synchronization.
LEMMA InvConnectGoesOn == Inv /\ ConnectGoesOn => Inv'
<1> SUFFICES ASSUME Inv, ConnectGoesOn PROVE Inv'
  OBVIOUS
<1>1. /\ calls.begin \in Nat /\ calls.unlocked \in Nat /\ calls.begin + calls.unlocked <= MaxCalls
      /\ calls' \in [begin : Nat, unlocked : Nat] /\ calls'.begin = calls.begin /\ calls'.begin + calls'.unlocked <= MaxCalls
  <2>1. /\ calls.begin \in Nat /\ calls.unlocked \in Nat /\ calls.begin + calls.unlocked <= MaxCalls
        /\ calls.unlocked > 0 /\ MaxCalls \in Nat
    BY SyncAssumption DEF Inv, Types, ConnectGoesOn
  <2>2. calls' \in [begin : Nat, unlocked : Nat] /\ calls'.begin = calls.begin /\ calls'.unlocked = calls.unlocked - 1
    BY <2>1 DEF Inv, Types, ConnectGoesOn
  <2> QED
    BY <2>1, <2>2
<1>0. PICK f \in Retried, new \in SUBSET (Peer \ connectedPeers) : \E start \in [new -> Starts] :
        LET all == [p \in Peer |-> IF p \in new THEN start[p] ELSE f[p]]
        IN  IF connectedPeers \cup new = {} THEN SyncStopped(all) ELSE peer' = all /\ UNCHANGED syncing
  BY DEF ConnectGoesOn
<1>2. PICK start \in [new -> Starts] :
        LET all == [p \in Peer |-> IF p \in new THEN start[p] ELSE f[p]]
        IN  IF connectedPeers \cup new = {} THEN SyncStopped(all) ELSE peer' = all /\ UNCHANGED syncing
  BY <1>0
<1> DEFINE all == [p \in Peer |-> IF p \in new THEN start[p] ELSE f[p]]
<1>3. Starts \subseteq Record /\ \A r \in Starts : r.conn # "free"
  BY FreshRecord DEF Starts
<1>4. /\ f \in [Peer -> Record]
      /\ \A p \in Peer : IF peer[p].conn = "waiting" THEN f[p] \in Starts ELSE f[p] = peer[p]
  <2>1. \A p \in Peer : peer[p] \in Record
    BY DEF Inv, Types
  <2> QED
    BY <1>3, <2>1 DEF Retried
<1>5. all \in [Peer -> Record] /\ \A p \in Peer : peer[p].conn # "free" => all[p].conn # "free"
  BY <1>3, <1>4
<1>6. \A p \in new : all[p].conn # "free"
  BY <1>3
<1> HIDE DEF all
<1>7. /\ UNCHANGED <<downloadPeer, connectFailureCount, height, estimatedHeight, disconnect>>
      /\ IF connectedPeers \cup new = {} THEN SyncStopped(all) ELSE peer' = all /\ syncing' = syncing
  BY <1>2 DEF ConnectGoesOn, chain, all
<1>8. /\ peer' \in [Peer -> Record] /\ \A p \in Peer : peer'[p].conn = all[p].conn
      /\ syncing' \in BOOLEAN /\ (syncing' => syncing) /\ (connectedPeers \cup new = {} => ~syncing')
  <2>1. CASE connectedPeers \cup new = {}
    <3>1. syncing' = FALSE /\ peer' = Unwatched(all, downloadPeer') /\ downloadPeer' \in Peer \cup {None}
      BY <1>7, <2>1 DEF SyncStopped, Inv, Types
    <3> QED
      BY <1>5, <3>1, SameConns
  <2>2. CASE connectedPeers \cup new # {}
    BY <1>5, <1>7, <2>2 DEF Inv, Types
  <2> QED
    BY <2>1, <2>2
<1>9. Types'
  BY <1>1, <1>7, <1>8 DEF Inv, Types
<1>10. Held'
  BY <1>5, <1>7, <1>8 DEF Inv, Held, Types
<1>11. GivenUp'
  BY <1>1, <1>7, <1>8 DEF Inv, GivenUp
<1>12. QuietMeansStopped'
  <2>1. connectedPeers \cup new # {} => connectedPeers' # {}
    BY <1>5, <1>6, <1>8 DEF connectedPeers
  <2> QED
    BY <1>8, <2>1 DEF QuietMeansStopped
<1> QED
  BY <1>9, <1>10, <1>11, <1>12 DEF Inv

\* A new download peer is one that is connected.
LEMMA InvPeerSelected ==
  ASSUME Inv, NEW p \in Peer, NEW reload \in BOOLEAN, PeerSelected(p, reload)
  PROVE  Inv'
<1>1. PICK q \in Candidates :
        LET told == [peer EXCEPT ![p].conn = "connected"]
            left == IF downloadPeer = None THEN told ELSE [told EXCEPT ![downloadPeer] = Closing(@)]
            loaded == [left EXCEPT ![q].filter = "loaded"]
            behind == height < peer[q].lastblock
        IN  /\ downloadPeer' = q /\ estimatedHeight' = peer[q].lastblock
            /\ connectFailureCount' = IF behind THEN connectFailureCount ELSE FailuresForgotten
            /\ peer' = IF behind THEN [loaded EXCEPT ![q].timer = TRUE] ELSE LoadMempools(loaded, q, reload)
  BY DEF PeerSelected
<1> DEFINE told == [peer EXCEPT ![p].conn = "connected"]
           left == IF downloadPeer = None THEN told ELSE [told EXCEPT ![downloadPeer] = Closing(@)]
           loaded == [left EXCEPT ![q].filter = "loaded"]
           timed == [loaded EXCEPT ![q].timer = TRUE]
           kept(f) == f \in [Peer -> Record] /\ \A o \in Peer : peer[o].conn # "free" => f[o].conn # "free"
<1>2. q \in Peer /\ peer[q].conn # "free" /\ peer \in [Peer -> Record] /\ downloadPeer \in Peer \cup {None}
  BY DEF Candidates, IsConnected, Inv, Types
<1>3. kept(told)
  <2>1. [peer[p] EXCEPT !.conn = "connected"] \in Record /\ [peer[p] EXCEPT !.conn = "connected"].conn = "connected"
    BY <1>2 DEF Record
  <2>2. told = [peer EXCEPT ![p] = [peer[p] EXCEPT !.conn = "connected"]]
    OBVIOUS
  <2> QED
    BY <1>2, <2>1, <2>2
<1> HIDE DEF told
<1>4. kept(left)
  <2>1. CASE downloadPeer = None
    BY <1>3, <2>1
  <2>2. CASE downloadPeer # None
    <3>1. left = [told EXCEPT ![downloadPeer] = Closing(told[downloadPeer])]
      BY <2>2
    <3>2. Closing(told[downloadPeer]) \in Record /\ Closing(told[downloadPeer]).conn = told[downloadPeer].conn
      BY <1>2, <1>3, <2>2, SameConn
    <3> QED
      BY <1>2, <1>3, <3>1, <3>2
  <2> QED
    BY <2>1, <2>2
<1> HIDE DEF left
<1>5. kept(loaded)
  <2>1. loaded = [left EXCEPT ![q] = [left[q] EXCEPT !.filter = "loaded"]]
    OBVIOUS
  <2>2. [left[q] EXCEPT !.filter = "loaded"] \in Record /\ [left[q] EXCEPT !.filter = "loaded"].conn = left[q].conn
    BY <1>2, <1>4, SameConnLoaded, Zenon
  <2> QED
    BY <1>2, <1>4, <2>1, <2>2
<1> HIDE DEF loaded
<1>6. kept(timed)
  <2>1. timed = [loaded EXCEPT ![q] = [loaded[q] EXCEPT !.timer = TRUE]]
    OBVIOUS
  <2>2. [loaded[q] EXCEPT !.timer = TRUE] \in Record /\ [loaded[q] EXCEPT !.timer = TRUE].conn = loaded[q].conn
    BY <1>2, <1>5, SameConnLoaded, Zenon
  <2> QED
    BY <1>2, <1>5, <2>1, <2>2
<1>7. kept(LoadMempools(loaded, q, reload))
  <2>1. q \in Peer \cup {None} /\ loaded \in [Peer -> Record]
    BY <1>2, <1>5
  <2>2. /\ LoadMempools(loaded, q, reload) \in [Peer -> Record]
        /\ \A o \in Peer : LoadMempools(loaded, q, reload)[o].conn = loaded[o].conn
    BY <2>1, SameConns
  <2> QED
    BY <1>5, <2>2
<1> HIDE DEF timed
<1>8. /\ downloadPeer' = q /\ estimatedHeight' = peer[q].lastblock /\ kept(peer')
      /\ connectFailureCount' \in {connectFailureCount, 0}
      /\ UNCHANGED <<height, syncing, calls, disconnect>>
  <2>1. /\ downloadPeer' = q /\ estimatedHeight' = peer[q].lastblock
        /\ connectFailureCount' \in {connectFailureCount, 0}
        /\ peer' = IF height < peer[q].lastblock THEN timed ELSE LoadMempools(loaded, q, reload)
    BY <1>1 DEF told, left, loaded, timed, FailuresForgotten
  <2> QED
    BY <1>6, <1>7, <2>1 DEF PeerSelected
<1>9. estimatedHeight' \in 0..MaxHeight
  BY <1>2, <1>8 DEF Record
<1>10. Types'
  BY <1>2, <1>8, <1>9 DEF Inv, Types
<1>11. Held' /\ GivenUp'
  BY <1>2, <1>8, SyncAssumption DEF Held, GivenUp
<1>12. QuietMeansStopped'
  BY <1>2, <1>8 DEF QuietMeansStopped, connectedPeers
<1> QED
  BY <1>10, <1>11, <1>12 DEF Inv

\* What happens on one connection, as long as its peer is not freed.
LEMMA InvStep ==
  ASSUME Inv, NEW p \in Peer,
         \/ SocketOpened(p) \/ PeerRefused(p) \/ FilterLoaded(p)
         \/ \E lastblock \in Reported[p] : HandshakeCompleted(p, lastblock)
         \/ \E counted \in BOOLEAN : Lost(p, counted)
  PROVE  Inv'
<1>1. peer[p] \in Record
  BY DEF Inv, Types
<1>2. CASE SocketOpened(p)
  <2>1. [peer[p] EXCEPT !.conn = "connecting"] \in Record
    BY <1>1 DEF Record
  <2> QED
    BY <1>1, <1>2, <2>1, OnePeer DEF SocketOpened, Record
<1>3. CASE PeerRefused(p)
  <2>1. [peer[p] EXCEPT !.conn = "connected"] \in Record /\ [peer[p] EXCEPT !.conn = "connected"].conn = "connected"
    BY <1>1 DEF Record
  <2> QED
    BY <1>3, <2>1, SameConn, OnePeer DEF PeerRefused
<1>4. CASE FilterLoaded(p)
  <2>1. /\ [peer[p] EXCEPT !.done = @ \ {"load"}] \in Record
        /\ [peer[p] EXCEPT !.done = @ \ {"load"}].conn = peer[p].conn
    BY <1>1 DEF Record
  <2> QED
    BY <1>4, <2>1, SameConn, OnePeer DEF FilterLoaded
<1>5. ASSUME NEW lastblock \in Reported[p], HandshakeCompleted(p, lastblock) PROVE Inv'
  <2>1. lastblock \in 0..MaxHeight
    BY SyncAssumption
  <2>2. [peer[p] EXCEPT !.conn = "greeting", !.timer = FALSE, !.lastblock = lastblock] \in Record
    BY <1>1, <2>1 DEF Record
  <2>3. [peer[p] EXCEPT !.conn = "greeting", !.timer = FALSE, !.lastblock = lastblock].conn = "greeting"
    BY <1>1 DEF Record
  <2> QED
    BY <1>5, <2>2, <2>3, OnePeer DEF HandshakeCompleted
<1>6. ASSUME NEW counted \in BOOLEAN, Lost(p, counted) PROVE Inv'
  <2> DEFINE r == [Fresh("ending") EXCEPT !.lastblock = peer[p].lastblock, !.done = peer[p].done,
                                          !.counted = counted]
  <2>1. Fresh("ending") \in Record /\ Fresh("ending").conn = "ending"
    BY FreshRecord
  <2>2. r \in Record /\ r.conn = "ending"
    BY <1>1, <2>1 DEF Record
  <2> QED
    BY <1>6, <2>2, OnePeer DEF Lost
<1> QED
  BY <1>2, <1>3, <1>4, <1>5, <1>6

\* A peer that is not ahead leaves the download peer where it is.
LEMMA InvPeerSticks ==
  ASSUME Inv, NEW p \in Peer, PeerSticks(p)
  PROVE  Inv'
<1> DEFINE r == [peer[p] EXCEPT !.conn = "connected"]
<1>1. peer \in [Peer -> Record] /\ peer[p] \in Record
  BY DEF Inv, Types
<1>2. r \in Record /\ r.conn = "connected"
  BY <1>1 DEF Record
<1>3. LoadFilter(r) \in Record /\ LoadFilter(r).conn = "connected"
  BY <1>2, SameConn
<1>4. /\ peer' \in {[peer EXCEPT ![p] = r], [peer EXCEPT ![p] = LoadFilter(r)]}
      /\ connectFailureCount' \in {connectFailureCount, 0}
  BY DEF PeerSticks, FailuresForgotten
<1> HIDE DEF r
<1>5. peer' \in [Peer -> Record] /\ \A q \in Peer : peer[q].conn # "free" => peer'[q].conn # "free"
  BY <1>1, <1>2, <1>3, <1>4
<1> QED
  BY <1>4, <1>5, Harmless DEF PeerSticks, chain, Inv, Types

\* A block that extends the chain.
LEMMA InvRelayedBlock ==
  ASSUME Inv, NEW p \in Peer, NEW reload \in BOOLEAN, RelayedBlock(p, reload)
  PROVE  Inv'
<1>1. peer \in [Peer -> Record] /\ downloadPeer \in Peer \cup {None} /\ peer[p] \in Record
  BY DEF Inv, Types
<1>2. /\ peer' \in {[peer EXCEPT ![p].timer = TRUE], LoadMempools(peer, downloadPeer, reload), peer}
      /\ connectFailureCount' \in {connectFailureCount, 0}
  BY DEF RelayedBlock, FailuresForgotten
<1>3. height' \in 0..MaxHeight /\ estimatedHeight' \in 0..MaxHeight
  <2>1. height \in 0..MaxHeight /\ height < MaxHeight /\ MaxHeight \in Nat /\ estimatedHeight \in 0..MaxHeight
    BY SyncAssumption DEF RelayedBlock, Inv, Types
  <2>2. height' = height + 1 /\ estimatedHeight' \in {height', estimatedHeight}
    BY DEF RelayedBlock
  <2> QED
    BY <2>1, <2>2
<1>4. peer' \in [Peer -> Record] /\ \A q \in Peer : peer[q].conn # "free" => peer'[q].conn # "free"
  <2>1. CASE peer' = [peer EXCEPT ![p].timer = TRUE]
    <3>1. [peer[p] EXCEPT !.timer = TRUE] \in Record /\ [peer[p] EXCEPT !.timer = TRUE].conn = peer[p].conn
      BY <1>1 DEF Record
    <3>2. peer' = [peer EXCEPT ![p] = [peer[p] EXCEPT !.timer = TRUE]]
      BY <2>1
    <3> QED
      BY <1>1, <3>1, <3>2
  <2>2. CASE peer' = LoadMempools(peer, downloadPeer, reload)
    BY <1>1, <2>2, SameConns
  <2>3. CASE peer' = peer
    BY <1>1, <2>3
  <2> QED
    BY <1>2, <2>1, <2>2, <2>3
<1> QED
  BY <1>2, <1>3, <1>4, Harmless DEF RelayedBlock, Inv, Types

\* A completion is called, whether it succeeded or not.
LEMMA InvCompletion ==
  ASSUME Inv, NEW p \in Peer, MempoolDone(p) \/ \E done \in {"load", "mempool"} : CallbackFailed(p, done)
  PROVE  Inv'
<1>1. peer \in [Peer -> Record] /\ peer[p] \in Record /\ downloadPeer \in Peer \cup {None}
  BY DEF Inv, Types
<1>2. PICK done \in {"load", "mempool"} :
        LET called == [peer EXCEPT ![p].done = @ \ {done}]
        IN  SyncStopped(called) \/ (peer' = called /\ UNCHANGED syncing)
  BY DEF MempoolDone, CallbackFailed
<1> DEFINE r == [peer[p] EXCEPT !.done = @ \ {done}]
           called == [peer EXCEPT ![p] = r]
<1>3. r \in Record /\ r.conn = peer[p].conn
  BY <1>1 DEF Record
<1>4. called \in [Peer -> Record] /\ \A q \in Peer : called[q].conn = peer[q].conn
  BY <1>1, <1>3
<1>5. SyncStopped(called) \/ (peer' = called /\ syncing' = syncing)
  BY <1>2
<1> HIDE DEF called
<1>6. UNCHANGED <<downloadPeer, connectFailureCount, height, estimatedHeight, calls, disconnect>>
  <2>1. CASE MempoolDone(p)
    BY <2>1 DEF MempoolDone, chain
  <2>2. CASE \E d \in {"load", "mempool"} : CallbackFailed(p, d)
    BY <2>2 DEF CallbackFailed, chain
  <2> QED
    BY <2>1, <2>2
<1>7. /\ peer' \in {called, Unwatched(called, downloadPeer)} /\ syncing' \in BOOLEAN /\ (syncing' => syncing)
  <2>1. syncing \in BOOLEAN
    BY DEF Inv, Types
  <2>2. CASE SyncStopped(called)
    BY <1>6, <2>2 DEF SyncStopped
  <2>3. CASE peer' = called /\ syncing' = syncing
    BY <2>1, <2>3
  <2> QED
    BY <1>5, <2>2, <2>3
<1>8. peer' \in [Peer -> Record] /\ \A q \in Peer : peer[q].conn # "free" => peer'[q].conn # "free"
  <2>1. TRUE \in BOOLEAN
    OBVIOUS
  <2>2. /\ Unwatched(called, downloadPeer) \in [Peer -> Record]
        /\ \A q \in Peer : Unwatched(called, downloadPeer)[q].conn = called[q].conn
    BY <1>1, <1>4, <2>1, SameConns
  <2> QED
    BY <1>4, <1>7, <2>2
<1> QED
  BY <1>6, <1>7, <1>8, Harmless DEF Inv, Types

\* A peer is freed: the download peer is another one, and where no call of Connect follows the
\* synchronization was stopped.
LEMMA InvPeerDisconnected ==
  ASSUME Inv, NEW p \in Peer, PeerDisconnected(p)
  PROVE  Inv'
<1> DEFINE freed == [peer EXCEPT ![p] = Fresh("free")]
<1>1. /\ peer \in [Peer -> Record] /\ downloadPeer \in Peer \cup {None} /\ connectFailureCount \in Nat
      /\ MaxConnectFailures \in Nat \ {0} /\ syncing \in BOOLEAN /\ None \notin Peer
  BY SyncAssumption DEF Inv, Types
<1>2. freed \in [Peer -> Record] /\ \A q \in Peer : q # p => freed[q] = peer[q]
  BY <1>1, FreshRecord
<1>3. downloadPeer' = IF p = downloadPeer THEN None ELSE downloadPeer
  BY DEF PeerDisconnected, DownloadPeerWithout
<1>4. /\ connectFailureCount' = Failures(p) /\ Failures(p) \in Nat
      /\ p # downloadPeer => Failures(p) >= connectFailureCount
      /\ p = downloadPeer => Failures(p) <= MaxConnectFailures
  <2>1. /\ Failures(p) \in Nat /\ (p # downloadPeer => Failures(p) >= connectFailureCount)
        /\ p = downloadPeer => Failures(p) <= MaxConnectFailures
    <3> DEFINE count == connectFailureCount + (IF peer[p].counted THEN 1 ELSE 0)
    <3>1. count \in Nat /\ count >= connectFailureCount
      BY <1>1
    <3>2. Failures(p) = IF p = downloadPeer /\ count > MaxConnectFailures THEN MaxConnectFailures ELSE count
      BY DEF Failures
    <3> HIDE DEF count
    <3> QED
      BY <1>1, <3>1, <3>2
  <2>2. connectFailureCount' = Failures(p)
    BY DEF PeerDisconnected
  <2> QED
    BY <2>1, <2>2
<1> HIDE DEF freed
<1>5. /\ UNCHANGED <<height, estimatedHeight, disconnect>>
      /\ IF downloadPeer' = None /\ Failures(p) = MaxConnectFailures
           THEN SyncStopped(freed) ELSE peer' = freed /\ syncing' = syncing
      /\ IF Failures(p) < MaxConnectFailures THEN Calls ELSE calls' = calls
  BY DEF PeerDisconnected, chain, freed
<1>6. /\ peer' \in [Peer -> Record] /\ \A q \in Peer : q # p => peer'[q].conn = peer[q].conn
      /\ syncing' \in BOOLEAN /\ (syncing' => syncing)
      /\ downloadPeer' = None /\ Failures(p) = MaxConnectFailures => ~syncing'
  <2>1. CASE downloadPeer' = None /\ Failures(p) = MaxConnectFailures
    <3>1. syncing' = FALSE /\ peer' = Unwatched(freed, None)
      BY <1>5, <2>1 DEF SyncStopped
    <3>2. Unwatched(freed, None) = freed
      BY DEF Unwatched
    <3> QED
      BY <1>2, <3>1, <3>2
  <2>2. CASE ~(downloadPeer' = None /\ Failures(p) = MaxConnectFailures)
    BY <1>1, <1>2, <1>5, <2>2
  <2> QED
    BY <2>1, <2>2
<1>7. Held' /\ downloadPeer' \in Peer \cup {None}
  BY <1>1, <1>3, <1>6 DEF Inv, Held
<1>8. CASE Failures(p) < MaxConnectFailures
  <2>1. Calls
    BY <1>5, <1>8
  <2> QED
    BY <1>4, <1>5, <1>6, <1>7, <2>1, InvCalls DEF Inv, Types
<1>9. CASE Failures(p) >= MaxConnectFailures
  <2>1. calls' = calls
    BY <1>1, <1>4, <1>5, <1>9
  <2>2. Types'
    BY <1>4, <1>5, <1>6, <1>7, <2>1 DEF Inv, Types
  <2>3. downloadPeer' = None /\ disconnect' = "none" /\ calls'.begin = 0 => ~syncing'
    <3>1. SUFFICES ASSUME downloadPeer' = None, disconnect = "none", calls.begin = 0 PROVE ~syncing'
      BY <1>5, <2>1
    <3>2. CASE Failures(p) = MaxConnectFailures
      BY <1>6, <3>1, <3>2
    <3>3. CASE Failures(p) > MaxConnectFailures
      <4>1. p # downloadPeer /\ downloadPeer = None
        BY <1>1, <1>3, <1>4, <3>1, <3>3
      <4>2. CASE connectFailureCount >= MaxConnectFailures
        BY <1>6, <3>1, <4>1, <4>2 DEF Inv, GivenUp
      <4>3. CASE connectFailureCount < MaxConnectFailures
        <5>1. Failures(p) <= connectFailureCount + 1
          BY <1>1 DEF Failures
        <5> QED
          BY <1>1, <1>4, <3>3, <4>3, <5>1
      <4> QED
        BY <1>1, <4>2, <4>3
    <3> QED
      BY <1>1, <1>4, <1>9, <3>2, <3>3
  <2>4. GivenUp'
    BY <2>3 DEF GivenUp
  <2>5. QuietMeansStopped'
    <3>1. connectedPeers' = {} => downloadPeer' = None
      BY <1>7 DEF Held, connectedPeers
    <3>2. NoCalls' => calls'.begin = 0
      BY <2>2 DEF NoCalls, Types
    <3> QED
      BY <2>3, <3>1, <3>2 DEF QuietMeansStopped
  <2> QED
    BY <1>7, <2>2, <2>4, <2>5 DEF Inv
<1> QED
  BY <1>1, <1>4, <1>8, <1>9

\* The application rescans, which connects again.
LEMMA InvRescan == Inv /\ Rescan => Inv'
<1> SUFFICES ASSUME Inv, Rescan PROVE Inv'
  OBVIOUS
<1>1. downloadPeer \in Peer /\ peer \in [Peer -> Record] /\ peer[downloadPeer] \in Record /\ 0 \in 0..MaxHeight
  BY SyncAssumption DEF Rescan, Inv, Types
<1>2. peer' = [peer EXCEPT ![downloadPeer] = Closing(peer[downloadPeer])]
  BY DEF Rescan
<1>3. peer' \in [Peer -> Record] /\ peer'[downloadPeer].conn = peer[downloadPeer].conn
  BY <1>1, <1>2, SameConn
<1>4. Held'
  BY <1>1, <1>3 DEF Rescan, Inv, Held
<1> QED
  BY <1>1, <1>3, <1>4, InvCalls DEF Rescan, Inv, Types

\* The application disconnects, which may leave a synchronization as it was.
LEMMA InvDisconnect == Inv /\ (Disconnect \/ DisconnectReturns) => Inv'
<1> SUFFICES ASSUME Inv, Disconnect \/ DisconnectReturns PROVE Inv'
  OBVIOUS
<1>1. peer' \in [Peer -> Record] /\ \A q \in Peer : peer'[q].conn = peer[q].conn
  BY SameConn DEF Disconnect, DisconnectReturns, Inv, Types
<1>2. /\ UNCHANGED <<downloadPeer, height, estimatedHeight, syncing, calls>> /\ disconnect' \in {"waits", "returned"}
      /\ connectFailureCount' \in {connectFailureCount, MaxConnectFailures}
  BY DEF Disconnect, DisconnectReturns, chain
<1>3. connectFailureCount' \in Nat
  BY <1>2, SyncAssumption DEF Inv, Types
<1>4. Types' /\ Held'
  BY <1>1, <1>2, <1>3 DEF Inv, Types, Held
<1> QED
  BY <1>2, <1>4 DEF Inv, GivenUp, QuietMeansStopped

\* Every step keeps the invariant.
LEMMA InvNext == Inv /\ [Next]_vars => Inv'
<1> SUFFICES ASSUME Inv, [Next]_vars PROVE Inv'
  OBVIOUS
<1>1. CASE AppStep \/ CallStep \/ DisconnectReturns
  BY <1>1, InvAppConnect, InvRescan, InvDisconnect, InvConnectBegins, InvConnectGoesOn DEF AppStep, CallStep
<1>2. ASSUME NEW p \in Peer, PeerStep(p) PROVE Inv'
  BY <1>2, InvStep, InvPeerSticks, InvPeerSelected, InvCompletion, InvPeerDisconnected DEF PeerStep
<1>3. ASSUME NEW p \in Peer, RemoteStep(p) PROVE Inv'
  BY <1>3, InvStep, InvRelayedBlock, InvCompletion DEF RemoteStep
<1>4. CASE UNCHANGED vars
  <2>1. UNCHANGED <<peer, downloadPeer, connectFailureCount, height, estimatedHeight, syncing, calls, disconnect>>
    BY <1>4 DEF vars, chain
  <2>2. Types'
    BY <2>1 DEF Inv, Types
  <2>3. Held' /\ GivenUp' /\ QuietMeansStopped'
    BY <2>1 DEF Inv, Held, GivenUp, QuietMeansStopped, connectedPeers, NoCalls
  <2> QED
    BY <2>2, <2>3 DEF Inv
<1> QED
  BY <1>1, <1>2, <1>3, <1>4 DEF Next

\* The invariant holds of every behaviour.
LEMMA Invariance == Spec => []Inv
<1> QED
  BY InvInit, InvNext, PTL DEF Spec

\* The connections, the counts and the heights keep their types: no more calls and no greater heights than
\* the bounds, whatever is connected, lost or relayed.
THEOREM TypeCorrect == Spec => []TypeOK
<1>1. Inv => TypeOK
  <2> SUFFICES ASSUME Inv PROVE TypeOK
    OBVIOUS
  <2>1. /\ calls \in [begin : Nat, unlocked : Nat] /\ calls.begin + calls.unlocked <= MaxCalls /\ MaxCalls \in Nat
    BY SyncAssumption DEF Inv, Types
  <2>2. calls.begin \in 0..MaxCalls /\ calls.unlocked \in 0..MaxCalls
    BY <2>1
  <2>3. calls \in [begin : 0..MaxCalls, unlocked : 0..MaxCalls]
    BY <2>1, <2>2
  <2>4. peer \in [Peer -> Record]
    BY DEF Inv, Types
  <2> QED
    BY <2>3, <2>4 DEF Inv, Types, TypeOK, Record
<1> QED
  BY <1>1, Invariance, PTL

\* The download peer is never one that was freed, whichever peer is chosen, refused or lost meanwhile.
THEOREM DownloadPeerCorrect == Spec => []DownloadPeerHeld
<1>1. Inv => DownloadPeerHeld
  BY DEF Inv, Types, Held, DownloadPeerHeld, connectedPeers
<1> QED
  BY <1>1, Invariance, PTL

\* A synchronization that no peer and no call of Connect goes on with was stopped, for any number of peers
\* and failures: the last peer to be lost either calls Connect or finds the count at its limit.
THEOREM QuietCorrect == Spec => []QuietMeansStopped
<1>1. Inv => QuietMeansStopped
  BY DEF Inv
<1> QED
  BY <1>1, Invariance, PTL
=============================================================================
