------------------------------- MODULE LWPeer -------------------------------
(***************************************************************************)
(* One connection to a peer (LWPeer.c): its thread, the messages it        *)
(* accepts, and the calls the manager makes on it from any thread.         *)
(*                                                                         *)
(* The remote peer may send any message at any time, in any order.  What a *)
(* message says is reduced to the transactions and blocks it names; one    *)
(* the handlers find malformed or non-standard is Rejected.  A send may    *)
(* fail at any time, and closes the socket (SendMessage).                  *)
(***************************************************************************)
EXTENDS Naturals, Sequences, SequencesExt, FiniteSets

CONSTANTS
  Tx, Block,            \* hashes
  Matched,              \* Matched[b]: the transactions a merkleblock of b lists
  Published,            \* the transactions the wallet itself published
  MaxGetdataHashes,     \* MAX_GETDATA_HASHES (50000)
  None,
  MaxInv, MaxAsked,     \* bounds: block hashes in one inv, completions given,
  MaxEvents             \* completions and block hashes together

ASSUME PeerAssumption ==
  /\ Matched \in [Block -> SUBSET Tx]
  /\ None \notin Block
  /\ Published \subseteq Tx
  /\ MaxGetdataHashes \in Nat /\ MaxGetdataHashes >= 2
  /\ MaxInv \in Nat /\ MaxAsked \in Nat /\ MaxEvents \in Nat

VARIABLES
  thread,               \* where the peer's thread is
  socket,               \* whether ctx->socket >= 0
  status, waitingForNetwork,
  reading,              \* a header has been read, its payload is awaited
  disconnectTime,       \* "never", "set" or "passed"
  sent,                 \* the flags sentVerack, sentFilter, sentGetdata, sentMempool
  gotVerack,
  lastBlockHash, knownBlockHashes, knownTxHashes,
  currentBlock, currentBlockTxHashes,
  pongCallback,         \* completions of the pings sent, in order
  mempoolCallback,
  \* what the manager was told
  connected, relayedTx, relayedBlocks,
  \* history: completions given so far, how each was called, block hashes taken from invs
  asked, answer, announced

life == <<thread, socket, status, waitingForNetwork, reading, disconnectTime>>
handshake == <<gotVerack, connected>>
known == <<lastBlockHash, knownBlockHashes, announced>>
collecting == <<currentBlock, currentBlockTxHashes>>
told == <<relayedTx, relayedBlocks>>
callbacks == <<pongCallback, mempoolCallback, asked, answer>>
vars == <<life, sent, handshake, known, knownTxHashes, collecting, told, callbacks>>

NoCallback == 0
Flags == {"verack", "filter", "getdata", "mempool"}

Init ==
  /\ thread = "none" /\ socket = FALSE /\ status = "disconnected" /\ waitingForNetwork = FALSE
  /\ reading = FALSE /\ disconnectTime = "never"
  /\ sent = {} /\ gotVerack = FALSE
  /\ lastBlockHash = None /\ knownBlockHashes = <<>> /\ knownTxHashes = {}
  /\ currentBlock = None /\ currentBlockTxHashes = {}
  /\ pongCallback = <<>> /\ mempoolCallback = NoCallback
  /\ connected = FALSE /\ relayedTx = {} /\ relayedBlocks = {}
  /\ asked = 0 /\ answer = [c \in 1..MaxAsked |-> "none"] /\ announced = <<>>

Within(asks, hashes) ==
  /\ asked + asks <= MaxAsked
  /\ asked + asks + Len(announced) + hashes <= MaxEvents

-----------------------------------------------------------------------------
(* Sending, and the peer's thread. *)

\* LWPeerSendMessage: an error disconnects.
SendMessage == socket' \in {socket, FALSE}

\* The thread goes on to read the next message.
Goes == reading' = FALSE /\ UNCHANGED <<thread, waitingForNetwork, status, disconnectTime>>
\* An error, or a handler that returned 0, ends the read loop: which error is LWSync's concern.
Ends ==
  /\ thread' = "draining" /\ socket' = FALSE /\ status' = "disconnected" /\ reading' = FALSE
  /\ UNCHANGED <<waitingForNetwork, disconnectTime>>

Connect ==
  /\ thread = "none" /\ (status = "disconnected" \/ waitingForNetwork)
  /\ \/ /\ waitingForNetwork' = TRUE /\ status' = "connecting"      \* network not reachable
        /\ UNCHANGED <<thread, disconnectTime>>
     \/ /\ waitingForNetwork' = FALSE /\ disconnectTime' = "set"
        /\ \/ thread' = "opening" /\ status' = "connecting"
           \/ thread' = "none" /\ status' = "disconnected"           \* no thread could be made
  /\ UNCHANGED <<socket, reading, sent, handshake, known, knownTxHashes,
                 collecting, told, callbacks>>

OpenSocket ==
  /\ thread = "opening"
  /\ \/ Ends
     \/ /\ thread' = "selecting" /\ socket' = TRUE
        /\ UNCHANGED <<status, waitingForNetwork, reading, disconnectTime>>
  /\ UNCHANGED <<sent, handshake, known, knownTxHashes, collecting, told, callbacks>>

\* connect() is done, or select() ended without it; the version message is the first one.
SocketConnected ==
  /\ thread = "selecting"
  /\ \/ Ends
     \/ /\ thread' = "running" /\ SendMessage
        /\ UNCHANGED <<status, waitingForNetwork, reading, disconnectTime>>
  /\ UNCHANGED <<sent, handshake, known, knownTxHashes, collecting, told, callbacks>>

\* The read loop looks at the time when it has read something, or nothing for a second.
TimeIsUpConnected == disconnectTime = "passed" /\ connected     \* MUTANT: not for the handshake
TimeIsUp == disconnectTime = "passed"

ReadHeader ==
  /\ thread = "running" /\ socket /\ ~reading
  /\ \/ TimeIsUp /\ Ends
     \/ /\ ~TimeIsUp /\ reading' = TRUE
        /\ UNCHANGED <<thread, socket, status, waitingForNetwork, disconnectTime>>
  /\ UNCHANGED <<sent, handshake, known, knownTxHashes, collecting, told, callbacks>>

\* The connection is lost, or MESSAGE_TIMEOUT is over within a payload.
ReadFails ==
  /\ thread = "running" /\ Ends
  /\ UNCHANGED <<sent, handshake, known, knownTxHashes, collecting, told, callbacks>>

\* The socket was closed.
LoopEnds ==
  /\ thread = "running" /\ ~socket /\ Ends
  /\ UNCHANGED <<sent, handshake, known, knownTxHashes, collecting, told, callbacks>>

Drain ==
  /\ thread = "draining" /\ pongCallback # <<>>
  /\ answer' = [answer EXCEPT ![Head(pongCallback)] = "failed"]
  /\ pongCallback' = Tail(pongCallback)
  /\ UNCHANGED <<life, sent, handshake, known, knownTxHashes, collecting, told,
                 mempoolCallback, asked>>

Drained ==
  /\ thread = "draining" /\ pongCallback = <<>>
  /\ answer' = [c \in 1..MaxAsked |-> IF c = mempoolCallback THEN "failed" ELSE answer[c]]
  /\ mempoolCallback' = NoCallback /\ thread' = "reporting"
  /\ UNCHANGED <<socket, status, waitingForNetwork, reading, disconnectTime, sent, handshake,
                 known, knownTxHashes, collecting, told, pongCallback, asked>>

\* disconnected(): the manager takes its lock and frees the peer.
Disconnected ==
  /\ thread = "reporting" /\ thread' = "ended"
  /\ UNCHANGED <<socket, status, waitingForNetwork, reading, disconnectTime, sent, handshake,
                 known, knownTxHashes, collecting, told, callbacks>>

TimePasses ==
  /\ disconnectTime = "set" /\ disconnectTime' = "passed"
  /\ UNCHANGED <<thread, socket, status, waitingForNetwork, reading, sent, handshake,
                 known, knownTxHashes, collecting, told, callbacks>>

\* LWPeerSendPing, of the completion c.
PingSentOnce(c) ==                                       \* MUTANT: one ping at a time is remembered
  pongCallback' = IF pongCallback = <<>> THEN <<c>> ELSE pongCallback
PingSent(c) == pongCallback' = Append(pongCallback, c)

\* The mempool was not answered within 10 seconds: a ping takes its completion over.
MempoolWaitsIdle == mempoolCallback # NoCallback /\ pongCallback = <<>>  \* MUTANT: not while a ping is out
MempoolWaits == mempoolCallback # NoCallback

MempoolTimeout ==
  /\ thread = "running" /\ socket /\ ~reading /\ ~TimeIsUp /\ MempoolWaits
  /\ PingSent(mempoolCallback) /\ mempoolCallback' = NoCallback /\ SendMessage
  /\ UNCHANGED <<thread, status, waitingForNetwork, reading, disconnectTime, sent, handshake,
                 known, knownTxHashes, collecting, told, asked, answer>>

-----------------------------------------------------------------------------
(* Messages accepted. *)

\* A payload that is read is handled, even if the socket was closed meanwhile.
Receives == thread = "running" /\ reading
\* _LWPeerAcceptMessage: while a block is collected only a tx goes on.
Accepts == Receives /\ currentBlock = None

Rejected ==
  /\ Receives /\ Ends
  /\ currentBlock' = None /\ currentBlockTxHashes' = {}
  /\ UNCHANGED <<sent, handshake, known, knownTxHashes, told, callbacks>>

\* A malformed tx does not drop the block that is collected.
RejectedTx ==
  /\ Receives /\ Ends
  /\ UNCHANGED <<sent, handshake, known, knownTxHashes, collecting, told, callbacks>>

AcceptVersion ==
  /\ Accepts /\ Goes
  /\ SendMessage /\ sent' = sent \cup {"verack"}
  /\ UNCHANGED <<handshake, known, knownTxHashes, collecting, told, callbacks>>

\* _LWPeerDidConnect is only called here.
AcceptVerack ==
  /\ Accepts /\ reading' = FALSE /\ gotVerack' = TRUE
  /\ IF ~gotVerack /\ status = "connecting" /\ "verack" \in sent
       THEN connected' = TRUE /\ status' = "connected" /\ disconnectTime' = "never"
       ELSE UNCHANGED <<connected, status, disconnectTime>>
  /\ UNCHANGED <<thread, waitingForNetwork, socket, sent, known, knownTxHashes,
                 collecting, told, callbacks>>

\* addr, headers, getaddr, getdata, notfound, ping, reject, feefilter: nothing of the connection
\* changes, and at most an answer or a request is sent.
AcceptOther ==
  /\ Accepts /\ Goes /\ SendMessage
  /\ UNCHANGED <<sent, handshake, known, knownTxHashes, collecting, told, callbacks>>

\* knownBlockHashes is cut by a third until it is short enough.
Cut[s \in Seq(Block)] ==
  IF Len(s) <= MaxGetdataHashes THEN s ELSE Cut[SubSeq(s, Len(s) \div 3 + 1, Len(s))]

\* needsFilterUpdate is set and reset by the manager at any time, and only read here.
AcceptInv(txs, blocks, needsFilterUpdate) ==
  /\ Accepts
  /\ IF txs # {} /\ sent \cap {"filter", "mempool"} = {}
     THEN Ends /\ UNCHANGED <<sent, known, knownTxHashes, pongCallback, mempoolCallback>>
     ELSE LET loaded == IF "filter" \notin sent \/ blocks = <<lastBlockHash>> THEN <<>> ELSE blocks
              wanted == IF needsFilterUpdate THEN <<>> ELSE loaded
              new == txs \ knownTxHashes
          IN  /\ Goes /\ SendMessage
              /\ lastBlockHash' = IF Len(loaded) = 1 THEN loaded[1] ELSE lastBlockHash
              /\ announced' = announced \o loaded
              /\ knownBlockHashes' = Cut[knownBlockHashes \o loaded]
              /\ knownTxHashes' = knownTxHashes \cup txs
              /\ sent' = IF new # {} \/ wanted # <<>> THEN sent \cup {"getdata"} ELSE sent
              /\ IF txs # {} /\ mempoolCallback # NoCallback
                   THEN PingSent(mempoolCallback) /\ mempoolCallback' = NoCallback
                   ELSE UNCHANGED <<pongCallback, mempoolCallback>>
  /\ UNCHANGED <<handshake, collecting, told, asked, answer>>

\* Neither a filter was loaded nor data requested.
UnsolicitedVerack == sent = {}                           \* MUTANT: whatever was sent
Unsolicited == sent \cap {"filter", "getdata"} = {}

CollectedAny(tx) == {}                                   \* MUTANT: whichever transaction it is
Collected(tx) == currentBlockTxHashes \ {tx}

\* A transaction, and the block that is complete with it.
AcceptTx(tx) ==
  /\ Receives
  /\ IF Unsolicited
     THEN Ends /\ UNCHANGED <<told, collecting>>
     ELSE /\ Goes /\ UNCHANGED socket
          /\ relayedTx' = relayedTx \cup {tx}
          /\ currentBlockTxHashes' = IF currentBlock # None THEN Collected(tx) ELSE currentBlockTxHashes
          /\ IF currentBlock # None /\ currentBlockTxHashes' = {}
               THEN currentBlock' = None /\ relayedBlocks' = relayedBlocks \cup {currentBlock}
               ELSE UNCHANGED <<currentBlock, relayedBlocks>>
  /\ UNCHANGED <<sent, handshake, known, knownTxHashes, callbacks>>

\* The block waits for the transactions that are not known yet.
AcceptMerkleblock(b) ==
  /\ Accepts
  /\ IF Unsolicited
     THEN Ends /\ UNCHANGED <<told, collecting>>
     ELSE /\ Goes /\ UNCHANGED <<socket, relayedTx>>
          /\ currentBlockTxHashes' = currentBlockTxHashes \cup (Matched[b] \ knownTxHashes)
          /\ IF currentBlockTxHashes' # {}
               THEN currentBlock' = b /\ UNCHANGED relayedBlocks
               ELSE relayedBlocks' = relayedBlocks \cup {b} /\ UNCHANGED currentBlock
  /\ UNCHANGED <<sent, handshake, known, knownTxHashes, callbacks>>

AcceptPong ==
  /\ Accepts
  /\ IF pongCallback = <<>>
       THEN Ends /\ UNCHANGED <<pongCallback, answer>>
       ELSE /\ Goes /\ UNCHANGED socket
            /\ answer' = [answer EXCEPT ![Head(pongCallback)] = "ok"]
            /\ pongCallback' = Tail(pongCallback)
  /\ UNCHANGED <<sent, handshake, known, knownTxHashes, collecting, told,
                 mempoolCallback, asked>>

-----------------------------------------------------------------------------
(* What the manager calls, from this thread's callbacks or from another     *)
(* thread, once it was told of the connection and until it frees the peer.  *)

Called == connected /\ thread # "ended"
\* What else is sent once the thread is ending changes only state that is not read again.
CalledRunning == connected /\ thread = "running"
Elsewhere == UNCHANGED <<thread, status, waitingForNetwork, reading>>

Disconnect ==
  /\ thread \notin {"none", "ended"} /\ socket /\ socket' = FALSE
  /\ UNCHANGED <<thread, status, waitingForNetwork, reading, disconnectTime, sent, handshake,
                 known, knownTxHashes, collecting, told, callbacks>>

ScheduleDisconnect ==
  /\ CalledRunning /\ disconnectTime' \in {"never", "set"}
  /\ Elsewhere
  /\ UNCHANGED <<socket, sent, handshake, known, knownTxHashes, collecting, told,
                 callbacks>>

SendFilterload ==
  /\ CalledRunning /\ sent' = (sent \cup {"filter"}) \ {"mempool"}
  /\ SendMessage /\ Elsewhere
  /\ UNCHANGED <<disconnectTime, handshake, known, knownTxHashes, collecting, told,
                 callbacks>>

\* With the transactions published so far; without a completion there is nothing to wait for.
SendMempool(published, complete) ==
  /\ Called /\ (complete => Within(1, 0))
  /\ sent' = sent \cup {"mempool"}
  /\ asked' = IF complete THEN asked + 1 ELSE asked
  /\ IF "mempool" \notin sent /\ mempoolCallback = NoCallback
     THEN /\ knownTxHashes' = knownTxHashes \cup published
          /\ mempoolCallback' = IF complete THEN asked + 1 ELSE NoCallback
          /\ SendMessage /\ UNCHANGED answer
     ELSE /\ answer' = IF complete THEN [answer EXCEPT ![asked + 1] = "failed"] ELSE answer
          /\ UNCHANGED <<socket, knownTxHashes, mempoolCallback>>
  /\ Elsewhere
  /\ UNCHANGED <<disconnectTime, handshake, known, collecting, told, pongCallback>>

SendInv(txs) ==
  /\ CalledRunning /\ knownTxHashes' = knownTxHashes \cup txs
  /\ IF txs \subseteq knownTxHashes THEN UNCHANGED socket ELSE SendMessage
  /\ Elsewhere
  /\ UNCHANGED <<disconnectTime, sent, handshake, known, collecting, told, callbacks>>

\* getdata for transactions, or getaddr, getblocks, getheaders.
SendRequest(flag) ==
  /\ CalledRunning /\ sent' = sent \cup flag
  /\ SendMessage /\ Elsewhere
  /\ UNCHANGED <<disconnectTime, handshake, known, knownTxHashes, collecting, told,
                 callbacks>>

SendPing ==
  /\ Called /\ Within(1, 0)
  /\ asked' = asked + 1 /\ PingSent(asked + 1)
  /\ SendMessage /\ Elsewhere
  /\ UNCHANGED <<disconnectTime, sent, handshake, known, knownTxHashes, collecting,
                 told, mempoolCallback, answer>>

KeptFrom(i) == SubSeq(knownBlockHashes, i, Len(knownBlockHashes))

RerequestBlocks(fromBlock) ==
  /\ CalledRunning
  /\ LET i == SelectLastInSeq(knownBlockHashes, LAMBDA b : b = fromBlock)
     IN  IF i = 0 THEN UNCHANGED <<knownBlockHashes, sent, socket>>
         ELSE /\ knownBlockHashes' = KeptFrom(i)
              /\ sent' = sent \cup {"getdata"}
              /\ SendMessage
  /\ Elsewhere
  /\ UNCHANGED <<disconnectTime, handshake, lastBlockHash, announced, knownTxHashes,
                 collecting, told, callbacks>>

-----------------------------------------------------------------------------
ThreadStep ==
  OpenSocket \/ SocketConnected \/ ReadHeader \/ LoopEnds \/ Drain \/ Drained \/ Disconnected

MessageStep ==
  \/ ReadFails \/ Rejected \/ RejectedTx \/ AcceptVersion \/ AcceptVerack \/ AcceptOther \/ AcceptPong
  \/ \E txs \in SUBSET Tx, blocks \in BoundedSeq(Block, MaxInv), update \in BOOLEAN :
       Within(0, Len(blocks)) /\ AcceptInv(txs, blocks, update)
  \/ \E tx \in Tx : AcceptTx(tx)
  \/ \E b \in Block : AcceptMerkleblock(b)

ManagerStep ==
  \/ Connect \/ Disconnect \/ ScheduleDisconnect \/ SendFilterload \/ SendPing
  \/ \E complete \in BOOLEAN : SendMempool(Published, complete)
  \/ SendInv(Published)
  \/ \E flag \in {{}, {"getdata"}} : SendRequest(flag)
  \/ \E b \in Block : RerequestBlocks(b)

Next == ThreadStep \/ MessageStep \/ ManagerStep \/ MempoolTimeout \/ TimePasses

Spec == Init /\ [][Next]_vars

-----------------------------------------------------------------------------
(* What must hold. *)

TypeOK ==
  /\ thread \in {"none", "opening", "selecting", "running", "draining", "reporting", "ended"}
  /\ status \in {"disconnected", "connecting", "connected"}
  /\ disconnectTime \in {"never", "set", "passed"}
  /\ {socket, waitingForNetwork, reading, gotVerack, connected} \subseteq BOOLEAN
  /\ sent \subseteq Flags
  /\ lastBlockHash \in Block \cup {None} /\ currentBlock \in Block \cup {None}
  /\ knownBlockHashes \in Seq(Block) /\ announced \in Seq(Block)
  /\ knownTxHashes \subseteq Tx /\ currentBlockTxHashes \subseteq Tx
  /\ relayedTx \subseteq Tx /\ relayedBlocks \subseteq Block
  /\ asked \in 0..MaxAsked /\ mempoolCallback \in 0..MaxAsked
  /\ pongCallback \in Seq(1..MaxAsked)
  /\ answer \in [1..MaxAsked -> {"none", "ok", "failed"}]

\* The manager hears of no transaction and no merkleblock from a peer it was not told to be
\* connected, whatever the remote peer sends before the handshake is complete.
HandshakeFirst == relayedTx # {} \/ relayedBlocks # {} => connected

\* A block is relayed only when each transaction it matched was relayed before or is known, from an
\* inv or because the wallet published it: none is left of a collection that was interrupted.
BlockComplete == \A b \in relayedBlocks : Matched[b] \subseteq relayedTx \cup knownTxHashes

\* What is kept to be requested again with a new filter are the last block hashes announced, in
\* their order: nothing that came after the block it starts from is missing.
RecentKept ==
  /\ IsSuffix(knownBlockHashes, announced)
  /\ Len(knownBlockHashes) <= MaxGetdataHashes

\* Whatever the remote peer sends and in whatever order, the connection's state is sound, nothing is
\* relayed too early, and a new filter finds all the blocks it has to be applied to.
PeerInv == TypeOK /\ HandshakeFirst /\ RecentKept

\* Each completion given with a ping or a mempool request is called once.
Callbacks == ToSet(pongCallback) \cup ({mempoolCallback} \ {NoCallback})
Reporting == thread \in {"reporting", "ended"}
C == INSTANCE LWCallbacks WITH
       Callback <- 1..MaxAsked,
       given <- 1..asked,
       outstanding <- IF Reporting THEN {} ELSE Callbacks,
       late <- IF Reporting THEN Callbacks ELSE {},
       phase <- CASE thread = "reporting" -> "reporting"
                  [] thread = "ended" -> "closed"
                  [] OTHER -> "open"
CallsBack == C!Spec

\* What the comment in _LWPeerAcceptMerkleblockMessage says: when a block is relayed "we should
\* have all the tx in the merkleblock".
HasAllTx == \A b \in relayedBlocks : Matched[b] \ Published \subseteq relayedTx

\* The thread goes on until it ends: its reads return within a second, and a payload is read or
\* given up after MESSAGE_TIMEOUT.  A timer that is set runs out.
PayloadEnds == reading /\ MessageStep
SpecLive ==
  /\ Spec
  /\ WF_vars(ThreadStep) /\ WF_vars(PayloadEnds) /\ WF_vars(TimePasses) /\ SF_vars(MempoolTimeout)

\* A connection that is tried completes its handshake or is reported as disconnected, though the
\* remote peer may go on sending anything but the messages of the handshake.
HandshakeEnds == thread = "opening" ~> (connected \/ thread = "ended")

\* A mempool request is over after a while, answered or not.
MempoolEnds == mempoolCallback # NoCallback ~> (mempoolCallback = NoCallback \/ thread = "ended")

\* Whatever the remote peer sends or leaves out, neither is waited for for ever.
WaitsEnd == HandshakeEnds /\ MempoolEnds
=============================================================================
