-------------------------- MODULE LWPublishProofs --------------------------
(***************************************************************************)
(* Publications: callbacks are called once, their transactions are not     *)
(* freed before, and the peers they were sent to are watched, for any      *)
(* number of transactions, peers, calls and objects.                       *)
(***************************************************************************)
EXTENDS LWPublish, TLAPS

Record ==
  [conn : {"free", "connecting", "greeting", "connected", "ending"},
   timer : BOOLEAN, synced : BOOLEAN, asked : SUBSET {"mempool", "inv", "unrelayed"},
   told : SUBSET Tx, late : BOOLEAN]

\* A callback is that of a call that publishes the transaction.
Entry(t) == [tx : Objects(t), call : {c \in Call : Subject[c] = t} \cup {None}]
Entries == [tx : Obj, call : Call \cup {None}]

\* The types, and that an object of a transaction is where one of it should be.
Types ==
  /\ wallet \in [Tx -> Obj \cup {None}] /\ (\A t \in Tx : wallet[t] \in Objects(t) \cup {None})
  /\ confirmed \in SUBSET Tx
  /\ publishedTx \in [Tx -> Entries \cup {None}] /\ (\A t \in Tx : publishedTx[t] \in Entry(t) \cup {None})
  /\ txRelays \in [Tx -> SUBSET Peer] /\ txRequests \in [Tx -> SUBSET Peer]
  /\ peer \in [Peer -> Record]
  /\ downloadPeer \in Peer \cup {None} /\ syncing \in BOOLEAN
  /\ publishing \in [tx : Obj, call : Call] \cup {None}
  /\ publishing # None => publishing.tx \in Objects(Subject[publishing.call])
  /\ freed \subseteq Obj

\* What a peer was told is pending, and it has a timer then.
Watched == \A p \in Peer : peer[p].told \subseteq Pending(publishedTx) /\ (peer[p].told # {} => peer[p].timer)

\* A callback waits in one place.
Calls ==
  /\ answers \in [Call -> {"none", "waiting", "called", "discarded"}]
  /\ CalledOnce
  /\ publishing # None => \A t \in Pending(publishedTx) : publishedTx[t].call # publishing.call

\* No freed object is used: that of a callback that waits is neither the wallet's nor that of the call
\* that let go of the lock, which nobody else has.
Pointers ==
  /\ freed \subseteq Held(wallet, publishedTx, publishing)
  /\ \A t \in Pending(publishedTx) : publishedTx[t].tx # wallet[t]
  /\ publishing # None =>
       /\ publishing.tx \notin freed
       /\ \A t \in Tx : /\ wallet[t] # publishing.tx
                        /\ publishedTx[t] # None => publishedTx[t].tx # publishing.tx
  /\ WalletLive /\ PendingLive

Inv == Types /\ RelaysConnected /\ Watched /\ Calls /\ Pointers

-----------------------------------------------------------------------------
(* Objects, and entries of the list.                                         *)

\* An object is one of its transaction, and of no other; nothing is None.
LEMMA ObjectFacts ==
  /\ \A t \in Tx : \A o \in Objects(t) : o[1] = t /\ o \in Obj
  /\ \A t, u \in Tx : \A o \in Objects(t) : o \in Objects(u) => t = u
  /\ None \notin Obj /\ None \notin Entries /\ None \notin Tx /\ None \notin Peer /\ None \notin Call
  /\ Subject \in [Call -> Tx]
<1>1. \A t \in Tx : \A o \in Objects(t) : o[1] = t
  BY DEF Objects
<1>2. \A t \in Tx : \A o \in Objects(t) : o \in Obj
  BY DEF Obj
<1> QED
  BY <1>1, <1>2, PublishAssumption DEF Entries

\* An entry has an object of its transaction and at most the callback of a call for it.
LEMMA EntryFacts ==
  ASSUME NEW t \in Tx
  PROVE  /\ \A e \in Entry(t) : e \in Entries /\ e # None /\ e.tx \in Objects(t) /\ e.call \in Call \cup {None}
         /\ \A e \in Entry(t) : e.call # None => e.call \in Call /\ Subject[e.call] = t
         /\ \A o \in Objects(t), c \in {d \in Call : Subject[d] = t} \cup {None} : [tx |-> o, call |-> c] \in Entry(t)
         /\ \A e \in Entry(t) : [e EXCEPT !.call = None] \in Entry(t)
<1>1. \A e \in Entry(t) : e \in Entries
  BY ObjectFacts DEF Entry, Entries
<1>2. None \notin Entries
  BY ObjectFacts
<1> QED
  BY <1>1, <1>2 DEF Entry

\* A new object is one of the transaction that nobody points to.
LEMMA NewObject ==
  ASSUME NEW t \in Tx, CanNew(t)
  PROVE  New(t) \in Objects(t) /\ New(t) \notin Held(wallet, publishedTx, publishing)
BY DEF CanNew, New

\* What the list has is not changed by adding to it; what is added has no callback but the one given.
LEMMA Added ==
  ASSUME NEW t \in Tx, NEW o \in Objects(t), NEW c, NEW w, NEW list \in [Tx -> Entries \cup {None}]
  PROVE  LET l == AddTxToPublishList(o, c, w, list)
         IN  /\ list[t] # None => l = list
             /\ list[t] = None => l[t] = [tx |-> o, call |-> c]
             /\ \A u \in Tx \ {t} :
                  l[u] = list[u] \/ (list[u] = None /\ w[u] # None /\ l[u] = [tx |-> w[u], call |-> None])
             /\ l \in [Tx -> {l[u] : u \in Tx}]
<1>1. o[1] = t
  BY ObjectFacts
<1>2. \A u \in Inputs(t, w, list) : w[u] # None /\ list[u] = None
  BY DEF Inputs
<1>3. CASE list[t] # None
  BY <1>1, <1>3 DEF AddTxToPublishList
<1>4. CASE list[t] = None
  <2>1. AddTxToPublishList(o, c, w, list) =
          [u \in Tx |-> CASE u = t -> [tx |-> o, call |-> c]
                          [] u # t /\ u \in Inputs(t, w, list) -> [tx |-> w[u], call |-> None]
                          [] OTHER -> list[u]]
    BY <1>1, <1>4 DEF AddTxToPublishList
  <2> QED
    BY <1>2, <1>4, <2>1
<1> QED
  BY <1>3, <1>4

\* The list has entries of their transactions after it, if the wallet has.
LEMMA AddedTypes ==
  ASSUME NEW t \in Tx, NEW o \in Objects(t), NEW c \in {d \in Call : Subject[d] = t} \cup {None},
         NEW w, \A u \in Tx : w[u] \in Objects(u) \cup {None},
         NEW list \in [Tx -> Entries \cup {None}], \A u \in Tx : list[u] \in Entry(u) \cup {None}
  PROVE  LET l == AddTxToPublishList(o, c, w, list)
         IN  l \in [Tx -> Entries \cup {None}] /\ \A u \in Tx : l[u] \in Entry(u) \cup {None}
<1> DEFINE l == AddTxToPublishList(o, c, w, list)
<1> HIDE DEF l
<1>0. /\ list[t] # None => l = list
      /\ list[t] = None => l[t] = [tx |-> o, call |-> c]
      /\ \A u \in Tx \ {t} :
           l[u] = list[u] \/ (list[u] = None /\ w[u] # None /\ l[u] = [tx |-> w[u], call |-> None])
      /\ l \in [Tx -> {l[u] : u \in Tx}]
  BY Added DEF l
<1>1. l[t] \in Entry(t) \cup {None}
  BY <1>0, EntryFacts
<1>2. \A u \in Tx \ {t} : l[u] \in Entry(u) \cup {None}
  <2> SUFFICES ASSUME NEW u \in Tx \ {t} PROVE l[u] \in Entry(u) \cup {None}
    OBVIOUS
  <2>1. CASE l[u] = list[u]
    BY <2>1
  <2>2. CASE w[u] # None /\ l[u] = [tx |-> w[u], call |-> None]
    BY <2>2, EntryFacts
  <2> QED
    BY <1>0, <2>1, <2>2
<1>3. \A u \in Tx : l[u] \in Entries \cup {None}
  BY <1>1, <1>2, EntryFacts
<1>4. l \in [Tx -> Entries \cup {None}]
  BY <1>0, <1>3
<1> QED
  BY <1>1, <1>2, <1>4 DEF l

-----------------------------------------------------------------------------
(* The records of the peers.                                                 *)

\* What is pending are transactions.
LEMMA PendingTx == \A list : Pending(list) \subseteq Tx
BY DEF Pending

\* A peer that is sent what is pending has a timer if there is any, and stays connected as it was.
LEMMA PublishPendingRecord ==
  ASSUME NEW r \in Record, NEW list
  PROVE  /\ PublishPendingTx(r, list) \in Record
         /\ PublishPendingTx(r, list).conn = r.conn
         /\ PublishPendingTx(r, list).told = Pending(list)
         /\ PublishPendingTx(r, list).timer = (r.timer \/ Pending(list) # {})
BY PendingTx DEF PublishPendingTx, Record

\* A completion that is added, or taken away, changes nothing else.
LEMMA AskedRecord ==
  ASSUME NEW r \in Record, NEW a \in {"mempool", "inv", "unrelayed"}
  PROVE  /\ [r EXCEPT !.asked = @ \cup {a}] \in Record
         /\ [r EXCEPT !.asked = @ \cup {a}].conn = r.conn
         /\ [r EXCEPT !.asked = @ \cup {a}].told = r.told
         /\ [r EXCEPT !.asked = @ \cup {a}].timer = r.timer
         /\ [r EXCEPT !.asked = @ \ {a}] \in Record
         /\ [r EXCEPT !.asked = @ \ {a}].conn = r.conn
         /\ [r EXCEPT !.asked = @ \ {a}].told = r.told
         /\ [r EXCEPT !.asked = @ \ {a}].timer = r.timer
BY DEF Record

\* So do the requests for what a peer did not relay.
LEMMA RequestedRecord ==
  ASSUME NEW r \in Record, NEW p
  PROVE  /\ Requested(r, p) \in Record
         /\ Requested(r, p).conn = r.conn /\ Requested(r, p).told = r.told /\ Requested(r, p).timer = r.timer
BY DEF Requested, Record

\* A timer may be set or cancelled.
LEMMA TimerRecord ==
  ASSUME NEW r \in Record, NEW b \in BOOLEAN
  PROVE  /\ [r EXCEPT !.timer = b] \in Record
         /\ [r EXCEPT !.timer = b].conn = r.conn
         /\ [r EXCEPT !.timer = b].told = r.told
         /\ [r EXCEPT !.timer = b].timer = b
BY DEF Record

\* A connection goes on.
LEMMA ConnRecord ==
  ASSUME NEW r \in Record, NEW c \in {"free", "connecting", "greeting", "connected", "ending"}
  PROVE  /\ [r EXCEPT !.conn = c] \in Record
         /\ [r EXCEPT !.conn = c].conn = c
         /\ [r EXCEPT !.conn = c].told = r.told
         /\ [r EXCEPT !.conn = c].timer = r.timer
BY DEF Record

\* A connection that begins, or is free again, has no timer and was told nothing.
LEMMA FreshRecord ==
  ASSUME NEW c \in {"free", "connecting", "greeting", "connected", "ending"}
  PROVE  Fresh(c) \in Record /\ Fresh(c).conn = c /\ Fresh(c).told = {} /\ Fresh(c).timer = FALSE
BY DEF Fresh, Record

\* A peer that was seen to have t keeps its timer unless nothing else waits.
LEMMA SeenRecord ==
  ASSUME Types, NEW p \in Peer, NEW t, NEW b \in BOOLEAN
  PROVE  LET r == [Seen(p, t) EXCEPT !.timer = @ \/ b]
         IN  /\ Seen(p, t) \in Record /\ r \in Record
             /\ Seen(p, t).conn = peer[p].conn /\ r.conn = peer[p].conn
             /\ Seen(p, t).told = peer[p].told /\ r.told = peer[p].told
             /\ Seen(p, t).timer => r.timer
             /\ peer[p].timer => Seen(p, t).timer \/ Pending(publishedTx) \subseteq {t}
<1>1. peer[p] \in Record /\ peer[p].timer \in BOOLEAN
  BY DEF Types, Record
<1> DEFINE cancel == Pending(publishedTx) \subseteq {t} /\ (~syncing \/ p # downloadPeer)
<1>2. Seen(p, t) = [peer[p] EXCEPT !.timer = peer[p].timer /\ ~cancel]
  BY DEF Seen
<1>3. (peer[p].timer /\ ~cancel) \in BOOLEAN /\ (peer[p].timer => (peer[p].timer /\ ~cancel) \/ Pending(publishedTx) \subseteq {t})
  OBVIOUS
<1> HIDE DEF cancel
<1>4. /\ Seen(p, t) \in Record
      /\ Seen(p, t).conn = peer[p].conn
      /\ Seen(p, t).told = peer[p].told
      /\ Seen(p, t).timer = (peer[p].timer /\ ~cancel)
  <2>1. PICK r \in Record : r = peer[p]
    BY <1>1, Zenon
  <2>2. PICK e \in BOOLEAN : e = (r.timer /\ ~cancel)
    BY <1>3, <2>1, Zenon
  <2>3. Seen(p, t) = [r EXCEPT !.timer = e]
    BY <1>2, <2>1, <2>2, Zenon
  <2>4. /\ [r EXCEPT !.timer = e] \in Record
        /\ [r EXCEPT !.timer = e].conn = r.conn
        /\ [r EXCEPT !.timer = e].told = r.told
        /\ [r EXCEPT !.timer = e].timer = e
    BY TimerRecord, Zenon
  <2> QED BY <2>1, <2>2, <2>3, <2>4, Zenon
<1>5. (Seen(p, t).timer \/ b) \in BOOLEAN
  OBVIOUS
<1>6. LET r == [Seen(p, t) EXCEPT !.timer = Seen(p, t).timer \/ b]
      IN  r \in Record /\ r.conn = Seen(p, t).conn /\ r.told = Seen(p, t).told /\ r.timer = (Seen(p, t).timer \/ b)
  BY <1>4, <1>5, TimerRecord
<1> QED
  BY <1>3, <1>4, <1>6

\* What was told is what is pending still.
LEMMA ToldRecords ==
  ASSUME NEW f \in [Peer -> Record]
  PROVE  /\ Told(f) \in [Peer -> Record]
         /\ \A q \in Peer : /\ Told(f)[q].conn = f[q].conn /\ Told(f)[q].timer = f[q].timer
                            /\ Told(f)[q].told = f[q].told \cap Pending(publishedTx')
<1>1. ASSUME NEW r \in Record
      PROVE  /\ [r EXCEPT !.told = @ \cap Pending(publishedTx')] \in Record
             /\ [r EXCEPT !.told = @ \cap Pending(publishedTx')].conn = r.conn
             /\ [r EXCEPT !.told = @ \cap Pending(publishedTx')].timer = r.timer
             /\ [r EXCEPT !.told = @ \cap Pending(publishedTx')].told = r.told \cap Pending(publishedTx')
  BY DEF Record
<1>2. Told(f) = [q \in Peer |-> [f[q] EXCEPT !.told = @ \cap Pending(publishedTx')]]
  BY DEF Told
<1> QED
  BY <1>1, <1>2

\* The mempools are loaded of those who are connected: what they are told is pending, or they were told before.
LEMMA LoadMempoolsRecords ==
  ASSUME NEW f \in [Peer -> Record], NEW list, NEW d, NEW reload
  PROVE  LET g == LoadMempools(f, list, d, reload)
         IN  /\ g \in [Peer -> Record]
             /\ \A q \in Peer :
                  /\ g[q].conn = f[q].conn
                  /\ \/ g[q].told = f[q].told /\ g[q].timer = f[q].timer
                     \/ g[q].told = Pending(list) /\ g[q].timer = (f[q].timer \/ Pending(list) # {})
<1> DEFINE h(q) == IF q # d \/ reload THEN PublishPendingTx(f[q], list) ELSE f[q]
<1> DEFINE k(q) == [h(q) EXCEPT !.asked = @ \cup {"mempool"}]
<1>1. ASSUME NEW q \in Peer
      PROVE  /\ h(q) \in Record /\ h(q).conn = f[q].conn
             /\ \/ h(q).told = f[q].told /\ h(q).timer = f[q].timer
                \/ h(q).told = Pending(list) /\ h(q).timer = (f[q].timer \/ Pending(list) # {})
  BY PublishPendingRecord
<1>2. ASSUME NEW q \in Peer
      PROVE  k(q) \in Record /\ k(q).conn = h(q).conn /\ k(q).told = h(q).told /\ k(q).timer = h(q).timer
  <2> HIDE DEF h
  <2> QED
    BY <1>1, AskedRecord
<1>3. LoadMempools(f, list, d, reload) = [q \in Peer |-> IF ~IsConnected(q) THEN f[q] ELSE k(q)]
  BY DEF LoadMempools
<1> HIDE DEF k, h
<1> QED
  BY <1>1, <1>2, <1>3

\* A synchronization that stops leaves the timers while something is pending.
LEMMA SyncStoppedRecords ==
  ASSUME NEW f \in [Peer -> Record], NEW d \in Peer \cup {None}
  PROVE  /\ SyncStopped(f, d) \in [Peer -> Record]
         /\ \A q \in Peer : /\ SyncStopped(f, d)[q].conn = f[q].conn /\ SyncStopped(f, d)[q].told = f[q].told
                            /\ SyncStopped(f, d)[q].timer = f[q].timer \/ Pending(publishedTx) = {}
<1>1. CASE d = None \/ Pending(publishedTx) # {}
  BY <1>1 DEF SyncStopped
<1>2. CASE d # None /\ Pending(publishedTx) = {}
  <2>1. SyncStopped(f, d) = [f EXCEPT ![d] = [f[d] EXCEPT !.timer = FALSE]]
    BY <1>2 DEF SyncStopped
  <2>2. /\ [f[d] EXCEPT !.timer = FALSE] \in Record
        /\ [f[d] EXCEPT !.timer = FALSE].conn = f[d].conn /\ [f[d] EXCEPT !.timer = FALSE].told = f[d].told
    BY <1>2, TimerRecord
  <2> QED
    BY <1>2, <2>1, <2>2
<1> QED
  BY <1>1, <1>2

\* A completion that is called is taken away.
LEMMA WithoutRecords ==
  ASSUME Types, NEW p \in Peer, NEW a \in {"mempool", "inv", "unrelayed"}
  PROVE  /\ Without(p, a) \in [Peer -> Record]
         /\ \A q \in Peer : /\ Without(p, a)[q].conn = peer[q].conn /\ Without(p, a)[q].told = peer[q].told
                            /\ Without(p, a)[q].timer = peer[q].timer
<1>1. peer \in [Peer -> Record]
  BY DEF Types
<1>2. Without(p, a) = [peer EXCEPT ![p] = [peer[p] EXCEPT !.asked = @ \ {a}]]
  BY DEF Without
<1>3. /\ [peer[p] EXCEPT !.asked = @ \ {a}] \in Record
      /\ [peer[p] EXCEPT !.asked = @ \ {a}].conn = peer[p].conn
      /\ [peer[p] EXCEPT !.asked = @ \ {a}].told = peer[p].told
      /\ [peer[p] EXCEPT !.asked = @ \ {a}].timer = peer[p].timer
  BY <1>1, AskedRecord
<1> QED
  BY <1>1, <1>2, <1>3

-----------------------------------------------------------------------------
(* What keeps each part of the invariant.                                    *)

\* A step that changes nothing but the peers' records, what is confirmed and who was asked.
LEMMA Records ==
  ASSUME Inv, UNCHANGED <<wallet, publishedTx, publishing, answers, freed>>,
         confirmed' \in SUBSET Tx, txRelays' \in [Tx -> SUBSET Peer], txRequests' \in [Tx -> SUBSET Peer],
         \A t \in Tx : txRelays'[t] \subseteq txRelays[t],
         downloadPeer' \in Peer \cup {None}, syncing' \in BOOLEAN,
         peer' \in [Peer -> Record],
         \A q \in Peer : peer[q].conn \in {"connected", "ending"} => peer'[q].conn \in {"connected", "ending"},
         \A q \in Peer : \/ peer'[q].told = peer[q].told /\ peer'[q].timer = peer[q].timer
                         \/ peer'[q].told = {} \/ Pending(publishedTx) = {}
                         \/ peer'[q].told = peer[q].told /\ peer'[q].timer
                         \/ peer'[q].told = Pending(publishedTx) /\ peer'[q].timer,
         \A q \in Peer : Pending(publishedTx) = {} => peer'[q].told = {}
  PROVE  Inv'
<1>1. Types'
  BY DEF Inv, Types
<1>2. RelaysConnected'
  BY DEF Inv, Types, RelaysConnected
<1>3. Pending(publishedTx') = Pending(publishedTx)
  BY DEF Pending
<1>4. Watched'
  BY <1>3 DEF Inv, Watched
<1>5. Calls'
  BY <1>3 DEF Inv, Calls, CalledOnce
<1>6. Held(wallet', publishedTx', publishing') = Held(wallet, publishedTx, publishing)
  BY DEF Held
<1>7. Pointers'
  BY <1>3, <1>6 DEF Inv, Pointers, WalletLive, PendingLive
<1> QED
  BY <1>1, <1>2, <1>4, <1>5, <1>7 DEF Inv

\* The callback of an entry.
LEMMA CallbackFacts ==
  ASSUME Types, NEW t \in Tx
  PROVE  /\ t \in Pending(publishedTx) => Callback(t) = {publishedTx[t].call}
         /\ t \notin Pending(publishedTx) => Callback(t) = {}
         /\ t \in Pending(publishedTx) => publishedTx[t].call \in Call /\ Subject[publishedTx[t].call] = t
<1>1. publishedTx[t] \in Entry(t) \cup {None}
  BY DEF Types
<1> QED
  BY <1>1, EntryFacts DEF Callback, Pending

\* The callbacks of some entries are called, or given up, and no others.
LEMMA CallsGiven ==
  ASSUME Types, Calls, NEW S \in SUBSET Tx, NEW called, NEW discarded,
         called \cup discarded = UNION {Callback(t) : t \in S}, called \cap discarded = {},
         Answer(called, discarded), publishing' = publishing,
         Pending(publishedTx') = Pending(publishedTx) \ S,
         \A t \in Pending(publishedTx') : publishedTx'[t].call = publishedTx[t].call
  PROVE  Calls'
<1>1. \A c \in called \cup discarded :
        \E t \in S : t \in Pending(publishedTx) /\ publishedTx[t].call = c
  BY CallbackFacts
<1>2. \A t \in S : t \in Pending(publishedTx) => publishedTx[t].call \in called \cup discarded
  BY CallbackFacts
<1>3. \A t, u \in Pending(publishedTx) : publishedTx[t].call = publishedTx[u].call => t = u
  BY CallbackFacts DEF Pending
<1>4. \A c \in called \cup discarded : answers[c] = "waiting" /\ c \in Call
  BY <1>1, CallbackFacts DEF Calls, CalledOnce
<1>5. answers' = [c \in Call |-> IF c \in called THEN "called" ELSE IF c \in discarded THEN "discarded" ELSE answers[c]]
  BY <1>4 DEF Answer
<1>6. answers' \in [Call -> {"none", "waiting", "called", "discarded"}]
  BY <1>5 DEF Calls
<1>7. CalledOnce'
  <2> SUFFICES ASSUME NEW c \in Call
               PROVE  answers'[c] = "waiting" <=>
                        \/ publishing # None /\ publishing.call = c
                        \/ \E t \in Pending(publishedTx') : publishedTx'[t].call = c
    BY DEF CalledOnce
  <2>1. CASE c \in called \cup discarded
    <3>1. answers'[c] # "waiting"
      BY <1>5, <2>1
    <3>2. PICK t \in S : t \in Pending(publishedTx) /\ publishedTx[t].call = c
      BY <1>1, <2>1
    <3>3. publishing # None => publishing.call # c
      BY <3>2 DEF Calls
    <3>4. \A u \in Pending(publishedTx') : publishedTx'[u].call # c
      BY <1>3, <3>2
    <3> QED
      BY <3>1, <3>3, <3>4
  <2>2. CASE c \notin called \cup discarded
    <3>1. answers'[c] = answers[c]
      BY <1>5, <2>2
    <3>2. \A t \in Pending(publishedTx) : publishedTx[t].call = c => t \in Pending(publishedTx')
      BY <1>2, <2>2
    <3>3. (\E t \in Pending(publishedTx) : publishedTx[t].call = c) <=>
            \E t \in Pending(publishedTx') : publishedTx'[t].call = c
      BY <3>2
    <3> QED
      BY <3>1, <3>3 DEF Calls, CalledOnce
  <2> QED
    BY <2>1, <2>2
<1>8. publishing' # None => \A t \in Pending(publishedTx') : publishedTx'[t].call # publishing'.call
  BY DEF Calls
<1> QED
  BY <1>6, <1>7, <1>8 DEF Calls

\* What nobody points to is in no place, and was not freed.
LEMMA NotHeld ==
  ASSUME Types, Pointers, NEW o, o \notin Held(wallet, publishedTx, publishing), o # None
  PROVE  /\ o \notin freed
         /\ \A t \in Tx : wallet[t] # o /\ (publishedTx[t] # None => publishedTx[t].tx # o)
         /\ publishing # None => publishing.tx # o
BY DEF Types, Pointers, Held

\* What is freed is still pointed to.
LEMMA FreesHeld ==
  ASSUME NEW S, Frees(S)
  PROVE  freed' \subseteq freed \cup S /\ freed' \subseteq Held(wallet', publishedTx', publishing')
BY DEF Frees

-----------------------------------------------------------------------------
(* Publishing.                                                               *)

\* At first nothing is published.
LEMMA InvInit == Init => Inv
<1> SUFFICES ASSUME Init PROVE Inv
  OBVIOUS
<1>1. peer \in [Peer -> Record] /\ \A p \in Peer : peer[p].told = {}
  BY FreshRecord DEF Init
<1>2. Types
  BY <1>1 DEF Init, Types
<1>3. Pending(publishedTx) = {}
  BY DEF Init, Pending
<1>4. Watched /\ RelaysConnected
  BY <1>1 DEF Init, Watched, RelaysConnected
<1>5. Calls
  BY <1>3 DEF Init, Calls, CalledOnce
<1>6. Pointers
  BY <1>3 DEF Init, Pointers, WalletLive, PendingLive
<1> QED
  BY <1>2, <1>4, <1>5, <1>6 DEF Inv

\* A call lets go of the lock: its object is new.
LEMMA InvPublishBegins ==
  ASSUME Inv, NEW c \in Call, PublishBegins(c)
  PROVE  Inv'
<1> DEFINE t == Subject[c]
<1>1. t \in Tx /\ New(t) \in Objects(t) /\ New(t) \in Obj /\ New(t) # None
  BY NewObject, ObjectFacts DEF PublishBegins
<1>2. New(t) \notin Held(wallet, publishedTx, publishing)
  BY <1>1, NewObject DEF PublishBegins
<1> HIDE DEF t
<1>3. publishing = None /\ publishing' = [tx |-> New(t), call |-> c] /\ publishing' # None
  <2>1. [tx |-> New(t), call |-> c] \in Entries
    BY <1>1 DEF Entries
  <2> QED
    BY <2>1, ObjectFacts DEF PublishBegins, t
<1>4. publishing'.tx = New(t) /\ publishing'.call = c
  BY <1>3
<1>5. Types'
  BY <1>1, <1>3, <1>4 DEF Inv, Types, PublishBegins, lists, peers, t
<1>6. RelaysConnected' /\ Watched'
  BY DEF Inv, RelaysConnected, Watched, PublishBegins, lists, peers, Pending
<1>7. answers[c] = "none" /\ answers' = [answers EXCEPT ![c] = "waiting"]
  BY DEF PublishBegins
<1>8. \A u \in Pending(publishedTx) : publishedTx[u].call # c
  BY <1>7 DEF Inv, Calls, CalledOnce
<1>9. Pending(publishedTx') = Pending(publishedTx) /\ publishedTx' = publishedTx
  BY DEF PublishBegins
<1>10. Calls'
  BY <1>3, <1>4, <1>7, <1>8, <1>9 DEF Inv, Calls, CalledOnce
<1>11. Pointers'
  <2>1. UNCHANGED <<wallet, publishedTx, freed>>
    BY DEF PublishBegins
  <2>2. /\ New(t) \notin freed
        /\ \A u \in Tx : wallet[u] # New(t) /\ (publishedTx[u] # None => publishedTx[u].tx # New(t))
    BY <1>1, <1>2, NotHeld DEF Inv
  <2>3. freed' \subseteq Held(wallet', publishedTx', publishing')
    BY <1>3, <2>1 DEF Inv, Pointers, Held
  <2> QED
    BY <1>3, <1>4, <1>9, <2>1, <2>2, <2>3 DEF Inv, Pointers, WalletLive, PendingLive
<1> QED
  BY <1>5, <1>6, <1>10, <1>11 DEF Inv

\* The callback of a call is called that is refused, and its transaction freed.
LEMMA InvPublishRefused ==
  ASSUME Inv, PublishRefused
  PROVE  Inv'
<1>1. /\ publishing # None /\ publishing.call \in Call /\ publishing.tx \in Obj /\ publishing' = None
      /\ UNCHANGED <<wallet, confirmed, publishedTx, lists, peers>>
      /\ Answer({publishing.call}, {}) /\ Frees({publishing.tx})
  BY DEF PublishRefused, Inv, Types
<1>2. freed' \subseteq freed \cup {publishing.tx} /\ freed' \subseteq Held(wallet', publishedTx', publishing')
  BY <1>1, FreesHeld
<1>3. Types'
  BY <1>1, <1>2 DEF Inv, Types, lists, peers
<1>4. RelaysConnected' /\ Watched'
  BY <1>1 DEF Inv, RelaysConnected, Watched, lists, peers, Pending
<1>5. Calls'
  <2>1. answers[publishing.call] = "waiting"
    BY <1>1 DEF Inv, Calls, CalledOnce
  <2>2. answers' = [answers EXCEPT ![publishing.call] = "called"]
    BY <1>1, <2>1 DEF Answer, Inv, Calls
  <2>3. Pending(publishedTx') = Pending(publishedTx) /\ publishedTx' = publishedTx
    BY <1>1
  <2> QED
    BY <1>1, <2>1, <2>2, <2>3 DEF Inv, Calls, CalledOnce
<1>6. Pointers'
  <2>1. Pending(publishedTx') = Pending(publishedTx) /\ UNCHANGED <<wallet, publishedTx>>
    BY <1>1
  <2>2. \A t \in Pending(publishedTx) : t \in Tx /\ publishedTx[t] # None
    BY DEF Pending
  <2> QED
    BY <1>1, <1>2, <2>1, <2>2 DEF Inv, Pointers, WalletLive, PendingLive
<1> QED
  BY <1>3, <1>4, <1>5, <1>6 DEF Inv

\* The transaction is added to the list, if it is not there, and the peers are sent what is pending.
LEMMA InvPublishes ==
  ASSUME Inv, NEW c \in Call, NEW o \in Objects(Subject[c]), o \notin freed,
         \A u \in Tx : wallet[u] # o /\ (publishedTx[u] # None => publishedTx[u].tx # o),
         \A u \in Pending(publishedTx) : publishedTx[u].call # c,
         answers[c] = "none" \/ (publishing # None /\ publishing.call = c),
         publishing # None => publishing.call = c,
         Publishes(o, c)
  PROVE  Inv'
<1> DEFINE t == Subject[c]
<1> DEFINE l == AddTxToPublishList(o, c, wallet, publishedTx)
<1>1. t \in Tx /\ o[1] = t /\ o \in Obj
  BY ObjectFacts
<1>2. publishedTx' = l /\ UNCHANGED <<wallet, confirmed, lists, downloadPeer, syncing>> /\ publishing' = None
  BY DEF Publishes
<1>3. publishedTx \in [Tx -> Entries \cup {None}] /\ \A u \in Tx : publishedTx[u] \in Entry(u) \cup {None}
  BY DEF Inv, Types
<1>4. l \in [Tx -> Entries \cup {None}] /\ \A u \in Tx : l[u] \in Entry(u) \cup {None}
  BY <1>1, <1>3, AddedTypes DEF Inv, Types
<1>5. /\ publishedTx[t] # None => l = publishedTx
      /\ publishedTx[t] = None => l[t] = [tx |-> o, call |-> c]
      /\ \A u \in Tx \ {t} : \/ l[u] = publishedTx[u]
                             \/ publishedTx[u] = None /\ wallet[u] # None /\ l[u] = [tx |-> wallet[u], call |-> None]
  BY <1>1, <1>3, Added
<1>6. answers' = [answers EXCEPT ![c] = IF publishedTx[t] # None THEN "discarded" ELSE "waiting"]
  BY <1>1 DEF Publishes
<1>7. freed' \subseteq freed /\ freed' \subseteq Held(wallet', publishedTx', publishing')
  <2>1. Frees({})
    BY DEF Publishes
  <2> QED
    BY <2>1, FreesHeld
<1> HIDE DEF l, t
<1>8. Pending(l) = IF publishedTx[t] # None THEN Pending(publishedTx) ELSE Pending(publishedTx) \cup {t}
  <2>1. CASE publishedTx[t] # None
    BY <1>5, <2>1
  <2>2. CASE publishedTx[t] = None
    <3>1. t \in Pending(l)
      <4>1. [tx |-> o, call |-> c] \in Entries
        BY <1>1 DEF Entries
      <4>2. l[t] # None /\ l[t].call = c /\ c # None
        BY <1>5, <2>2, <4>1, ObjectFacts
      <4> QED
        BY <1>1, <4>2 DEF Pending
    <3>2. ASSUME NEW u \in Tx \ {t} PROVE u \in Pending(l) <=> u \in Pending(publishedTx)
      <4>1. CASE l[u] = publishedTx[u]
        BY <4>1 DEF Pending
      <4>2. CASE publishedTx[u] = None /\ l[u] = [tx |-> wallet[u], call |-> None]
        <5>1. l[u].call = None
          BY <4>2
        <5> QED
          BY <4>2, <5>1 DEF Pending
      <4> QED
        BY <1>5, <4>1, <4>2
    <3>3. t \notin Pending(publishedTx)
      BY <2>2 DEF Pending
    <3> QED
      BY <2>2, <3>1, <3>2, <3>3, PendingTx
  <2> QED
    BY <2>1, <2>2
<1>9. \A u \in Pending(l) : (l[u] = publishedTx[u] /\ u \in Pending(publishedTx)) \/ (u = t /\ l[u] = [tx |-> o, call |-> c])
  BY <1>1, <1>5, <1>8 DEF Pending
<1>10. /\ peer' \in [Peer -> Record]
       /\ \A p \in Peer : /\ peer'[p].conn = peer[p].conn
                          /\ \/ peer'[p].told = peer[p].told /\ peer'[p].timer = peer[p].timer
                             \/ peer'[p].told = Pending(l) /\ (Pending(l) # {} => peer'[p].timer)
  <2>1. PICK to : peer' = [p \in Peer |->
                    IF p \in to THEN [PublishPendingTx(peer[p], publishedTx') EXCEPT !.asked = @ \cup {"inv"}]
                                ELSE peer[p]]
    BY DEF Publishes
  <2>2. \A p \in Peer : peer[p] \in Record
    BY DEF Inv, Types
  <2>3. ASSUME NEW p \in Peer
        PROVE  LET r == [PublishPendingTx(peer[p], publishedTx') EXCEPT !.asked = @ \cup {"inv"}]
               IN  /\ r \in Record /\ r.conn = peer[p].conn /\ r.told = Pending(publishedTx')
                   /\ Pending(publishedTx') # {} => r.timer
    <3> DEFINE q == PublishPendingTx(peer[p], publishedTx')
    <3>1. q \in Record /\ q.conn = peer[p].conn /\ q.told = Pending(publishedTx') /\ (Pending(publishedTx') # {} => q.timer)
      BY <2>2, PublishPendingRecord
    <3> HIDE DEF q
    <3>2. LET r == [q EXCEPT !.asked = @ \cup {"inv"}]
          IN  r \in Record /\ r.conn = q.conn /\ r.told = q.told /\ r.timer = q.timer
      BY <3>1, AskedRecord
    <3> QED
      BY <3>1, <3>2 DEF q
  <2> QED
    BY <1>2, <2>1, <2>2, <2>3
<1>11. Types'
  BY <1>2, <1>4, <1>7, <1>10 DEF Inv, Types, lists
<1>12. RelaysConnected'
  BY <1>2, <1>10 DEF Inv, RelaysConnected, Types, lists
<1>13. Watched'
  BY <1>2, <1>8, <1>10 DEF Inv, Watched
<1>14. Calls'
  <2>1. answers' \in [Call -> {"none", "waiting", "called", "discarded"}]
    BY <1>6 DEF Inv, Calls
  <2>2. CalledOnce'
    <3> SUFFICES ASSUME NEW d \in Call
                 PROVE  answers'[d] = "waiting" <=> \E u \in Pending(l) : l[u].call = d
      BY <1>2 DEF CalledOnce
    <3>1. CASE d = c /\ publishedTx[t] # None
      BY <1>5, <1>6, <3>1 DEF Inv, Calls
    <3>2. CASE d = c /\ publishedTx[t] = None
      <4>1. t \in Pending(l) /\ l[t].call = c
        BY <1>5, <1>8, <3>2
      <4> QED
        BY <1>6, <3>2, <4>1 DEF Inv, Calls
    <3>3. CASE d # c
      <4>1. answers'[d] = answers[d]
        BY <1>6, <3>3 DEF Inv, Calls
      <4>2. publishing # None => publishing.call # d
        BY <3>3
      <4>3. \A u \in Pending(publishedTx) : u \in Pending(l) /\ l[u] = publishedTx[u]
        BY <1>1, <1>5, <1>8 DEF Pending
      <4>4. \A u \in Pending(l) : l[u].call = d => u \in Pending(publishedTx) /\ l[u] = publishedTx[u]
        BY <1>9, <3>3
      <4> QED
        BY <4>1, <4>2, <4>3, <4>4 DEF Inv, Calls, CalledOnce
    <3> QED
      BY <3>1, <3>2, <3>3
  <2> QED
    BY <1>2, <2>1, <2>2 DEF Calls
<1>15. Pointers'
  <2>1. \A u \in Pending(l) : l[u].tx # wallet[u] /\ l[u].tx \notin freed
    BY <1>1, <1>9 DEF Inv, Pointers, PendingLive
  <2> QED
    BY <1>2, <1>7, <2>1 DEF Inv, Pointers, WalletLive, PendingLive
<1> QED
  BY <1>11, <1>12, <1>13, <1>14, <1>15 DEF Inv

-----------------------------------------------------------------------------
(* What a peer relays, has, wants, does not have, or rejects.                *)

\* The peer was seen to have t, whose callback is called.
LEMMA SeenStep ==
  ASSUME Inv, NEW p \in Peer, NEW t \in Tx, NEW r \in Record,
         r.conn = peer[p].conn, r.told = peer[p].told, peer[p].timer => r.timer \/ Pending(publishedTx) \subseteq {t},
         Pending(publishedTx') = Pending(publishedTx) \ {t}, peer' = Told([peer EXCEPT ![p] = r])
  PROVE  /\ peer' \in [Peer -> Record] /\ \A q \in Peer : peer'[q].conn = peer[q].conn
         /\ Watched'
<1> DEFINE f == [peer EXCEPT ![p] = r]
<1>1. f \in [Peer -> Record] /\ \A q \in Peer : f[q].conn = peer[q].conn /\ f[q].told = peer[q].told
  BY DEF Inv, Types
<1>2. \A q \in Peer : peer[q].timer => f[q].timer \/ Pending(publishedTx) \subseteq {t}
  BY DEF Inv, Types
<1> HIDE DEF f
<1>3. /\ peer' \in [Peer -> Record]
      /\ \A q \in Peer : /\ peer'[q].conn = f[q].conn /\ peer'[q].timer = f[q].timer
                         /\ peer'[q].told = f[q].told \cap Pending(publishedTx')
  BY <1>1, ToldRecords DEF f
<1>4. Watched'
  BY <1>1, <1>2, <1>3 DEF Inv, Watched
<1> QED
  BY <1>1, <1>3, <1>4

\* The callback of t is called and its entry kept.
LEMMA CalledFacts ==
  ASSUME Types, NEW t \in Tx
  PROVE  /\ Called(t) \in [Tx -> Entries \cup {None}] /\ \A u \in Tx : Called(t)[u] \in Entry(u) \cup {None}
         /\ \A u \in Tx \ {t} : Called(t)[u] = publishedTx[u]
         /\ Called(t)[t] = None <=> publishedTx[t] = None
         /\ publishedTx[t] # None => Called(t)[t].tx = publishedTx[t].tx /\ Called(t)[t].call = None
         /\ Pending(Called(t)) = Pending(publishedTx) \ {t}
<1>1. publishedTx \in [Tx -> Entries \cup {None}] /\ \A u \in Tx : publishedTx[u] \in Entry(u) \cup {None}
  BY DEF Types
<1>2. CASE publishedTx[t] = None
  BY <1>1, <1>2 DEF Called, Pending
<1>3. CASE publishedTx[t] # None
  <2>1. Called(t) = [publishedTx EXCEPT ![t] = [publishedTx[t] EXCEPT !.call = None]]
    BY <1>3 DEF Called
  <2>2. [publishedTx[t] EXCEPT !.call = None] \in Entry(t)
    BY <1>1, <1>3, EntryFacts
  <2>3. [publishedTx[t] EXCEPT !.call = None] \in Entries /\ [publishedTx[t] EXCEPT !.call = None] # None
    BY <2>2, EntryFacts
  <2>4. [publishedTx[t] EXCEPT !.call = None].tx = publishedTx[t].tx /\ [publishedTx[t] EXCEPT !.call = None].call = None
    BY <1>1, <1>3 DEF Entries
  <2>5. Called(t)[t] = [publishedTx[t] EXCEPT !.call = None] /\ \A u \in Tx \ {t} : Called(t)[u] = publishedTx[u]
    BY <1>1, <2>1
  <2>6. Pending(Called(t)) = Pending(publishedTx) \ {t}
    BY <2>4, <2>5 DEF Pending
  <2>7. Called(t) \in [Tx -> Entries \cup {None}]
    BY <1>1, <2>1, <2>3
  <2>8. \A u \in Tx : Called(t)[u] \in Entry(u) \cup {None}
    BY <1>1, <2>2, <2>5
  <2> QED
    BY <1>3, <2>3, <2>4, <2>5, <2>6, <2>7, <2>8
<1> QED
  BY <1>2, <1>3

\* Calls, when the callback of t is called and nothing else is added.
LEMMA CallsSeen ==
  ASSUME Inv, NEW t \in Tx, Answer(Callback(t), {}), publishing' = publishing,
         Pending(publishedTx') = Pending(publishedTx) \ {t},
         \A u \in Pending(publishedTx') : publishedTx'[u].call = publishedTx[u].call
  PROVE  Calls'
<1>1. Callback(t) \cup {} = UNION {Callback(u) : u \in {t}} /\ Callback(t) \cap {} = {} /\ {t} \in SUBSET Tx
  OBVIOUS
<1> QED
  BY <1>1, CallsGiven DEF Inv

\* A relayed transaction is the wallet's, and its callback is called.
LEMMA InvRelayedTx ==
  ASSUME Inv, NEW p \in Peer, NEW t \in Tx, NEW valid \in BOOLEAN, RelayedTx(p, t, valid)
  PROVE  Inv'
<1> DEFINE l == AddTxToPublishList(wallet'[t], None, wallet', Called(t))
<1>1. New(t) \in Objects(t) /\ New(t) \in Obj /\ New(t) # None /\ New(t) \notin Held(wallet, publishedTx, publishing)
  BY NewObject, ObjectFacts DEF RelayedTx
<1>2. wallet \in [Tx -> Obj \cup {None}] /\ \A u \in Tx : wallet[u] \in Objects(u) \cup {None}
  BY DEF Inv, Types
<1>3. /\ wallet' \in [Tx -> Obj \cup {None}] /\ \A u \in Tx : wallet'[u] \in Objects(u) \cup {None}
      /\ wallet'[t] \in Objects(t)
      /\ \A u \in Tx : wallet'[u] = wallet[u] \/ wallet'[u] = New(t)
  <2>1. CASE wallet[t] = None
    <3>1. wallet' = [wallet EXCEPT ![t] = New(t)]
      BY <2>1 DEF RelayedTx
    <3> QED
      BY <1>1, <1>2, <3>1
  <2>2. CASE wallet[t] # None
    BY <1>2, <2>2 DEF RelayedTx
  <2> QED
    BY <2>1, <2>2
<1>4. /\ Called(t) \in [Tx -> Entries \cup {None}] /\ \A u \in Tx : Called(t)[u] \in Entry(u) \cup {None}
      /\ \A u \in Tx \ {t} : Called(t)[u] = publishedTx[u]
      /\ Called(t)[t] = None <=> publishedTx[t] = None
      /\ publishedTx[t] # None => Called(t)[t].tx = publishedTx[t].tx /\ Called(t)[t].call = None
      /\ Pending(Called(t)) = Pending(publishedTx) \ {t}
  BY CalledFacts DEF Inv
<1>5. /\ l \in [Tx -> Entries \cup {None}] /\ \A u \in Tx : l[u] \in Entry(u) \cup {None}
      /\ \A u \in Tx : l[u] = Called(t)[u] \/ (Called(t)[u] = None /\ l[u] = [tx |-> wallet'[u], call |-> None])
  <2>1. l \in [Tx -> Entries \cup {None}] /\ \A u \in Tx : l[u] \in Entry(u) \cup {None}
    BY <1>3, <1>4, AddedTypes
  <2>2. /\ Called(t)[t] # None => l = Called(t)
        /\ Called(t)[t] = None => l[t] = [tx |-> wallet'[t], call |-> None]
        /\ \A u \in Tx \ {t} : \/ l[u] = Called(t)[u]
                               \/ Called(t)[u] = None /\ wallet'[u] # None /\ l[u] = [tx |-> wallet'[u], call |-> None]
    BY <1>3, <1>4, Added
  <2> QED
    BY <2>1, <2>2
<1>6. publishedTx' = l \/ publishedTx' = Called(t)
  BY DEF RelayedTx
<1> HIDE DEF l
<1>7. /\ publishedTx' \in [Tx -> Entries \cup {None}] /\ \A u \in Tx : publishedTx'[u] \in Entry(u) \cup {None}
      /\ \A u \in Tx : publishedTx'[u] = Called(t)[u] \/ publishedTx'[u] = [tx |-> wallet'[u], call |-> None]
      /\ \A u \in Tx : Called(t)[u] # None => publishedTx'[u] = Called(t)[u]
  BY <1>4, <1>5, <1>6
<1>8. Pending(publishedTx') = Pending(Called(t)) /\ \A u \in Pending(publishedTx') : publishedTx'[u] = publishedTx[u]
  <2>1. \A u \in Pending(publishedTx') : publishedTx'[u] = Called(t)[u]
    <3> SUFFICES ASSUME NEW u \in Pending(publishedTx'), publishedTx'[u] = [tx |-> wallet'[u], call |-> None]
                 PROVE  FALSE
      BY <1>7 DEF Pending
    <3>1. publishedTx'[u].call = None
      OBVIOUS
    <3> QED
      BY <3>1 DEF Pending
  <2>2. Pending(publishedTx') = Pending(Called(t))
    BY <1>7, <2>1 DEF Pending
  <2> QED
    BY <1>4, <2>1, <2>2, PendingTx
<1>9. freed' \subseteq freed /\ freed' \subseteq Held(wallet', publishedTx', publishing')
  <2>1. Frees({})
    BY DEF RelayedTx
  <2> QED
    BY <2>1, FreesHeld
<1>10. /\ peer' \in [Peer -> Record] /\ \A q \in Peer : peer'[q].conn = peer[q].conn
       /\ Watched'
  <2> DEFINE b == syncing /\ p = downloadPeer
  <2> DEFINE r == [Seen(p, t) EXCEPT !.timer = @ \/ b]
  <2>1. peer' = Told([peer EXCEPT ![p] = r]) /\ b \in BOOLEAN
    BY DEF RelayedTx
  <2> HIDE DEF b
  <2>2. /\ r \in Record /\ r.conn = peer[p].conn /\ r.told = peer[p].told
        /\ peer[p].timer => r.timer \/ Pending(publishedTx) \subseteq {t}
    BY <2>1, SeenRecord DEF Inv
  <2> HIDE DEF r
  <2> QED
    BY <1>4, <1>8, <2>1, <2>2, SeenStep
<1>11. Types'
  <2>1. txRelays' \in [Tx -> SUBSET Peer] /\ txRequests' \in [Tx -> SUBSET Peer]
    BY DEF RelayedTx, Inv, Types
  <2>2. UNCHANGED <<confirmed, downloadPeer, syncing, publishing>>
    BY DEF RelayedTx
  <2> QED
    BY <1>3, <1>7, <1>9, <1>10, <2>1, <2>2 DEF Inv, Types
<1>12. RelaysConnected'
  <2>1. \A u \in Tx : txRelays'[u] \subseteq txRelays[u] \cup {p}
    BY DEF RelayedTx, Inv, Types
  <2>2. peer[p].conn = "connected"
    BY DEF RelayedTx
  <2> QED
    BY <1>10, <2>1, <2>2 DEF Inv, Types, RelaysConnected
<1>13. Calls'
  BY <1>4, <1>8, CallsSeen DEF RelayedTx
<1>14. Pointers'
  <2>1. publishing' = publishing
    BY DEF RelayedTx
  <2>2. /\ New(t) \notin freed
        /\ \A u \in Tx : publishedTx[u] # None => publishedTx[u].tx # New(t)
        /\ publishing # None => publishing.tx # New(t)
    BY <1>1, NotHeld DEF Inv
  <2>3. \A u \in Tx : wallet'[u] \notin freed
    BY <1>3, <2>2 DEF Inv, Pointers, WalletLive
  <2>4. \A u \in Pending(publishedTx') :
          u \in Tx /\ u \in Pending(publishedTx) /\ publishedTx[u] # None /\ publishedTx'[u] = publishedTx[u]
    BY <1>4, <1>8 DEF Pending
  <2>5. \A u \in Pending(publishedTx') : publishedTx'[u].tx # wallet'[u] /\ publishedTx'[u].tx \notin freed
    BY <1>3, <2>2, <2>4 DEF Inv, Pointers, PendingLive
  <2>6. ASSUME publishing # None, NEW u \in Tx
        PROVE  wallet'[u] # publishing.tx /\ (publishedTx'[u] # None => publishedTx'[u].tx # publishing.tx)
    <3>1. wallet'[u] # publishing.tx
      BY <1>3, <2>2, <2>6 DEF Inv, Pointers
    <3>2. Called(t)[u] # None => Called(t)[u].tx # publishing.tx
      BY <1>4, <2>6 DEF Inv, Pointers
    <3>3. [tx |-> wallet'[u], call |-> None].tx = wallet'[u]
      OBVIOUS
    <3> QED
      BY <1>7, <3>1, <3>2, <3>3
  <2> QED
    BY <1>9, <2>1, <2>3, <2>5, <2>6 DEF Inv, Pointers, WalletLive, PendingLive
<1> QED
  BY <1>10, <1>11, <1>12, <1>13, <1>14 DEF Inv

\* The wallet gets at most what the list has, entries go, and S is freed, which nobody uses any more.
LEMMA PointersStep ==
  ASSUME Inv, NEW S, Frees(S), publishing' = publishing,
         \A u \in Tx : \/ wallet'[u] = wallet[u] \/ wallet'[u] = None
                       \/ /\ publishedTx[u] # None /\ wallet'[u] = publishedTx[u].tx
                          /\ publishedTx[u].tx \notin freed /\ u \notin Pending(publishedTx'),
         \A u \in Tx : publishedTx'[u] # None => publishedTx[u] # None /\ publishedTx'[u].tx = publishedTx[u].tx,
         Pending(publishedTx') \subseteq Pending(publishedTx),
         S \subseteq Obj,
         \A u \in Tx : wallet'[u] \notin S,
         \A u \in Pending(publishedTx') : publishedTx[u].tx \notin S,
         publishing # None => publishing.tx \notin S
  PROVE  Pointers'
<1>1. freed' \subseteq freed \cup S /\ freed' \subseteq Held(wallet', publishedTx', publishing')
  BY FreesHeld
<1>2. \A u \in Pending(publishedTx') : /\ u \in Tx /\ u \in Pending(publishedTx)
                                       /\ publishedTx[u] # None /\ publishedTx'[u].tx = publishedTx[u].tx
                                       /\ publishedTx[u].tx # None
  <2> SUFFICES ASSUME NEW u \in Pending(publishedTx')
               PROVE  /\ u \in Tx /\ u \in Pending(publishedTx)
                      /\ publishedTx[u] # None /\ publishedTx'[u].tx = publishedTx[u].tx
                      /\ publishedTx[u].tx # None
    OBVIOUS
  <2>1. u \in Tx /\ publishedTx[u] # None /\ publishedTx'[u].tx = publishedTx[u].tx
    BY DEF Pending
  <2>2. publishedTx[u].tx \in Objects(u)
    BY <2>1, EntryFacts DEF Inv, Types
  <2> QED
    BY <2>1, <2>2, ObjectFacts
<1>3. None \notin freed
  BY ObjectFacts DEF Inv, Types
<1>4. \A u \in Tx : wallet'[u] \notin freed
  BY <1>3 DEF Inv, Pointers, WalletLive
<1>5. \A u \in Pending(publishedTx') : publishedTx'[u].tx # wallet'[u] /\ publishedTx'[u].tx \notin freed
  BY <1>2 DEF Inv, Pointers, PendingLive
<1>6. publishing # None => publishing.tx # None
  BY ObjectFacts DEF Inv, Types
<1>7. publishing # None =>
        \A u \in Tx : /\ wallet'[u] # publishing.tx
                      /\ publishedTx'[u] # None => publishedTx'[u].tx # publishing.tx
  BY <1>6 DEF Inv, Pointers
<1> QED
  BY <1>1, <1>2, <1>4, <1>5, <1>7 DEF Inv, Pointers, WalletLive, PendingLive

\* Two objects of two transactions are two.
LEMMA Apart ==
  ASSUME Types, NEW t \in Tx, publishedTx[t] # None
  PROVE  /\ publishedTx[t].tx \in Objects(t) /\ publishedTx[t].tx \in Obj /\ publishedTx[t].tx # None
         /\ \A u \in Tx \ {t} : /\ wallet[u] # publishedTx[t].tx
                                /\ publishedTx[u] # None => publishedTx[u].tx # publishedTx[t].tx
<1>1. publishedTx[t].tx \in Objects(t) /\ \A u \in Tx : publishedTx[u] # None => publishedTx[u].tx \in Objects(u)
  BY EntryFacts DEF Types
<1>2. \A u \in Tx : wallet[u] \in Objects(u) \cup {None}
  BY DEF Types
<1> QED
  BY <1>1, <1>2, ObjectFacts

\* A transaction that a peer has is registered, and its callback is called.
LEMMA InvHasTx ==
  ASSUME Inv, NEW p \in Peer, NEW t \in Tx, HasTx(p, t)
  PROVE  Inv'
<1>1. publishedTx' = Called(t) /\ UNCHANGED <<confirmed, downloadPeer, syncing, publishing>> /\ Frees({})
  BY DEF HasTx
<1>2. /\ Called(t) \in [Tx -> Entries \cup {None}] /\ \A u \in Tx : Called(t)[u] \in Entry(u) \cup {None}
      /\ \A u \in Tx \ {t} : Called(t)[u] = publishedTx[u]
      /\ Called(t)[t] = None <=> publishedTx[t] = None
      /\ publishedTx[t] # None => Called(t)[t].tx = publishedTx[t].tx /\ Called(t)[t].call = None
      /\ Pending(Called(t)) = Pending(publishedTx) \ {t}
  BY CalledFacts DEF Inv
<1>3. /\ wallet' \in [Tx -> Obj \cup {None}] /\ \A u \in Tx : wallet'[u] \in Objects(u) \cup {None}
      /\ \A u \in Tx : \/ wallet'[u] = wallet[u]
                       \/ /\ u = t /\ publishedTx[u] # None /\ wallet'[u] = publishedTx[u].tx
                          /\ publishedTx[u].tx \notin freed
  <2>1. wallet \in [Tx -> Obj \cup {None}] /\ \A u \in Tx : wallet[u] \in Objects(u) \cup {None}
    BY DEF Inv, Types
  <2>2. CASE wallet[t] = None /\ publishedTx[t] # None
    <3>1. wallet' = [wallet EXCEPT ![t] = publishedTx[t].tx] /\ publishedTx[t].tx \notin freed
      BY <2>2 DEF HasTx, Readable
    <3>2. publishedTx[t].tx \in Objects(t) /\ publishedTx[t].tx \in Obj
      BY <2>2, Apart DEF Inv
    <3> QED
      BY <2>1, <2>2, <3>1, <3>2
  <2>3. CASE ~(wallet[t] = None /\ publishedTx[t] # None)
    BY <2>1, <2>3 DEF HasTx
  <2> QED
    BY <2>2, <2>3
<1>4. /\ peer' \in [Peer -> Record] /\ \A q \in Peer : peer'[q].conn = peer[q].conn
      /\ Watched'
  <2> DEFINE b == (wallet[t] # None \/ publishedTx[t] # None) /\ syncing /\ p = downloadPeer
  <2> DEFINE r == [Seen(p, t) EXCEPT !.timer = @ \/ b]
  <2>1. peer' = Told([peer EXCEPT ![p] = r]) /\ b \in BOOLEAN
    BY DEF HasTx
  <2> HIDE DEF b
  <2>2. /\ r \in Record /\ r.conn = peer[p].conn /\ r.told = peer[p].told
        /\ peer[p].timer => r.timer \/ Pending(publishedTx) \subseteq {t}
    BY <2>1, SeenRecord DEF Inv
  <2> HIDE DEF r
  <2> QED
    BY <1>1, <1>2, <2>1, <2>2, SeenStep
<1>5. freed' \subseteq freed
  BY <1>1, FreesHeld
<1>6. Types'
  <2>1. txRelays' \in [Tx -> SUBSET Peer] /\ txRequests' \in [Tx -> SUBSET Peer]
    BY DEF HasTx, Inv, Types
  <2> QED
    BY <1>1, <1>2, <1>3, <1>4, <1>5, <2>1 DEF Inv, Types
<1>7. RelaysConnected'
  <2>1. \A u \in Tx : txRelays'[u] \subseteq txRelays[u] \cup {p}
    BY DEF HasTx, Inv, Types
  <2>2. peer[p].conn = "connected"
    BY DEF HasTx
  <2> QED
    BY <1>4, <2>1, <2>2 DEF Inv, Types, RelaysConnected
<1>8. Calls'
  <2>1. \A u \in Pending(publishedTx') : publishedTx'[u].call = publishedTx[u].call
    BY <1>1, <1>2, PendingTx
  <2> QED
    BY <1>1, <1>2, <2>1, CallsSeen DEF HasTx
<1>9. Pointers'
  <2>1. \A u \in Tx : publishedTx'[u] # None => publishedTx[u] # None /\ publishedTx'[u].tx = publishedTx[u].tx
    BY <1>1, <1>2
  <2> QED
    BY <1>1, <1>2, <1>3, <2>1, PointersStep
<1> QED
  BY <1>4, <1>6, <1>7, <1>8, <1>9 DEF Inv

\* A requested transaction is registered, or given up, and its callback is called.
LEMMA InvRequestedTx ==
  ASSUME Inv, NEW p \in Peer, NEW t \in Tx, NEW valid \in BOOLEAN, RequestedTx(p, t, valid)
  PROVE  Inv'
<1> DEFINE S == IF ~valid /\ Unowned(t) THEN {publishedTx[t].tx} ELSE {}
<1>1. UNCHANGED <<confirmed, txRequests, downloadPeer, syncing, publishing>> /\ Frees(S)
  BY DEF RequestedTx
<1>2. /\ Called(t) \in [Tx -> Entries \cup {None}] /\ \A u \in Tx : Called(t)[u] \in Entry(u) \cup {None}
      /\ \A u \in Tx \ {t} : Called(t)[u] = publishedTx[u]
      /\ Called(t)[t] = None <=> publishedTx[t] = None
      /\ publishedTx[t] # None => Called(t)[t].tx = publishedTx[t].tx /\ Called(t)[t].call = None
      /\ Pending(Called(t)) = Pending(publishedTx) \ {t}
  BY CalledFacts DEF Inv
<1>3. /\ publishedTx' \in [Tx -> Entries \cup {None}] /\ \A u \in Tx : publishedTx'[u] \in Entry(u) \cup {None}
      /\ \A u \in Tx \ {t} : publishedTx'[u] = publishedTx[u]
      /\ publishedTx'[t] # None => publishedTx[t] # None /\ publishedTx'[t].tx = publishedTx[t].tx
      /\ Pending(publishedTx') = Pending(publishedTx) \ {t}
  <2>1. CASE publishedTx[t] # None /\ ~valid
    <3>1. publishedTx' = [publishedTx EXCEPT ![t] = None]
      BY <2>1 DEF RequestedTx
    <3>2. publishedTx \in [Tx -> Entries \cup {None}] /\ \A u \in Tx : publishedTx[u] \in Entry(u) \cup {None}
      BY DEF Inv, Types
    <3>3. publishedTx'[t] = None /\ \A u \in Tx \ {t} : publishedTx'[u] = publishedTx[u]
      BY <3>1, <3>2
    <3>4. Pending(publishedTx') = Pending(publishedTx) \ {t}
      BY <3>3 DEF Pending
    <3> QED
      BY <3>1, <3>2, <3>3, <3>4
  <2>2. CASE ~(publishedTx[t] # None /\ ~valid)
    <3>1. publishedTx' = Called(t)
      BY <2>2 DEF RequestedTx
    <3> QED
      BY <1>2, <3>1
  <2> QED
    BY <2>1, <2>2
<1>4. /\ wallet' \in [Tx -> Obj \cup {None}] /\ \A u \in Tx : wallet'[u] \in Objects(u) \cup {None}
      /\ \A u \in Tx : \/ wallet'[u] = wallet[u]
                       \/ /\ u = t /\ valid /\ publishedTx[u] # None /\ wallet'[u] = publishedTx[u].tx
                          /\ publishedTx[u].tx \notin freed
  <2>1. wallet \in [Tx -> Obj \cup {None}] /\ \A u \in Tx : wallet[u] \in Objects(u) \cup {None}
    BY DEF Inv, Types
  <2>2. CASE wallet[t] = None /\ publishedTx[t] # None /\ valid
    <3>1. wallet' = [wallet EXCEPT ![t] = publishedTx[t].tx] /\ publishedTx[t].tx \notin freed
      BY <2>2 DEF RequestedTx, Readable
    <3>2. publishedTx[t].tx \in Objects(t) /\ publishedTx[t].tx \in Obj
      BY <2>2, Apart DEF Inv
    <3> QED
      BY <2>1, <2>2, <3>1, <3>2
  <2>3. CASE ~(wallet[t] = None /\ publishedTx[t] # None /\ valid)
    BY <2>1, <2>3 DEF RequestedTx
  <2> QED
    BY <2>2, <2>3
<1>5. /\ peer' \in [Peer -> Record] /\ \A q \in Peer : peer'[q].conn = peer[q].conn
      /\ Watched'
  <2>1. peer' = Told([peer EXCEPT ![p] = Seen(p, t)])
    BY DEF RequestedTx
  <2>2. /\ Seen(p, t) \in Record /\ Seen(p, t).conn = peer[p].conn /\ Seen(p, t).told = peer[p].told
        /\ peer[p].timer => Seen(p, t).timer \/ Pending(publishedTx) \subseteq {t}
    BY SeenRecord DEF Inv
  <2> QED
    BY <1>3, <2>1, <2>2, SeenStep
<1>6. S \subseteq Obj /\ (S # {} => ~valid /\ wallet[t] = None /\ publishedTx[t] # None /\ S = {publishedTx[t].tx})
  BY Apart DEF Inv, Unowned
<1> HIDE DEF S
<1>7. Types'
  <2>1. txRelays' \in [Tx -> SUBSET Peer]
    BY DEF RequestedTx, Inv, Types
  <2>2. freed' \subseteq freed \cup S
    BY <1>1, FreesHeld
  <2> QED
    BY <1>1, <1>3, <1>4, <1>5, <1>6, <2>1, <2>2 DEF Inv, Types
<1>8. RelaysConnected'
  <2>1. \A u \in Tx : txRelays'[u] \subseteq txRelays[u] \cup {p}
    BY DEF RequestedTx, Inv, Types
  <2>2. peer[p].conn = "connected"
    BY DEF RequestedTx
  <2> QED
    BY <1>5, <2>1, <2>2 DEF Inv, Types, RelaysConnected
<1>9. Calls'
  <2>1. \A u \in Pending(publishedTx') : publishedTx'[u].call = publishedTx[u].call
    BY <1>3, PendingTx
  <2> QED
    BY <1>1, <1>3, <2>1, CallsSeen DEF RequestedTx
<1>10. Pointers'
  <2>1. S # {} => /\ \A u \in Tx : wallet'[u] # publishedTx[t].tx
                  /\ \A u \in Tx \ {t} : publishedTx[u] # None => publishedTx[u].tx # publishedTx[t].tx
    BY <1>4, <1>6, Apart DEF Inv
  <2>2. \A u \in Tx : wallet'[u] \notin S
    BY <1>6, <2>1
  <2>3. \A u \in Pending(publishedTx') : publishedTx[u].tx \notin S
    <3>1. \A u \in Pending(publishedTx') : u \in Tx \ {t} /\ publishedTx[u] # None
      BY <1>3 DEF Pending
    <3> QED
      BY <1>6, <2>1, <3>1
  <2>4. publishing # None => publishing.tx \notin S
    BY <1>6 DEF Inv, Pointers
  <2>5. \A u \in Tx : publishedTx'[u] # None => publishedTx[u] # None /\ publishedTx'[u].tx = publishedTx[u].tx
    BY <1>3
  <2> QED
    BY <1>1, <1>3, <1>4, <1>6, <2>2, <2>3, <2>4, <2>5, PointersStep
<1> QED
  BY <1>5, <1>7, <1>8, <1>9, <1>10 DEF Inv

-----------------------------------------------------------------------------
(* The calls.                                                                *)

\* A call with a download peer publishes a new object.
LEMMA InvPublishTx ==
  ASSUME Inv, NEW c \in Call, PublishTx(c)
  PROVE  Inv'
<1> DEFINE o == New(Subject[c])
<1>1. Subject[c] \in Tx /\ o \in Objects(Subject[c]) /\ o \notin Held(wallet, publishedTx, publishing) /\ o # None
  BY NewObject, ObjectFacts DEF PublishTx
<1>2. publishing = None /\ answers[c] = "none" /\ Publishes(o, c)
  BY DEF PublishTx
<1> HIDE DEF o
<1>3. o \notin freed /\ \A u \in Tx : wallet[u] # o /\ (publishedTx[u] # None => publishedTx[u].tx # o)
  BY <1>1, NotHeld DEF Inv
<1>4. \A u \in Pending(publishedTx) : publishedTx[u].call # c
  BY <1>2 DEF Inv, Calls, CalledOnce
<1> QED
  BY <1>1, <1>2, <1>3, <1>4, InvPublishes

\* A call that let go of the lock publishes its object, which nobody else has.
LEMMA InvPublishGoesOn ==
  ASSUME Inv, PublishGoesOn
  PROVE  Inv'
<1>1. /\ publishing # None /\ publishing.call \in Call /\ publishing.tx \in Objects(Subject[publishing.call])
      /\ Publishes(publishing.tx, publishing.call)
  BY DEF PublishGoesOn, Inv, Types
<1>2. /\ publishing.tx \notin freed
      /\ \A u \in Tx : wallet[u] # publishing.tx /\ (publishedTx[u] # None => publishedTx[u].tx # publishing.tx)
  BY <1>1 DEF Inv, Pointers
<1>3. \A u \in Pending(publishedTx) : publishedTx[u].call # publishing.call
  BY <1>1 DEF Inv, Calls
<1> QED
  BY <1>1, <1>2, <1>3, InvPublishes

-----------------------------------------------------------------------------
(* Blocks, and what is given up.                                             *)

\* Some entries are taken from the list.
LEMMA Taken ==
  ASSUME Types, NEW S, publishedTx' = [t \in Tx |-> IF t \in S THEN None ELSE publishedTx[t]]
  PROVE  /\ publishedTx' \in [Tx -> Entries \cup {None}] /\ \A u \in Tx : publishedTx'[u] \in Entry(u) \cup {None}
         /\ Pending(publishedTx') = Pending(publishedTx) \ S
         /\ \A u \in Pending(publishedTx') : publishedTx'[u] = publishedTx[u]
         /\ \A u \in Tx : publishedTx'[u] # None => publishedTx[u] # None /\ publishedTx'[u].tx = publishedTx[u].tx
<1>1. publishedTx \in [Tx -> Entries \cup {None}] /\ \A u \in Tx : publishedTx[u] \in Entry(u) \cup {None}
  BY DEF Types
<1>2. \A u \in Tx : publishedTx'[u] = None \/ (u \notin S /\ publishedTx'[u] = publishedTx[u])
  OBVIOUS
<1>3. Pending(publishedTx') = Pending(publishedTx) \ S
  <2>1. \A u \in Tx : u \notin S => publishedTx'[u] = publishedTx[u]
    OBVIOUS
  <2> QED
    BY <1>2, <2>1 DEF Pending
<1> QED
  BY <1>1, <1>2, <1>3, PendingTx

\* A block's transactions are published no more; those the wallet does not have are freed.
LEMMA InvRelayedBlock ==
  ASSUME Inv, NEW p \in Peer, NEW S \in SUBSET Minable, NEW at, NEW reload, RelayedBlock(p, S, at, reload)
  PROVE  Inv'
<1> DEFINE F == {publishedTx[t].tx : t \in {u \in S : Unowned(u)}}
<1>1. /\ S \in SUBSET Tx /\ UNCHANGED <<wallet, publishing, txRequests, downloadPeer, syncing>>
      /\ publishedTx' = [t \in Tx |-> IF t \in S THEN None ELSE publishedTx[t]]
      /\ Answer({}, UNION {Callback(t) : t \in S}) /\ Frees(F)
  BY PublishAssumption DEF RelayedBlock, Confirmed
<1>2. /\ publishedTx' \in [Tx -> Entries \cup {None}] /\ \A u \in Tx : publishedTx'[u] \in Entry(u) \cup {None}
      /\ Pending(publishedTx') = Pending(publishedTx) \ S
      /\ \A u \in Pending(publishedTx') : publishedTx'[u] = publishedTx[u]
      /\ \A u \in Tx : publishedTx'[u] # None => publishedTx[u] # None /\ publishedTx'[u].tx = publishedTx[u].tx
  BY <1>1, Taken DEF Inv
<1>3. \A x \in F : \E t \in S : publishedTx[t] # None /\ wallet[t] = None /\ x = publishedTx[t].tx
  BY DEF Unowned
<1> HIDE DEF F
<1>4. F \subseteq Obj /\ (\A u \in Tx : wallet'[u] \notin F) /\ (publishing # None => publishing.tx \notin F)
  <2> SUFFICES ASSUME NEW x \in F
               PROVE  x \in Obj /\ (\A u \in Tx : wallet[u] # x) /\ (publishing # None => publishing.tx # x)
    BY <1>1
  <2>1. PICK t \in S : publishedTx[t] # None /\ wallet[t] = None /\ x = publishedTx[t].tx
    BY <1>3
  <2>2. x \in Obj /\ x # None /\ \A u \in Tx \ {t} : wallet[u] # x
    BY <1>1, <2>1, Apart DEF Inv
  <2> QED
    BY <1>1, <2>1, <2>2 DEF Inv, Pointers
<1>5. \A u \in Pending(publishedTx') : publishedTx[u].tx \notin F
  <2> SUFFICES ASSUME NEW u \in Pending(publishedTx'), NEW t \in S, publishedTx[t] # None
               PROVE  publishedTx[u].tx # publishedTx[t].tx
    BY <1>3
  <2>1. u \in Tx \ {t} /\ publishedTx[u] # None
    BY <1>2 DEF Pending
  <2> QED
    BY <1>1, <2>1, Apart DEF Inv
<1>6. Pointers'
  BY <1>1, <1>2, <1>4, <1>5, PointersStep
<1>7. Calls'
  <2>1. {} \cap UNION {Callback(t) : t \in S} = {} /\ {} \cup UNION {Callback(t) : t \in S} = UNION {Callback(t) : t \in S}
    OBVIOUS
  <2> QED
    BY <1>1, <1>2, <2>1, CallsGiven DEF Inv
<1>8. /\ peer' \in [Peer -> Record] /\ \A q \in Peer : peer'[q].conn = peer[q].conn
      /\ Watched'
  <2> DEFINE told == Told(peer)
  <2>1. /\ told \in [Peer -> Record]
        /\ \A q \in Peer : /\ told[q].conn = peer[q].conn /\ told[q].timer = peer[q].timer
                           /\ told[q].told = peer[q].told \cap Pending(publishedTx')
    BY ToldRecords DEF Inv, Types
  <2>2. \/ peer' = told
        \/ peer' = [told EXCEPT ![p].timer = TRUE]
        \/ peer' = LoadMempools(told, publishedTx', downloadPeer, reload)
    BY DEF RelayedBlock
  <2> HIDE DEF told
  <2>3. CASE peer' = told
    BY <2>1, <2>3 DEF Inv, Watched
  <2>4. CASE peer' = [told EXCEPT ![p].timer = TRUE]
    <3>1. peer' = [told EXCEPT ![p] = [told[p] EXCEPT !.timer = TRUE]]
      BY <2>4
    <3>2. /\ [told[p] EXCEPT !.timer = TRUE] \in Record /\ [told[p] EXCEPT !.timer = TRUE].conn = told[p].conn
          /\ [told[p] EXCEPT !.timer = TRUE].told = told[p].told /\ [told[p] EXCEPT !.timer = TRUE].timer
      BY <2>1, TimerRecord
    <3> HIDE DEF F
    <3>3. /\ peer' \in [Peer -> Record]
          /\ \A q \in Peer : /\ peer'[q].conn = told[q].conn /\ peer'[q].told = told[q].told
                             /\ peer'[q].timer \/ peer'[q].timer = told[q].timer
      BY <2>1, <3>1, <3>2
    <3> QED
      BY <2>1, <3>3 DEF Inv, Watched
  <2>5. CASE peer' = LoadMempools(told, publishedTx', downloadPeer, reload)
    <3>1. /\ peer' \in [Peer -> Record]
          /\ \A q \in Peer :
               /\ peer'[q].conn = told[q].conn
               /\ \/ peer'[q].told = told[q].told /\ peer'[q].timer = told[q].timer
                  \/ peer'[q].told = Pending(publishedTx')
                     /\ peer'[q].timer = (told[q].timer \/ Pending(publishedTx') # {})
      BY <2>1, <2>5, LoadMempoolsRecords
    <3> QED
      BY <2>1, <3>1 DEF Inv, Watched
  <2> QED
    BY <2>2, <2>3, <2>4, <2>5
<1>9. Types'
  <2>1. confirmed' \in SUBSET Tx /\ txRelays' \in [Tx -> SUBSET Peer]
    BY <1>1 DEF RelayedBlock, Confirmed, Inv, Types
  <2>2. freed' \subseteq Obj
    BY <1>1, <1>4, FreesHeld DEF Inv, Types
  <2> QED
    BY <1>1, <1>2, <1>8, <2>1, <2>2 DEF Inv, Types
<1>10. RelaysConnected'
  <2>1. \A u \in Tx : txRelays'[u] \subseteq txRelays[u]
    BY DEF RelayedBlock, Confirmed, Inv, Types
  <2> QED
    BY <1>8, <2>1 DEF Inv, Types, RelaysConnected
<1> QED
  BY <1>6, <1>7, <1>8, <1>9, <1>10 DEF Inv

\* What no peer has is removed from the wallet, with what depends on it, and freed.
LEMMA InvUnrelayedDone ==
  ASSUME Inv, NEW p \in Peer, UnrelayedDone(p)
  PROVE  Inv'
<1>1. PICK removed : /\ removed \subseteq {t \in Tx : wallet[t] # None}
                     /\ wallet' = [t \in Tx |-> IF t \in removed THEN None ELSE wallet[t]]
                     /\ Frees({wallet[t] : t \in removed})
  <2>1. WithDependents(Dropped) \subseteq {t \in Tx : wallet[t] # None}
    BY DEF WithDependents
  <2> QED
    BY <2>1 DEF UnrelayedDone
<1>2. UNCHANGED <<publishedTx, publishing, confirmed, txRelays, txRequests, downloadPeer, syncing, answers>>
  BY DEF UnrelayedDone, lists
<1> DEFINE F == {wallet[t] : t \in removed}
<1>3. \A t \in Tx : wallet[t] \in Objects(t) \cup {None} /\ wallet[t] \in Obj \cup {None}
  BY DEF Inv, Types
<1>4. \A x \in F : \E t \in removed : t \in Tx /\ wallet[t] # None /\ x = wallet[t] /\ x \in Objects(t) /\ x \in Obj
  BY <1>1, <1>3
<1>5. Frees(F)
  BY <1>1
<1> HIDE DEF F
<1>6. F \subseteq Obj /\ (\A u \in Tx : wallet'[u] \notin F) /\ (publishing # None => publishing.tx \notin F)
  <2> SUFFICES ASSUME NEW x \in F
               PROVE  x \in Obj /\ (\A u \in Tx : wallet'[u] # x) /\ (publishing # None => publishing.tx # x)
    OBVIOUS
  <2>1. PICK t \in removed : t \in Tx /\ wallet[t] # None /\ x = wallet[t] /\ x \in Objects(t) /\ x \in Obj
    BY <1>4
  <2>2. x # None /\ \A u \in Tx \ {t} : wallet[u] # x
    BY <1>3, <2>1, ObjectFacts
  <2>3. wallet'[t] = None /\ \A u \in Tx : wallet'[u] = None \/ wallet'[u] = wallet[u]
    BY <1>1, <2>1
  <2> QED
    BY <2>1, <2>2, <2>3 DEF Inv, Pointers
<1>7. Pending(publishedTx') = Pending(publishedTx)
  BY <1>2
<1>8. \A u \in Pending(publishedTx') : publishedTx[u].tx \notin F
  <2> SUFFICES ASSUME NEW u \in Pending(publishedTx), NEW t \in Tx, wallet[t] # None, publishedTx[u].tx = wallet[t]
               PROVE  FALSE
    BY <1>4, <1>7
  <2>1. u \in Tx /\ publishedTx[u] # None
    BY DEF Pending
  <2>2. t = u
    BY <2>1, Apart DEF Inv
  <2> QED
    BY <2>2 DEF Inv, Pointers
<1>9. Pointers'
  <2>1. \A u \in Tx : wallet'[u] = wallet[u] \/ wallet'[u] = None
    BY <1>1
  <2> QED
    BY <1>2, <1>5, <1>6, <1>7, <1>8, <2>1, PointersStep
<1>10. Calls'
  BY <1>2, <1>7 DEF Inv, Calls, CalledOnce
<1>11. /\ peer' \in [Peer -> Record]
       /\ \A q \in Peer : /\ peer'[q].conn = peer[q].conn /\ peer'[q].told = peer[q].told
                          /\ peer'[q].timer = peer[q].timer
  <2> DEFINE f == Without(p, "unrelayed")
  <2> DEFINE b == f[p].synced \/ peer[p].conn = "connected"
  <2>1. /\ f \in [Peer -> Record]
        /\ \A q \in Peer : f[q].conn = peer[q].conn /\ f[q].told = peer[q].told /\ f[q].timer = peer[q].timer
    BY WithoutRecords DEF Inv
  <2>2. peer' = [f EXCEPT ![p] = [f[p] EXCEPT !.synced = b]]
    BY DEF UnrelayedDone
  <2>3. b \in BOOLEAN
    BY <2>1 DEF Record
  <2> HIDE DEF f, b
  <2>4. ASSUME NEW r \in Record
        PROVE  /\ [r EXCEPT !.synced = b] \in Record /\ [r EXCEPT !.synced = b].conn = r.conn
               /\ [r EXCEPT !.synced = b].told = r.told /\ [r EXCEPT !.synced = b].timer = r.timer
    BY <2>3 DEF Record
  <2> QED
    BY <2>1, <2>2, <2>4
<1>12. Types'
  <2>1. wallet' \in [Tx -> Obj \cup {None}] /\ \A u \in Tx : wallet'[u] \in Objects(u) \cup {None}
    BY <1>1, <1>3
  <2>2. freed' \subseteq Obj
    BY <1>5, <1>6, FreesHeld DEF Inv, Types
  <2> QED
    BY <1>2, <1>11, <2>1, <2>2 DEF Inv, Types
<1>13. RelaysConnected' /\ Watched'
  BY <1>2, <1>7, <1>11 DEF Inv, Types, RelaysConnected, Watched
<1> QED
  BY <1>9, <1>10, <1>12, <1>13 DEF Inv

\* A peer that is gone relays nothing; what waits is cancelled, or goes on.
LEMMA InvPeerDisconnected ==
  ASSUME Inv, NEW p \in Peer, NEW failed \in BOOLEAN, PeerDisconnected(p, failed)
  PROVE  Inv'
<1>1. PICK S : /\ S = Pending(publishedTx) \/ S = {}
               /\ publishedTx' = Cancelled(S) /\ Answer(UNION {Callback(t) : t \in S}, {})
               /\ UNCHANGED <<wallet, publishing>> /\ Frees({publishedTx[t].tx : t \in S})
  BY DEF PeerDisconnected
<1>2. UNCHANGED <<confirmed, txRequests>> /\ S \subseteq Pending(publishedTx) /\ S \subseteq Tx
  BY <1>1, PendingTx DEF PeerDisconnected
<1>3. /\ publishedTx' \in [Tx -> Entries \cup {None}] /\ \A u \in Tx : publishedTx'[u] \in Entry(u) \cup {None}
      /\ Pending(publishedTx') = Pending(publishedTx) \ S
      /\ \A u \in Pending(publishedTx') : publishedTx'[u] = publishedTx[u]
      /\ \A u \in Tx : publishedTx'[u] # None => publishedTx[u] # None /\ publishedTx'[u].tx = publishedTx[u].tx
  BY <1>1, Taken DEF Inv, Cancelled
<1> DEFINE F == {publishedTx[t].tx : t \in S}
<1>4. \A x \in F : \E t \in S : x = publishedTx[t].tx
  OBVIOUS
<1>5. Frees(F)
  BY <1>1
<1> HIDE DEF F
<1>6. F \subseteq Obj /\ (\A u \in Tx : wallet'[u] \notin F) /\ (publishing # None => publishing.tx \notin F)
  <2> SUFFICES ASSUME NEW x \in F
               PROVE  x \in Obj /\ (\A u \in Tx : wallet[u] # x) /\ (publishing # None => publishing.tx # x)
    BY <1>1
  <2>1. PICK t \in S : x = publishedTx[t].tx
    BY <1>4
  <2>2. t \in Tx /\ publishedTx[t] # None
    BY <1>2 DEF Pending
  <2>3. x \in Obj /\ x # None /\ \A u \in Tx \ {t} : wallet[u] # x
    BY <2>1, <2>2, Apart DEF Inv
  <2> QED
    BY <1>2, <2>1, <2>2, <2>3 DEF Inv, Pointers
<1>7. \A u \in Pending(publishedTx') : publishedTx[u].tx \notin F
  <2> SUFFICES ASSUME NEW u \in Pending(publishedTx'), NEW t \in S
               PROVE  publishedTx[u].tx # publishedTx[t].tx
    BY <1>4
  <2>1. u \in Tx \ {t} /\ publishedTx[u] # None /\ t \in Tx /\ publishedTx[t] # None
    BY <1>2, <1>3 DEF Pending
  <2> QED
    BY <2>1, Apart DEF Inv
<1>8. Pointers'
  BY <1>1, <1>3, <1>5, <1>6, <1>7, PointersStep
<1>9. Calls'
  <2>1. (UNION {Callback(t) : t \in S}) \cap {} = {} /\ (UNION {Callback(t) : t \in S}) \cup {} = UNION {Callback(t) : t \in S}
    OBVIOUS
  <2> QED
    BY <1>1, <1>2, <1>3, <2>1, CallsGiven DEF Inv
<1>10. /\ peer' \in [Peer -> Record] /\ \A q \in Peer \ {p} : peer'[q].conn = peer[q].conn
       /\ Watched'
  <2> DEFINE f == [peer EXCEPT ![p] = Fresh("free")]
  <2>1. /\ f \in [Peer -> Record]
        /\ \A q \in Peer \ {p} : f[q] = peer[q]
        /\ f[p].told = {}
    BY FreshRecord DEF Inv, Types
  <2>2. peer' = Told(f)
    BY DEF PeerDisconnected
  <2> HIDE DEF f
  <2>3. /\ peer' \in [Peer -> Record]
        /\ \A q \in Peer : /\ peer'[q].conn = f[q].conn /\ peer'[q].timer = f[q].timer
                           /\ peer'[q].told = f[q].told \cap Pending(publishedTx')
    BY <2>1, <2>2, ToldRecords
  <2> QED
    BY <2>1, <2>3 DEF Inv, Watched
<1>11. /\ txRelays' \in [Tx -> SUBSET Peer]
       /\ \A u \in Tx : txRelays'[u] \subseteq txRelays[u] \ {p}
  BY DEF PeerDisconnected, RelaysWithout, Inv, Types
<1>12. Types'
  <2>1. downloadPeer' \in Peer \cup {None} /\ syncing' \in BOOLEAN
    BY DEF PeerDisconnected, Inv, Types
  <2>2. freed' \subseteq Obj
    BY <1>5, <1>6, FreesHeld DEF Inv, Types
  <2> QED
    BY <1>1, <1>2, <1>3, <1>10, <1>11, <2>1, <2>2 DEF Inv, Types
<1>13. RelaysConnected'
  BY <1>10, <1>11 DEF Inv, Types, RelaysConnected
<1> QED
  BY <1>8, <1>9, <1>10, <1>12, <1>13 DEF Inv

-----------------------------------------------------------------------------
(* Steps of the peers that leave the publications as they are.               *)

\* Nothing was told when nothing is pending.
LEMMA NothingTold == Inv => \A q \in Peer : Pending(publishedTx) = {} => peer[q].told = {}
BY DEF Inv, Watched

\* Who relayed, or was asked for, a transaction is told of no more.
LEMMA InvForgotten ==
  ASSUME Inv, NEW p \in Peer, NEW t \in Tx, NEW hashes \in SUBSET Tx, RejectedTx(p, t) \/ DataNotfound(p, hashes)
  PROVE  Inv'
<1>1. UNCHANGED <<wallet, publishedTx, publishing, answers, freed, confirmed, peer, downloadPeer, syncing>>
  BY DEF RejectedTx, DataNotfound, peers
<1>2. txRelays \in [Tx -> SUBSET Peer] /\ txRequests \in [Tx -> SUBSET Peer]
  BY DEF Inv, Types
<1>3. /\ txRelays' \in [Tx -> SUBSET Peer] /\ txRequests' \in [Tx -> SUBSET Peer]
      /\ \A u \in Tx : txRelays'[u] \subseteq txRelays[u]
  <2>1. CASE RejectedTx(p, t)
    BY <1>2, <2>1 DEF RejectedTx
  <2>2. CASE DataNotfound(p, hashes)
    BY <1>2, <2>2 DEF DataNotfound
  <2> QED
    BY <2>1, <2>2
<1> QED
  BY <1>1, <1>3, NothingTold, Records DEF Inv, Types

\* Blocks are undone, or a synchronization starts.
LEMMA InvChain ==
  ASSUME Inv, NEW S, Reorganized(S) \/ SyncStarts
  PROVE  Inv'
<1>1. /\ UNCHANGED <<wallet, publishedTx, publishing, answers, freed, txRelays, txRequests, peer, downloadPeer>>
      /\ confirmed' \in SUBSET Tx /\ syncing' \in BOOLEAN
  BY DEF Reorganized, SyncStarts, lists, peers, Inv, Types
<1> QED
  BY <1>1, NothingTold, Records DEF Inv, Types

\* One record changes: that of a peer that is not connected, or goes on as it was.
LEMMA InvGoes ==
  ASSUME Inv, NEW p \in Peer, NEW r \in Record, Goes(p, r),
         peer[p].conn \in {"connected", "ending"} => r.conn \in {"connected", "ending"},
         \/ r.told = peer[p].told /\ r.timer = peer[p].timer
         \/ r.told = {}
         \/ r.told = Pending(publishedTx) /\ (r.timer \/ Pending(publishedTx) = {})
  PROVE  Inv'
<1>1. /\ UNCHANGED <<wallet, publishedTx, publishing, answers, freed, confirmed, txRelays, txRequests>>
      /\ UNCHANGED <<downloadPeer, syncing>> /\ peer' = [peer EXCEPT ![p] = r]
  BY DEF Goes, lists
<1>2. /\ peer' \in [Peer -> Record] /\ peer'[p] = r /\ \A q \in Peer \ {p} : peer'[q] = peer[q]
  BY <1>1 DEF Inv, Types
<1> QED
  BY <1>1, <1>2, NothingTold, Records DEF Inv, Types

\* A connection begins, is made, and ends.
LEMMA InvConnection ==
  ASSUME Inv, NEW p \in Peer, NEW late \in BOOLEAN, Connect(p) \/ HandshakeCompleted(p) \/ Lost(p, late)
  PROVE  Inv'
<1>1. peer[p] \in Record
  BY DEF Inv, Types
<1>2. CASE Connect(p)
  BY <1>2, FreshRecord, InvGoes DEF Connect
<1>3. CASE HandshakeCompleted(p)
  <2> DEFINE r == [peer[p] EXCEPT !.conn = "greeting"]
  <2>1. r \in Record /\ r.told = peer[p].told /\ r.timer = peer[p].timer
    BY <1>1, ConnRecord
  <2>2. Goes(p, r) /\ peer[p].conn = "connecting"
    BY <1>3 DEF HandshakeCompleted
  <2> HIDE DEF r
  <2> QED
    BY <2>1, <2>2, InvGoes
<1>4. CASE Lost(p, late)
  <2> DEFINE r == [peer[p] EXCEPT !.conn = "ending", !.timer = FALSE, !.told = {}, !.late = late]
  <2>1. r \in Record /\ r.conn = "ending" /\ r.told = {}
    BY <1>1 DEF Record
  <2>2. Goes(p, r)
    BY <1>4 DEF Lost
  <2> HIDE DEF r
  <2> QED
    BY <2>1, <2>2, InvGoes
<1> QED
  BY <1>2, <1>3, <1>4

\* A peer greets, and is sent what is pending if its filter is loaded.
LEMMA InvPeerGreeted ==
  ASSUME Inv, NEW p \in Peer, NEW load \in BOOLEAN, PeerGreeted(p, load)
  PROVE  Inv'
<1> DEFINE r == [peer[p] EXCEPT !.conn = "connected"]
<1> DEFINE s == PublishPendingTx(r, publishedTx)
<1> DEFINE a == [s EXCEPT !.asked = @ \cup {"mempool"}]
<1>1. r \in Record /\ r.conn = "connected" /\ r.told = peer[p].told /\ r.timer = peer[p].timer
  BY ConnRecord DEF Inv, Types
<1>2. Goes(p, IF load THEN a ELSE r)
  BY DEF PeerGreeted
<1> HIDE DEF r
<1>3. /\ s \in Record /\ s.conn = r.conn /\ s.told = Pending(publishedTx)
      /\ s.timer = (r.timer \/ Pending(publishedTx) # {})
  BY <1>1, PublishPendingRecord
<1> HIDE DEF s
<1>4. a \in Record /\ a.conn = s.conn /\ a.told = s.told /\ a.timer = s.timer
  BY <1>3, AskedRecord
<1> HIDE DEF a
<1> QED
  BY <1>1, <1>2, <1>3, <1>4, InvGoes

\* Another peer is selected: it is sent what is pending, and a timer is set, or the mempools are loaded.
LEMMA InvPeerSelected ==
  ASSUME Inv, NEW p \in Peer, NEW q \in Peer, NEW behind \in BOOLEAN, NEW reload \in BOOLEAN,
         PeerSelected(p, q, behind, reload)
  PROVE  Inv'
<1> DEFINE f == [peer EXCEPT ![p].conn = "connected"]
<1> DEFINE g == [f EXCEPT ![q] = PublishPendingTx(@, publishedTx)]
<1>1. /\ UNCHANGED <<wallet, publishedTx, publishing, answers, freed, confirmed, txRelays, txRequests, syncing>>
      /\ downloadPeer' = q /\ peer[p].conn = "greeting"
      /\ peer' = IF behind THEN [g EXCEPT ![q].timer = TRUE] ELSE LoadMempools(g, publishedTx, q, reload)
  BY DEF PeerSelected, lists
<1>2. /\ f \in [Peer -> Record]
      /\ \A u \in Peer : f[u].told = peer[u].told /\ f[u].timer = peer[u].timer
      /\ \A u \in Peer : peer[u].conn \in {"connected", "ending"} => f[u].conn \in {"connected", "ending"}
  <2>1. peer \in [Peer -> Record]
    BY DEF Inv, Types
  <2>2. f = [peer EXCEPT ![p] = [peer[p] EXCEPT !.conn = "connected"]]
    OBVIOUS
  <2>3. /\ [peer[p] EXCEPT !.conn = "connected"] \in Record /\ [peer[p] EXCEPT !.conn = "connected"].conn = "connected"
        /\ [peer[p] EXCEPT !.conn = "connected"].told = peer[p].told
        /\ [peer[p] EXCEPT !.conn = "connected"].timer = peer[p].timer
    BY <2>1, ConnRecord
  <2> QED
    BY <2>1, <2>2, <2>3
<1> HIDE DEF f
<1>3. /\ g \in [Peer -> Record]
      /\ \A u \in Peer : g[u].conn = f[u].conn
      /\ \A u \in Peer \ {q} : g[u] = f[u]
      /\ g[q].told = Pending(publishedTx) /\ (g[q].timer \/ Pending(publishedTx) = {})
  <2> DEFINE s == PublishPendingTx(f[q], publishedTx)
  <2>1. /\ s \in Record /\ s.conn = f[q].conn /\ s.told = Pending(publishedTx)
        /\ s.timer = (f[q].timer \/ Pending(publishedTx) # {})
    BY <1>2, PublishPendingRecord
  <2>2. g = [f EXCEPT ![q] = s]
    OBVIOUS
  <2> HIDE DEF s
  <2>3. g \in [Peer -> Record] /\ g[q] = s /\ \A u \in Peer \ {q} : g[u] = f[u]
    BY <1>2, <2>1, <2>2
  <2> QED
    BY <2>1, <2>3
<1> HIDE DEF g
<1>4. /\ peer' \in [Peer -> Record]
      /\ \A u \in Peer : peer'[u].conn = g[u].conn
      /\ \A u \in Peer : \/ peer'[u].told = g[u].told /\ (peer'[u].timer \/ peer'[u].timer = g[u].timer)
                         \/ /\ peer'[u].told = Pending(publishedTx)
                            /\ peer'[u].timer \/ Pending(publishedTx) = {}
  <2>1. CASE behind
    <3>1. peer' = [g EXCEPT ![q] = [g[q] EXCEPT !.timer = TRUE]]
      BY <1>1, <2>1
    <3>2. /\ [g[q] EXCEPT !.timer = TRUE] \in Record /\ [g[q] EXCEPT !.timer = TRUE].conn = g[q].conn
          /\ [g[q] EXCEPT !.timer = TRUE].told = g[q].told /\ [g[q] EXCEPT !.timer = TRUE].timer
      BY <1>3, TimerRecord
    <3> QED
      BY <1>3, <3>1, <3>2
  <2>2. CASE ~behind
    <3>1. peer' = LoadMempools(g, publishedTx, q, reload)
      BY <1>1, <2>2
    <3>2. /\ peer' \in [Peer -> Record]
          /\ \A u \in Peer :
               /\ peer'[u].conn = g[u].conn
               /\ \/ peer'[u].told = g[u].told /\ peer'[u].timer = g[u].timer
                  \/ peer'[u].told = Pending(publishedTx) /\ peer'[u].timer = (g[u].timer \/ Pending(publishedTx) # {})
      BY <1>3, <3>1, LoadMempoolsRecords
    <3> QED
      BY <3>2
  <2> QED
    BY <2>1, <2>2
<1>5. \A u \in Peer : peer[u].conn \in {"connected", "ending"} => peer'[u].conn \in {"connected", "ending"}
  BY <1>2, <1>3, <1>4
<1>6. \A u \in Peer : \/ peer'[u].told = peer[u].told /\ (peer'[u].timer \/ peer'[u].timer = peer[u].timer)
                      \/ peer'[u].told = Pending(publishedTx) /\ (peer'[u].timer \/ Pending(publishedTx) = {})
  BY <1>2, <1>3, <1>4
<1> QED
  BY <1>1, <1>4, <1>5, <1>6, NothingTold, Records DEF Inv, Types

\* A completion is called: the mempool's, with success or not, or that of the ping after an inv.
LEMMA InvCompletions ==
  ASSUME Inv, NEW p \in Peer, NEW stops \in BOOLEAN, MempoolDone(p) \/ MempoolFailed(p, stops) \/ PublishTxInvDone(p)
  PROVE  Inv'
<1>1. /\ UNCHANGED <<wallet, publishedTx, publishing, answers, freed, confirmed, txRelays, downloadPeer>>
      /\ syncing' \in BOOLEAN
  BY DEF MempoolDone, MempoolFailed, PublishTxInvDone, lists, Inv, Types
<1>2. txRequests' \in [Tx -> SUBSET Peer]
  BY DEF MempoolDone, MempoolFailed, PublishTxInvDone, RequestUnrelayedTx, lists, Inv, Types
<1>3. PICK a \in {"mempool", "inv"}, d \in Peer \cup {None} :
        LET w == Without(p, a)
            f == SyncStopped(w, d)
        IN  peer' \in {w, f, [w EXCEPT ![p] = Requested(@, p)], [f EXCEPT ![p] = Requested(@, p)]}
  <2>1. downloadPeer \in Peer \cup {None}
    BY DEF Inv, Types
  <2>2. CASE MempoolDone(p)
    BY <2>1, <2>2 DEF MempoolDone
  <2>3. CASE MempoolFailed(p, stops)
    BY <2>1, <2>3 DEF MempoolFailed
  <2>4. CASE PublishTxInvDone(p)
    BY <2>1, <2>4 DEF PublishTxInvDone
  <2> QED
    BY <2>2, <2>3, <2>4
<1> DEFINE w == Without(p, a)
<1> DEFINE f == SyncStopped(w, d)
<1>4. /\ w \in [Peer -> Record]
      /\ \A q \in Peer : w[q].conn = peer[q].conn /\ w[q].told = peer[q].told /\ w[q].timer = peer[q].timer
  BY WithoutRecords DEF Inv
<1>5. peer' \in {w, f, [w EXCEPT ![p] = Requested(w[p], p)], [f EXCEPT ![p] = Requested(f[p], p)]}
  BY <1>3
<1> HIDE DEF w
<1>6. /\ f \in [Peer -> Record]
      /\ \A q \in Peer : /\ f[q].conn = w[q].conn /\ f[q].told = w[q].told
                         /\ f[q].timer = w[q].timer \/ Pending(publishedTx) = {}
  BY <1>4, SyncStoppedRecords
<1> HIDE DEF f
<1>7. ASSUME NEW h \in [Peer -> Record]
      PROVE  LET k == [h EXCEPT ![p] = Requested(h[p], p)]
             IN  /\ k \in [Peer -> Record]
                 /\ \A q \in Peer : k[q].conn = h[q].conn /\ k[q].told = h[q].told /\ k[q].timer = h[q].timer
  BY RequestedRecord
<1>8. /\ peer' \in [Peer -> Record]
      /\ \A q \in Peer : /\ peer'[q].conn = peer[q].conn /\ peer'[q].told = peer[q].told
                         /\ peer'[q].timer = peer[q].timer \/ Pending(publishedTx) = {}
  BY <1>4, <1>5, <1>6, <1>7
<1> QED
  BY <1>1, <1>2, <1>8, NothingTold, Records DEF Inv, Types

-----------------------------------------------------------------------------
(* Every step.                                                               *)

\* Every step of the manager keeps the invariant.
LEMMA InvStep == Inv /\ [Next]_vars => Inv'
<1> SUFFICES ASSUME Inv, [Next]_vars PROVE Inv'
  OBVIOUS
<1>1. CASE UNCHANGED vars
  <2>1. UNCHANGED <<wallet, publishedTx, publishing, answers, freed, confirmed, txRelays, txRequests>>
    BY <1>1 DEF vars, lists
  <2>2. UNCHANGED <<peer, downloadPeer, syncing>>
    BY <1>1 DEF vars, peers
  <2> QED
    BY <2>1, <2>2, NothingTold, Records DEF Inv, Types
<1>2. ASSUME NEW c \in Call, PublishTx(c) \/ PublishBegins(c) PROVE Inv'
  BY <1>2, InvPublishTx, InvPublishBegins
<1>3. CASE PublishGoesOn \/ PublishRefused
  BY <1>3, InvPublishGoesOn, InvPublishRefused
<1>4. ASSUME NEW S \in SUBSET Tx, SyncStarts \/ Reorganized(S) PROVE Inv'
  BY <1>4, InvChain
<1>5. ASSUME NEW p \in Peer, PeerStep(p) PROVE Inv'
  <2>1. ASSUME NEW load \in BOOLEAN, PeerGreeted(p, load) PROVE Inv'
    BY <2>1, InvPeerGreeted
  <2>2. ASSUME NEW q \in Peer, NEW behind \in BOOLEAN, NEW reload \in BOOLEAN, PeerSelected(p, q, behind, reload)
        PROVE  Inv'
    BY <2>2, InvPeerSelected
  <2>3. ASSUME NEW stops \in BOOLEAN, MempoolDone(p) \/ MempoolFailed(p, stops) \/ PublishTxInvDone(p) PROVE Inv'
    BY <2>3, InvCompletions
  <2>4. CASE UnrelayedDone(p)
    BY <2>4, InvUnrelayedDone
  <2>5. ASSUME NEW failed \in BOOLEAN, PeerDisconnected(p, failed) PROVE Inv'
    BY <2>5, InvPeerDisconnected
  <2> QED
    BY <1>5, <2>1, <2>2, <2>3, <2>4, <2>5 DEF PeerStep
<1>6. ASSUME NEW p \in Peer, RemoteStep(p) PROVE Inv'
  <2>1. ASSUME NEW late \in BOOLEAN, Connect(p) \/ HandshakeCompleted(p) \/ Lost(p, late) PROVE Inv'
    BY <2>1, InvConnection
  <2>2. ASSUME NEW t \in Tx, HasTx(p, t) PROVE Inv'
    BY <2>2, InvHasTx
  <2>3. ASSUME NEW t \in Tx, RejectedTx(p, t) PROVE Inv'
    BY <2>3, InvForgotten
  <2>4. ASSUME NEW t \in Tx, NEW valid \in BOOLEAN, RelayedTx(p, t, valid) \/ RequestedTx(p, t, valid) PROVE Inv'
    BY <2>4, InvRelayedTx, InvRequestedTx
  <2>5. ASSUME NEW hashes \in (SUBSET Tx) \ {{}}, DataNotfound(p, hashes) PROVE Inv'
    <3>1. hashes \in SUBSET Tx /\ \E t \in Tx : t \in hashes
      BY <2>5
    <3>2. PICK t \in Tx : t \in hashes
      BY <3>1
    <3> QED
      BY <2>5, <3>1, InvForgotten
  <2>6. ASSUME NEW S \in SUBSET Minable, NEW at \in {"behind", "end", "after"}, NEW reload \in BOOLEAN,
               RelayedBlock(p, S, at, reload)
        PROVE  Inv'
    BY <2>6, InvRelayedBlock
  <2> QED
    BY <1>6, <2>1, <2>2, <2>3, <2>4, <2>5, <2>6 DEF RemoteStep
<1> QED
  BY <1>1, <1>2, <1>3, <1>4, <1>5, <1>6 DEF Next

\* The invariant has what is to be shown.
LEMMA InvImplies == Inv => TypeOK /\ PublishInv /\ PointersLive /\ PendingWatched
<1> SUFFICES ASSUME Inv PROVE TypeOK /\ PublishInv /\ PointersLive /\ PendingWatched
  OBVIOUS
<1>1. TypeOK
  BY DEF Inv, Types, TypeOK, Calls, Entries, Record
<1>2. PublishInv
  BY <1>1 DEF Inv, Calls, PublishInv
<1> QED
  BY <1>1, <1>2 DEF Inv, Pointers, PointersLive, Watched, PendingWatched

\* The wallet, the list of published transactions, the relays and the peers are what the code makes them.
THEOREM TypeCorrect == Spec => []TypeOK
<1>1. Init => Inv
  BY InvInit
<1>2. Inv /\ [Next]_vars => Inv'
  BY InvStep
<1>3. Inv => TypeOK
  BY InvImplies
<1> QED
  BY <1>1, <1>2, <1>3, PTL DEF Spec

\* Each callback given to LWPeerManagerPublishTx waits in exactly one place until it is called, once, or
\* given up; and who is counted as relaying a transaction has a connection.
THEOREM PublishCorrect == Spec => []PublishInv
<1>1. Init => Inv
  BY InvInit
<1>2. Inv /\ [Next]_vars => Inv'
  BY InvStep
<1>3. Inv => PublishInv
  BY InvImplies
<1> QED
  BY <1>1, <1>2, <1>3, PTL DEF Spec

\* Neither the wallet nor a publication whose callback waits has a transaction that was freed, whatever is
\* cancelled, refused, found in a block or removed meanwhile.
THEOREM PointersCorrect == Spec => []PointersLive
<1>1. Init => Inv
  BY InvInit
<1>2. Inv /\ [Next]_vars => Inv'
  BY InvStep
<1>3. Inv => PointersLive
  BY InvImplies
<1> QED
  BY <1>1, <1>2, <1>3, PTL DEF Spec

\* A connected peer that was sent a transaction whose callback waits has a disconnect scheduled.
THEOREM WatchedCorrect == Spec => []PendingWatched
<1>1. Init => Inv
  BY InvInit
<1>2. Inv /\ [Next]_vars => Inv'
  BY InvStep
<1>3. Inv => PendingWatched
  BY InvImplies
<1> QED
  BY <1>1, <1>2, <1>3, PTL DEF Spec

=============================================================================
