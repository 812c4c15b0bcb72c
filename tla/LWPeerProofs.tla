---------------------------- MODULE LWPeerProofs ----------------------------
(***************************************************************************)
(* A connection to a peer: what it relays is complete and not too early,   *)
(* what is kept for a new filter are the last blocks announced, and each   *)
(* completion is called once, for any number of hashes and completions.    *)
(***************************************************************************)
EXTENDS LWPeer, LWIntegers, SequenceTheorems, TLAPS

-----------------------------------------------------------------------------
(* The ends of sequences.                                                    *)

\* s is the end of t, element by element.
IsEnd(s, t) == Len(s) <= Len(t) /\ \A i \in 1..Len(s) : s[i] = t[Len(t) - Len(s) + i]

\* IsSuffix says so.
LEMMA SuffixElements ==
  ASSUME NEW s \in Seq(Block), NEW t \in Seq(Block)
  PROVE  IsSuffix(s, t) <=> IsEnd(s, t)
<1>1. /\ Reverse(s) \in [1..Len(s) -> Block] /\ Reverse(t) \in [1..Len(t) -> Block]
      /\ Len(s) \in Nat /\ Len(t) \in Nat
  BY LenProperties, ElementOfSeq DEF Reverse
<1>2. /\ Reverse(s) \in Seq(Block) /\ Len(Reverse(s)) = Len(s)
      /\ Reverse(t) \in Seq(Block) /\ Len(Reverse(t)) = Len(t)
  <2>1. ASSUME NEW n \in Nat, NEW r \in [1..n -> Block] PROVE r \in Seq(Block) /\ Len(r) = n
    <3>1. r \in Seq(Block)
      BY SeqDef
    <3>2. Len(r) \in Nat /\ DOMAIN r = 1..Len(r)
      BY <3>1, LenProperties
    <3>3. DOMAIN r = 1..n
      OBVIOUS
    <3> QED
      BY <3>1, <3>2, <3>3
  <2> QED
    BY <1>1, <2>1
<1>3. CASE Len(s) > Len(t)
  BY <1>1, <1>2, <1>3 DEF IsSuffix, IsPrefix, IsEnd
<1>4. CASE Len(s) <= Len(t)
  <2> DEFINE a == SubSeq(Reverse(s), 1, Len(s))
  <2> DEFINE b == SubSeq(Reverse(t), 1, Len(s))
  <2>1. /\ a \in Seq(Block) /\ Len(a) = Len(s) /\ \A i \in 1..Len(s) : a[i] = Reverse(s)[i]
    <3>1. \A i \in 1..Len(s) : Reverse(s)[i] \in Block
      BY <1>1
    <3> QED
      BY <1>1, <3>1, SubSeqProperties, SMTT(30)
  <2>2. /\ b \in Seq(Block) /\ Len(b) = Len(s) /\ \A i \in 1..Len(s) : b[i] = Reverse(t)[i]
    <3>1. \A i \in 1..Len(s) : Reverse(t)[i] \in Block
      BY <1>1, <1>4
    <3> QED
      BY <1>1, <3>1, SubSeqProperties
  <2>3. IsSuffix(s, t) <=> a = b
    BY <1>2, <1>4 DEF IsSuffix, IsPrefix
  <2> HIDE DEF a, b
  <2>4. a = b <=> \A i \in 1..Len(s) : Reverse(s)[i] = Reverse(t)[i]
    BY <2>1, <2>2, SeqEqual
  <2>5. \A i \in 1..Len(s) : Reverse(s)[i] = s[Len(s) - i + 1] /\ Reverse(t)[i] = t[Len(t) - i + 1]
    BY <1>1, <1>4 DEF Reverse
  <2>6. ASSUME \A i \in 1..Len(s) : s[Len(s) - i + 1] = t[Len(t) - i + 1], NEW i \in 1..Len(s)
        PROVE  s[i] = t[Len(t) - Len(s) + i]
    <3>1. Len(s) - i + 1 \in 1..Len(s)
      BY <1>1
    <3>2. Len(s) - (Len(s) - i + 1) + 1 = i /\ Len(t) - (Len(s) - i + 1) + 1 = Len(t) - Len(s) + i
      BY <1>1
    <3> QED
      BY <2>6, <3>1, <3>2
  <2>7. ASSUME \A i \in 1..Len(s) : s[i] = t[Len(t) - Len(s) + i], NEW i \in 1..Len(s)
        PROVE  s[Len(s) - i + 1] = t[Len(t) - i + 1]
    <3>1. Len(s) - i + 1 \in 1..Len(s)
      BY <1>1
    <3>2. Len(t) - Len(s) + (Len(s) - i + 1) = Len(t) - i + 1
      BY <1>1
    <3> QED
      BY <2>7, <3>1, <3>2
  <2> QED
    BY <1>4, <2>3, <2>4, <2>5, <2>6, <2>7 DEF IsEnd
<1> QED
  BY <1>1, <1>3, <1>4

\* The end of an end is one, and a part that reaches to the end is.
LEMMA EndOfEnd ==
  ASSUME NEW s \in Seq(Block), NEW t \in Seq(Block), IsEnd(s, t)
  PROVE  /\ \A r \in Seq(Block) : IsEnd(r, s) => IsEnd(r, t)
         /\ IsEnd(s, s)
<1>1. Len(s) \in Nat /\ Len(t) \in Nat
  BY LenProperties
<1>2. ASSUME NEW r \in Seq(Block), IsEnd(r, s), NEW i \in 1..Len(r)
      PROVE  r[i] = t[Len(t) - Len(r) + i]
  <2>1. Len(r) \in Nat /\ Len(r) <= Len(s)
    BY <1>2, LenProperties DEF IsEnd
  <2>2. r[i] = s[Len(s) - Len(r) + i] /\ Len(s) - Len(r) + i \in 1..Len(s)
    BY <1>1, <1>2, <2>1 DEF IsEnd
  <2>3. s[Len(s) - Len(r) + i] = t[Len(t) - Len(s) + (Len(s) - Len(r) + i)]
    BY <2>2 DEF IsEnd
  <2>4. Len(t) - Len(s) + (Len(s) - Len(r) + i) = Len(t) - Len(r) + i
    BY <1>1, <2>1
  <2> QED
    BY <2>2, <2>3, <2>4
<1>3. \A r \in Seq(Block) : IsEnd(r, s) => Len(r) <= Len(t)
  BY <1>1, LenProperties DEF IsEnd
<1>4. IsEnd(s, s)
  BY <1>1 DEF IsEnd
<1> QED
  BY <1>2, <1>3, <1>4 DEF IsEnd

\* What is left of a sequence from i on is its end.
LEMMA RestEnds ==
  ASSUME NEW s \in Seq(Block), NEW i \in 1..Len(s)
  PROVE  /\ SubSeq(s, i, Len(s)) \in Seq(Block) /\ Len(SubSeq(s, i, Len(s))) = Len(s) - i + 1
         /\ IsEnd(SubSeq(s, i, Len(s)), s)
<1>1. Len(s) \in Nat /\ \A k \in 1..Len(s) : s[k] \in Block
  BY LenProperties, ElementOfSeq
<1> DEFINE r == SubSeq(s, i, Len(s))
<1>2. /\ r \in Seq(Block) /\ Len(r) = Len(s) - i + 1
      /\ \A k \in 1..Len(s) - i + 1 : r[k] = s[i + k - 1]
  <2>1. \A k \in i..Len(s) : s[k] \in Block
    BY <1>1
  <2> QED
    BY <1>1, <2>1, SubSeqProperties
<1> HIDE DEF r
<1>3. ASSUME NEW k \in 1..Len(r) PROVE r[k] = s[Len(s) - Len(r) + k]
  <2>1. Len(s) - Len(r) + k = i + k - 1
    BY <1>1, <1>2
  <2> QED
    BY <1>2, <2>1
<1> QED
  BY <1>1, <1>2, <1>3 DEF IsEnd, r

\* The same goes on both.
LEMMA EndsGoOn ==
  ASSUME NEW s \in Seq(Block), NEW t \in Seq(Block), NEW u \in Seq(Block), IsEnd(s, t)
  PROVE  IsEnd(s \o u, t \o u)
<1>1. Len(s) \in Nat /\ Len(t) \in Nat /\ Len(u) \in Nat /\ Len(s) <= Len(t)
  BY LenProperties DEF IsEnd
<1>2. Len(s \o u) = Len(s) + Len(u) /\ Len(t \o u) = Len(t) + Len(u)
  BY ConcatProperties
<1>3. ASSUME NEW i \in 1..Len(s) + Len(u)
      PROVE  (s \o u)[i] = (t \o u)[Len(t) - Len(s) + i]
  <2>1. (s \o u)[i] = IF i <= Len(s) THEN s[i] ELSE u[i - Len(s)]
    BY ConcatProperties
  <2>2. Len(t) - Len(s) + i \in 1..Len(t) + Len(u)
    BY <1>1
  <2>3. (t \o u)[Len(t) - Len(s) + i] =
          IF Len(t) - Len(s) + i <= Len(t) THEN t[Len(t) - Len(s) + i] ELSE u[Len(t) - Len(s) + i - Len(t)]
    BY <2>2, ConcatProperties
  <2>4. CASE i <= Len(s)
    <3>1. i \in 1..Len(s) /\ Len(t) - Len(s) + i <= Len(t)
      BY <1>1, <2>4
    <3> QED
      BY <2>1, <2>3, <2>4, <3>1 DEF IsEnd
  <2>5. CASE i > Len(s)
    <3>1. ~(i <= Len(s)) /\ ~(Len(t) - Len(s) + i <= Len(t)) /\ Len(t) - Len(s) + i - Len(t) = i - Len(s)
      BY <1>1, <2>5
    <3> QED
      BY <2>1, <2>3, <3>1
  <2> QED
    BY <1>1, <2>4, <2>5
<1>4. Len(t) + Len(u) - (Len(s) + Len(u)) = Len(t) - Len(s)
  BY <1>1
<1> QED
  BY <1>1, <1>2, <1>3, <1>4 DEF IsEnd

-----------------------------------------------------------------------------
(* Cut is what its definition says, by induction over the length.            *)

Kept(s) == SubSeq(s, Len(s) \div 3 + 1, Len(s))
Cuts(f, D) == f = [s \in D |-> IF Len(s) <= MaxGetdataHashes THEN s ELSE f[Kept(s)]]
Short(n) == {s \in Seq(Block) : Len(s) <= n}

\* What is cut is shorter, and the end of what it was cut from.
LEMMA KeptFacts ==
  ASSUME NEW s \in Seq(Block), Len(s) > MaxGetdataHashes
  PROVE  Kept(s) \in Seq(Block) /\ Len(Kept(s)) \in Nat /\ Len(Kept(s)) < Len(s) /\ IsEnd(Kept(s), s)
<1>1. Len(s) \in Nat /\ MaxGetdataHashes \in Nat /\ Len(s) >= 3
  BY LenProperties, PeerAssumption
<1> DEFINE i == Len(s) \div 3 + 1
<1>2. i \in 2..Len(s)
  BY <1>1
<1> HIDE DEF i
<1>3. i \in 1..Len(s) /\ Len(s) - i + 1 < Len(s) /\ Len(s) - i + 1 \in Nat
  BY <1>1, <1>2
<1>4. Kept(s) = SubSeq(s, i, Len(s))
  BY DEF Kept, i
<1> QED
  BY <1>3, <1>4, RestEnds

\* The value of such a function.
LEMMA CutsValue ==
  ASSUME NEW D, NEW f, Cuts(f, D), NEW s \in D
  PROVE  f[s] = IF Len(s) <= MaxGetdataHashes THEN s ELSE f[Kept(s)]
<1> DEFINE g == [x \in D |-> IF Len(x) <= MaxGetdataHashes THEN x ELSE f[Kept(x)]]
<1>1. f = g
  BY DEF Cuts
<1>2. g[s] = IF Len(s) <= MaxGetdataHashes THEN s ELSE f[Kept(s)]
  OBVIOUS
<1> HIDE DEF g
<1> QED
  BY <1>1, <1>2

\* There is one for the sequences of each length.
LEMMA CutsExists == \A n \in Nat : \E f : Cuts(f, Short(n))
<1> DEFINE S == {n \in Nat : ~ \E f : Cuts(f, Short(n))}
<1> SUFFICES ASSUME S # {} PROVE FALSE
  OBVIOUS
<1>1. S \in SUBSET Nat
  OBVIOUS
<1>2. PICK m \in S : \A k \in S : m <= k
  BY <1>1, Least
<1>3. m \in Nat /\ ~ \E f : Cuts(f, Short(m))
  OBVIOUS
<1>4. CASE m = 0
  <2> DEFINE f == [s \in Short(m) |-> s]
  <2>1. \A s \in Short(m) : Len(s) <= MaxGetdataHashes
    BY <1>4, PeerAssumption, LenProperties DEF Short
  <2>2. Cuts(f, Short(m))
    BY <2>1 DEF Cuts
  <2> QED
    BY <1>3, <2>2
<1>5. CASE m # 0
  <2>1. m - 1 \in Nat /\ m - 1 \notin S
    BY <1>2, <1>3, <1>5
  <2>2. PICK f : Cuts(f, Short(m - 1))
    BY <2>1
  <2> DEFINE g == [s \in Short(m) |-> IF Len(s) <= MaxGetdataHashes THEN s ELSE f[Kept(s)]]
  <2>3. ASSUME NEW s \in Short(m), ~(Len(s) <= MaxGetdataHashes) PROVE f[Kept(s)] = g[Kept(s)]
    <3>1. s \in Seq(Block) /\ Len(s) \in Nat /\ Len(s) <= m /\ Len(s) > MaxGetdataHashes
      BY <2>3, LenProperties, PeerAssumption DEF Short
    <3>2. Kept(s) \in Seq(Block) /\ Len(Kept(s)) \in Nat /\ Len(Kept(s)) < Len(s)
      BY <3>1, KeptFacts
    <3>3. Kept(s) \in Short(m - 1) /\ Kept(s) \in Short(m)
      BY <1>3, <3>1, <3>2 DEF Short
    <3>4. g[Kept(s)] = IF Len(Kept(s)) <= MaxGetdataHashes THEN Kept(s) ELSE f[Kept(Kept(s))]
      BY <3>3
    <3> HIDE DEF g
    <3> QED
      BY <2>2, <3>3, <3>4, CutsValue
  <2>4. g = [s \in Short(m) |-> IF Len(s) <= MaxGetdataHashes THEN s ELSE g[Kept(s)]]
    <3>1. \A s \in Short(m) : (IF Len(s) <= MaxGetdataHashes THEN s ELSE f[Kept(s)]) =
                              (IF Len(s) <= MaxGetdataHashes THEN s ELSE g[Kept(s)])
      BY <2>3
    <3> DEFINE h == g
    <3>2. g = [s \in Short(m) |-> IF Len(s) <= MaxGetdataHashes THEN s ELSE f[Kept(s)]]
      OBVIOUS
    <3> HIDE DEF g
    <3> QED
      BY <3>1, <3>2
  <2>5. Cuts(g, Short(m))
    BY <2>4 DEF Cuts
  <2> QED
    BY <1>3, <2>5
<1> QED
  BY <1>4, <1>5

\* Two of them agree.
LEMMA CutsUnique ==
  ASSUME NEW f, NEW g, NEW n \in Nat, NEW m \in Nat, Cuts(f, Short(n)), Cuts(g, Short(m))
  PROVE  \A s \in Short(n) \cap Short(m) : f[s] = g[s]
<1> DEFINE B == {s \in Short(n) \cap Short(m) : f[s] # g[s]}
<1> DEFINE S == {k \in Nat : \E s \in B : Len(s) = k}
<1> SUFFICES ASSUME B # {} PROVE FALSE
  OBVIOUS
<1>1. S \in SUBSET Nat
  OBVIOUS
<1>2. \A s \in B : s \in Seq(Block) /\ Len(s) \in Nat
  BY LenProperties DEF Short
<1>3. S # {}
  BY <1>2
<1>4. PICK k \in S : \A j \in S : k <= j
  BY <1>1, <1>3, Least
<1>5. PICK s \in B : Len(s) = k
  OBVIOUS
<1>6. s \in Short(n) /\ s \in Short(m) /\ f[s] # g[s] /\ s \in Seq(Block)
  BY <1>2
<1>7. CASE Len(s) <= MaxGetdataHashes
  BY <1>6, <1>7, CutsValue
<1>8. CASE ~(Len(s) <= MaxGetdataHashes)
  <2>1. Len(s) > MaxGetdataHashes
    BY <1>2, <1>8, PeerAssumption
  <2>2. Kept(s) \in Seq(Block) /\ Len(Kept(s)) \in Nat /\ Len(Kept(s)) < Len(s)
    BY <1>6, <2>1, KeptFacts
  <2>3. Kept(s) \in Short(n) /\ Kept(s) \in Short(m)
    BY <1>2, <1>6, <2>2 DEF Short
  <2>4. f[Kept(s)] # g[Kept(s)]
    BY <1>6, <1>8, CutsValue
  <2>5. Len(Kept(s)) \in S
    BY <2>2, <2>3, <2>4
  <2> QED
    BY <1>2, <1>4, <1>5, <2>2, <2>5
<1> QED
  BY <1>7, <1>8

\* So there is one for all sequences, and Cut is one.
LEMMA CutDef == Cuts(Cut, Seq(Block))
<1> DEFINE at(s) == CHOOSE f : Cuts(f, Short(Len(s)))
<1> DEFINE F == [s \in Seq(Block) |-> at(s)[s]]
<1>1. ASSUME NEW s \in Seq(Block) PROVE Cuts(at(s), Short(Len(s))) /\ s \in Short(Len(s)) /\ Len(s) \in Nat
  <2>1. Len(s) \in Nat
    BY LenProperties
  <2>2. \E f : Cuts(f, Short(Len(s)))
    BY <2>1, CutsExists
  <2>3. Cuts(at(s), Short(Len(s)))
    BY <2>2
  <2>4. s \in Short(Len(s))
    BY <2>1 DEF Short
  <2> QED
    BY <2>1, <2>3, <2>4
<1> HIDE DEF at
<1>2. ASSUME NEW s \in Seq(Block), ~(Len(s) <= MaxGetdataHashes) PROVE F[s] = F[Kept(s)]
  <2>1. Len(s) > MaxGetdataHashes
    BY <1>1, <1>2, PeerAssumption
  <2>2. Kept(s) \in Seq(Block) /\ Len(Kept(s)) \in Nat /\ Len(Kept(s)) < Len(s)
    BY <2>1, KeptFacts
  <2>3. Kept(s) \in Short(Len(s)) /\ Kept(s) \in Short(Len(Kept(s)))
    BY <1>1, <2>2 DEF Short
  <2>4. at(s)[s] = at(s)[Kept(s)]
    BY <1>1, <1>2, CutsValue
  <2>5. at(s)[Kept(s)] = at(Kept(s))[Kept(s)]
    BY <1>1, <2>2, <2>3, CutsUnique
  <2> QED
    BY <2>2, <2>4, <2>5
<1>3. ASSUME NEW s \in Seq(Block), Len(s) <= MaxGetdataHashes PROVE F[s] = s
  BY <1>1, <1>3, CutsValue
<1>4. F = [s \in Seq(Block) |-> IF Len(s) <= MaxGetdataHashes THEN s ELSE F[Kept(s)]]
  <2>1. \A s \in Seq(Block) : F[s] = IF Len(s) <= MaxGetdataHashes THEN s ELSE F[Kept(s)]
    BY <1>2, <1>3
  <2>2. F = [s \in Seq(Block) |-> F[s]]
    OBVIOUS
  <2> HIDE DEF F
  <2> DEFINE G == [s \in Seq(Block) |-> IF Len(s) <= MaxGetdataHashes THEN s ELSE F[Kept(s)]]
  <2>3. \A s \in Seq(Block) : F[s] = G[s]
    BY <2>1
  <2>4. G = [s \in Seq(Block) |-> G[s]]
    OBVIOUS
  <2> HIDE DEF G
  <2>5. F = G
    BY <2>2, <2>3, <2>4
  <2> QED
    BY <2>5 DEF G
<1>5. \E f : Cuts(f, Seq(Block))
  BY <1>4 DEF Cuts
<1>6. Cut = CHOOSE f : Cuts(f, Seq(Block))
  BY DEF Cut, Cuts, Kept
<1> QED
  BY <1>5, <1>6

\* What is left of the known hashes is their end, and short enough.
LEMMA CutFacts ==
  \A s \in Seq(Block) : Cut[s] \in Seq(Block) /\ IsEnd(Cut[s], s) /\ Len(Cut[s]) <= MaxGetdataHashes
<1> DEFINE OK(s) == Cut[s] \in Seq(Block) /\ IsEnd(Cut[s], s) /\ Len(Cut[s]) <= MaxGetdataHashes
<1> DEFINE S == {k \in Nat : \E s \in Seq(Block) : Len(s) = k /\ ~OK(s)}
<1>1. \A s \in Seq(Block) : Len(s) \in Nat /\ Cut[s] = IF Len(s) <= MaxGetdataHashes THEN s ELSE Cut[Kept(s)]
  BY CutDef, CutsValue, LenProperties
<1> SUFFICES ASSUME S # {} PROVE FALSE
  BY <1>1
<1>2. PICK k \in S : \A j \in S : k <= j
  <2>1. S \in SUBSET Nat
    OBVIOUS
  <2> QED
    BY <2>1, Least
<1>3. PICK s \in Seq(Block) : Len(s) = k /\ ~OK(s)
  OBVIOUS
<1>4. CASE Len(s) <= MaxGetdataHashes
  BY <1>1, <1>3, <1>4 DEF IsEnd
<1>5. CASE ~(Len(s) <= MaxGetdataHashes)
  <2>1. Len(s) > MaxGetdataHashes
    BY <1>1, <1>5, PeerAssumption
  <2>2. Kept(s) \in Seq(Block) /\ Len(Kept(s)) \in Nat /\ Len(Kept(s)) < Len(s) /\ IsEnd(Kept(s), s)
    BY <2>1, KeptFacts
  <2>3. OK(Kept(s))
    BY <1>1, <1>2, <1>3, <2>2
  <2>4. Cut[s] = Cut[Kept(s)]
    BY <1>1, <1>5
  <2>5. IsEnd(Cut[s], s)
    BY <2>2, <2>3, <2>4, EndOfEnd
  <2> QED
    BY <1>3, <2>3, <2>4, <2>5
<1> QED
  BY <1>4, <1>5

-----------------------------------------------------------------------------
(* The parts of the invariant.                                               *)

Life ==
  /\ thread \in {"none", "opening", "selecting", "running", "draining", "reporting", "ended"}
  /\ status \in {"disconnected", "connecting", "connected"}
  /\ disconnectTime \in {"never", "set", "passed"}
  /\ socket \in BOOLEAN /\ waitingForNetwork \in BOOLEAN /\ reading \in BOOLEAN

\* Before the manager was told, nothing was sent that a transaction or a block can be an answer to.
Solicited ==
  /\ sent \subseteq Flags /\ gotVerack \in BOOLEAN /\ connected \in BOOLEAN
  /\ sent \subseteq {"verack"} \/ connected

Known ==
  /\ lastBlockHash \in Block \cup {None}
  /\ knownBlockHashes \in Seq(Block) /\ announced \in Seq(Block)
  /\ IsEnd(knownBlockHashes, announced) /\ Len(knownBlockHashes) <= MaxGetdataHashes

\* What a block matched was relayed, is known, or is waited for.
Collecting ==
  /\ currentBlock \in Block \cup {None}
  /\ knownTxHashes \subseteq Tx /\ currentBlockTxHashes \subseteq Tx
  /\ relayedTx \subseteq Tx /\ relayedBlocks \subseteq Block
  /\ currentBlock # None => Matched[currentBlock] \subseteq relayedTx \cup knownTxHashes \cup currentBlockTxHashes
  /\ BlockComplete /\ HandshakeFirst

\* No completion is in two places.
Calls ==
  /\ asked \in 0..MaxAsked /\ mempoolCallback \in 0..asked
  /\ pongCallback \in Seq(1..asked)
  /\ \A i, j \in 1..Len(pongCallback) : pongCallback[i] = pongCallback[j] => i = j
  /\ mempoolCallback \notin ToSet(pongCallback)
  /\ answer \in [1..MaxAsked -> {"none", "ok", "failed"}]

Inv == Life /\ Solicited /\ Known /\ Collecting /\ Calls

\* At first no connection was tried.
LEMMA InvInit == Init => Inv
<1> SUFFICES ASSUME Init PROVE Inv
  OBVIOUS
<1>1. Life /\ Solicited
  BY DEF Init, Life, Solicited
<1>2. Known
  <2>1. knownBlockHashes = <<>> /\ announced = <<>> /\ <<>> \in Seq(Block) /\ Len(<<>>) = 0
    BY EmptySeq DEF Init
  <2> QED
    BY <2>1, PeerAssumption DEF Init, Known, IsEnd
<1>3. Collecting
  BY DEF Init, Collecting, BlockComplete, HandshakeFirst
<1>4. Calls
  <2>1. pongCallback = <<>> /\ <<>> \in Seq(1..asked) /\ Len(<<>>) = 0
    BY EmptySeq DEF Init
  <2>2. ToSet(pongCallback) = {}
    BY <2>1 DEF ToSet
  <2> QED
    BY <2>1, <2>2, PeerAssumption DEF Init, Calls, NoCallback
<1> QED
  BY <1>1, <1>2, <1>3, <1>4 DEF Inv

-----------------------------------------------------------------------------
(* What the steps leave alone.                                               *)

AcceptsInv == \E txs \in SUBSET Tx, blocks \in BoundedSeq(Block, MaxInv), update \in BOOLEAN :
                Within(0, Len(blocks)) /\ AcceptInv(txs, blocks, update)
AsksMempool == \E complete \in BOOLEAN : SendMempool(Published, complete)

\* The known block hashes are changed by an inv and by a request for blocks only.
LEMMA KnownFrame ==
  Next => UNCHANGED known \/ AcceptsInv \/ \E b \in Block : RerequestBlocks(b)
<1>1. ThreadStep => UNCHANGED known
  BY DEF ThreadStep, OpenSocket, SocketConnected, ReadHeader, LoopEnds, Drain, Drained, Disconnected
<1>2. MessageStep => UNCHANGED known \/ AcceptsInv
  BY DEF MessageStep, AcceptsInv, ReadFails, Rejected, RejectedTx, AcceptVersion, AcceptVerack, AcceptOther,
         AcceptPong, AcceptTx, AcceptMerkleblock
<1>3. ManagerStep => UNCHANGED known \/ \E b \in Block : RerequestBlocks(b)
  BY DEF ManagerStep, Connect, Disconnect, ScheduleDisconnect, SendFilterload, SendPing, SendMempool, SendInv,
         SendRequest
<1>4. MempoolTimeout \/ TimePasses => UNCHANGED known
  BY DEF MempoolTimeout, TimePasses
<1> QED
  BY <1>1, <1>2, <1>3, <1>4 DEF Next

\* What is collected and relayed is changed by these messages and requests.
LEMMA CollectingFrame ==
  Next => \/ UNCHANGED <<collecting, told, knownTxHashes, connected>>
          \/ Rejected \/ AcceptVerack \/ AcceptsInv \/ (\E tx \in Tx : AcceptTx(tx))
          \/ (\E b \in Block : AcceptMerkleblock(b)) \/ AsksMempool \/ SendInv(Published)
<1>1. ThreadStep => UNCHANGED <<collecting, told, knownTxHashes, connected>>
  BY DEF ThreadStep, OpenSocket, SocketConnected, ReadHeader, LoopEnds, Drain, Drained, Disconnected, handshake
<1>2. MessageStep => \/ UNCHANGED <<collecting, told, knownTxHashes, connected>>
                     \/ Rejected \/ AcceptVerack \/ AcceptsInv \/ (\E tx \in Tx : AcceptTx(tx))
                     \/ \E b \in Block : AcceptMerkleblock(b)
  BY DEF MessageStep, AcceptsInv, ReadFails, RejectedTx, AcceptVersion, AcceptOther, AcceptPong, handshake
<1>3. ManagerStep => UNCHANGED <<collecting, told, knownTxHashes, connected>> \/ AsksMempool \/ SendInv(Published)
  BY DEF ManagerStep, AsksMempool, Connect, Disconnect, ScheduleDisconnect, SendFilterload, SendPing, SendRequest,
         RerequestBlocks, handshake
<1>4. MempoolTimeout \/ TimePasses => UNCHANGED <<collecting, told, knownTxHashes, connected>>
  BY DEF MempoolTimeout, TimePasses, handshake
<1> QED
  BY <1>1, <1>2, <1>3, <1>4 DEF Next

\* Completions are given, passed on and called by these steps.
LEMMA CallsFrame ==
  Next => \/ UNCHANGED callbacks
          \/ Drain \/ Drained \/ AcceptPong \/ AcceptsInv \/ AsksMempool \/ SendPing \/ MempoolTimeout
<1>1. ThreadStep => UNCHANGED callbacks \/ Drain \/ Drained
  BY DEF ThreadStep, OpenSocket, SocketConnected, ReadHeader, LoopEnds, Disconnected
<1>2. MessageStep => UNCHANGED callbacks \/ AcceptPong \/ AcceptsInv
  BY DEF MessageStep, AcceptsInv, ReadFails, Rejected, RejectedTx, AcceptVersion, AcceptVerack, AcceptOther,
         AcceptTx, AcceptMerkleblock
<1>3. ManagerStep => UNCHANGED callbacks \/ AsksMempool \/ SendPing
  BY DEF ManagerStep, AsksMempool, Connect, Disconnect, ScheduleDisconnect, SendFilterload, SendInv, SendRequest,
         RerequestBlocks
<1>4. TimePasses => UNCHANGED callbacks
  BY DEF TimePasses
<1> QED
  BY <1>1, <1>2, <1>3, <1>4 DEF Next

\* The thread reports that the connection ended when the completions were called, and is over then.
LEMMA PhaseFrame ==
  Next => \/ thread' = thread \/ Drained \/ Disconnected
          \/ thread \notin {"reporting", "ended"} /\ thread' \notin {"reporting", "ended"}
<1> DEFINE Same == thread' = thread \/ (thread \notin {"reporting", "ended"} /\ thread' \notin {"reporting", "ended"})
<1>1. ThreadStep => Same \/ Drained \/ Disconnected
  BY DEF ThreadStep, OpenSocket, SocketConnected, ReadHeader, LoopEnds, Drain, Ends, life
<1>2. MessageStep => Same
  BY DEF MessageStep, ReadFails, Rejected, RejectedTx, AcceptVersion, AcceptVerack, AcceptOther, AcceptPong,
         AcceptInv, AcceptTx, AcceptMerkleblock, Receives, Accepts, Ends, Goes
<1>3. ManagerStep => Same
  BY DEF ManagerStep, Connect, Disconnect, ScheduleDisconnect, SendFilterload, SendPing, SendMempool, SendInv,
         SendRequest, RerequestBlocks, Elsewhere
<1>4. MempoolTimeout \/ TimePasses => Same
  BY DEF MempoolTimeout, TimePasses
<1> QED
  BY <1>1, <1>2, <1>3, <1>4 DEF Next

-----------------------------------------------------------------------------
(* Each part, after each step.                                               *)

\* The thread goes from one place to another.
LEMMA LifeStep == Inv /\ Next => Life'
<1> SUFFICES ASSUME Inv, Next PROVE Life'
  OBVIOUS
<1>1. Life
  BY DEF Inv
<1>2. CASE ThreadStep
  BY <1>1, <1>2 DEF Life, ThreadStep, OpenSocket, SocketConnected, ReadHeader, LoopEnds, Drain, Drained,
                    Disconnected, Ends, SendMessage, life
<1>3. CASE MessageStep
  <2>1. Ends \/ (Goes /\ SendMessage) \/ AcceptVerack
    BY <1>3 DEF MessageStep, ReadFails, Rejected, RejectedTx, AcceptVersion, AcceptOther, AcceptPong, AcceptInv,
         AcceptTx, AcceptMerkleblock, SendMessage
  <2>2. CASE Ends \/ (Goes /\ SendMessage)
    BY <1>1, <2>2 DEF Life, Ends, Goes, SendMessage
  <2>3. CASE AcceptVerack
    BY <1>1, <2>3 DEF Life, AcceptVerack
  <2> QED
    BY <2>1, <2>2, <2>3
<1>4. CASE ManagerStep
  BY <1>1, <1>4 DEF Life, ManagerStep, Connect, Disconnect, ScheduleDisconnect, SendFilterload, SendPing,
         SendMempool, SendInv, SendRequest, RerequestBlocks, Elsewhere, SendMessage
<1>5. CASE MempoolTimeout \/ TimePasses
  BY <1>1, <1>5 DEF Life, MempoolTimeout, TimePasses, SendMessage
<1> QED
  BY <1>2, <1>3, <1>4, <1>5 DEF Next

\* What is sent before the handshake is over is its own.
LEMMA SolicitedStep == Inv /\ Next => Solicited'
<1> SUFFICES ASSUME Inv, Next PROVE Solicited'
  OBVIOUS
<1>1. Solicited
  BY DEF Inv
<1>2. CASE ThreadStep
  BY <1>1, <1>2 DEF Solicited, ThreadStep, OpenSocket, SocketConnected, ReadHeader, LoopEnds, Drain, Drained,
                    Disconnected, handshake
<1>3. CASE MessageStep
  <2>1. CASE AcceptsInv
    <3>1. PICK txs \in SUBSET Tx, blocks \in BoundedSeq(Block, MaxInv), update \in BOOLEAN :
            AcceptInv(txs, blocks, update)
      BY <2>1 DEF AcceptsInv
    <3>2. UNCHANGED <<gotVerack, connected>>
      BY <3>1 DEF AcceptInv, handshake
    <3>3. sent' = sent \/ (sent' = sent \cup {"getdata"} /\ sent \cap {"filter", "mempool"} # {})
      <4>1. CASE txs # {} /\ sent \cap {"filter", "mempool"} = {}
        BY <3>1, <4>1 DEF AcceptInv
      <4>2. CASE ~(txs # {} /\ sent \cap {"filter", "mempool"} = {})
        BY <3>1, <4>2 DEF AcceptInv
      <4> QED
        BY <4>1, <4>2
    <3> QED
      BY <1>1, <3>2, <3>3 DEF Solicited, Flags
  <2>2. CASE ~AcceptsInv
    BY <1>1, <1>3, <2>2 DEF Solicited, Flags, MessageStep, AcceptsInv, ReadFails, Rejected, RejectedTx,
         AcceptVersion, AcceptVerack, AcceptOther, AcceptPong, AcceptTx, AcceptMerkleblock, handshake
  <2> QED
    BY <2>1, <2>2
<1>4. CASE ManagerStep
  BY <1>1, <1>4 DEF Solicited, Flags, ManagerStep, Connect, Disconnect, ScheduleDisconnect, SendFilterload, SendPing,
         SendMempool, SendInv, SendRequest, RerequestBlocks, Called, CalledRunning, handshake
<1>5. CASE MempoolTimeout \/ TimePasses
  BY <1>1, <1>5 DEF Solicited, MempoolTimeout, TimePasses, handshake
<1> QED
  BY <1>2, <1>3, <1>4, <1>5 DEF Next

\* The blocks of an inv are a sequence.
LEMMA BlocksOfInv == \A blocks \in BoundedSeq(Block, MaxInv) : blocks \in Seq(Block) /\ Len(blocks) \in Nat
<1> SUFFICES ASSUME NEW blocks \in BoundedSeq(Block, MaxInv) PROVE blocks \in Seq(Block) /\ Len(blocks) \in Nat
  OBVIOUS
<1>1. PICK m \in 0..MaxInv : blocks \in [1..m -> Block]
  BY DEF BoundedSeq, SeqOf
<1>2. m \in Nat
  BY PeerAssumption
<1>3. blocks \in Seq(Block)
  BY <1>1, <1>2, SeqDef
<1> QED
  BY <1>3, LenProperties

\* What is announced is added at the end, and the oldest are cut; what comes before the block that is
\* requested again is dropped.
LEMMA KnownStep == Inv /\ Next => Known'
<1> SUFFICES ASSUME Inv, Next PROVE Known'
  OBVIOUS
<1>1. Known
  BY DEF Inv
<1>2. CASE UNCHANGED known
  BY <1>1, <1>2 DEF Known, known
<1>3. ASSUME NEW txs \in SUBSET Tx, NEW blocks \in BoundedSeq(Block, MaxInv), NEW update \in BOOLEAN,
             AcceptInv(txs, blocks, update)
      PROVE  Known'
  <2>1. CASE txs # {} /\ sent \cap {"filter", "mempool"} = {}
    BY <1>1, <1>3, <2>1 DEF AcceptInv, Known, known
  <2>2. CASE ~(txs # {} /\ sent \cap {"filter", "mempool"} = {})
    <3> DEFINE loaded == IF "filter" \notin sent \/ blocks = <<lastBlockHash>> THEN <<>> ELSE blocks
    <3>1. /\ lastBlockHash' = IF Len(loaded) = 1 THEN loaded[1] ELSE lastBlockHash
          /\ announced' = announced \o loaded
          /\ knownBlockHashes' = Cut[knownBlockHashes \o loaded]
      BY <1>3, <2>2 DEF AcceptInv
    <3>2. loaded \in Seq(Block)
      BY BlocksOfInv, EmptySeq
    <3> HIDE DEF loaded
    <3>3. lastBlockHash' \in Block \cup {None}
      <4>1. CASE Len(loaded) = 1
        <5>1. 1 \in 1..Len(loaded)
          BY <4>1
        <5>2. loaded[1] \in Block
          BY <3>2, <5>1, ElementOfSeq
        <5> QED
          BY <3>1, <4>1, <5>2
      <4>2. CASE Len(loaded) # 1
        BY <1>1, <3>1, <4>2 DEF Known
      <4> QED
        BY <4>1, <4>2
    <3>4. /\ knownBlockHashes \o loaded \in Seq(Block) /\ announced \o loaded \in Seq(Block)
          /\ IsEnd(knownBlockHashes \o loaded, announced \o loaded)
      BY <1>1, <3>2, ConcatProperties, EndsGoOn DEF Known
    <3>5. LET s == knownBlockHashes \o loaded
          IN  Cut[s] \in Seq(Block) /\ IsEnd(Cut[s], s) /\ Len(Cut[s]) <= MaxGetdataHashes
      BY <3>4, CutFacts
    <3>6. IsEnd(Cut[knownBlockHashes \o loaded], announced \o loaded)
      BY <3>4, <3>5, EndOfEnd
    <3> QED
      BY <3>1, <3>3, <3>4, <3>5, <3>6 DEF Known
  <2> QED
    BY <2>1, <2>2
<1>4. ASSUME NEW b \in Block, RerequestBlocks(b)
      PROVE  Known'
  <2> DEFINE i == SelectLastInSeq(knownBlockHashes, LAMBDA x : x = b)
  <2>1. UNCHANGED <<lastBlockHash, announced>>
    BY <1>4 DEF RerequestBlocks
  <2>2. CASE i = 0
    BY <1>1, <1>4, <2>1, <2>2 DEF RerequestBlocks, Known
  <2>3. CASE i # 0
    <3>1. i \in 1..Len(knownBlockHashes)
      <4> DEFINE I == {k \in 1..Len(knownBlockHashes) : knownBlockHashes[k] = b}
      <4>1. i = IF I # {} THEN Max(I) ELSE 0
        BY DEF SelectLastInSeq
      <4>2. I # {} /\ i = Max(I)
        BY <2>3, <4>1
      <4>3. \E x \in I : \A y \in I : x >= y
        <5> DEFINE n == Len(knownBlockHashes)
        <5>1. n \in Int /\ I \in SUBSET Int /\ \A x \in I : x <= n
          BY <1>1, LenProperties DEF Known
        <5> HIDE DEF n, I
        <5> QED
          BY <4>2, <5>1, Greatest
      <4>4. Max(I) \in I
        BY <4>3 DEF Max
      <4> QED
        BY <4>2, <4>4
    <3> HIDE DEF i
    <3>2. knownBlockHashes' = SubSeq(knownBlockHashes, i, Len(knownBlockHashes))
      BY <1>4, <2>3 DEF RerequestBlocks, KeptFrom, i
    <3>3. /\ knownBlockHashes' \in Seq(Block) /\ IsEnd(knownBlockHashes', knownBlockHashes)
          /\ Len(knownBlockHashes') = Len(knownBlockHashes) - i + 1
      BY <1>1, <3>1, <3>2, RestEnds DEF Known
    <3>4. IsEnd(knownBlockHashes', announced)
      BY <1>1, <3>3, EndOfEnd DEF Known
    <3>5. Len(knownBlockHashes') <= MaxGetdataHashes
      BY <1>1, <3>1, <3>3, PeerAssumption, LenProperties DEF Known
    <3> QED
      BY <1>1, <2>1, <3>3, <3>4, <3>5 DEF Known
  <2> QED
    BY <2>2, <2>3
<1> QED
  BY <1>2, <1>3, <1>4, KnownFrame DEF AcceptsInv

\* A block is collected, and relayed when nothing is waited for any more.
LEMMA CollectingStep == Inv /\ Next => Collecting'
<1> SUFFICES ASSUME Inv, Next PROVE Collecting'
  OBVIOUS
<1>1. Collecting /\ Solicited
  BY DEF Inv
<1>2. CASE UNCHANGED <<collecting, told, knownTxHashes, connected>>
  BY <1>1, <1>2 DEF Collecting, BlockComplete, HandshakeFirst, collecting, told
<1>3. CASE Rejected
  BY <1>1, <1>3 DEF Rejected, Collecting, BlockComplete, HandshakeFirst, told, handshake
<1>4. CASE AcceptVerack
  BY <1>1, <1>4 DEF AcceptVerack, Collecting, BlockComplete, HandshakeFirst, told, collecting
<1>5. CASE AcceptsInv \/ AsksMempool \/ SendInv(Published)
  <2>1. UNCHANGED <<collecting, told, connected>>
    BY <1>5 DEF AcceptsInv, AcceptInv, AsksMempool, SendMempool, SendInv, handshake
  <2>2. knownTxHashes \subseteq knownTxHashes' /\ knownTxHashes' \subseteq Tx
    <3>1. CASE AcceptsInv
      BY <1>1, <3>1 DEF AcceptsInv, AcceptInv, Collecting
    <3>2. CASE AsksMempool
      BY <1>1, <3>2, PeerAssumption DEF AsksMempool, SendMempool, Collecting
    <3>3. CASE SendInv(Published)
      BY <1>1, <3>3, PeerAssumption DEF SendInv, Collecting
    <3> QED
      BY <1>5, <3>1, <3>2, <3>3
  <2> QED
    BY <1>1, <2>1, <2>2 DEF Collecting, BlockComplete, HandshakeFirst, collecting, told
<1>6. ASSUME NEW tx \in Tx, AcceptTx(tx) PROVE Collecting'
  <2>1. UNCHANGED <<knownTxHashes, connected>>
    BY <1>6 DEF AcceptTx, handshake
  <2>2. CASE Unsolicited
    BY <1>1, <1>6, <2>1, <2>2 DEF AcceptTx, Collecting, BlockComplete, HandshakeFirst, collecting, told
  <2>3. CASE ~Unsolicited
    <3>1. connected
      BY <1>1, <2>3 DEF Unsolicited, Solicited
    <3>2. relayedTx' = relayedTx \cup {tx}
      BY <1>6, <2>3 DEF AcceptTx
    <3>3. CASE currentBlock = None
      <4>1. UNCHANGED <<currentBlock, currentBlockTxHashes, relayedBlocks>>
        BY <1>6, <2>3, <3>3 DEF AcceptTx
      <4> QED
        BY <1>1, <2>1, <3>1, <3>2, <3>3, <4>1 DEF Collecting, BlockComplete, HandshakeFirst
    <3>4. CASE currentBlock # None
      <4>1. currentBlockTxHashes' = currentBlockTxHashes \ {tx}
        BY <1>6, <2>3, <3>4 DEF AcceptTx, Collected
      <4>2. Matched[currentBlock] \subseteq relayedTx' \cup knownTxHashes' \cup currentBlockTxHashes'
        BY <1>1, <2>1, <3>2, <3>4, <4>1 DEF Collecting
      <4>3. CASE currentBlockTxHashes' = {}
        <5>1. currentBlock' = None /\ relayedBlocks' = relayedBlocks \cup {currentBlock}
          BY <1>6, <2>3, <3>4, <4>3 DEF AcceptTx
        <5> QED
          BY <1>1, <2>1, <3>1, <3>2, <3>4, <4>1, <4>2, <4>3, <5>1 DEF Collecting, BlockComplete, HandshakeFirst
      <4>4. CASE currentBlockTxHashes' # {}
        <5>1. UNCHANGED <<currentBlock, relayedBlocks>>
          BY <1>6, <2>3, <3>4, <4>4 DEF AcceptTx
        <5> QED
          BY <1>1, <2>1, <3>1, <3>2, <3>4, <4>1, <4>2, <5>1 DEF Collecting, BlockComplete, HandshakeFirst
      <4> QED
        BY <4>3, <4>4
    <3> QED
      BY <3>3, <3>4
  <2> QED
    BY <2>2, <2>3
<1>7. ASSUME NEW b \in Block, AcceptMerkleblock(b) PROVE Collecting'
  <2>1. UNCHANGED <<knownTxHashes, connected>>
    BY <1>7 DEF AcceptMerkleblock, handshake
  <2>2. CASE Unsolicited
    BY <1>1, <1>7, <2>1, <2>2 DEF AcceptMerkleblock, Collecting, BlockComplete, HandshakeFirst, collecting, told
  <2>3. CASE ~Unsolicited
    <3>1. connected
      BY <1>1, <2>3 DEF Unsolicited, Solicited
    <3>2. /\ UNCHANGED relayedTx
          /\ currentBlockTxHashes' = currentBlockTxHashes \cup (Matched[b] \ knownTxHashes)
          /\ \/ currentBlock' = b /\ UNCHANGED relayedBlocks
             \/ /\ currentBlockTxHashes' = {} /\ relayedBlocks' = relayedBlocks \cup {b}
                /\ UNCHANGED currentBlock
          /\ currentBlock = None
      BY <1>7, <2>3 DEF AcceptMerkleblock, Accepts
    <3>3. Matched[b] \subseteq Tx
      BY PeerAssumption
    <3> QED
      BY <1>1, <2>1, <3>1, <3>2, <3>3 DEF Collecting, BlockComplete, HandshakeFirst
  <2> QED
    BY <2>2, <2>3
<1> QED
  BY <1>2, <1>3, <1>4, <1>5, <1>6, <1>7, CollectingFrame

\* A completion that is not in a list yet is added at its end.
LEMMA AppendApart ==
  ASSUME NEW m \in Nat, NEW s \in Seq(1..m), NEW c \in 1..m, c \notin ToSet(s),
         \A i, j \in 1..Len(s) : s[i] = s[j] => i = j
  PROVE  /\ Append(s, c) \in Seq(1..m)
         /\ \A i, j \in 1..Len(Append(s, c)) : Append(s, c)[i] = Append(s, c)[j] => i = j
         /\ ToSet(Append(s, c)) = ToSet(s) \cup {c}
<1> DEFINE t == Append(s, c)
<1>1. /\ t \in Seq(1..m) /\ Len(t) = Len(s) + 1
      /\ (\A i \in 1..Len(s) : t[i] = s[i]) /\ t[Len(s) + 1] = c
  BY AppendProperties
<1>2. /\ Len(s) \in Nat /\ DOMAIN s = 1..Len(s) /\ Len(t) \in Nat /\ DOMAIN t = 1..Len(t)
  BY <1>1, LenProperties
<1> HIDE DEF t
<1>3. /\ ToSet(s) = {s[i] : i \in 1..Len(s)} /\ ToSet(t) = {t[i] : i \in 1..Len(t)}
  BY <1>2 DEF ToSet
<1>4. \A i \in 1..Len(s) : s[i] # c
  BY <1>3
<1>5. \A i \in 1..Len(t) : i \in 1..Len(s) \/ i = Len(s) + 1
  BY <1>1, <1>2
<1>6. ASSUME NEW i \in 1..Len(t), NEW j \in 1..Len(t), t[i] = t[j] PROVE i = j
  BY <1>1, <1>4, <1>5, <1>6
<1>7. ToSet(t) \subseteq ToSet(s) \cup {c}
  <2>1. ASSUME NEW i \in 1..Len(t) PROVE t[i] \in ToSet(s) \cup {c}
    <3>1. CASE i \in 1..Len(s)
      <4>1. t[i] = s[i]
        BY <1>1, <3>1, Zenon
      <4>2. s[i] \in ToSet(s)
        BY <1>3, <3>1, Zenon
      <4> QED
        BY <4>1, <4>2, Zenon
    <3>2. CASE i = Len(s) + 1
      BY <1>1, <3>2, Zenon
    <3> QED
      BY <1>5, <3>1, <3>2, Zenon
  <2> QED
    BY <1>3, <2>1
<1>8. \A i \in 1..Len(s) : i \in 1..Len(t) /\ Len(s) + 1 \in 1..Len(t)
  BY <1>1, <1>2
<1>9. Len(s) + 1 \in 1..Len(t)
  BY <1>1, <1>2
<1>10. ToSet(s) \cup {c} \subseteq ToSet(t)
  BY <1>1, <1>3, <1>8, <1>9
<1> QED
  BY <1>1, <1>6, <1>7, <1>10 DEF t

\* The first completion is taken off a list.
LEMMA TailApart ==
  ASSUME NEW m \in Nat, NEW s \in Seq(1..m), s # <<>>,
         \A i, j \in 1..Len(s) : s[i] = s[j] => i = j
  PROVE  /\ Head(s) \in 1..m /\ Head(s) \in ToSet(s)
         /\ Tail(s) \in Seq(1..m)
         /\ \A i, j \in 1..Len(Tail(s)) : Tail(s)[i] = Tail(s)[j] => i = j
         /\ ToSet(Tail(s)) = ToSet(s) \ {Head(s)}
<1> DEFINE t == Tail(s)
<1>1. /\ Head(s) \in 1..m /\ t \in Seq(1..m) /\ Len(t) = Len(s) - 1
      /\ \A i \in 1..Len(t) : t[i] = s[i + 1]
  BY HeadTailProperties
<1>2. /\ Len(s) \in Nat \ {0} /\ DOMAIN s = 1..Len(s) /\ Len(t) \in Nat /\ DOMAIN t = 1..Len(t)
  BY <1>1, LenProperties, EmptySeq
<1>3. Head(s) = s[1] /\ 1 \in 1..Len(s)
  BY <1>2 DEF Head
<1> HIDE DEF t
<1>4. /\ ToSet(s) = {s[i] : i \in 1..Len(s)} /\ ToSet(t) = {t[i] : i \in 1..Len(t)}
  BY <1>2 DEF ToSet
<1>5. \A i \in 1..Len(t) : i + 1 \in 1..Len(s) /\ i + 1 # 1 /\ i \in Nat
  BY <1>1, <1>2
<1>6. ASSUME NEW i \in 1..Len(t), NEW j \in 1..Len(t), t[i] = t[j] PROVE i = j
  <2>1. s[i + 1] = s[j + 1]
    BY <1>1, <1>6
  <2>2. i + 1 = j + 1
    BY <1>5, <2>1
  <2> QED
    BY <1>5, <2>2
<1>7. ToSet(t) \subseteq ToSet(s) \ {Head(s)}
  <2>1. ASSUME NEW i \in 1..Len(t) PROVE t[i] \in ToSet(s) /\ t[i] # Head(s)
    BY <1>1, <1>3, <1>4, <1>5
  <2> QED
    BY <1>4, <2>1
<1>8. ToSet(s) \ {Head(s)} \subseteq ToSet(t)
  <2>1. ASSUME NEW i \in 1..Len(s), i # 1 PROVE s[i] \in ToSet(t)
    <3>1. i - 1 \in 1..Len(t) /\ (i - 1) + 1 = i
      BY <1>1, <1>2, <2>1
    <3>2. t[i - 1] = s[i]
      BY <1>1, <3>1
    <3> QED
      BY <1>4, <3>1, <3>2
  <2> QED
    BY <1>3, <1>4, <2>1
<1>9. Head(s) \in ToSet(s)
  BY <1>3, <1>4
<1> QED
  BY <1>1, <1>6, <1>7, <1>8, <1>9 DEF t

-----------------------------------------------------------------------------
(* What each step does to the completions that wait.                         *)

\* What waits is a completion that was given.
LEMMA Waiting ==
  ASSUME Calls
  PROVE  /\ asked \in Nat /\ 1..asked \subseteq 1..MaxAsked
         /\ ToSet(pongCallback) \subseteq 1..asked /\ Callbacks \subseteq 1..asked
         /\ pongCallback = <<>> => ToSet(pongCallback) = {}
<1>1. asked \in Nat /\ 1..asked \subseteq 1..MaxAsked
  BY PeerAssumption DEF Calls
<1>2. /\ Len(pongCallback) \in Nat /\ DOMAIN pongCallback = 1..Len(pongCallback)
      /\ \A i \in 1..Len(pongCallback) : pongCallback[i] \in 1..asked
  BY LenProperties, ElementOfSeq DEF Calls
<1>3. ToSet(pongCallback) \subseteq 1..asked
  BY <1>2 DEF ToSet
<1>4. mempoolCallback # NoCallback => mempoolCallback \in 1..asked
  BY <1>1 DEF Calls, NoCallback
<1>5. pongCallback = <<>> => ToSet(pongCallback) = {}
  BY EmptySeq, <1>2 DEF ToSet
<1> QED
  BY <1>1, <1>3, <1>4, <1>5 DEF Callbacks

\* A ping takes the completion of the mempool request over.
PassedOn ==
  /\ mempoolCallback # NoCallback /\ PingSent(mempoolCallback) /\ mempoolCallback' = NoCallback
  /\ UNCHANGED <<asked, answer>>

\* The callback of mempool waits in line for its pong like any other.
LEMMA PassOn ==
  ASSUME Calls, PassedOn
  PROVE  Calls' /\ Callbacks' = Callbacks
<1>1. mempoolCallback \in 1..asked /\ asked \in Nat /\ mempoolCallback \notin ToSet(pongCallback)
  BY Waiting DEF Calls, PassedOn, NoCallback
<1>2. pongCallback' = Append(pongCallback, mempoolCallback)
  BY DEF PassedOn, PingSent
<1>3. /\ pongCallback' \in Seq(1..asked)
      /\ \A i, j \in 1..Len(pongCallback') : pongCallback'[i] = pongCallback'[j] => i = j
      /\ ToSet(pongCallback') = ToSet(pongCallback) \cup {mempoolCallback}
  BY <1>1, <1>2, AppendApart DEF Calls
<1>4. mempoolCallback' \notin ToSet(pongCallback')
  BY <1>1, <1>3, Waiting DEF PassedOn, NoCallback
<1>5. Calls'
  BY <1>1, <1>3, <1>4 DEF Calls, PassedOn, NoCallback
<1>6. Callbacks' = Callbacks
  BY <1>3 DEF Callbacks, PassedOn
<1> QED
  BY <1>5, <1>6

\* The first of the pings is over.
Taken(result) ==
  /\ pongCallback # <<>> /\ pongCallback' = Tail(pongCallback)
  /\ answer' = [answer EXCEPT ![Head(pongCallback)] = result]
  /\ UNCHANGED <<mempoolCallback, asked>>

\* The first callback in line is taken and answered.
LEMMA Take ==
  ASSUME Calls, NEW result \in {"ok", "failed"}, Taken(result)
  PROVE  /\ Calls'
         /\ Head(pongCallback) \in 1..MaxAsked /\ Head(pongCallback) \in Callbacks
         /\ Callbacks' = Callbacks \ {Head(pongCallback)}
<1>1. /\ asked \in Nat /\ 1..asked \subseteq 1..MaxAsked
  BY Waiting
<1> DEFINE c == Head(pongCallback)
<1>2. /\ c \in 1..asked /\ c \in ToSet(pongCallback)
      /\ pongCallback' \in Seq(1..asked)
      /\ \A i, j \in 1..Len(pongCallback') : pongCallback'[i] = pongCallback'[j] => i = j
      /\ ToSet(pongCallback') = ToSet(pongCallback) \ {c}
  BY <1>1, TailApart DEF Calls, Taken
<1> HIDE DEF c
<1>3. mempoolCallback \notin ToSet(pongCallback)
  BY DEF Calls
<1>4. answer' \in [1..MaxAsked -> {"none", "ok", "failed"}]
  BY <1>1, <1>2 DEF Calls, Taken, c
<1>5. Calls'
  BY <1>2, <1>3, <1>4 DEF Calls, Taken
<1>6. Callbacks' = Callbacks \ {c} /\ c \in Callbacks
  BY <1>2, <1>3 DEF Callbacks, Taken
<1> QED
  BY <1>1, <1>2, <1>5, <1>6 DEF c

\* A completion is given with a ping.
LEMMA AskPing ==
  ASSUME Calls, SendPing
  PROVE  /\ Calls' /\ asked + 1 \in 1..MaxAsked
         /\ asked' = asked + 1 /\ answer' = answer
         /\ Callbacks' = Callbacks \cup {asked + 1}
<1> DEFINE n == asked + 1
<1>1. /\ asked \in Nat /\ n \in Nat /\ n \in 1..n /\ asked' = n /\ n \in 1..MaxAsked
      /\ UNCHANGED <<mempoolCallback, answer>> /\ pongCallback' = Append(pongCallback, n)
  BY Waiting, PeerAssumption DEF SendPing, PingSent, Within, Calls
<1>2. pongCallback \in Seq(1..asked) /\ 1..asked \subseteq 1..n /\ n \notin 1..asked
  BY Waiting DEF Calls
<1> HIDE DEF n
<1>3. pongCallback \in Seq(1..n) /\ n \notin ToSet(pongCallback)
  BY <1>2, Waiting, SeqMonotonic
<1>4. /\ pongCallback' \in Seq(1..n)
      /\ \A i, j \in 1..Len(pongCallback') : pongCallback'[i] = pongCallback'[j] => i = j
      /\ ToSet(pongCallback') = ToSet(pongCallback) \cup {n}
  BY <1>1, <1>3, AppendApart DEF Calls
<1>5. mempoolCallback \in 0..n /\ mempoolCallback # n
  BY <1>1 DEF Calls, n
<1>6. mempoolCallback' \notin ToSet(pongCallback')
  BY <1>1, <1>4, <1>5 DEF Calls
<1>7. n \in 0..MaxAsked
  BY <1>1
<1>8. Calls'
  BY <1>1, <1>4, <1>5, <1>6, <1>7 DEF Calls
<1>9. Callbacks' = Callbacks \cup {n}
  BY <1>1, <1>4, <1>5 DEF Callbacks, NoCallback
<1> QED
  BY <1>1, <1>8, <1>9 DEF n

\* A completion is given with a mempool request, and fails at once when one is running already.
LEMMA AskMempool ==
  ASSUME Calls, AsksMempool
  PROVE  /\ Calls'
         /\ \/ asked' = asked /\ answer' = answer /\ Callbacks' = Callbacks
            \/ /\ asked' = asked + 1 /\ asked + 1 \in 1..MaxAsked
               /\ \/ answer' = answer /\ Callbacks' = Callbacks \cup {asked + 1}
                  \/ /\ answer' = [answer EXCEPT ![asked + 1] = "failed"]
                     /\ Callbacks' = Callbacks
<1> DEFINE n == asked + 1
<1>1. asked \in Nat /\ n \in Nat /\ n # NoCallback /\ 1..asked \subseteq 1..n /\ n \notin 1..asked
  BY Waiting DEF NoCallback
<1>2. pongCallback' = pongCallback /\ pongCallback \in Seq(1..n) /\ n \notin ToSet(pongCallback)
  BY <1>1, Waiting, SeqMonotonic DEF Calls, AsksMempool, SendMempool
<1>3. PICK complete \in BOOLEAN : SendMempool(Published, complete)
  BY DEF AsksMempool
<1>4. complete => n \in 1..MaxAsked /\ n \in 0..MaxAsked
  BY <1>1, <1>3, PeerAssumption DEF SendMempool, Within, Calls
<1>5. asked' = IF complete THEN n ELSE asked
  BY <1>3 DEF SendMempool
<1>6. 0 \notin ToSet(pongCallback) /\ NoCallback = 0
  BY Waiting DEF NoCallback
<1> HIDE DEF n
<1>7. CASE "mempool" \notin sent /\ mempoolCallback = NoCallback
  <2>1. mempoolCallback' = (IF complete THEN n ELSE NoCallback) /\ answer' = answer
    BY <1>3, <1>7 DEF SendMempool, n
  <2>2. Callbacks' = IF complete THEN Callbacks \cup {n} ELSE Callbacks
    BY <1>1, <1>2, <1>7, <2>1 DEF Callbacks
  <2>3. CASE complete
    <3>1. Calls'
      BY <1>1, <1>2, <1>4, <1>5, <2>1, <2>3 DEF Calls
    <3> QED
      BY <1>4, <1>5, <2>1, <2>2, <2>3, <3>1 DEF n
  <2>4. CASE ~complete
    <3>1. Calls'
      BY <1>1, <1>2, <1>5, <1>6, <2>1, <2>4 DEF Calls
    <3> QED
      BY <1>5, <2>1, <2>2, <2>4, <3>1
  <2> QED
    BY <2>3, <2>4
<1>8. CASE ~("mempool" \notin sent /\ mempoolCallback = NoCallback)
  <2>1. /\ mempoolCallback' = mempoolCallback
        /\ answer' = IF complete THEN [answer EXCEPT ![n] = "failed"] ELSE answer
    BY <1>3, <1>8 DEF SendMempool, n
  <2>2. Callbacks' = Callbacks
    BY <1>2, <2>1 DEF Callbacks
  <2>3. CASE complete
    <3>1. answer' \in [1..MaxAsked -> {"none", "ok", "failed"}]
      BY <1>4, <2>1, <2>3 DEF Calls
    <3>2. mempoolCallback' \in 0..n
      BY <1>1, <2>1 DEF Calls, n
    <3>3. Calls'
      BY <1>2, <1>4, <1>5, <2>1, <2>3, <3>1, <3>2 DEF Calls
    <3> QED
      BY <1>4, <1>5, <2>1, <2>2, <2>3, <3>3 DEF n
  <2>4. CASE ~complete
    BY <1>2, <1>5, <2>1, <2>2, <2>4 DEF Calls
  <2> QED
    BY <2>3, <2>4
<1> QED
  BY <1>7, <1>8

\* The thread calls the completion of the mempool request last.
LEMMA LastCall ==
  ASSUME Calls, Drained
  PROVE  /\ Calls'
         /\ Callbacks = {mempoolCallback} \ {NoCallback} /\ Callbacks' = {}
         /\ answer' = [c \in 1..MaxAsked |-> IF c \in Callbacks THEN "failed" ELSE answer[c]]
<1>1. pongCallback = <<>> /\ pongCallback' = <<>> /\ ToSet(pongCallback) = {} /\ mempoolCallback' = NoCallback
  BY Waiting DEF Drained
<1>2. Callbacks = {mempoolCallback} \ {NoCallback} /\ Callbacks' = {}
  BY <1>1 DEF Callbacks
<1>3. \A c \in 1..MaxAsked : (c = mempoolCallback) <=> (c \in Callbacks)
  BY <1>2, PeerAssumption DEF NoCallback
<1>4. answer' = [c \in 1..MaxAsked |-> IF c \in Callbacks THEN "failed" ELSE answer[c]]
  BY <1>3 DEF Drained
<1>5. Calls'
  BY <1>1, <1>4, Waiting DEF Calls, Drained, NoCallback
<1> QED
  BY <1>2, <1>4, <1>5

\* What happens to the completions, in each step.
LEMMA CallsStep ==
  Inv /\ Next =>
    /\ Calls'
    /\ \/ asked' = asked /\ answer' = answer /\ Callbacks' = Callbacks
       \/ \E c \in Callbacks, result \in {"ok", "failed"} :
            /\ thread \in {"running", "draining"} /\ c \in 1..MaxAsked
            /\ answer' = [answer EXCEPT ![c] = result]
            /\ Callbacks' = Callbacks \ {c} /\ asked' = asked
       \/ Drained
       \/ /\ asked' = asked + 1 /\ asked + 1 \in 1..MaxAsked
          /\ thread' = thread /\ thread # "ended"
          /\ \/ answer' = answer /\ Callbacks' = Callbacks \cup {asked + 1}
             \/ /\ answer' = [answer EXCEPT ![asked + 1] = "failed"]
                /\ Callbacks' = Callbacks
<1> SUFFICES ASSUME Inv, Next
             PROVE  /\ Calls'
                    /\ \/ asked' = asked /\ answer' = answer /\ Callbacks' = Callbacks
                       \/ \E c \in Callbacks, result \in {"ok", "failed"} :
                            /\ thread \in {"running", "draining"} /\ c \in 1..MaxAsked
                            /\ answer' = [answer EXCEPT ![c] = result]
                            /\ Callbacks' = Callbacks \ {c} /\ asked' = asked
                       \/ Drained
                       \/ /\ asked' = asked + 1 /\ asked + 1 \in 1..MaxAsked
                          /\ thread' = thread /\ thread # "ended"
                          /\ \/ answer' = answer /\ Callbacks' = Callbacks \cup {asked + 1}
                             \/ /\ answer' = [answer EXCEPT ![asked + 1] = "failed"]
                                /\ Callbacks' = Callbacks
  OBVIOUS
<1>1. Calls
  BY DEF Inv
<1>2. UNCHANGED <<pongCallback, mempoolCallback, asked, answer>> => Calls' /\ Callbacks' = Callbacks
  BY <1>1 DEF Calls, Callbacks
<1>3. CASE UNCHANGED callbacks
  BY <1>2, <1>3 DEF callbacks
<1>4. CASE Drain
  <2>1. Taken("failed") /\ thread = "draining"
    BY <1>4 DEF Drain, Taken
  <2> QED
    BY <1>1, <2>1, Take DEF Taken
<1>5. CASE Drained
  BY <1>1, <1>5, LastCall
<1>6. CASE AcceptPong
  <2>1. CASE pongCallback = <<>>
    BY <1>2, <1>6, <2>1 DEF AcceptPong
  <2>2. CASE pongCallback # <<>>
    <3>1. Taken("ok") /\ thread = "running"
      BY <1>6, <2>2 DEF AcceptPong, Accepts, Receives, Taken
    <3> QED
      BY <1>1, <3>1, Take DEF Taken
  <2> QED
    BY <2>1, <2>2
<1>7. CASE AcceptsInv \/ MempoolTimeout
  <2>1. PassedOn \/ UNCHANGED <<pongCallback, mempoolCallback, asked, answer>>
    BY <1>7 DEF AcceptsInv, AcceptInv, MempoolTimeout, MempoolWaits, PassedOn
  <2>2. PassedOn => Calls' /\ Callbacks' = Callbacks /\ asked' = asked /\ answer' = answer
    BY <1>1, PassOn DEF PassedOn
  <2> QED
    BY <1>2, <2>1, <2>2
<1>8. CASE AsksMempool
  <2>1. thread' = thread /\ thread # "ended"
    BY <1>8 DEF AsksMempool, SendMempool, Called, Elsewhere
  <2> QED
    BY <1>1, <1>8, <2>1, AskMempool
<1>9. CASE SendPing
  <2>1. thread' = thread /\ thread # "ended"
    BY <1>9 DEF SendPing, Called, Elsewhere
  <2> QED
    BY <1>1, <1>9, <2>1, AskPing
<1> QED
  BY <1>3, <1>4, <1>5, <1>6, <1>7, <1>8, <1>9, CallsFrame

-----------------------------------------------------------------------------
(* The theorems.                                                             *)

\* Every step keeps the invariant, and so does a step that changes nothing.
LEMMA InvStep == Inv /\ [Next]_vars => Inv'
<1>1. ASSUME Inv, Next PROVE Inv'
  BY <1>1, LifeStep, SolicitedStep, KnownStep, CollectingStep, CallsStep DEF Inv
<1>2. ASSUME Inv, UNCHANGED vars PROVE Inv'
  BY <1>2 DEF Inv, vars, Life, Solicited, Known, Collecting, Calls, BlockComplete, HandshakeFirst, IsEnd, life,
       handshake, known, collecting, told, callbacks
<1> QED
  BY <1>1, <1>2

\* The invariant says what the runs check.
LEMMA InvImplies == Inv => PeerInv /\ BlockComplete
<1> SUFFICES ASSUME Inv PROVE PeerInv /\ BlockComplete
  OBVIOUS
<1>1. Life /\ Solicited /\ Known /\ Collecting /\ Calls
  BY DEF Inv
<1>2. asked \in 0..MaxAsked /\ mempoolCallback \in 0..MaxAsked
  BY <1>1, PeerAssumption DEF Calls
<1>3. pongCallback \in Seq(1..MaxAsked)
  BY <1>1, Waiting, SeqMonotonic DEF Calls
<1>4. TypeOK
  BY <1>1, <1>2, <1>3 DEF TypeOK, Life, Solicited, Known, Collecting, Calls
<1>5. RecentKept
  BY <1>1, SuffixElements DEF Known, RecentKept
<1>6. HandshakeFirst /\ BlockComplete
  BY <1>1 DEF Collecting
<1> QED
  BY <1>4, <1>5, <1>6 DEF PeerInv

\* The invariant holds all along.
LEMMA Invariant == Spec => []Inv
<1> QED
  BY InvInit, InvStep, PTL DEF Spec

\* Whatever the remote peer sends and in whatever order, the state of the connection is sound, nothing
\* is relayed before the handshake is complete, and what _LWPeerAcceptInvMessage and
\* LWPeerRerequestBlocks keep for a new filter are the last blocks announced, however long the list
\* that is cut.
THEOREM PeerCorrect == Spec => []PeerInv
<1>1. Inv => PeerInv
  BY InvImplies
<1> QED
  BY <1>1, Invariant, PTL

\* A block is relayed when each of the transactions it matched was relayed or was known before
\* (_LWPeerAcceptTxMessage, _LWPeerAcceptMerkleblockMessage).
THEOREM BlocksComplete == Spec => []BlockComplete
<1>1. Inv => BlockComplete
  BY InvImplies
<1> QED
  BY <1>1, Invariant, PTL

\* The connection implements LWCallbacks: each completion given with LWPeerSendPing or
\* LWPeerSendMempool is called once, before the peer is reported as disconnected, unless it was given
\* after the thread had called the last of them.
THEOREM CallsBackCorrect == Spec => CallsBack
<1> DEFINE given == 1..asked
<1> DEFINE outstanding == IF Reporting THEN {} ELSE Callbacks
<1> DEFINE late == IF Reporting THEN Callbacks ELSE {}
<1> DEFINE phase == CASE thread = "reporting" -> "reporting"
                      [] thread = "ended" -> "closed"
                      [] OTHER -> "open"
<1>1. Init => C!Init
  <2> SUFFICES ASSUME Init PROVE C!Init
    OBVIOUS
  <2>1. Calls /\ pongCallback = <<>> /\ mempoolCallback = NoCallback
    BY InvInit DEF Inv, Init
  <2>2. Callbacks = {} /\ 1..asked = {} /\ thread = "none"
    BY <2>1, Waiting DEF Callbacks, Init
  <2> QED
    BY <2>2 DEF C!Init, Init, Reporting
<1>2. Inv /\ [Next]_vars => [C!Next]_C!vars
  <2> SUFFICES ASSUME Inv, [Next]_vars PROVE C!Next \/ UNCHANGED C!vars
    OBVIOUS
  <2>1. CASE UNCHANGED vars
    BY <2>1 DEF vars, C!vars, Reporting, Callbacks, life, callbacks
  <2>2. CASE Next
    <3>1. asked \in Nat /\ 1..asked \subseteq 1..MaxAsked /\ Callbacks \subseteq 1..asked /\ Calls
      BY Waiting DEF Inv
    <3>2. CASE Drained
      <4>1. /\ thread = "draining" /\ thread' = "reporting" /\ asked' = asked /\ Callbacks' = {}
            /\ answer' = [c \in 1..MaxAsked |-> IF c \in Callbacks THEN "failed" ELSE answer[c]]
        BY <3>1, <3>2, LastCall DEF Drained
      <4>2. C!Finish
        BY <4>1 DEF C!Finish, Reporting
      <4> QED
        BY <4>2 DEF C!Next
    <3>3. CASE Disconnected
      <4>1. /\ thread = "reporting" /\ thread' = "ended" /\ asked' = asked /\ Callbacks' = Callbacks
            /\ answer' = answer
        BY <3>3 DEF Disconnected, callbacks, Callbacks
      <4>2. C!Close
        BY <4>1 DEF C!Close, Reporting
      <4> QED
        BY <4>2 DEF C!Next
    <3>4. CASE ~Drained /\ ~Disconnected
      <4>1. Reporting' = Reporting /\ phase' = phase /\ (phase = "open" <=> ~Reporting)
        BY <2>2, <3>4, PhaseFrame DEF Reporting
      <4>2. /\ Reporting => phase = "reporting" \/ phase = "closed"
            /\ thread # "ended" => phase # "closed"
            /\ Reporting /\ thread # "ended" => phase = "reporting"
        BY DEF Reporting
      <4>3. CASE asked' = asked /\ answer' = answer /\ Callbacks' = Callbacks
        <5>1. UNCHANGED C!vars
          BY <4>1, <4>3 DEF C!vars
        <5> QED
          BY <5>1
      <4>4. ASSUME NEW c \in Callbacks, NEW result \in {"ok", "failed"},
                   thread \in {"running", "draining"}, c \in 1..MaxAsked,
                   answer' = [answer EXCEPT ![c] = result],
                   Callbacks' = Callbacks \ {c}, asked' = asked
            PROVE  C!Next
        <5>1. ~Reporting
          BY <4>4 DEF Reporting
        <5>2. C!Call(c, result)
          BY <4>1, <4>4, <5>1 DEF C!Call
        <5> QED
          BY <4>4, <5>2 DEF C!Next
      <4>5. ASSUME asked' = asked + 1, asked + 1 \in 1..MaxAsked, thread' = thread, thread # "ended",
                   \/ answer' = answer /\ Callbacks' = Callbacks \cup {asked + 1}
                   \/ answer' = [answer EXCEPT ![asked + 1] = "failed"] /\ Callbacks' = Callbacks
            PROVE  C!Next
        <5> DEFINE n == asked + 1
        <5>1. n \notin 1..asked /\ 1..asked' = 1..asked \cup {n}
          BY <3>1, <4>5
        <5>2. C!New(n)
          BY <5>1 DEF C!New
        <5>3. CASE answer' = answer /\ Callbacks' = Callbacks \cup {n} /\ ~Reporting
          <6>1. C!Ask(n)
            BY <4>1, <5>2, <5>3 DEF C!Ask
          <6> QED
            BY <4>5, <6>1 DEF C!Next
        <5>4. CASE answer' = answer /\ Callbacks' = Callbacks \cup {n} /\ Reporting
          <6>1. C!AskLate(n)
            BY <4>1, <4>2, <4>5, <5>2, <5>4 DEF C!AskLate
          <6> QED
            BY <4>5, <6>1 DEF C!Next
        <5>5. CASE answer' = [answer EXCEPT ![n] = "failed"] /\ Callbacks' = Callbacks
          <6>1. C!Refuse(n)
            BY <4>1, <4>2, <4>5, <5>2, <5>5 DEF C!Refuse
          <6> QED
            BY <4>5, <6>1 DEF C!Next
        <5> QED
          BY <4>5, <5>3, <5>4, <5>5
      <4> QED
        BY <2>2, <3>4, <4>3, <4>4, <4>5, CallsStep
    <3> QED
      BY <3>2, <3>3, <3>4
  <2> QED
    BY <2>1, <2>2
<1> QED
  BY <1>1, <1>2, Invariant, PTL DEF CallsBack, C!Spec, Spec

=============================================================================
